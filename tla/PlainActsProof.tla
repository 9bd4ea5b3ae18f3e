--------------------------- MODULE PlainActsProof ---------------------------
(***************************************************************************)
(* Proofs about the acts outside the duty cycle, for all values of the     *)
(* constants. Each act has an inductive invariant of its own; the steps of *)
(* the other acts leave its variables alone.                               *)
(***************************************************************************)
EXTENDS PlainActs, Induction, SequenceTheorems, TLAPS

----------------------------------------------------------------------------
(* Arithmetic modulo a variable.                                           *)

\* A remainder is below the modulus.
LEMMA ModBelow ==
  ASSUME NEW n \in Nat \ {0}, NEW x \in Nat
  PROVE  x % n \in 0 .. n - 1
BY SMT

\* A number below the modulus, or the modulus itself, counted on by one.
LEMMA ModNext ==
  ASSUME NEW n \in Nat \ {0}, NEW x \in 0 .. n - 1
  PROVE  (x + 1) % n = IF x + 1 = n THEN 0 ELSE x + 1
BY SMT

\* A full turn does not change a remainder.
LEMMA ModTurn ==
  ASSUME NEW n \in Nat \ {0}, NEW x \in Nat, x % n = 0
  PROVE  (x + n) % n = 0
<1> DEFINE q == x \div n
           p == (x + n) \div n
           r == (x + n) % n
<1>1. x = n * q /\ q \in Int
  BY SMT
<1>2. x + n = n * p + r /\ p \in Int /\ r \in 0 .. n - 1
  BY SMT
<1>3. r = n * (q + 1 - p)
  <2> HIDE DEF q, p, r
  <2> QED
    BY <1>1, <1>2, SMT
<1>4. q + 1 - p = 0
  <2> HIDE DEF q, p, r
  <2>1. q + 1 - p < 1
    <3> SUFFICES ASSUME q + 1 - p >= 1 PROVE FALSE
      BY <1>1, <1>2, SMT
    <3>1. n * (q + 1 - p) >= n
      BY <1>1, <1>2, SMT
    <3> QED
      BY <1>2, <1>3, <3>1, SMT
  <2>2. q + 1 - p > -1
    <3> SUFFICES ASSUME q + 1 - p <= -1 PROVE FALSE
      BY <1>1, <1>2, SMT
    <3>1. n * (q + 1 - p) <= -n
      BY <1>1, <1>2, SMT
    <3> QED
      BY <1>2, <1>3, <3>1, SMT
  <2> QED
    BY <1>1, <1>2, <2>1, <2>2, SMT
<1>5. r = 0
  <2> HIDE DEF q, p, r
  <2> QED
    BY <1>1, <1>2, <1>3, <1>4, SMT
<1> QED
  BY <1>5

LEMMA ModZero ==
  ASSUME NEW n \in Nat \ {0}
  PROVE  0 % n = 0
BY SMT

----------------------------------------------------------------------------
(* The acts with a busy flag.                                              *)

USE DEF Ids

LEMMA BusyFrame == BusyInv /\ UNCHANGED <<act, allBusyVars>> => BusyInv'
<1> SUFFICES ASSUME BusyInv, UNCHANGED <<act, allBusyVars>> PROVE BusyInv'
  OBVIOUS
<1>1. BusyTypeOK'
  BY DEF BusyInv, BusyTypeOK, allBusyVars, busyVars, pulseVars
<1>2. QED
  BY <1>1 DEF BusyInv, allBusyVars, busyVars, pulseVars

\* A request made while the flag is clear is the only one.
LEMMA RequestedAlone ==
  ASSUME BusyInv, ~ busy, Requested
  PROVE  /\ busy' = TRUE /\ txid' \in Ids /\ next' \in Ids
         /\ under' = {txid'} /\ done' = {}
<1>1. next' \in Ids
  BY BusyAssumption, ModBelow DEF BusyInv, BusyTypeOK, Requested
<1>2. under = {} /\ done = {}
  BY DEF BusyInv
<1>3. QED
  BY <1>1, <1>2 DEF BusyInv, BusyTypeOK, Requested

\* What a sleeping radio still has is what it had.
LEMMA AsleepKeeps ==
  ASSUME BusyInv, FallAsleep
  PROVE  run' = "asleep" /\ under' \subseteq under /\ lost' \in BOOLEAN
BY DEF BusyInv, BusyTypeOK, FallAsleep

LEMMA ScratchKeeps ==
  ASSUME BusyInv, UNCHANGED <<act, pulseVars>>, ScratchNext
  PROVE  BusyInv'
<1> USE DEF pulseVars
<1>1. CASE ScratchSetup
  BY <1>1 DEF ScratchSetup, Booted, BusyInv, BusyTypeOK
<1>2. CASE ScratchSend
  <2>1. CASE Requested /\ ~ busy
    BY <1>2, <2>1, RequestedAlone DEF ScratchSend, Running, BusyInv, BusyTypeOK
  <2>2. CASE NotRequested
    BY <1>2, <2>2 DEF ScratchSend, Running, NotRequested, BusyInv, BusyTypeOK
  <2>3. QED
    BY <1>2, <2>1, <2>2 DEF ScratchSend, KeyT
<1>3. CASE ScratchSleep
  BY <1>3, AsleepKeeps DEF ScratchSleep, Running, BusyInv, BusyTypeOK
<1>4. CASE ScratchWakeup
  BY <1>4 DEF ScratchWakeup, Woken, BusyInv, BusyTypeOK
<1>5. CASE ScratchTxComp
  <2>1. under = {txid} /\ under' = {} /\ done = {}
    BY <1>5 DEF ScratchTxComp, BusyInv
  <2>2. QED
    BY <1>5, <2>1 DEF ScratchTxComp, Running, BusyInv, BusyTypeOK
<1>6. QED
  BY <1>1, <1>2, <1>3, <1>4, <1>5 DEF ScratchNext

\* The radio completes the one request it has.
LEMMA CompletedKeeps ==
  ASSUME BusyInv, UNCHANGED <<act, pulseVars>>, NEW a, Completed(a)
  PROVE  BusyInv'
<1>1. under = {txid} /\ under' = {} /\ done' = {txid} /\ busy
  BY DEF Completed, BusyInv
<1>2. QED
  BY <1>1 DEF Completed, Running, BusyInv, BusyTypeOK, pulseVars

LEMMA SettingKeeps ==
  ASSUME BusyInv, UNCHANGED <<act, pulseVars>>, SettingNext
  PROVE  BusyInv'
<1> USE DEF pulseVars
<1>1. CASE SettingSetup
  BY <1>1 DEF SettingSetup, Booted, BusyInv, BusyTypeOK
<1>2. CASE SettingSend
  BY <1>2, RequestedAlone DEF SettingSend, Running, BusyInv, BusyTypeOK
<1>3. CASE SettingPoll
  <2>1. under = {} /\ done' = {} /\ busy' = FALSE
    BY <1>3 DEF SettingPoll, IsComplete, Cleared, BusyInv
  <2>2. QED
    BY <1>3, <2>1 DEF SettingPoll, Running, BusyInv, BusyTypeOK
<1>4. CASE SettingSleep
  BY <1>4, AsleepKeeps DEF SettingSleep, Running, BusyInv, BusyTypeOK
<1>5. CASE SettingWakeup
  BY <1>5 DEF SettingWakeup, Woken, BusyInv, BusyTypeOK
<1>6. CASE SettingTxComp
  BY <1>6, CompletedKeeps DEF SettingTxComp
<1>7. QED
  BY <1>1, <1>2, <1>3, <1>4, <1>5, <1>6 DEF SettingNext

LEMMA PulseKeeps ==
  ASSUME BusyInv, UNCHANGED act, PulseNext
  PROVE  BusyInv'
<1> USE DEF pulseVars
<1>1. CASE Pulse
  <2>1. count' \in 0 .. COUNT_MOD - 1
    BY <1>1, PulseAssumption, ModBelow DEF Pulse, BusyInv, BusyTypeOK
  <2>2. QED
    BY <1>1, <2>1 DEF Pulse, busyVars, BusyInv, BusyTypeOK
<1>2. CASE PulseSetup
  BY <1>2 DEF PulseSetup, BusyInv, BusyTypeOK
<1>3. CASE PulseBegin
  BY <1>3, AsleepKeeps DEF PulseBegin, BusyInv, BusyTypeOK
<1>4. CASE PulseWakeup
  <2>1. run' \in {"awake", "asleep"} /\ under' \subseteq under /\ lost' \in BOOLEAN
    BY <1>4, AsleepKeeps DEF PulseWakeup, BusyInv, BusyTypeOK
  <2>2. QED
    BY <1>4, <2>1 DEF PulseWakeup, BusyInv, BusyTypeOK
<1>5. CASE PulseReport
  <2>1. count' \in 0 .. COUNT_MOD - 1
    BY <1>5, PulseAssumption DEF PulseReport, ReadCounter
  <2>2. reported' \in Nat /\ dropped' \in Nat /\ pulses' \in Nat
    BY <1>5 DEF PulseReport, BusyInv, BusyTypeOK
  <2>3. CASE Requested /\ UNCHANGED <<run, lost, dropped>>
    BY <1>5, <2>1, <2>2, <2>3, RequestedAlone DEF PulseReport, Running, BusyInv, BusyTypeOK
  <2>4. CASE UNCHANGED <<busy, txid, next, done, reported>>
    <3>1. run' \in {"awake", "asleep"} /\ under' \subseteq under /\ lost' \in BOOLEAN
      BY <1>5, <2>4, AsleepKeeps DEF PulseReport, Running, Requested, BusyInv, BusyTypeOK
    <3>2. QED
      BY <1>5, <2>1, <2>2, <2>4, <3>1 DEF PulseReport, BusyInv, BusyTypeOK
  <2>5. QED
    BY <1>5, <2>3, <2>4 DEF PulseReport
<1>6. CASE PulseWait
  <2>1. under = {} /\ done' = {} /\ busy' = FALSE
    BY <1>6 DEF PulseWait, IsComplete, Cleared, BusyInv
  <2>2. QED
    BY <1>6, <2>1, AsleepKeeps DEF PulseWait, Running, BusyInv, BusyTypeOK
<1>7. CASE PulseTxComp
  BY <1>7, CompletedKeeps DEF PulseTxComp
<1>8. QED
  BY <1>1, <1>2, <1>3, <1>4, <1>5, <1>6, <1>7 DEF PulseNext, PulseStep

LEMMA BusyKeeps == BusyInv /\ BusyNext /\ UNCHANGED act => BusyInv'
BY ScratchKeeps, SettingKeeps, PulseKeeps DEF BusyNext

LEMMA CountsFrame == PulsesOnce /\ UNCHANGED pulseVars => PulsesOnce'
BY DEF PulsesOnce, Counted, pulseVars

\* Only a pulse, and the counter turning round under it, changes how many pulses are
\* not counted anywhere.
LEMMA CountsKeep ==
  ASSUME BusyInv, PulsesOnce, BusyNext
  PROVE  PulsesOnce'
<1>1. COUNT_MOD \in Nat \ {0} /\ count \in 0 .. COUNT_MOD - 1
      /\ pulses \in Nat /\ reported \in Nat /\ dropped \in Nat
  BY PulseAssumption DEF BusyInv, BusyTypeOK
<1>2. CASE Pulse
  <2>1. pulses' = pulses + 1 /\ reported' = reported /\ dropped' = dropped
        /\ count' = IF count + 1 = COUNT_MOD THEN 0 ELSE count + 1
    BY <1>1, <1>2, ModNext DEF Pulse
  <2>2. CASE count + 1 = COUNT_MOD
    <3>1. Counted \in Nat /\ Counted' = Counted + 1 - COUNT_MOD
          /\ pulses - Counted \in Nat /\ (pulses - Counted) % COUNT_MOD = 0
      BY <1>1, <2>1, <2>2 DEF Counted, PulsesOnce
    <3>2. (pulses - Counted + COUNT_MOD) % COUNT_MOD = 0
      BY <1>1, <3>1, ModTurn
    <3>3. pulses' - Counted' = pulses - Counted + COUNT_MOD /\ Counted' <= pulses'
      BY <1>1, <2>1, <3>1
    <3>4. QED
      BY <3>2, <3>3 DEF PulsesOnce
  <2>3. CASE count + 1 # COUNT_MOD
    <3>1. Counted' = Counted + 1 /\ Counted \in Nat
      BY <1>1, <2>1, <2>3 DEF Counted
    <3>2. pulses' - Counted' = pulses - Counted /\ Counted' <= pulses'
      BY <1>1, <2>1, <3>1 DEF PulsesOnce
    <3>3. QED
      BY <3>2 DEF PulsesOnce
  <2>4. QED
    BY <2>2, <2>3
<1>3. CASE PulseReport
  <2>1. Counted' = Counted /\ pulses' = pulses
    BY <1>1, <1>3 DEF PulseReport, ReadCounter, Counted
  <2>2. QED
    BY <2>1 DEF PulsesOnce
<1>4. CASE UNCHANGED pulseVars
  BY <1>4, CountsFrame
<1>5. QED
  BY <1>2, <1>3, <1>4
     DEF BusyNext, PulseNext, PulseStep, PulseSetup, PulseBegin, PulseWakeup, PulseWait, PulseTxComp, pulseVars

----------------------------------------------------------------------------
(* BRD_APPTWELITE.                                                         *)

LEMMA PortFrame == PortInv /\ UNCHANGED portVars => PortInv'
<1> SUFFICES ASSUME PortInv, UNCHANGED portVars PROVE PortInv'
  OBVIOUS
<1>1. PortTypeOK'
  BY DEF PortInv, PortTypeOK, portVars
<1>2. QED
  BY <1>1 DEF PortInv, Agrees, portVars

Packet == [di: DIs, ai: AIs \cup {AI_NONE}, age: 0 .. LIFE]

\* What is in the air and says something newer than since, tells d and v.
Tells(packets, since, d, v) == \A p \in packets : p.age < since => p.di = d /\ p.ai = v

\* transmit() adds at most a packet with what it is given.
LEMMA TransmitAdds ==
  ASSUME NEW before \in SUBSET Packet, NEW d \in DIs, NEW v \in AIs \cup {AI_NONE},
         Transmit(before, d, v)
  PROVE  /\ air' \subseteq Packet
         /\ \A since \in Nat : Tells(before, since, d, v) => Tells(air', since, d, v)
<1>1. 0 \in 0 .. LIFE
  BY PortAssumption
<1>2. CASE air' = before
  BY <1>2
<1>3. CASE air' = before \cup {[di |-> d, ai |-> v, age |-> 0]}
  <2>1. [di |-> d, ai |-> v, age |-> 0] \in Packet
    BY <1>1 DEF Packet
  <2>2. QED
    BY <1>3, <2>1 DEF Tells
<1>4. QED
  BY <1>2, <1>3 DEF Transmit

\* What is left after a tick is a tick older.
LEMMA AgedTells ==
  ASSUME NEW packets \in SUBSET Packet, NEW d, NEW v, NEW since \in Nat,
         Tells(packets, since, d, v)
  PROVE  Aged(packets) \subseteq Packet /\ Tells(Aged(packets), since + 1, d, v)
<1>1. ASSUME NEW p \in packets, p.age < LIFE
      PROVE  [p EXCEPT !.age = @ + 1] \in Packet
  BY <1>1, PortAssumption DEF Packet
<1>2. ASSUME NEW p \in packets, p.age < LIFE, p.age + 1 < since + 1
      PROVE  p.di = d /\ p.ai = v
  <2>1. p.age < since
    BY <1>2, PortAssumption DEF Packet
  <2>2. QED
    BY <2>1 DEF Tells
<1>3. Aged(packets) \subseteq Packet
  BY <1>1 DEF Aged
<1>4. ASSUME NEW q \in Aged(packets), q.age < since + 1
      PROVE  q.di = d /\ q.ai = v
  <2>1. PICK p \in packets : p.age < LIFE /\ q = [p EXCEPT !.age = @ + 1]
    BY DEF Aged
  <2>2. q.age = p.age + 1 /\ q.di = p.di /\ q.ai = p.ai
    BY <2>1 DEF Packet
  <2>3. QED
    BY <1>2, <1>4, <2>1, <2>2
<1>5. QED
  BY <1>3, <1>4 DEF Tells

\* The invariant of BRD_APPTWELITE in the words of these lemmas.
LEMMA PortFacts ==
  ASSUME PortInv
  PROVE  /\ HORIZON \in Nat /\ LIFE \in Nat /\ PERIOD \in Nat \ {0} /\ CT_MOD \in Nat \ {0}
         /\ shown \in 0 .. HORIZON /\ heard \in 0 .. HORIZON /\ stable \in 0 .. HORIZON
         /\ air \in SUBSET Packet /\ Tells(air, stable, di, ai)
         /\ di \in DIs \cup {DI_NONE} /\ ai \in AIs \cup {AI_NONE}
BY PortAssumption DEF PortInv, PortTypeOK, Packet, Tells

LEMMA ButtonsKeep ==
  ASSUME PortInv, ButtonsAvailable
  PROVE  PortInv'
<1>1. di' \in DIs /\ stable' = 0 /\ air' \subseteq Packet
  <2>1. PICK d \in DIs : di' = d /\ Transmit(air, d, ai)
    BY DEF ButtonsAvailable
  <2>2. QED
    BY <2>1, PortFacts, TransmitAdds DEF ButtonsAvailable
<1>2. PortTypeOK'
  BY <1>1, PortFacts DEF ButtonsAvailable, PortInv, PortTypeOK, Packet
<1>3. \A p \in air' : p.age >= 0
  BY <1>1, PortFacts DEF Packet
<1>4. Tells(air', stable', di', ai')
  BY <1>1, <1>3, PortFacts DEF Tells, Packet
<1>5. shown' = shown /\ heard' = heard /\ ~ (shown' < stable')
  BY <1>1, PortFacts DEF ButtonsAvailable
<1>6. QED
  BY <1>2, <1>4, <1>5 DEF PortInv, Tells

LEMMA AnalogueKeeps ==
  ASSUME PortInv, AnalogueAvailable
  PROVE  PortInv'
<1>1. /\ ai' \in AIs /\ stable' = (IF ai' = ai THEN stable ELSE 0)
      /\ UNCHANGED <<di, ct, air, out, shown, heard>>
  BY DEF AnalogueAvailable
<1>2. PortTypeOK'
  BY <1>1, PortFacts DEF PortInv, PortTypeOK
<1>3. CASE ai' = ai
  BY <1>1, <1>2, <1>3 DEF PortInv, Agrees
<1>4. CASE ai' # ai
  <2>1. stable' = 0 /\ ~ (shown' < stable')
    BY <1>1, <1>4, PortFacts
  <2>2. \A p \in air' : ~ (p.age < stable')
    BY <1>1, <2>1, PortFacts DEF Packet
  <2>3. QED
    BY <1>1, <1>2, <2>1, <2>2 DEF PortInv
<1>5. QED
  BY <1>3, <1>4

LEMMA TimerKeeps ==
  ASSUME PortInv, Timer0Available
  PROVE  PortInv'
<1>1. ct' \in 0 .. CT_MOD - 1
  <2>1. ct + 1 \in Nat
    BY PortFacts DEF PortInv, PortTypeOK
  <2>2. QED
    BY <2>1, PortFacts, ModBelow DEF Timer0Available
<1>2. Aged(air) \in SUBSET Packet /\ Tells(Aged(air), stable + 1, di, ai)
  BY PortFacts, AgedTells
<1>3. air' \in SUBSET Packet /\ Tells(air', stable + 1, di, ai)
  <2>1. CASE Captured /\ Due(ct')
    <3>1. Transmit(Aged(air), di, ai)
      BY <2>1 DEF Timer0Available
    <3>2. di \in DIs
      BY <2>1, PortFacts DEF Captured
    <3>3. stable + 1 \in Nat
      BY PortFacts
    <3>4. QED
      BY <1>2, <3>1, <3>2, <3>3, PortFacts, TransmitAdds
  <2>2. CASE ~ (Captured /\ Due(ct'))
    BY <1>2, <2>2 DEF Timer0Available
  <2>3. QED
    BY <2>1, <2>2
<1>4. /\ shown' \in 0 .. HORIZON /\ heard' \in 0 .. HORIZON /\ stable' \in 0 .. HORIZON
      /\ stable' <= stable + 1 /\ shown' <= heard' + LIFE
      /\ (shown' < stable' => shown < stable)
  BY PortFacts DEF Timer0Available, Older, PortInv
<1>5. PortTypeOK'
  BY <1>1, <1>3, <1>4 DEF Timer0Available, PortInv, PortTypeOK, Packet
<1>6. Tells(air', stable', di', ai')
  BY <1>3, <1>4, PortFacts DEF Tells, Packet, Timer0Available
<1>7. shown' < stable' => Agrees'
  BY <1>4 DEF Timer0Available, PortInv, Agrees
<1>8. QED
  BY <1>4, <1>5, <1>6, <1>7 DEF PortInv, Tells

LEMMA DutyRange ==
  ASSUME NEW v \in AIs \cup {AI_NONE}
  PROVE  Duty(v) \in (0 .. 1024) \cup {AI_NONE}
BY PortAssumption DEF Duty, AI_NONE

LEMMA RxKeeps ==
  ASSUME PortInv, OnRxPacket
  PROVE  PortInv'
<1>1. PICK p \in air : /\ out' = Outputs(p.di, p.ai) /\ shown' = p.age
                        /\ heard' = IF p.age < heard THEN p.age ELSE heard
  BY DEF OnRxPacket
<1>2. UNCHANGED <<di, ai, ct, air, stable>>
  BY DEF OnRxPacket
<1>3. p.di \in DIs /\ p.ai \in AIs \cup {AI_NONE} /\ p.age \in 0 .. LIFE
  BY PortFacts DEF Packet
<1>4. /\ shown' \in 0 .. HORIZON /\ heard' \in 0 .. HORIZON /\ shown' <= heard' + LIFE
  BY <1>1, <1>3, PortFacts, PortAssumption
<1>5. out' \in [di: DIs \cup {DI_NONE}, duty: (0 .. 1024) \cup {AI_NONE}]
  BY <1>1, <1>3, DutyRange DEF Outputs
<1>6. PortTypeOK'
  BY <1>2, <1>4, <1>5 DEF PortInv, PortTypeOK
<1>7. shown' < stable' => Agrees'
  BY <1>1, <1>2 DEF PortInv, Agrees
<1>8. QED
  BY <1>2, <1>4, <1>6, <1>7 DEF PortInv

LEMMA PortKeeps == PortInv /\ PortNext => PortInv'
BY ButtonsKeep, AnalogueKeeps, TimerKeeps, RxKeeps DEF PortNext

----------------------------------------------------------------------------
(* Unit_Cue_MagBuz.                                                        *)

LEMMA CueFrame == CueInv /\ UNCHANGED cueVars => CueInv'
BY DEF CueInv, CueTypeOK, cueVars

LEMMA CueKeeps ==
  ASSUME CueInv, CueNext
  PROVE  CueInv'
<1> USE DEF CueInv, CueTypeOK, Poles
<1>1. CASE CueSetup
  BY <1>1 DEF CueSetup
<1>2. CASE MoveMagnet
  <2>1. pole' \in Poles \cup {"none"} /\ UNCHANGED <<cue, bOn, buzzer, armed>>
    BY <1>2 DEF MoveMagnet
  <2>2. edge' \subseteq Poles /\ missed' \in BOOLEAN
    BY <1>2 DEF MoveMagnet
  <2>3. ASSUME cue \in {"leaving", "asleep"}, pole' = "none"
        PROVE  edge' # {} \/ missed'
    <3>1. pole \in Poles /\ armed = Poles
      BY <1>2, <2>3 DEF MoveMagnet
    <3>2. {pole} \cap armed = {pole}
      BY <3>1
    <3>3. QED
      BY <1>2, <2>3, <3>2 DEF MoveMagnet
  <2>4. QED
    BY <2>1, <2>2, <2>3
<1>3. CASE CueTick
  BY <1>3 DEF CueTick
<1>4. CASE CueTimer1
  BY <1>4 DEF CueTimer1, GoSleeping
<1>5. CASE CueSleep
  BY <1>5 DEF CueSleep, ArmedPins
<1>6. CASE CueWakeByEdge
  BY <1>6 DEF CueWakeByEdge
<1>7. CASE CueWakeByTimer
  BY <1>7 DEF CueWakeByTimer, GoSleeping
<1>8. QED
  BY <1>1, <1>2, <1>3, <1>4, <1>5, <1>6, <1>7 DEF CueNext

----------------------------------------------------------------------------
(* PAL_AMB-bhv as a parent.                                                *)

LEMMA BhvParentFrame == BhvParentInv /\ UNCHANGED bhvParentVars => BhvParentInv'
BY DEF BhvParentInv, BhvParentTypeOK, bhvParentVars

\* What a handler does to the state, ms after it was set.
LEMMA Handled ==
  ASSUME BhvParentTypeOK, NEW kick \in BOOLEAN, NEW ms \in Nat, Handle(kick, ms)
  PROVE  /\ state' \in 0 .. 3 /\ elapsed' \in Nat
         /\ state' = 3 => \/ state = 3 /\ elapsed' = ms /\ ms <= STATE3_MS
                          \/ state # 3 /\ elapsed' = 0
BY BhvParentAssumption DEF BhvParentTypeOK, Handle, State3, SetState, Remain

LEMMA BhvParentFacts ==
  ASSUME BhvParentTypeOK
  PROVE  /\ SECOND \in Nat \ {0} /\ STATE3_MS \in Nat /\ DEBOUNCE \in Nat
         /\ state \in Int /\ elapsed \in Nat /\ second \in Nat /\ silence \in Nat
         /\ 1 <= second /\ second <= SECOND /\ silence <= DEBOUNCE + 1
BY BhvParentAssumption DEF BhvParentTypeOK

LEMMA PressKeeps ==
  ASSUME BhvParentInv, Press
  PROVE  BhvParentInv'
<1>1. BhvParentTypeOK
  BY DEF BhvParentInv
<1>2. silence' = 0 /\ second' = second
  BY DEF Press
<1>3. CASE Remain(elapsed)
  BY <1>2, <1>3, BhvParentAssumption DEF Remain, BhvParentInv, BhvParentTypeOK
<1>4. CASE Handle(TRUE, elapsed)
  <2>1. /\ state' \in 0 .. 3 /\ elapsed' \in Nat
        /\ state' = 3 => (state = 3 /\ elapsed' = elapsed) \/ elapsed' = 0
    BY <1>1, <1>4, Handled, BhvParentFacts
  <2>2. BhvParentTypeOK'
    BY <1>1, <1>2, <2>1, BhvParentFacts DEF BhvParentTypeOK
  <2>3. ASSUME elapsed' = 0 PROVE elapsed' + second' <= STATE3_MS + SECOND
    BY <1>1, <1>2, <2>3, BhvParentFacts
  <2>4. ASSUME elapsed' = elapsed, state = 3 PROVE elapsed' + second' <= STATE3_MS + SECOND
    BY <1>2, <2>4 DEF BhvParentInv
  <2>5. QED
    BY <2>1, <2>2, <2>3, <2>4 DEF BhvParentInv
<1>5. QED
  BY <1>3, <1>4 DEF Press

LEMMA MillisecondKeeps ==
  ASSUME BhvParentInv, Millisecond
  PROVE  BhvParentInv'
<1> DEFINE ms == IF state = 3 THEN elapsed + 1 ELSE 0
<1>1. BhvParentTypeOK
  BY DEF BhvParentInv
<1>2. ms \in Nat
  BY <1>1, BhvParentFacts
<1>3. silence' \in 0 .. DEBOUNCE + 1
  BY <1>1, BhvParentFacts DEF Millisecond
<1>4. CASE second > 1
  <2>1. second' = second - 1 /\ (Remain(ms) \/ Handle(FALSE, ms))
    BY <1>4 DEF Millisecond
  <2>2. /\ state' \in 0 .. 3 /\ elapsed' \in Nat
        /\ state' = 3 => (state = 3 /\ elapsed' = elapsed + 1) \/ elapsed' = 0
    <3>1. CASE Remain(ms)
      BY <1>1, <1>2, <3>1 DEF Remain, BhvParentTypeOK
    <3>2. CASE Handle(FALSE, ms)
      BY <1>1, <1>2, <3>2, Handled
    <3>3. QED
      BY <2>1, <3>1, <3>2
  <2>3. second' \in 1 .. SECOND
    BY <1>1, <1>4, <2>1, BhvParentFacts
  <2>4. BhvParentTypeOK'
    BY <1>3, <2>2, <2>3 DEF BhvParentTypeOK
  <2>5. ASSUME elapsed' = 0 PROVE elapsed' + second' <= STATE3_MS + SECOND
    BY <1>1, <2>1, <2>5, BhvParentFacts
  <2>6. ASSUME elapsed' = elapsed + 1, state = 3 PROVE elapsed' + second' <= STATE3_MS + SECOND
    BY <1>1, <2>1, <2>6, BhvParentFacts DEF BhvParentInv
  <2>7. QED
    BY <2>2, <2>4, <2>5, <2>6 DEF BhvParentInv
<1>5. CASE ~ (second > 1)
  <2>1. second' = SECOND /\ Handle(FALSE, ms)
    BY <1>5 DEF Millisecond
  <2>2. /\ state' \in 0 .. 3 /\ elapsed' \in Nat
        /\ state' = 3 => (elapsed' = ms /\ ms <= STATE3_MS) \/ elapsed' = 0
    BY <1>1, <1>2, <2>1, Handled
  <2>3. second' \in 1 .. SECOND
    BY <1>1, <2>1, BhvParentFacts
  <2>4. BhvParentTypeOK'
    BY <1>3, <2>2, <2>3 DEF BhvParentTypeOK
  <2>5. ASSUME elapsed' = 0 PROVE elapsed' + second' <= STATE3_MS + SECOND
    BY <1>1, <2>1, <2>5, BhvParentFacts
  <2>6. ASSUME elapsed' = ms, ms <= STATE3_MS PROVE elapsed' + second' <= STATE3_MS + SECOND
    <3> HIDE DEF ms
    <3> QED
      BY <1>1, <1>2, <2>1, <2>6, BhvParentFacts
  <2>7. QED
    BY <2>2, <2>4, <2>5, <2>6 DEF BhvParentInv
<1>6. QED
  BY <1>4, <1>5

LEMMA BhvParentKeeps == BhvParentInv /\ BhvParentNext => BhvParentInv'
BY PressKeeps, MillisecondKeeps DEF BhvParentNext

----------------------------------------------------------------------------
(* The channel.                                                            *)

LEMMA TalkFrame == TalkInv /\ UNCHANGED chanVars => TalkInv'
BY DEF TalkInv, TalkTypeOK, LinesTrue, chanVars

\* A line that is on its way was typed for those that may still hear it.
Typed(p, lines) ==
  p.kind = "WURT" =>
    \E t \in lines : /\ t.from = p.from /\ t.data = p.body
                     /\ p.left \subseteq ByLid(p.from, t.to)

\* A packet as it should be.
Sound(p, lines) ==
  p.from \in Nodes /\ p.left \subseteq Listening /\ p.left # {} /\ Typed(p, lines)

LEMMA TalkParts ==
  TalkInv <=> /\ \A p \in wave : Sound(p, typed)
              /\ inputs \in 0 .. MAX_INPUT
              /\ typed \subseteq [from: Nodes, to: 0 .. 255, data: Data]
              /\ printed \subseteq [at: Nodes, from: 0 .. 255, data: Data \ {<<>>}]
              /\ LinesTrue
BY DEF TalkInv, TalkTypeOK, Sound, Typed

LEMMA ListeningNodes == Listening \subseteq Nodes
BY ChannelAssumption DEF Listening

\* Packets are as they should be when some of their hearers are done with them.
LEMMA PastSound ==
  ASSUME NEW lines, \A q \in wave : Sound(q, lines), NEW p \in wave, NEW m
  PROVE  \A q \in Past(p, m) : Sound(q, lines)
<1> SUFFICES ASSUME NEW q \in Past(p, m) PROVE Sound(q, lines)
  OBVIOUS
<1>1. CASE q \in wave
  BY <1>1
<1>2. CASE \E l \in {p.left \ {m}} \ {{}} : q = OnAir(p.kind, p.from, p.body, l)
  <2>1. /\ q.kind = p.kind /\ q.from = p.from /\ q.body = p.body
        /\ q.left \subseteq p.left /\ q.left # {}
    BY <1>2 DEF OnAir
  <2>2. Sound(p, lines)
    OBVIOUS
  <2>3. Typed(q, lines)
    BY <2>1, <2>2 DEF Sound, Typed
  <2>4. QED
    BY <2>1, <2>2, <2>3 DEF Sound
<1>3. QED
  BY <1>1, <1>2 DEF Past

\* So are they after another is sent.
LEMMA SendSound ==
  ASSUME NEW lines, NEW before, \A q \in before : Sound(q, lines),
         NEW kind, NEW n \in Nodes, NEW to \in SUBSET Listening, NEW body,
         kind # "WURT" \/ \E t \in lines : t.from = n /\ t.data = body /\ to \subseteq ByLid(n, t.to),
         Send(before, kind, n, to, body)
  PROVE  \A q \in wave' : Sound(q, lines)
<1>1. CASE wave' = before
  BY <1>1
<1>2. CASE to # {} /\ wave' = before \cup {OnAir(kind, n, body, to)}
  <2> DEFINE q == OnAir(kind, n, body, to)
  <2>1. q.kind = kind /\ q.from = n /\ q.body = body /\ q.left = to
    BY DEF OnAir
  <2> HIDE DEF q
  <2>2. Sound(q, lines)
    BY <1>2, <2>1 DEF Sound, Typed
  <2>3. QED
    BY <1>2, <2>2 DEF q
<1>3. QED
  BY <1>1, <1>2 DEF Send

LEMMA InputBound ==
  ASSUME inputs \in 0 .. MAX_INPUT, Input
  PROVE  inputs' \in 0 .. MAX_INPUT
BY ChannelAssumption DEF Input

LEMMA PingKeeps ==
  ASSUME TalkInv, NEW n \in Nodes, Ping(n)
  PROVE  TalkInv'
<1>1. ByLid(n, Broadcast) \in SUBSET Listening
  BY DEF ByLid
<1>2. \A q \in wave' : Sound(q, typed)
  BY <1>1, TalkParts, SendSound DEF Ping
<1>3. UNCHANGED <<typed, printed>> /\ inputs' \in 0 .. MAX_INPUT
  BY TalkParts, InputBound DEF Ping
<1>4. QED
  BY <1>2, <1>3 DEF TalkInv, TalkTypeOK, Sound, Typed, LinesTrue

LEMMA ReportKeeps ==
  ASSUME TalkInv, NEW n \in Nodes, Report(n)
  PROVE  TalkInv'
<1>1. PICK k \in ActKinds : Send(wave, k, n, ByLid(n, Address(n, k)), Packed(Fields[k]))
  BY DEF Report
<1>2. k # "WURT"
  BY DEF ActKinds, Fields
<1>3. ByLid(n, Address(n, k)) \in SUBSET Listening
  BY DEF ByLid
<1>4. \A q \in wave' : Sound(q, typed)
  BY <1>1, <1>2, <1>3, TalkParts, SendSound
<1>5. UNCHANGED <<typed, printed>> /\ inputs' \in 0 .. MAX_INPUT
  BY TalkParts, InputBound DEF Report
<1>6. QED
  BY <1>4, <1>5 DEF TalkInv, TalkTypeOK, Sound, Typed, LinesTrue

LEMMA TypeLineKeeps ==
  ASSUME TalkInv, NEW n \in Nodes, TypeLine(n)
  PROVE  TalkInv'
<1>1. PICK to \in {LID[m] : m \in Nodes} \cup {Broadcast}, d \in Data :
        /\ typed' = typed \cup {[from |-> n, to |-> to, data |-> d]}
        /\ Send(wave, "WURT", n, ByLid(n, to), d)
  BY DEF TypeLine
<1> DEFINE t == [from |-> n, to |-> to, data |-> d]
<1>2. t.from = n /\ t.to = to /\ t.data = d /\ t \in typed' /\ typed \subseteq typed'
  BY <1>1
<1>3. to \in 0 .. 255
  BY <1>1, ChannelAssumption DEF Broadcast
<1>4. typed' \subseteq [from: Nodes, to: 0 .. 255, data: Data]
  BY <1>1, <1>3, TalkParts
<1>5. \A q \in wave : Sound(q, typed')
  <2> SUFFICES ASSUME NEW q \in wave PROVE Sound(q, typed')
    OBVIOUS
  <2>1. Sound(q, typed)
    BY TalkParts
  <2>2. QED
    BY <1>2, <2>1 DEF Sound, Typed
<1>6. ByLid(n, to) \in SUBSET Listening
  BY DEF ByLid
<1>7. \E s \in typed' : s.from = n /\ s.data = d /\ ByLid(n, to) \subseteq ByLid(n, s.to)
  BY <1>2
<1>8. \A q \in wave' : Sound(q, typed')
  BY <1>1, <1>5, <1>6, <1>7, SendSound
<1>9. UNCHANGED printed /\ inputs' \in 0 .. MAX_INPUT
  BY TalkParts, InputBound DEF TypeLine
<1>10. LinesTrue'
  BY <1>2, <1>9 DEF TalkInv, LinesTrue
<1>11. QED
  BY <1>4, <1>8, <1>9, <1>10 DEF TalkInv, TalkTypeOK, Sound, Typed

LEMMA LoseKeeps ==
  ASSUME TalkInv, NEW m \in Nodes, Lose(m)
  PROVE  TalkInv'
<1>1. \A q \in wave' : Sound(q, typed)
  BY TalkParts, PastSound DEF Lose
<1>2. QED
  BY <1>1 DEF TalkInv, TalkTypeOK, Sound, Typed, LinesTrue, Lose

LEMMA HearKeeps ==
  ASSUME TalkInv, NEW m \in Nodes, Hear(m)
  PROVE  TalkInv'
<1>1. PICK p \in wave :
        /\ m \in p.left
        /\ PingPongHear(m, p) \/ WirelessUartHear(m, p) \/ ParentHear(m, p)
  BY DEF Hear
<1>2. Sound(p, typed)
  BY TalkParts
<1>3. \A q \in Past(p, m) : Sound(q, typed)
  BY TalkParts, PastSound
<1>4. CASE PingPongHear(m, p)
  <2>1. {p.from} \cap Listening \in SUBSET Listening
    OBVIOUS
  <2>2. \A q \in wave' : Sound(q, typed)
    BY <1>3, <1>4, <2>1, SendSound DEF PingPongHear
  <2>3. QED
    BY <1>4, <2>2 DEF PingPongHear, TalkInv, TalkTypeOK, Sound, Typed, LinesTrue
<1>5. CASE ParentHear(m, p)
  BY <1>3, <1>5 DEF ParentHear, TalkInv, TalkTypeOK, Sound, Typed, LinesTrue
<1>6. CASE WirelessUartHear(m, p)
  <2>1. \A q \in wave' : Sound(q, typed)
    BY <1>3, <1>6 DEF WirelessUartHear
  <2>2. UNCHANGED <<inputs, typed>>
    BY <1>6 DEF WirelessUartHear
  <2>3. CASE printed' = printed
    BY <2>1, <2>2, <2>3 DEF TalkInv, TalkTypeOK, Sound, Typed, LinesTrue
  <2>4. CASE ForUart(p) /\ printed' = printed \cup {[at |-> m, from |-> LID[p.from], data |-> p.body]}
    <3> DEFINE l == [at |-> m, from |-> LID[p.from], data |-> p.body]
    <3>1. PICK t \in typed : /\ t.from = p.from /\ t.data = p.body
                             /\ p.left \subseteq ByLid(p.from, t.to)
      BY <1>2, <2>4 DEF Sound, Typed, ForUart
    <3>2. t.to \in {LID[m], Broadcast}
      BY <1>1, <3>1 DEF ByLid
    <3>3. p.body \in Data \ {<<>>}
      BY <2>4, <3>1, TalkParts DEF ForUart
    <3>4. LID[p.from] \in 0 .. 255
      BY <1>2, ChannelAssumption DEF Sound
    <3>5. printed' \subseteq [at: Nodes, from: 0 .. 255, data: Data \ {<<>>}]
      <4>1. l \in [at: Nodes, from: 0 .. 255, data: Data \ {<<>>}]
        BY <3>3, <3>4
      <4>2. QED
        BY <2>4, <4>1, TalkParts
    <3>6. LID[t.from] = l.from /\ t.to \in {LID[l.at], Broadcast} /\ t.data = l.data
      BY <3>1, <3>2
    <3>7. LinesTrue'
      BY <2>2, <2>4, <3>6 DEF TalkInv, LinesTrue
    <3>8. QED
      BY <2>1, <2>2, <3>5, <3>7 DEF TalkInv, TalkTypeOK, Sound, Typed
  <2>5. QED
    BY <1>6, <2>3, <2>4 DEF WirelessUartHear
<1>7. QED
  BY <1>1, <1>4, <1>5, <1>6

LEMMA TalkKeeps == TalkInv /\ TalkNext => TalkInv'
BY PingKeeps, TypeLineKeeps, ReportKeeps, HearKeeps, LoseKeeps DEF TalkNext

----------------------------------------------------------------------------
(* Payloads, for whatever fields.                                          *)

AnyField(Names) == [name: Names, bytes: Nat]

AnyByte(Names) == Names \X Nat

WidthsOf(fields) == [i \in 1 .. Len(fields) |-> fields[i].bytes]

\* The bytes of a field are as many as it has.
LEMMA BytesOfField ==
  ASSUME NEW Names, NEW f \in AnyField(Names)
  PROVE  /\ BytesOf(f) \in Seq(AnyByte(Names)) /\ Len(BytesOf(f)) = f.bytes
         /\ \A b \in 1 .. f.bytes : BytesOf(f)[b] = <<f.name, b>>
<1>1. f.bytes \in Nat /\ f.name \in Names
  BY DEF AnyField
<1>2. \A b \in 1 .. f.bytes : <<f.name, b>> \in AnyByte(Names)
  BY <1>1 DEF AnyByte
<1>3. BytesOf(f) \in [1 .. f.bytes -> AnyByte(Names)]
  BY <1>2 DEF BytesOf
<1>4. BytesOf(f) \in Seq(AnyByte(Names))
  <2> HIDE DEF AnyByte
  <2> DEFINE m == f.bytes
  <2>1. BytesOf(f) \in [1 .. m -> AnyByte(Names)] /\ m \in Nat
    BY <1>1, <1>3
  <2> HIDE DEF m
  <2> QED
    BY <2>1, SeqDef
<1>5. Len(BytesOf(f)) = f.bytes
  <2>1. /\ Len(BytesOf(f)) \in Nat /\ DOMAIN BytesOf(f) = 1 .. Len(BytesOf(f))
    BY <1>4, LenProperties
  <2>2. DOMAIN BytesOf(f) = 1 .. f.bytes
    BY DEF BytesOf
  <2> QED
    BY <1>1, <2>1, <2>2
<1> QED
  BY <1>4, <1>5 DEF BytesOf

\* The widths add up.
LEMMA EndsDef ==
  ASSUME NEW w \in Seq(Nat)
  PROVE  /\ Ends(w) \in [0 .. Len(w) -> Nat]
         /\ Ends(w)[0] = 0
         /\ \A n \in 1 .. Len(w) : Ends(w)[n] = Ends(w)[n - 1] + w[n]
<1> DEFINE N == Len(w)
           More(i, v) == v + w[i]
           A == Nat
           Solves(f) == f = [i \in 0 .. N |-> IF i = 0 THEN 0 ELSE More(i, f[i - 1])]
           step == [i \in 1 .. N |-> [v \in A |-> More(i, v)]]
<1>1. N \in Nat /\ 0 \in A /\ \A n \in 1 .. N : w[n] \in Nat
  BY LenProperties, ElementOfSeq
<1>2. \A n \in 1 .. N, v \in A : More(n, v) \in A
  BY <1>1
<1>3. step \in [1 .. N -> [A -> A]] /\ \A n \in 1 .. N, v \in A : step[n][v] = More(n, v)
  <2> HIDE DEF A, More, N
  <2> QED
    BY <1>2
<1>4. \E f : Solves(f)
  <2> HIDE DEF A, More, N, step
  <2>1. PICK f \in [0 .. N -> A] : Steps(f, N, 0, step)
    BY <1>1, <1>3, RecursionExists, Zenon
  <2>2. \A n \in 1 .. N : step[n][f[n - 1]] = More(n, f[n - 1])
    BY <1>1, <1>3
  <2>3. Solves(f)
    <3>1. f = [i \in 0 .. N |-> f[i]]
      BY <2>1
    <3>2. \A i \in 0 .. N : f[i] = IF i = 0 THEN 0 ELSE step[i][f[i - 1]]
      BY <2>1 DEF Steps
    <3>3. \A i \in 0 .. N : i # 0 => i \in 1 .. N
      BY <1>1
    <3>4. \A i \in 0 .. N : f[i] = IF i = 0 THEN 0 ELSE More(i, f[i - 1])
      BY <2>2, <3>2, <3>3
    <3> QED
      BY <3>1, <3>4
  <2> QED
    BY <2>3
<1>5. Solves(Ends(w))
  <2>1. Ends(w) = CHOOSE f : Solves(f)
    BY DEF Ends
  <2> HIDE DEF Solves
  <2> QED
    BY <1>4, <2>1
<1> HIDE DEF A, More, N
<1>6. Ends(w)[0] = 0 /\ \A n \in 1 .. N : Ends(w)[n] = More(n, Ends(w)[n - 1])
  BY <1>1, <1>5
<1>7. 0 .. N \subseteq {n \in 0 .. N : Ends(w)[n] \in A}
  <2> DEFINE S == {n \in 0 .. N : Ends(w)[n] \in A}
  <2>1. 0 \in S
    BY <1>1, <1>6
  <2>2. \A n \in 1 .. N : n - 1 \in S => n \in S
    BY <1>1, <1>2, <1>6
  <2> HIDE DEF S
  <2>3. 0 .. N \subseteq S
    BY <1>1, <2>1, <2>2, UpTo
  <2> QED
    BY <2>3 DEF S
<1>8. Ends(w) \in [0 .. N -> A]
  <2>1. Ends(w) = [i \in 0 .. N |-> IF i = 0 THEN 0 ELSE More(i, Ends(w)[i - 1])]
    BY <1>5
  <2>2. Ends(w) = [i \in 0 .. N |-> Ends(w)[i]]
    BY <2>1
  <2> QED
    BY <1>7, <2>2
<1> QED
  BY <1>6, <1>8 DEF A, More, N

\* up is the payload behind each field.
PackedBy(up, fields, Names) ==
  /\ up \in [0 .. Len(fields) -> Seq(AnyByte(Names))]
  /\ up[0] = <<>>
  /\ \A n \in 1 .. Len(fields) : up[n] = up[n - 1] \o BytesOf(fields[n])
  /\ Packed(fields) = up[Len(fields)]

\* The bytes of a payload, field by field: each field behind the one before.
LEMMA PackedDef ==
  ASSUME NEW Names, NEW fields \in Seq(AnyField(Names))
  PROVE  \E up : PackedBy(up, fields, Names)
<1> DEFINE N == Len(fields)
           A == Seq(AnyByte(Names))
           More(i, v) == v \o BytesOf(fields[i])
           Solves(f) == f = [i \in 0 .. N |-> IF i = 0 THEN <<>> ELSE More(i, f[i - 1])]
           step == [i \in 1 .. N |-> [v \in A |-> More(i, v)]]
           up == CHOOSE f : Solves(f)
<1>1. N \in Nat /\ <<>> \in A /\ \A n \in 1 .. N : fields[n] \in AnyField(Names)
  BY LenProperties, ElementOfSeq, EmptySeq
<1>2. \A n \in 1 .. N, v \in A : More(n, v) \in A
  BY <1>1, BytesOfField, ConcatProperties
<1>3. step \in [1 .. N -> [A -> A]] /\ \A n \in 1 .. N, v \in A : step[n][v] = More(n, v)
  <2> HIDE DEF A, More, N
  <2> QED
    BY <1>2
<1>4. \E f : Solves(f)
  <2> HIDE DEF A, More, N, step
  <2> DEFINE a == <<>>
  <2>0. N \in Nat /\ a \in A /\ step \in [1 .. N -> [A -> A]]
    BY <1>1, <1>3
  <2>1. PICK f \in [0 .. N -> A] : Steps(f, N, a, step)
    <3> HIDE DEF a
    <3> QED
      BY <2>0, RecursionExists
  <2>2. \A n \in 1 .. N : step[n][f[n - 1]] = More(n, f[n - 1])
    BY <1>1, <1>3
  <2>3. Solves(f)
    <3>1. f = [i \in 0 .. N |-> f[i]]
      BY <2>1
    <3>2. \A i \in 0 .. N : f[i] = IF i = 0 THEN a ELSE step[i][f[i - 1]]
      BY <2>1 DEF Steps
    <3>3. \A i \in 0 .. N : i # 0 => i \in 1 .. N
      BY <1>1
    <3>4. \A i \in 0 .. N : f[i] = IF i = 0 THEN a ELSE More(i, f[i - 1])
      BY <2>2, <3>2, <3>3
    <3> QED
      BY <3>1, <3>4
  <2> QED
    BY <2>3
<1>5. Solves(up)
  <2> HIDE DEF Solves
  <2> QED
    BY <1>4
<1>6. Packed(fields) = up[N]
  BY DEF Packed
<1> HIDE DEF up, More, A, N
<1>7. up[0] = <<>> /\ \A n \in 1 .. N : up[n] = More(n, up[n - 1])
  BY <1>1, <1>5
<1>8. 0 .. N \subseteq {n \in 0 .. N : up[n] \in A}
  <2> DEFINE S == {n \in 0 .. N : up[n] \in A}
  <2>1. 0 \in S
    BY <1>1, <1>7
  <2>2. \A n \in 1 .. N : n - 1 \in S => n \in S
    BY <1>1, <1>2, <1>7
  <2> HIDE DEF S
  <2>3. 0 .. N \subseteq S
    BY <1>1, <2>1, <2>2, UpTo
  <2> QED
    BY <2>3 DEF S
<1>9. up \in [0 .. N -> A]
  <2>1. up = [i \in 0 .. N |-> IF i = 0 THEN <<>> ELSE More(i, up[i - 1])]
    BY <1>5
  <2>2. up = [i \in 0 .. N |-> up[i]]
    BY <2>1
  <2> QED
    BY <1>8, <2>2
<1>10. PackedBy(up, fields, Names)
  BY <1>6, <1>7, <1>9 DEF PackedBy, More, A, N
<1> QED
  BY <1>10

\* The first n fields lie one behind the other, each byte in its place.
Laid(up, fields, n) ==
  LET end == Ends(WidthsOf(fields))
  IN  /\ Len(up[n]) = end[n]
      /\ \A i \in 1 .. n :
           /\ end[i] <= end[n]
           /\ \A b \in 1 .. fields[i].bytes :
                up[n][end[i - 1] + b] = <<fields[i].name, b>>

\* Every field has a width.
LEMMA WidthsAreNat ==
  ASSUME NEW Names, NEW fields \in Seq(AnyField(Names))
  PROVE  /\ WidthsOf(fields) \in Seq(Nat) /\ Len(WidthsOf(fields)) = Len(fields)
         /\ Len(fields) \in Nat
         /\ \A i \in 1 .. Len(fields) :
              fields[i] \in AnyField(Names) /\ WidthsOf(fields)[i] = fields[i].bytes
<1> DEFINE N == Len(fields)
<1>1. N \in Nat /\ \A i \in 1 .. N : fields[i] \in AnyField(Names) /\ fields[i].bytes \in Nat
  <2>1. N \in Nat /\ \A i \in 1 .. N : fields[i] \in AnyField(Names)
    BY LenProperties, ElementOfSeq
  <2> QED
    BY <2>1 DEF AnyField
<1>2. WidthsOf(fields) \in [1 .. N -> Nat]
  BY <1>1 DEF WidthsOf
<1> HIDE DEF N
<1>3. WidthsOf(fields) \in Seq(Nat)
  BY <1>1, <1>2, SeqDef
<1>4. Len(WidthsOf(fields)) = N
  <2>1. /\ Len(WidthsOf(fields)) \in Nat
        /\ DOMAIN WidthsOf(fields) = 1 .. Len(WidthsOf(fields))
    BY <1>3, LenProperties
  <2>2. DOMAIN WidthsOf(fields) = 1 .. N
    BY <1>2
  <2> DEFINE m == Len(WidthsOf(fields))
  <2>3. m \in Nat /\ 1 .. m = 1 .. N
    BY <2>1, <2>2
  <2> HIDE DEF m
  <2>4. m = N
    BY <1>1, <2>3
  <2> QED
    BY <2>4 DEF m
<1> QED
  BY <1>1, <1>3, <1>4 DEF N, WidthsOf

\* The places where expand_bytes() ends each field, counted from the widths.
LEMMA EndsOfFields ==
  ASSUME NEW Names, NEW fields \in Seq(AnyField(Names))
  PROVE  LET N == Len(fields)
             end == Ends(WidthsOf(fields))
         IN  /\ N \in Nat
             /\ \A i \in 1 .. N : fields[i] \in AnyField(Names) /\ fields[i].bytes \in Nat
             /\ Len(WidthsOf(fields)) = N /\ end \in [0 .. N -> Nat] /\ end[0] = 0
             /\ \A n \in 1 .. N : end[n] = end[n - 1] + fields[n].bytes
<1> DEFINE N == Len(fields)
           w == WidthsOf(fields)
<1>1. /\ w \in Seq(Nat) /\ Len(w) = N /\ N \in Nat
      /\ \A i \in 1 .. N : fields[i] \in AnyField(Names) /\ w[i] = fields[i].bytes
  BY WidthsAreNat
<1>2. \A i \in 1 .. N : fields[i].bytes \in Nat
  BY <1>1 DEF AnyField
<1> HIDE DEF w, N
<1>3. /\ Ends(w) \in [0 .. N -> Nat] /\ Ends(w)[0] = 0
      /\ \A n \in 1 .. N : Ends(w)[n] = Ends(w)[n - 1] + w[n]
  BY <1>1, EndsDef
<1>4. \A n \in 1 .. N : Ends(w)[n] = Ends(w)[n - 1] + fields[n].bytes
  BY <1>1, <1>3
<1> QED
  BY <1>1, <1>2, <1>3, <1>4 DEF w, N

\* Every field has its bytes at its place in the payload.
LEMMA AllLaid ==
  ASSUME NEW Names, NEW fields \in Seq(AnyField(Names)), NEW up, PackedBy(up, fields, Names)
  PROVE  \A n \in 0 .. Len(fields) : Laid(up, fields, n)
<1> DEFINE N == Len(fields)
           end == Ends(WidthsOf(fields))
           S == {n \in 0 .. N : Laid(up, fields, n)}
<1>1. /\ N \in Nat /\ \A i \in 1 .. N : fields[i] \in AnyField(Names) /\ fields[i].bytes \in Nat
      /\ end \in [0 .. N -> Nat] /\ end[0] = 0
      /\ \A n \in 1 .. N : end[n] = end[n - 1] + fields[n].bytes
  BY EndsOfFields
<1>2. 0 \in S
  <2>1. up[0] = <<>> /\ Len(<<>>) = 0
    BY DEF PackedBy
  <2> QED
    BY <1>1, <2>1 DEF Laid
<1>3. ASSUME NEW n \in 1 .. N, n - 1 \in S
      PROVE  n \in S
  <2> DEFINE old == up[n - 1]
             new == BytesOf(fields[n])
  <2>1. /\ n - 1 \in 0 .. N /\ n \in 0 .. N /\ n \in Nat
        /\ end[n - 1] \in Nat /\ end[n] \in Nat
    BY <1>1
  <2>2. old \in Seq(AnyByte(Names)) /\ up[n] = old \o new
    BY <1>1, <2>1 DEF PackedBy
  <2>3. /\ new \in Seq(AnyByte(Names)) /\ Len(new) = fields[n].bytes
        /\ \A b \in 1 .. fields[n].bytes : new[b] = <<fields[n].name, b>>
    BY <1>1, BytesOfField
  <2>4. /\ Len(old) = end[n - 1]
        /\ \A i \in 1 .. n - 1 :
             /\ end[i] <= end[n - 1]
             /\ \A b \in 1 .. fields[i].bytes : old[end[i - 1] + b] = <<fields[i].name, b>>
    BY <1>3 DEF Laid
  <2>5. /\ Len(up[n]) = Len(old) + Len(new)
        /\ \A k \in 1 .. Len(old) + Len(new) :
             up[n][k] = IF k <= Len(old) THEN old[k] ELSE new[k - Len(old)]
    <3> HIDE DEF old, new
    <3>1. old \in Seq(AnyByte(Names)) /\ new \in Seq(AnyByte(Names))
      BY <2>2, <2>3
    <3>2. /\ Len(old \o new) = Len(old) + Len(new)
          /\ \A k \in 1 .. Len(old) + Len(new) :
               (old \o new)[k] = IF k <= Len(old) THEN old[k] ELSE new[k - Len(old)]
      BY <3>1, ConcatProperties
    <3> QED
      BY <2>2, <3>2
  <2> HIDE DEF old, new, end, N
  <2>6. fields[n].bytes \in Nat /\ Len(old) = end[n - 1] /\ Len(new) = fields[n].bytes
    BY <1>1, <2>3, <2>4
  <2>7. Len(up[n]) = end[n] /\ end[n - 1] <= end[n]
    <3>1. end[n] = end[n - 1] + fields[n].bytes
      BY <1>1
    <3> QED
      BY <2>1, <2>5, <2>6, <3>1
  <2>8. ASSUME NEW i \in 1 .. n
        PROVE  /\ end[i] <= end[n]
               /\ \A b \in 1 .. fields[i].bytes : up[n][end[i - 1] + b] = <<fields[i].name, b>>
    <3>1. CASE i = n
      <4>1. ASSUME NEW b \in 1 .. fields[n].bytes
            PROVE  up[n][end[n - 1] + b] = <<fields[n].name, b>>
        <5> DEFINE k == end[n - 1] + b
        <5>1. k \in 1 .. Len(old) + Len(new) /\ ~ (k <= Len(old)) /\ k - Len(old) = b
          BY <2>1, <2>6
        <5> HIDE DEF k
        <5>2. up[n][k] = new[k - Len(old)]
          BY <2>5, <5>1
        <5>3. up[n][k] = <<fields[n].name, b>>
          BY <2>3, <5>1, <5>2
        <5> QED
          BY <5>3 DEF k
      <4>2. end[n] <= end[n]
        BY <2>1
      <4> QED
        BY <3>1, <4>1, <4>2
    <3>2. CASE i \in 1 .. n - 1
      <4>1. i \in 1 .. N /\ i - 1 \in 0 .. N /\ i \in 0 .. N
        BY <1>1, <3>2
      <4>2. end[i - 1] \in Nat /\ end[i] \in Nat /\ end[i] = end[i - 1] + fields[i].bytes
        BY <1>1, <4>1
      <4>3. ASSUME NEW b \in 1 .. fields[i].bytes
            PROVE  up[n][end[i - 1] + b] = <<fields[i].name, b>>
        <5>1. /\ end[i - 1] + b \in 1 .. Len(old) + Len(new)
              /\ end[i - 1] + b <= Len(old)
          <6>1. fields[i].bytes \in Nat /\ fields[n].bytes \in Nat /\ end[i] <= end[n - 1]
            BY <1>1, <2>4, <3>2, <4>1
          <6> DEFINE here == end[i - 1]
                     m == fields[i].bytes
          <6>2. /\ here \in Nat /\ m \in Nat /\ here + m <= Len(old) /\ b \in 1 .. m
                /\ Len(old) \in Nat /\ Len(new) \in Nat
            BY <2>1, <2>6, <4>2, <6>1
          <6> HIDE DEF here, m
          <6>3. here + b \in 1 .. Len(old) + Len(new) /\ here + b <= Len(old)
            BY <6>2
          <6> QED
            BY <6>3 DEF here
        <5> QED
          BY <2>4, <2>5, <3>2, <5>1
      <4>4. end[i] <= end[n]
        BY <2>1, <2>4, <2>7, <3>2, <4>2
      <4> QED
        BY <4>3, <4>4
    <3>3. i = n \/ i \in 1 .. n - 1
      BY <2>1
    <3> QED
      BY <3>1, <3>2, <3>3, Zenon
  <2> QED
    BY <2>1, <2>7, <2>8 DEF Laid, end
<1>4. 0 .. N \subseteq S
  <2> HIDE DEF S
  <2> QED
    BY <1>1, <1>2, <1>3, UpTo
<1> QED
  BY <1>4

\* Whatever fields an act packs: who expands the payload by their widths gets each of
\* them, and never finds it too short (pack_bytes and expand_bytes).
LEMMA ExpandedAsPacked ==
  ASSUME NEW Names, NEW fields \in Seq(AnyField(Names))
  PROVE  /\ ~ TooShort(Packed(fields), WidthsOf(fields))
         /\ Expanded(Packed(fields), WidthsOf(fields))
              = [i \in 1 .. Len(fields) |-> BytesOf(fields[i])]
<1> DEFINE N == Len(fields)
           w == WidthsOf(fields)
           end == Ends(w)
           bytes == Packed(fields)
<1>1. PICK up : PackedBy(up, fields, Names)
  BY PackedDef
<1>2. /\ N \in Nat /\ \A i \in 1 .. N : fields[i] \in AnyField(Names) /\ fields[i].bytes \in Nat
      /\ end \in [0 .. N -> Nat] /\ Len(w) = N
      /\ \A n \in 1 .. N : end[n] = end[n - 1] + fields[n].bytes
  BY EndsOfFields
<1>3. /\ Len(bytes) = end[N] /\ bytes \in Seq(AnyByte(Names))
      /\ \A i \in 1 .. N :
           /\ end[i] <= end[N]
           /\ \A b \in 1 .. fields[i].bytes : bytes[end[i - 1] + b] = <<fields[i].name, b>>
  <2>1. N \in 0 .. N
    BY <1>2
  <2>2. Laid(up, fields, N)
    BY <1>1, <2>1, AllLaid
  <2>3. bytes = up[N] /\ bytes \in Seq(AnyByte(Names))
    BY <1>1, <2>1 DEF PackedBy
  <2> QED
    BY <2>2, <2>3 DEF Laid
<1>4. ~ TooShort(bytes, w)
  <2>1. end[N] \in Nat
    BY <1>2
  <2> QED
    BY <1>2, <1>3, <2>1 DEF TooShort
<1>5. ASSUME NEW i \in 1 .. N
      PROVE  SubSeq(bytes, end[i - 1] + 1, end[i]) = BytesOf(fields[i])
  <2> DEFINE part == SubSeq(bytes, end[i - 1] + 1, end[i])
             m == fields[i].bytes
  <2>1. /\ i - 1 \in 0 .. N /\ i \in 0 .. N /\ end[i - 1] \in Nat /\ end[i] \in Nat
        /\ end[N] \in Nat /\ end[i] = end[i - 1] + m /\ end[i] <= end[N] /\ m \in Nat
    <3> HIDE DEF N, end, bytes
    <3>1. i - 1 \in 0 .. N /\ i \in 0 .. N /\ N \in 0 .. N
      BY <1>2
    <3> QED
      BY <1>2, <1>3, <3>1
  <2>2. \A k \in end[i - 1] + 1 .. end[i] : bytes[k] \in AnyByte(Names)
    <3>1. \A k \in end[i - 1] + 1 .. end[i] : k \in 1 .. Len(bytes)
      BY <1>3, <2>1
    <3> QED
      BY <1>3, <3>1, ElementOfSeq
  <2> HIDE DEF end, bytes, m
  <2>3. /\ part \in Seq(AnyByte(Names))
        /\ Len(part) = IF end[i - 1] + 1 <= end[i] THEN end[i] - (end[i - 1] + 1) + 1 ELSE 0
        /\ \A b \in 1 .. end[i] - (end[i - 1] + 1) + 1 :
             part[b] = bytes[end[i - 1] + 1 + b - 1]
    <3> DEFINE first == end[i - 1] + 1
               last == end[i]
    <3>1. first \in Int /\ last \in Int /\ \A k \in first .. last : bytes[k] \in AnyByte(Names)
      BY <2>1, <2>2
    <3> HIDE DEF first, last
    <3>2. /\ SubSeq(bytes, first, last) \in Seq(AnyByte(Names))
          /\ Len(SubSeq(bytes, first, last)) = IF first <= last THEN last - first + 1 ELSE 0
          /\ \A b \in 1 .. last - first + 1 : SubSeq(bytes, first, last)[b] = bytes[first + b - 1]
      BY <3>1, SubSeqProperties
    <3> QED
      BY <3>2 DEF first, last
  <2>4. /\ BytesOf(fields[i]) \in Seq(AnyByte(Names)) /\ Len(BytesOf(fields[i])) = m
        /\ \A b \in 1 .. m : BytesOf(fields[i])[b] = <<fields[i].name, b>>
    BY <1>2, BytesOfField DEF m
  <2> HIDE DEF part
  <2>5. Len(part) = m
    BY <2>1, <2>3
  <2>6. \A b \in 1 .. m : part[b] = <<fields[i].name, b>>
    <3> SUFFICES ASSUME NEW b \in 1 .. m PROVE part[b] = <<fields[i].name, b>>
      OBVIOUS
    <3>1. b \in 1 .. end[i] - (end[i - 1] + 1) + 1 /\ end[i - 1] + 1 + b - 1 = end[i - 1] + b
      BY <2>1
    <3>2. bytes[end[i - 1] + b] = <<fields[i].name, b>>
      BY <1>3 DEF m
    <3> QED
      BY <2>3, <3>1, <3>2
  <2>7. \A b \in 1 .. Len(part) : part[b] = BytesOf(fields[i])[b]
    BY <2>4, <2>5, <2>6
  <2>8. part = BytesOf(fields[i])
    BY <2>3, <2>4, <2>5, <2>7, SeqEqual
  <2> QED
    BY <2>8 DEF part
<1>6. Expanded(bytes, w) = [i \in 1 .. N |-> SubSeq(bytes, end[i - 1] + 1, end[i])]
  BY <1>2 DEF Expanded
<1> QED
  BY <1>4, <1>5, <1>6

----------------------------------------------------------------------------
(* What Parent-MONOSTICK makes of the payloads.                            *)

\* It knows the widths of five kinds, and they are those of the fields.
LEMMA WidthsAgree ==
  ASSUME NEW k \in DOMAIN Widths
  PROVE  /\ k \in ActKinds /\ \E Names : Fields[k] \in Seq(AnyField(Names))
         /\ Widths[k] = WidthsOf(Fields[k])
<1> DEFINE Names == {"tick_ms", "work_ct", "DI", "VCC", "AI1", "AI2", "AI3", "AI4",
                     "luminance", "temp", "humid", "north", "south"}
           F == AnyField(Names)
<1>1. \A n \in Names, w \in Nat : Field(n, w) \in F /\ Field(n, w).bytes = w
  BY DEF Field, AnyField
<1>2. ASSUME NEW fields \in Seq(F), Fields[k] = fields, k \in ActKinds,
             Widths[k] = WidthsOf(fields)
      PROVE  /\ k \in ActKinds /\ \E Any : Fields[k] \in Seq(AnyField(Any))
             /\ Widths[k] = WidthsOf(Fields[k])
  BY <1>2
<1>3. k \in {"TXSP", "BAT1", "PAB1", "PAB2", "PMG1"}
  BY DEF Widths
<1>4. CASE k = "TXSP"
  <2>1. Fields[k] = SwtFields /\ Widths[k] = <<4, 2>> /\ k \in ActKinds
    BY <1>4 DEF ActKinds, Fields, Widths
  <2>2. /\ Field("tick_ms", 4) \in F /\ Field("work_ct", 2) \in F
    BY <1>1
  <2>3. SwtFields \in Seq(F) /\ Len(SwtFields) = 2
    <3> HIDE DEF F
    <3> QED
      BY <2>2 DEF SwtFields
  <2>4. /\ SwtFields[1].bytes = 4 /\ SwtFields[2].bytes = 2
    BY DEF SwtFields, Field
  <2>5. WidthsOf(SwtFields) = <<4, 2>>
    BY <2>3, <2>4 DEF WidthsOf
  <2> QED
    BY <1>2, <2>1, <2>3, <2>5
<1>5. CASE k = "BAT1"
  <2>1. Fields[k] = PortFields /\ Widths[k] = <<1, 2, 2, 2, 2, 2>> /\ k \in ActKinds
    BY <1>5 DEF ActKinds, Fields, Widths
  <2>2. /\ Field("DI", 1) \in F /\ Field("VCC", 2) \in F /\ Field("AI1", 2) \in F
        /\ Field("AI2", 2) \in F /\ Field("AI3", 2) \in F /\ Field("AI4", 2) \in F
    BY <1>1
  <2>3. PortFields \in Seq(F) /\ Len(PortFields) = 6
    <3> HIDE DEF F
    <3> QED
      BY <2>2 DEF PortFields
  <2>4. /\ PortFields[1].bytes = 1 /\ PortFields[2].bytes = 2
        /\ PortFields[3].bytes = 2 /\ PortFields[4].bytes = 2
        /\ PortFields[5].bytes = 2 /\ PortFields[6].bytes = 2
    BY DEF PortFields, Field
  <2>5. WidthsOf(PortFields) = <<1, 2, 2, 2, 2, 2>>
    BY <2>3, <2>4 DEF WidthsOf
  <2> QED
    BY <1>2, <2>1, <2>3, <2>5
<1>6. CASE k \in {"PAB1", "PAB2"}
  <2>1. Fields[k] = AmbFields /\ Widths[k] = <<4, 2, 2>> /\ k \in ActKinds
    BY <1>6 DEF ActKinds, Fields, Widths
  <2>2. /\ Field("luminance", 4) \in F /\ Field("temp", 2) \in F /\ Field("humid", 2) \in F
    BY <1>1
  <2>3. AmbFields \in Seq(F) /\ Len(AmbFields) = 3
    <3> HIDE DEF F
    <3> QED
      BY <2>2 DEF AmbFields
  <2>4. /\ AmbFields[1].bytes = 4 /\ AmbFields[2].bytes = 2
        /\ AmbFields[3].bytes = 2
    BY DEF AmbFields, Field
  <2>5. WidthsOf(AmbFields) = <<4, 2, 2>>
    BY <2>3, <2>4 DEF WidthsOf
  <2> QED
    BY <1>2, <2>1, <2>3, <2>5
<1>7. CASE k = "PMG1"
  <2>1. Fields[k] = MagFields /\ Widths[k] = <<1, 1>> /\ k \in ActKinds
    BY <1>7 DEF ActKinds, Fields, Widths
  <2>2. /\ Field("north", 1) \in F /\ Field("south", 1) \in F
    BY <1>1
  <2>3. MagFields \in Seq(F) /\ Len(MagFields) = 2
    <3> HIDE DEF F
    <3> QED
      BY <2>2 DEF MagFields
  <2>4. /\ MagFields[1].bytes = 1 /\ MagFields[2].bytes = 1
    BY DEF MagFields, Field
  <2>5. WidthsOf(MagFields) = <<1, 1>>
    BY <2>3, <2>4 DEF WidthsOf
  <2> QED
    BY <1>2, <2>1, <2>3, <2>5
<1> QED
  BY <1>3, <1>4, <1>5, <1>6, <1>7

\* A payload that its act packed is shown as what was packed.
LEMMA PackedIsShown ==
  ASSUME NEW p, p.kind \in ActKinds => p.body = Packed(Fields[p.kind]),
         display' = AnalyzePayload(p)
  PROVE  ParentUnderstands'
<1>1. CASE p.kind \notin DOMAIN Widths
  <2>1. display'.how = "not analyzed"
    BY <1>1 DEF AnalyzePayload, Display
  <2> QED
    BY <2>1 DEF ParentUnderstands
<1>2. CASE p.kind \in DOMAIN Widths
  <2> DEFINE fields == Fields[p.kind]
  <2>1. PICK Names : /\ fields \in Seq(AnyField(Names))
                     /\ Widths[p.kind] = WidthsOf(fields) /\ p.body = Packed(fields)
    BY <1>2, WidthsAgree
  <2>2. DOMAIN fields = 1 .. Len(fields)
    BY <2>1, LenProperties
  <2> HIDE DEF fields
  <2>3. /\ ~ TooShort(p.body, Widths[p.kind])
        /\ Expanded(p.body, Widths[p.kind]) = [i \in DOMAIN fields |-> BytesOf(fields[i])]
    BY <2>1, <2>2, ExpandedAsPacked
  <2>4. display' = [kind |-> p.kind, how |-> "values",
                    values |-> [i \in DOMAIN fields |-> BytesOf(fields[i])]]
    BY <1>2, <2>3 DEF AnalyzePayload, Display
  <2> QED
    BY <2>4 DEF ParentUnderstands, fields
<1> QED
  BY <1>1, <1>2

\* What is on its way as a sample's packet.
AsPacked(p) == p.kind \in ActKinds => p.body = Packed(Fields[p.kind])

\* A packet that somebody has heard, or nobody will, is still as it was packed.
LEMMA PastAsPacked ==
  ASSUME \A q \in wave : AsPacked(q), NEW p \in wave, NEW m
  PROVE  \A q \in Past(p, m) : AsPacked(q)
BY DEF Past, OnAir, AsPacked

\* Who sends, sends what its act packs.
LEMMA SendAsPacked ==
  ASSUME NEW before, \A q \in before : AsPacked(q), NEW kind, NEW n, NEW to, NEW body,
         kind \in ActKinds => body = Packed(Fields[kind]),
         Send(before, kind, n, to, body)
  PROVE  \A q \in wave' : AsPacked(q)
BY DEF Send, OnAir, AsPacked

\* Nothing but the channel matters to PackedInv.
LEMMA PackedFrame == PackedInv /\ UNCHANGED chanVars => PackedInv'
BY DEF PackedInv, ParentUnderstands, chanVars

\* Every step on the channel keeps PackedInv.
LEMMA PackedKeeps == PackedInv /\ TalkNext => PackedInv'
<1> SUFFICES ASSUME PackedInv, NEW n \in Nodes,
                    Ping(n) \/ TypeLine(n) \/ Report(n) \/ Hear(n) \/ Lose(n)
             PROVE  PackedInv'
  BY DEF TalkNext
<1>1. ParentUnderstands /\ \A q \in wave : AsPacked(q)
  BY DEF PackedInv, AsPacked
<1>2. "PING" \notin ActKinds /\ "PONG" \notin ActKinds /\ "WURT" \notin ActKinds
  BY DEF ActKinds, Fields
<1>3. ASSUME \A q \in wave' : AsPacked(q), ParentUnderstands'
      PROVE  PackedInv'
  BY <1>3 DEF PackedInv, AsPacked
<1>4. ASSUME UNCHANGED display PROVE ParentUnderstands'
  BY <1>1, <1>4 DEF ParentUnderstands
<1>5. CASE Ping(n)
  BY <1>1, <1>2, <1>3, <1>4, <1>5, SendAsPacked DEF Ping
<1>6. CASE TypeLine(n)
  BY <1>1, <1>2, <1>3, <1>4, <1>6, SendAsPacked DEF TypeLine
<1>7. CASE Report(n)
  BY <1>1, <1>3, <1>4, <1>7, SendAsPacked DEF Report
<1>8. CASE Lose(n)
  BY <1>1, <1>3, <1>4, <1>8, PastAsPacked DEF Lose
<1>9. CASE Hear(n)
  <2>1. PICK p \in wave :
          PingPongHear(n, p) \/ WirelessUartHear(n, p) \/ ParentHear(n, p)
    BY <1>9 DEF Hear
  <2>2. \A q \in Past(p, n) : AsPacked(q)
    BY <1>1, PastAsPacked
  <2>3. CASE PingPongHear(n, p)
    BY <1>2, <1>3, <1>4, <2>2, <2>3, SendAsPacked DEF PingPongHear
  <2>4. CASE WirelessUartHear(n, p)
    BY <1>3, <1>4, <2>2, <2>4 DEF WirelessUartHear
  <2>5. CASE ParentHear(n, p)
    <3>1. AsPacked(p) /\ display' = AnalyzePayload(p) /\ wave' = Past(p, n)
      BY <1>1, <2>5 DEF ParentHear
    <3>2. ParentUnderstands'
      BY <3>1, PackedIsShown DEF AsPacked
    <3> QED
      BY <1>3, <2>2, <3>1, <3>2
  <2> QED
    BY <2>1, <2>3, <2>4, <2>5
<1> QED
  BY <1>5, <1>6, <1>7, <1>8, <1>9

----------------------------------------------------------------------------
(* All of them.                                                            *)

PlainInv ==
  /\ act \in PlainOnes
  /\ BusyInv /\ PulsesOnce /\ PortInv /\ CueInv /\ BhvParentInv
  /\ TalkInv /\ PackedInv

LEMMA PlainInitInv == PlainInit => PlainInv
<1> SUFFICES ASSUME PlainInit PROVE PlainInv
  OBVIOUS
<1>1. BusyInv
  <2>1. 0 \in Ids /\ 0 \in 0 .. COUNT_MOD - 1
    BY BusyAssumption, PulseAssumption
  <2>2. BusyTypeOK
    BY <2>1 DEF PlainInit, BusyInit, PulseInit, BusyTypeOK
  <2>3. QED
    BY <2>2 DEF PlainInit, BusyInit, BusyInv
<1>2. PulsesOnce
  BY PulseAssumption, ModZero DEF PlainInit, PulseInit, PulsesOnce, Counted
<1>3. PortInv
  <2>1. PortTypeOK
    BY PortAssumption DEF PlainInit, PortInit, PortTypeOK
  <2>2. QED
    BY <2>1, PortAssumption DEF PlainInit, PortInit, PortInv
<1>4. CueInv
  BY DEF PlainInit, CueInit, CueInv, CueTypeOK, Poles
<1>5. BhvParentInv
  <2>1. BhvParentTypeOK
    BY BhvParentAssumption DEF PlainInit, BhvParentInit, BhvParentTypeOK
  <2>2. QED
    BY <2>1 DEF PlainInit, BhvParentInit, BhvParentInv
<1>6. TalkInv
  <2>1. 0 \in 0 .. MAX_INPUT
    BY ChannelAssumption
  <2>2. wave = {} /\ inputs = 0 /\ typed = {} /\ printed = {}
    BY DEF PlainInit, TalkInit
  <2>3. QED
    BY <2>1, <2>2 DEF TalkInv, TalkTypeOK, LinesTrue
<1>7. PackedInv
  BY DEF PlainInit, TalkInit, PackedInv, ParentUnderstands, Display
<1>8. QED
  BY <1>1, <1>2, <1>3, <1>4, <1>5, <1>6, <1>7 DEF PlainInit, PlainInv

LEMMA PlainNextInv == PlainInv /\ [PlainNext]_plainVars => PlainInv'
<1> SUFFICES ASSUME PlainInv, [PlainNext]_plainVars PROVE PlainInv'
  OBVIOUS
<1> USE BusyFrame, CountsFrame, PortFrame, CueFrame, BhvParentFrame, TalkFrame,
        PackedFrame
<1>1. CASE UNCHANGED plainVars
  BY <1>1 DEF PlainInv, plainVars, allBusyVars
<1>2. CASE UNCHANGED act /\ BusyPart
  BY <1>2, BusyKeeps, CountsKeep DEF PlainInv, BusyPart
<1>3. CASE UNCHANGED act /\ PortPart
  BY <1>3, PortKeeps DEF PlainInv, PortPart, allBusyVars
<1>4. CASE UNCHANGED act /\ CuePart
  BY <1>4, CueKeeps DEF PlainInv, CuePart, allBusyVars
<1>5. CASE UNCHANGED act /\ BhvParentPart
  BY <1>5, BhvParentKeeps DEF PlainInv, BhvParentPart, allBusyVars
<1>6. CASE UNCHANGED act /\ ChannelPart
  BY <1>6, TalkKeeps, PackedKeeps DEF PlainInv, ChannelPart, allBusyVars
<1>7. QED
  BY <1>1, <1>2, <1>3, <1>4, <1>5, <1>6 DEF PlainNext

LEMMA Invariance == PlainSpec => []PlainInv
BY PlainInitInv, PlainNextInv, PTL DEF PlainSpec

----------------------------------------------------------------------------
(* The theorems.                                                           *)

\* The types of all acts, for every value of the constants.
THEOREM TypeCorrect == PlainSpec => []PlainTypeOK
<1>1. PlainInv => PlainTypeOK
  BY DEF PlainInv, BusyInv, PortInv, CueInv, BhvParentInv, TalkInv, PlainTypeOK
<1>2. QED
  BY <1>1, Invariance, PTL

\* Scratch, Setting and PulseCounter never have two requests, nor one that their flag
\* does not show, however many ids there are.
THEOREM OneRequestAtATime == PlainSpec => []FlagGuards
<1>1. PlainInv => FlagGuards
  BY DEF PlainInv, BusyInv, FlagGuards
<1>2. QED
  BY <1>1, Invariance, PTL

\* PulseCounter never reports a pulse twice, whatever its counter's width and
\* reference value.
THEOREM NoPulseTwice == PlainSpec => []PulsesOnce
<1>1. PlainInv => PulsesOnce
  BY DEF PlainInv
<1>2. QED
  BY <1>1, Invariance, PTL

\* For every period and life of a packet: an old copy cannot put the outputs of
\* BRD_APPTWELITE back once a packet has come that was sent late enough.
THEOREM OldCopiesAreHarmless == PlainSpec => []OutputsAgree
<1>1. PlainInv => OutputsAgree
  <2> SUFFICES ASSUME PlainInv, heard + LIFE < stable PROVE Agrees
    BY DEF OutputsAgree
  <2>1. shown < stable
    BY PortAssumption DEF PlainInv, PortInv, PortTypeOK
  <2>2. QED
    BY <2>1 DEF PlainInv, PortInv
<1>2. QED
  BY <1>1, Invariance, PTL

\* The buzzer of Unit_Cue_MagBuz is silent without a magnet only when an edge was
\* missed on the way to the sleep.
THEOREM AlarmIsSilentForOneReason == PlainSpec => []SilentOnlyIfMissed
<1>1. PlainInv => SilentOnlyIfMissed
  BY DEF PlainInv, CueInv, SilentOnlyIfMissed
<1>2. QED
  BY <1>1, Invariance, PTL

\* STATE_3 of the parent of PAL_AMB-bhv ends within a second of its time-out, for every
\* time-out and debouncing time.
THEOREM TimeoutIsKept == PlainSpec => []State3Ends
<1>1. PlainInv => State3Ends
  <2> SUFFICES ASSUME PlainInv, state = 3 PROVE elapsed < STATE3_MS + SECOND
    BY DEF State3Ends
  <2>1. elapsed + second <= STATE3_MS + SECOND /\ BhvParentTypeOK
    BY DEF PlainInv, BhvParentInv
  <2>2. QED
    BY <2>1, BhvParentFacts
<1>2. QED
  BY <1>1, Invariance, PTL

\* With any number of nodes, of any acts and logical ids, on one channel: what a
\* WirelessUart node prints was typed for it.
THEOREM PrintedLinesWereTyped == PlainSpec => []LinesTrue
<1>1. PlainInv => LinesTrue
  BY DEF PlainInv, TalkInv
<1>2. QED
  BY <1>1, Invariance, PTL

\* Whatever else is on the channel: Parent-MONOSTICK shows of each sample the values that
\* were packed, and takes none for broken.
THEOREM ValuesAreThoseSent == PlainSpec => []ParentUnderstands
<1>1. PlainInv => ParentUnderstands
  BY DEF PlainInv, PackedInv
<1>2. QED
  BY <1>1, Invariance, PTL
=============================================================================
