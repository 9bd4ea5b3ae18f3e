---------------------------- MODULE BrdAppTwelite ---------------------------
(***************************************************************************)
(* BRD_APPTWELITE: two nodes, a parent and a child, that show each other's *)
(* inputs at their outputs. What a node receives changes its outputs only, *)
(* and what it sends depends on its inputs only, so that the two           *)
(* directions have no state in common: this is one of them, from the       *)
(* inputs of a node to the outputs of the other.                           *)
(*                                                                         *)
(* A packet is sent twice, after a random delay: its copies may be lost,   *)
(* come twice, and overtake those of an earlier packet. Time is counted in *)
(* ticks of Timer0.                                                        *)
(***************************************************************************)
EXTENDS Integers, FiniteSets

CONSTANTS
  DIs,      \* what four digital inputs can be
  AIs,      \* what read_raw() gives for an analogue input
  PERIOD,   \* ticks between two packets without a change of DI: 32
  CT_MOD,   \* u16ct, which is a uint8_t, counts modulo 2^8
  LIFE,     \* ticks from a packet to its last copy: tx_packet_delay(0,50,10)
  AIR_MAX,  \* packets that can be on their way
  HORIZON   \* the ages of the history variables are counted up to here

ASSUME PortAssumption ==
  /\ PERIOD \in Nat \ {0} /\ LIFE \in Nat /\ AIR_MAX \in Nat \ {0}
  /\ CT_MOD \in Nat \ {0} /\ CT_MOD % PERIOD = 0
  /\ HORIZON \in Nat /\ HORIZON > PERIOD + LIFE
  /\ DIs \subseteq 0 .. 15 /\ AIs \subseteq 0 .. 1023

VARIABLES
  di,     \* u8DI_BM
  ai,     \* au16AI, the five of them as one
  ct,     \* u16ct
  air,    \* packets with a copy on its way: [di, ai, age]
  out,    \* the other node's outputs: digital, and the duty of its PWM
  shown,  \* history: the age of the packet the outputs are set from
  heard,  \* history: the age of the youngest packet that has come
  stable  \* history: ticks since di or ai changed

portVars == <<di, ai, ct, air, out, shown, heard, stable>>

\* What setup() puts into u8DI_BM and au16AI.
DI_NONE == 255
AI_NONE == 65535

\* Mutant: the first packet does not wait for the first capture.
CapturedAlways == TRUE

\* Both have been captured once.
Captured == di # DI_NONE /\ ai # AI_NONE

PortInit ==
  /\ di = DI_NONE /\ ai = AI_NONE /\ ct = 0 /\ air = {}
  /\ out = [di |-> DI_NONE, duty |-> 0]
  /\ shown = HORIZON /\ heard = HORIZON /\ stable = 0

Older(t) == IF t < HORIZON THEN t + 1 ELSE t

----------------------------------------------------------------------------
\* The sender.

\* transmit(): a packet with d and v, if prepare_tx_packet() gives one and the
\* radio takes it.
Transmit(before, d, v) ==
  \/ /\ Cardinality(before) < AIR_MAX
     /\ air' = before \cup {[di |-> d, ai |-> v, age |-> 0]}
  \/ air' = before

\* Buttons.available(): a change of the digital inputs, or their first capture, is
\* sent at once.
ButtonsAvailable ==
  /\ \E d \in DIs \ {di} : di' = d /\ Transmit(air, d, ai)
  /\ stable' = 0
  /\ UNCHANGED <<ai, ct, out, shown, heard>>

\* Analogue.available(): a new value waits for the next packet.
AnalogueAvailable ==
  /\ \E v \in AIs : ai' = v /\ stable' = IF v = ai THEN stable ELSE 0
  /\ UNCHANGED <<di, ct, air, out, shown, heard>>

\* A tick later; copies that have not come are not coming any more.
Aged(packets) == {[p EXCEPT !.age = @ + 1] : p \in {q \in packets : q.age < LIFE}}

\* Mutant: u16ct taken for the 16 bits of its name, and compared with 256.
DueNever(c) == c = CT_MOD

\* Every 32 ticks of Timer0.
Due(c) == c % PERIOD = 0

\* Timer0.available().
Timer0Available ==
  /\ ct' = (ct + 1) % CT_MOD
  /\ IF Captured /\ Due(ct') THEN Transmit(Aged(air), di, ai) ELSE air' = Aged(air)
  /\ shown' = Older(shown) /\ heard' = Older(heard) /\ stable' = Older(stable)
  /\ UNCHANGED <<di, ai, out>>

----------------------------------------------------------------------------
\* The receiver.

\* change_duty(): 1023, all of the input's range, is 1024, all of the PWM's.
Duty(v) == IF v = 1023 THEN 1024 ELSE v

Outputs(d, v) == [di |-> d, duty |-> Duty(v)]

\* Mutant: a packet with the digital inputs that are shown already is taken for a copy.
OnRxPacketIfChanged ==
  /\ \E p \in air :
       /\ out' = IF p.di = out.di THEN out ELSE Outputs(p.di, p.ai)
       /\ shown' = p.age
       /\ heard' = IF p.age < heard THEN p.age ELSE heard
  /\ UNCHANGED <<di, ai, ct, air, stable>>

\* on_rx_packet().
OnRxPacket ==
  /\ \E p \in air :
       /\ out' = Outputs(p.di, p.ai)
       /\ shown' = p.age
       /\ heard' = IF p.age < heard THEN p.age ELSE heard
  /\ UNCHANGED <<di, ai, ct, air, stable>>

PortNext == ButtonsAvailable \/ AnalogueAvailable \/ Timer0Available \/ OnRxPacket

\* Timer0 that puts a packet into the air.
Beat == Timer0Available /\ \E p \in air' : p.age = 0

----------------------------------------------------------------------------
\* Properties.

PortTypeOK ==
  /\ di \in DIs \cup {DI_NONE} /\ ai \in AIs \cup {AI_NONE}
  /\ ct \in 0 .. CT_MOD - 1
  /\ air \subseteq [di: DIs, ai: AIs \cup {AI_NONE}, age: 0 .. LIFE]
  /\ out \in [di: DIs \cup {DI_NONE}, duty: (0 .. 1024) \cup {AI_NONE}]
  /\ shown \in 0 .. HORIZON /\ heard \in 0 .. HORIZON /\ stable \in 0 .. HORIZON

Agrees == out = Outputs(di, ai)

\* Whatever was lost, doubled or overtaken: once a packet has come that was sent
\* more than LIFE ticks after the inputs changed for the last time, no copy of an
\* earlier one can put the outputs back.
OutputsAgree == heard + LIFE < stable => Agrees

\* If the inputs stay as they are, the outputs follow, by the periodic packet, even
\* when all that the change itself sent is lost.
OutputsFollow == Captured /\ stable = HORIZON ~> Agrees \/ stable < HORIZON

\* "set local PWM : duty is set 0..1024".
DutyInRange == out.duty \in 0 .. 1024

\* The inductive invariant behind OutputsAgree: what was sent after the last change
\* tells the inputs as they are, in the air and at the outputs, and the outputs are
\* not older than the youngest packet by more than a packet's life.
PortInv ==
  /\ PortTypeOK
  /\ \A p \in air : p.age < stable => p.di = di /\ p.ai = ai
  /\ shown < stable => Agrees
  /\ shown <= heard + LIFE
=============================================================================
