------------------------------ MODULE BusyActs ------------------------------
(***************************************************************************)
(* The acts that guard their radio with a flag, and their properties.      *)
(***************************************************************************)
EXTENDS Scratch, Setting, PulseCounter

BusyNext ==
  \/ (ScratchNext \/ SettingNext) /\ UNCHANGED pulseVars
  \/ PulseNext

\* What a processor does without a key.
BusyStep ==
  PulseStep \/ ScratchSetup \/ ScratchWakeup \/ SettingSetup \/ SettingWakeup

----------------------------------------------------------------------------
\* Properties.

Ids == 0 .. IDS - 1

BusyTypeOK ==
  /\ run \in {"boot", "begin", "awake", "asleep"}
  /\ busy \in BOOLEAN /\ lost \in BOOLEAN
  /\ txid \in Ids /\ next \in Ids /\ under \subseteq Ids /\ done \subseteq Ids
  /\ count \in 0 .. COUNT_MOD - 1
  /\ pulses \in Nat /\ reported \in Nat /\ dropped \in Nat

\* The radio never has two requests of one act, and none while the flag is clear,
\* over sleeping and waking, late completions and refused requests: so Scratch may
\* clear its flag for any completion, and PulseCounter never sleeps on a packet.
FlagGuards ==
  /\ \A i, j \in under : i = j
  /\ under # {} => busy
  /\ act = "PulseCounter" /\ run = "asleep" => under = {}

Counted == count + reported + dropped

\* Every pulse is in the counter, or in one packet, or in a count that was read for a
\* packet that did not come about, and none is in two of them. All that else can
\* happen to pulses is that the counter turns round before it is read.
PulsesOnce == Counted <= pulses /\ (pulses - Counted) % COUNT_MOD = 0

\* A flag that stays set for ever stays for a request the radio does not complete,
\* or has given up while the node slept; no act loses a completion by itself.
\* Only then is 't' refused for ever, or PulseCounter kept awake.
FlagStuckByRadio == <>[]busy => <>[](under # {} \/ lost)

\* The inductive invariant behind FlagGuards and, with it, PulsesOnce.
BusyInv ==
  /\ BusyTypeOK
  /\ under \subseteq {txid} /\ done \subseteq {txid} /\ under \cap done = {}
  /\ under # {} \/ done # {} => busy
  /\ run = "boot" \/ run = "begin" => under = {} /\ ~ busy
  /\ act = "PulseCounter" /\ run = "asleep" => ~ busy
=============================================================================
