---------------------------- MODULE PulseCounter ----------------------------
(***************************************************************************)
(* PulseCounter: a counter in hardware counts the pulses at a pin, awake   *)
(* or asleep; when it has reached its reference value the node wakes up,   *)
(* reads it, which resets it, and sends what it has read.                  *)
(***************************************************************************)
EXTENDS BusyNode

CONSTANTS
  REF,         \* the count that wakes the node: 100
  COUNT_MOD,   \* the counter has 16 bits
  MAX_PULSES   \* bound: the pulses of a behaviour

ASSUME PulseAssumption ==
  /\ REF \in Nat \ {0} /\ COUNT_MOD \in Nat /\ COUNT_MOD > REF /\ MAX_PULSES \in Nat

VARIABLES
  count,     \* the hardware counter
  pulses,    \* history: pulses at the pin
  reported,  \* history: the sum of the counts in the packets that were requested
  dropped    \* history: the sum of the counts read for a packet that was not

pulseVars == <<count, pulses, reported, dropped>>

PulseInit == count = 0 /\ pulses = 0 /\ reported = 0 /\ dropped = 0

\* A falling edge, once begin() has started the counter.
Pulse ==
  /\ act = "PulseCounter" /\ run \in {"awake", "asleep"} /\ pulses < MAX_PULSES
  /\ count' = (count + 1) % COUNT_MOD /\ pulses' = pulses + 1
  /\ UNCHANGED <<busyVars, reported, dropped>>

\* setup().
PulseSetup ==
  /\ act = "PulseCounter" /\ run = "boot" /\ run' = "begin"
  /\ UNCHANGED <<busy, txid, next, under, done, lost, pulseVars>>

\* begin() starts the counter and sleeps.
PulseBegin ==
  /\ act = "PulseCounter" /\ run = "begin" /\ FallAsleep
  /\ UNCHANGED <<busy, txid, next, done, pulseVars>>

\* The timer wakes the node, or the counter at its reference value. wakeup() goes to
\* sleep again when there is not enough to report.
PulseWakeup ==
  /\ act = "PulseCounter" /\ run = "asleep"
  /\ \/ count >= REF /\ run' = "awake" /\ UNCHANGED <<under, lost>>
     \/ count < REF /\ FallAsleep
  /\ UNCHANGED <<busy, txid, next, done, pulseVars>>

\* Mutant: read() leaves the counter as it is.
ReadWithoutReset == count' = count

\* PulseCounter.read().
ReadCounter == count' = 0

\* loop(), nothing being sent: the counter is read first, whatever comes of it. A
\* packet that is refused puts the node to sleep; one that is not prepared does
\* not, and the next loop() reads again.
PulseReport ==
  /\ Running("PulseCounter") /\ ~ busy /\ ReadCounter
  /\ \/ Requested /\ reported' = reported + count /\ UNCHANGED <<run, lost, dropped>>
     \/ /\ FallAsleep \/ UNCHANGED <<run, under, lost>>
        /\ dropped' = dropped + count
        /\ UNCHANGED <<busy, txid, next, done, reported>>
  /\ UNCHANGED pulses

\* loop(), waiting: there is no time-out.
PulseWait ==
  /\ Running("PulseCounter") /\ IsComplete /\ Cleared /\ FallAsleep
  /\ UNCHANGED <<txid, next, pulseVars>>

PulseTxComp == Completed("PulseCounter") /\ UNCHANGED pulseVars

\* What the processor does, and what happens to it.
PulseStep == PulseSetup \/ PulseBegin \/ PulseWakeup \/ PulseReport \/ PulseWait

PulseNext == PulseStep \/ Pulse \/ PulseTxComp
=============================================================================
