------------------------------ MODULE CueMagBuz -----------------------------
(***************************************************************************)
(* Unit_Cue_MagBuz: a buzzer sounds while the magnet is away. Each of two  *)
(* pins is LOW near one pole. With a magnet near, the node sleeps, until a *)
(* rising edge at one of the pins, or the timer, wakes it.                 *)
(*                                                                         *)
(* Going to sleep is not one step: loop() tests the pins, then the edges   *)
(* are set up, then the node sleeps, and the magnet may move in between.   *)
(* Whether such an edge is noticed depends on the hardware: both happen.   *)
(***************************************************************************)
EXTENDS Integers

VARIABLES
  pole,    \* the pole near the sensor: "none", "N" or "S"
  cue,     \* "boot", "awake", "leaving": between test and sleep, or "asleep"
  bOn,     \* b_on: beeping
  buzzer,  \* the level of PIN_BUZ; it draws no current at HIGH
  armed,   \* the pins whose rising edge wakes the node
  edge,    \* the pins with an edge since
  missed   \* history: an edge was not noticed on the way to this sleep

cueVars == <<pole, cue, bOn, buzzer, armed, edge, missed>>

Poles == {"N", "S"}   \* PIN_SNS_OUT1 and PIN_SNS_OUT2

CueInit ==
  /\ pole \in Poles \cup {"none"}
  /\ cue = "boot" /\ bOn = FALSE /\ buzzer = "HIGH"
  /\ armed = {} /\ edge = {} /\ missed = FALSE

\* setup(): the edges of both pins, the buzzer's pin.
CueSetup ==
  /\ cue = "boot" /\ cue' = "awake"
  /\ armed' = Poles /\ buzzer' = "HIGH"
  /\ UNCHANGED <<pole, bOn, edge, missed>>

\* The magnet comes, goes or is turned round: the pin of the pole that leaves rises.
MoveMagnet ==
  /\ cue # "boot"
  /\ \E p \in (Poles \cup {"none"}) \ {pole} : pole' = p
  /\ LET rising == {pole} \cap armed IN
       IF cue = "asleep" THEN edge' = edge \cup rising /\ UNCHANGED missed
       ELSE IF cue = "leaving"
       THEN \/ edge' = edge \cup rising /\ UNCHANGED missed
            \/ missed' = TRUE /\ UNCHANGED edge
       ELSE UNCHANGED <<edge, missed>>
  /\ UNCHANGED <<cue, bOn, buzzer, armed>>

\* loop() for the TickTimer: 500 Hz while beeping.
CueTick ==
  /\ cue = "awake" /\ bOn
  /\ buzzer' \in {"HIGH", "LOW"} \ {buzzer}
  /\ UNCHANGED <<pole, cue, bOn, armed, edge, missed>>

\* go_sleeping(), up to the edges.
GoSleeping == cue' = "leaving" /\ buzzer' = "HIGH"

\* loop() for Timer1: the beeping goes on or off, then the pins are tested.
CueTimer1 ==
  /\ cue = "awake"
  /\ bOn' = ~ bOn
  /\ IF pole \in Poles THEN GoSleeping ELSE UNCHANGED <<cue, buzzer>>
  /\ UNCHANGED <<pole, armed, edge, missed>>

\* Mutant: one pin is forgotten.
ArmedPinsOne == {"N"}

\* pinMode(.., WAKE_RISING).
ArmedPins == Poles

\* go_sleeping(), the rest.
CueSleep ==
  /\ cue = "leaving" /\ cue' = "asleep"
  /\ armed' = ArmedPins
  /\ UNCHANGED <<pole, bOn, buzzer, edge, missed>>

\* An edge wakes the node: wakeup() leaves it to loop().
CueWakeByEdge ==
  /\ cue = "asleep" /\ edge # {}
  /\ cue' = "awake" /\ edge' = {} /\ missed' = FALSE
  /\ UNCHANGED <<pole, bOn, buzzer, armed>>

\* The timer wakes it, after 30 s: wakeup() does not look at the pins.
CueWakeByTimer ==
  /\ cue = "asleep" /\ edge = {}
  /\ GoSleeping
  /\ UNCHANGED <<pole, bOn, armed, edge, missed>>

CueNext ==
  \/ CueSetup \/ MoveMagnet \/ CueTick \/ CueTimer1
  \/ CueSleep \/ CueWakeByEdge \/ CueWakeByTimer

----------------------------------------------------------------------------
\* Properties.

CueTypeOK ==
  /\ pole \in Poles \cup {"none"}
  /\ cue \in {"boot", "awake", "leaving", "asleep"}
  /\ bOn \in BOOLEAN /\ buzzer \in {"HIGH", "LOW"}
  /\ armed \subseteq Poles /\ edge \subseteq Poles /\ missed \in BOOLEAN

\* "Sounds buzzer when magnet is not present": a node that sleeps without a magnet
\* is about to be woken, unless its edge came between the test of the pins and
\* the sleep; no other order of events silences the buzzer.
SilentOnlyIfMissed ==
  cue = "asleep" /\ pole = "none" => edge # {} \/ missed

\* The inductive invariant behind SilentOnlyIfMissed.
CueInv ==
  /\ CueTypeOK
  /\ cue # "boot" => armed = Poles
  /\ cue \in {"leaving", "asleep"} /\ pole = "none" => edge # {} \/ missed
=============================================================================
