----------------------------- MODULE DutyCycle ------------------------------
(***************************************************************************)
(* What a battery powered sensor act promises, whatever board it is        *)
(* written for: in every period it measures, reports what it measured with *)
(* at most one packet, and switches itself off only when its radio has     *)
(* nothing left to do. A restart may cut a period short at any time.       *)
(***************************************************************************)
EXTENDS Naturals

CONSTANTS
  ACTS,        \* the firmwares
  UNCHECKED    \* those that report without looking at the sensor's answer

VARIABLES
  act,     \* the firmware of the node
  phase,   \* "on" or "off": asleep
  data,    \* what the values to report are in this period: "old" or "new"
  sent,    \* packets of this period
  radio    \* "quiet" or "busy" with a packet

vars == <<act, phase, data, sent, radio>>

Init ==
  /\ act \in ACTS
  /\ phase = "on" /\ data = "old" /\ sent = 0 /\ radio = "quiet"

SwitchOn ==
  /\ phase = "off" /\ phase' = "on"
  /\ UNCHANGED <<data, sent, radio>>

Measure ==
  /\ phase = "on" /\ sent = 0 /\ radio = "quiet"
  /\ data' = "new"
  /\ UNCHANGED <<phase, sent, radio>>

Transmit ==
  /\ phase = "on" /\ sent = 0 /\ radio = "quiet"
  /\ data = "new" \/ act \in UNCHECKED
  /\ sent' = 1 /\ radio' = "busy"
  /\ UNCHANGED <<phase, data>>

Complete ==
  /\ phase = "on" /\ radio = "busy" /\ radio' = "quiet"
  /\ UNCHANGED <<phase, data, sent>>

SwitchOff ==
  /\ phase = "on" /\ radio = "quiet"
  /\ phase' = "off" /\ data' = "old" /\ sent' = 0
  /\ UNCHANGED radio

Restart ==
  /\ phase = "on"
  /\ data' = "old" /\ sent' = 0 /\ radio' = "quiet"
  /\ UNCHANGED phase

Next ==
  /\ UNCHANGED act
  /\ SwitchOn \/ Measure \/ Transmit \/ Complete \/ SwitchOff \/ Restart

Spec == Init /\ [][Next]_vars
=============================================================================
