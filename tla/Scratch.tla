------------------------------- MODULE Scratch ------------------------------
(***************************************************************************)
(* Scratch: 't' on the serial port sends a packet unless one is under way, *)
(* 's' puts the node to sleep, at any time. Keys 'p' and others, buttons   *)
(* and received packets are only printed.                                  *)
(***************************************************************************)
EXTENDS BusyNode

ScratchSetup == Booted("Scratch")

\* Mutant: 't' does not look at tx_busy.
KeyTAlways == Requested \/ NotRequested

\* 't', in Scratch and in Setting.
KeyT ==
  \/ busy /\ NotRequested
  \/ ~ busy /\ (Requested \/ NotRequested)

ScratchSend ==
  /\ Running("Scratch") /\ KeyT
  /\ UNCHANGED <<run, lost>>

\* 's'. tx_busy keeps its value.
ScratchSleep ==
  /\ Running("Scratch") /\ FallAsleep
  /\ UNCHANGED <<busy, txid, next, done>>

ScratchWakeup == Woken("Scratch")

\* on_tx_comp() clears the flag whatever the id; MWX keeps no completion for later.
ScratchTxComp ==
  /\ Running("Scratch")
  /\ \E id \in under : under' = under \ {id}
  /\ busy' = FALSE
  /\ UNCHANGED <<run, txid, next, done, lost>>

ScratchNext ==
  ScratchSetup \/ ScratchSend \/ ScratchSleep \/ ScratchWakeup \/ ScratchTxComp
=============================================================================
