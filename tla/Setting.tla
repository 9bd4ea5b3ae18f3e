------------------------------- MODULE Setting ------------------------------
(***************************************************************************)
(* Setting: the keys of Scratch in an act that asks for the completion at  *)
(* the end of loop(), after the keys, instead of being called back. What   *)
(* its settings contain is not modelled.                                   *)
(***************************************************************************)
EXTENDS BusyNode

SettingSetup == Booted("Setting")

\* loop() in which 't' makes a request: it has no completion yet.
SettingSend ==
  /\ Running("Setting") /\ ~ busy /\ Requested
  /\ UNCHANGED <<run, lost>>

\* loop() in which the request is seen to be completed; a 't' in front of that has
\* been refused.
SettingPoll ==
  /\ Running("Setting") /\ IsComplete /\ Cleared
  /\ UNCHANGED <<run, txid, next, under, lost>>

\* loop() with 's': the completion is not asked for.
SettingSleep ==
  /\ Running("Setting") /\ FallAsleep
  /\ UNCHANGED <<busy, txid, next, done>>

SettingWakeup == Woken("Setting")

SettingTxComp == Completed("Setting")

SettingNext ==
  \/ SettingSetup \/ SettingSend \/ SettingPoll
  \/ SettingSleep \/ SettingWakeup \/ SettingTxComp
=============================================================================
