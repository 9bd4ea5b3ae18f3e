------------------------------ MODULE PalAmbNap -----------------------------
(***************************************************************************)
(* PAL_AMB-usenap: as PAL_AMB, but the node sleeps while its sensors       *)
(* measure. The state machine is resumed after this nap; sensors that are  *)
(* not available then reset the node.                                      *)
(***************************************************************************)
EXTENDS MwxNode

NapSetup == Booting("PAL_AMB-usenap") /\ (OpenSettings("begin") \/ Started("begin"))

\* begin(): is_screen_opened() holds after open_at_start().
NapBegin ==
  /\ act = "PAL_AMB-usenap" /\ run = "begin"
  /\ \/ st = "INTERACTIVE" /\ Stay
     \/ st # "INTERACTIVE" /\ SleepNow

\* sleepNow() of the previous period.
NapWakeup == Woken("PAL_AMB-usenap", {{"timer"}}) /\ UNCHANGED data

\* wakeup() finds the state machine resumed, and starts the MAC layer.
NapResume == Resumed("PAL_AMB-usenap", {{"timer"}})

\* The sensors are told that the node woke up, and must be available.
NapSensor ==
  \/ sns = "ready" /\ PollSensors
  \/ sns # "ready" /\ ResetSystem

NapLoop ==
  \/ In("PAL_AMB-usenap", "INTERACTIVE")  /\ Stay
  \/ In("PAL_AMB-usenap", "INIT")         /\ NapNow
  \/ In("PAL_AMB-usenap", "NAP")          /\ GoTo("SENSOR") /\ UNCHANGED Rest
  \/ In("PAL_AMB-usenap", "SENSOR")       /\ NapSensor
  \/ In("PAL_AMB-usenap", "TX")           /\ (Request("TX_WAIT_COMP") \/ NoRequest("GO_SLEEP"))
  \/ In("PAL_AMB-usenap", "TX_WAIT_COMP") /\ AwaitCompletion
  \/ In("PAL_AMB-usenap", "GO_SLEEP")     /\ SleepNow
=============================================================================
