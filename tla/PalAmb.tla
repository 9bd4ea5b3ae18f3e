------------------------------- MODULE PalAmb -------------------------------
(***************************************************************************)
(* PAL_AMB: wakes every two seconds, measures temperature, humidity and    *)
(* luminance, awaiting both sensors without a time-out, and reports them.  *)
(***************************************************************************)
EXTENDS MwxNode

AmbSetup == Booting("PAL_AMB") /\ (OpenSettings("loop") \/ Started("loop"))

AmbWakeup == Woken("PAL_AMB", {{"timer"}}) /\ UNCHANGED data

AmbLoop ==
  \/ In("PAL_AMB", "INTERACTIVE")  /\ Stay
  \/ In("PAL_AMB", "INIT")         /\ StartSensors
  \/ In("PAL_AMB", "SENSOR")       /\ PollSensors
  \/ In("PAL_AMB", "TX")           /\ (Request("TX_WAIT_COMP") \/ NoRequest("GO_SLEEP"))
  \/ In("PAL_AMB", "TX_WAIT_COMP") /\ AwaitCompletion
  \/ In("PAL_AMB", "GO_SLEEP")     /\ SleepNow
=============================================================================
