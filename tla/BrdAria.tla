------------------------------- MODULE BrdAria ------------------------------
(***************************************************************************)
(* BRD_ARIA: wakes every two seconds or for its magnet sensor, measures    *)
(* temperature and humidity, reads the magnet and reports them all.        *)
(***************************************************************************)
EXTENDS MwxNode

AriaSetup == Booting("BRD_ARIA") /\ (OpenSettings("loop") \/ Started("loop"))

\* wakeup() only prints the cause.
AriaWakeup ==
  Woken("BRD_ARIA", SUBSET {"timer", "dio"} \ {{}}) /\ UNCHANGED data

AriaLoop ==
  \/ In("BRD_ARIA", "INTERACTIVE")  /\ Stay
  \/ In("BRD_ARIA", "INIT")         /\ StartSensors
  \/ In("BRD_ARIA", "SENSOR")       /\ PollSensors
  \/ In("BRD_ARIA", "TX")           /\ (Request("TX_WAIT_COMP") \/ NoRequest("GO_SLEEP"))
  \/ In("BRD_ARIA", "TX_WAIT_COMP") /\ AwaitCompletion
  \/ In("BRD_ARIA", "GO_SLEEP")     /\ SleepNow
=============================================================================
