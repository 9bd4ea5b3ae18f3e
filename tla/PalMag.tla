------------------------------- MODULE PalMag -------------------------------
(***************************************************************************)
(* PAL_MAG: reports which magnet sensor woke the node. The PAL board has   *)
(* to be woken once a minute for its watchdog: the node goes back to sleep *)
(* at once, without a report.                                              *)
(***************************************************************************)
EXTENDS MwxNode

MagSetup == Booting("PAL_MAG") /\ (OpenSettings("begin") \/ Started("begin"))

MagBegin ==
  /\ act = "PAL_MAG" /\ run = "begin"
  /\ \/ st = "INTERACTIVE" /\ Stay
     \/ st # "INTERACTIVE" /\ SleepNow

\* Mutant: a wake-up for the watchdog is reported as well.
MagWakeupAlways ==
  Woken("PAL_MAG", SUBSET {"timer", "dio"} \ {{}}) /\ UNCHANGED data

\* wakeup(): sleepNow() does not return to the rest of it.
MagWakeup ==
  \/ Woken("PAL_MAG", {{"dio"}}) /\ UNCHANGED data
  \/ /\ act = "PAL_MAG" /\ run = "sleep"
     /\ wake' \in {{"timer"}, {"timer", "dio"}}
     /\ UNCHANGED <<run, ev, st, flag, left, sns, job, tx, data, sent, up>>

\* STATE::INIT: the sensor data is the cause of the wake-up.
MagInit ==
  /\ data' = IF "dio" \in wake THEN "fresh" ELSE data
  /\ GoTo("TX")
  /\ UNCHANGED <<ev, wake, flag, left, sns, job, tx, sent, up>>

MagLoop ==
  \/ In("PAL_MAG", "INTERACTIVE")  /\ Stay
  \/ In("PAL_MAG", "INIT")         /\ MagInit
  \/ In("PAL_MAG", "TX")           /\ (Request("TX_WAIT_COMP") \/ NoRequest("GO_SLEEP"))
  \/ In("PAL_MAG", "TX_WAIT_COMP") /\ AwaitCompletion
  \/ In("PAL_MAG", "GO_SLEEP")     /\ SleepNow
=============================================================================
