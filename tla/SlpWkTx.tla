------------------------------- MODULE SlpWkTx ------------------------------
(***************************************************************************)
(* Slp_Wk_and_Tx: sleeps, wakes, does a dummy job of a random length in    *)
(* milliseconds and reports how long it took.                              *)
(***************************************************************************)
EXTENDS MwxNode

SwtSetup == Booting("Slp_Wk_and_Tx") /\ Started("begin")

SwtBegin == act = "Slp_Wk_and_Tx" /\ run = "begin" /\ SleepNow

\* wakeup() clears what was measured.
SwtWakeup == Woken("Slp_Wk_and_Tx", {{"timer"}}) /\ data' = "none"

SwtInit ==
  /\ job' \in 1 .. WORK_MAX
  /\ GoTo("WORK_JOB")
  /\ UNCHANGED <<ev, wake, flag, left, sns, tx, data, sent, up>>

\* Mutant: the job ends one unit late.
SwtWorkJobLate ==
  \/ /\ ev = "tick" /\ job' = job - 1
     /\ \/ job > 0 /\ UNCHANGED <<st, data>> /\ run' = "idle"
        \/ job = 0 /\ data' = "fresh" /\ GoTo("TX")
     /\ UNCHANGED <<ev, wake, flag, left, sns, tx, sent, up>>
  \/ ev # "tick" /\ Stay

\* One unit of the job for each loop() with TickTimer.available().
SwtWorkJob ==
  \/ /\ ev = "tick" /\ job' = job - 1
     /\ \/ job > 1 /\ UNCHANGED <<st, data>> /\ run' = "idle"
        \/ job = 1 /\ data' = "fresh" /\ GoTo("TX")
     /\ UNCHANGED <<ev, wake, flag, left, sns, tx, sent, up>>
  \/ ev # "tick" /\ Stay

\* A completion is good even when the time-out has passed as well.
SwtWaitTx ==
  \/ flag /\ GoTo("EXIT_NORMAL") /\ UNCHANGED Rest
  \/ ~ flag /\ left = 0 /\ GoTo("EXIT_FATAL") /\ UNCHANGED Rest
  \/ ~ flag /\ left > 0 /\ Stay

SwtLoop ==
  \/ In("Slp_Wk_and_Tx", "INIT")        /\ SwtInit
  \/ In("Slp_Wk_and_Tx", "WORK_JOB")    /\ SwtWorkJob
  \/ In("Slp_Wk_and_Tx", "TX")          /\ (Request("WAIT_TX") \/ NoRequest("EXIT_FATAL"))
  \/ In("Slp_Wk_and_Tx", "WAIT_TX")     /\ SwtWaitTx
  \/ In("Slp_Wk_and_Tx", "EXIT_NORMAL") /\ SleepNow
  \/ In("Slp_Wk_and_Tx", "EXIT_FATAL")  /\ ResetSystem
=============================================================================
