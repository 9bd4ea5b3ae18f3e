---------------------------- MODULE PalMotSingle ----------------------------
(***************************************************************************)
(* PAL_MOT-single: wakes every three seconds, takes a few samples of       *)
(* acceleration, and reports their averages. Whatever goes wrong resets    *)
(* the node.                                                               *)
(***************************************************************************)
EXTENDS MwxNode

MotSetup == Booting("PAL_MOT-single") /\ (OpenSettings("begin") \/ Started("begin"))

MotBegin ==
  /\ act = "PAL_MOT-single" /\ run = "begin"
  /\ \/ st = "INTERACTIVE" /\ Stay
     \/ st # "INTERACTIVE" /\ SleepNow

MotWakeup == Woken("PAL_MOT-single", {{"timer"}}) /\ UNCHANGED data

\* memset(&sensor, 0, sizeof(sensor))
MotInit ==
  /\ data' = "none" /\ GoTo("START_CAPTURE")
  /\ UNCHANGED <<ev, wake, flag, left, sns, job, tx, sent, up>>

MotStartCapture ==
  /\ sns' = "busy" /\ left' = TX_TIMEOUT /\ GoTo("WAIT_CAPTURE")
  /\ UNCHANGED <<ev, wake, flag, job, tx, data, sent, up>>

\* The sensor is stopped and its samples taken; there may be none.
MotWaitCapture ==
  \/ /\ sns = "ready" /\ sns' = "off"
     /\ \/ data' = "fresh" /\ GoTo("REQUEST_TX")
        \/ UNCHANGED data /\ GoTo("EXIT_FATAL")
     /\ UNCHANGED <<ev, wake, flag, left, job, tx, sent, up>>
  \/ sns # "ready" /\ left = 0 /\ GoTo("EXIT_FATAL") /\ UNCHANGED Rest
  \/ sns # "ready" /\ left > 0 /\ Stay

\* Both conditions are tested; the second next() overrides the first.
MotWaitTx ==
  \/ left = 0 /\ GoTo("EXIT_FATAL") /\ UNCHANGED Rest
  \/ left > 0 /\ flag /\ GoTo("EXIT_NORMAL") /\ UNCHANGED Rest
  \/ left > 0 /\ ~ flag /\ Stay

MotLoop ==
  \/ In("PAL_MOT-single", "INTERACTIVE")   /\ Stay
  \/ In("PAL_MOT-single", "INIT")          /\ MotInit
  \/ In("PAL_MOT-single", "START_CAPTURE") /\ MotStartCapture
  \/ In("PAL_MOT-single", "WAIT_CAPTURE")  /\ MotWaitCapture
  \/ In("PAL_MOT-single", "REQUEST_TX")    /\ (Request("WAIT_TX") \/ NoRequest("EXIT_FATAL"))
  \/ In("PAL_MOT-single", "WAIT_TX")       /\ MotWaitTx
  \/ In("PAL_MOT-single", "EXIT_NORMAL")   /\ SleepNow
  \/ In("PAL_MOT-single", "EXIT_FATAL")    /\ ResetSystem
=============================================================================
