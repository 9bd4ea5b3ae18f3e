------------------------------- MODULE MwxNode ------------------------------
(***************************************************************************)
(* The part of the MWX library every sensor act runs on, as the acts use   *)
(* it (the library itself is not in this repository): the event loop, the  *)
(* state machine SM_SIMPLE, sleeping, resetting, and the transmit request  *)
(* with its completion callback; and the steps most acts share word for    *)
(* word.                                                                   *)
(*                                                                         *)
(* One thread runs everything. loop() is called once per event; a callback *)
(* is called between two calls of loop(), never inside one. Neither        *)
(* the_twelite.sleep() nor reset_system() returns.                         *)
(***************************************************************************)
EXTENDS Integers

CONSTANTS
  TX_TIMEOUT,   \* step.set_timeout(100): ms until a transmission is given up
  CONV_TIME,    \* ms a sensor is given, by the act that counts them
  WORK_MAX      \* the longest dummy job of Slp_Wk_and_Tx, in ms

ASSUME NodeAssumption ==
  /\ TX_TIMEOUT \in Nat \ {0} /\ CONV_TIME \in Nat \ {0} /\ WORK_MAX \in Nat \ {0}

VARIABLES
  act,    \* the firmware in the node's flash
  run,    \* "boot": setup() is due, "begin": begin() is due, "loop": inside
          \* loop(), "idle": between two calls, "sleep", "nap": a short sleep
          \* that goes on with the same measurement
  ev,     \* the event loop() was called for: "tick" (TickTimer) or "other"
  wake,   \* what woke the node: a subset of {"timer", "dio"}
  st,     \* step.state()
  flag,   \* step.is_flag_ready()
  left,   \* ms until step.is_timeout()
  sns,    \* the sensors: "off", "busy" or "ready"
  job,    \* ms of the dummy job still to do
  tx,     \* the radio: "quiet", or "busy" with a request
  data,   \* the values to be reported: "none", "fresh" (of this period), "stale"
  sent,   \* history: the packets requested in this period
  up      \* history: ms of this period spent awake, but for the waits that no
          \* act bounds: for a user, or for a sensor to become ready

nodeVars == <<run, ev, wake, st, flag, left, sns, job, tx, data, sent, up>>
vars == <<act, nodeVars>>

States == {"INTERACTIVE", "INIT", "NAP", "SENSOR", "START_CAPTURE", "WAIT_CAPTURE",
           "WORK_JOB", "TX", "REQUEST_TX", "TX_WAIT_COMP", "WAIT_TX",
           "GO_SLEEP", "EXIT_NORMAL", "EXIT_FATAL"}

\* All that step.next() leaves alone.
Rest == <<ev, wake, flag, left, sns, job, tx, data, sent, up>>

----------------------------------------------------------------------------
\* Starting, sleeping, resetting.

Booting(a) == act = a /\ run = "boot"

\* SET is low: setup() opens the settings screen and returns.
OpenSettings(next) == st' = "INTERACTIVE" /\ run' = next /\ UNCHANGED Rest

\* The rest of setup(). MWX calls begin() next, of the acts that have one, or loop().
Started(next) == run' = next /\ UNCHANGED <<st, Rest>>

\* the_twelite.reset_system(): nothing in RAM survives.
ResetSystem ==
  /\ run' = "boot" /\ ev' = "other" /\ wake' = {}
  /\ st' = "INIT" /\ flag' = FALSE /\ left' = 0
  /\ sns' = "off" /\ job' = 0 /\ tx' = "quiet"
  /\ data' = "none" /\ sent' = 0 /\ up' = 0

\* What was measured in one period is stale in the next.
Aged(d) == IF d = "fresh" THEN "stale" ELSE d

\* step.on_sleep(false); the_twelite.sleep(ms): RAM is kept, the state machine
\* will start from INIT. Its flag is not relied on to be cleared.
SleepNow ==
  /\ run' = "sleep" /\ st' = "INIT"
  /\ data' = Aged(data) /\ sent' = 0 /\ up' = 0
  /\ UNCHANGED <<ev, wake, flag, left, sns, job, tx>>

\* The node wakes up for one of these causes; wakeup() runs, then loop().
Woken(a, causes) ==
  /\ act = a /\ run = "sleep" /\ wake' \in causes
  /\ run' = "loop" /\ ev' = "other"
  /\ UNCHANGED <<st, flag, left, sns, job, tx, sent, up>>

\* A short sleep in the middle of a measurement: the sensors were started, and the
\* state machine will be resumed.
NapNow ==
  /\ sns' = "busy" /\ st' = "NAP" /\ run' = "nap"
  /\ UNCHANGED <<ev, wake, flag, left, job, tx, data, sent, up>>

\* wakeup() after a nap, for one of these causes.
Resumed(a, causes) ==
  /\ act = a /\ run = "nap" /\ wake' \in causes
  /\ run' = "loop" /\ ev' = "other"
  /\ UNCHANGED <<st, flag, left, sns, job, tx, data, sent, up>>

----------------------------------------------------------------------------
\* Inside loop(): the state machine.

In(a, s) == act = a /\ run = "loop" /\ st = s

\* step.next(s): b_more_loop() makes loop() go round again.
GoTo(s) == st' = s /\ run' = "loop"

\* The state has not changed: loop() returns.
Stay == run' = "idle" /\ UNCHANGED <<st, Rest>>

\* Mutant: begin() of the sensors is not called.
StartNoSensors ==
  /\ GoTo("SENSOR")
  /\ UNCHANGED <<ev, wake, flag, left, sns, job, tx, data, sent, up>>

\* begin() of the sensors of a board.
StartSensors ==
  /\ sns' = "busy" /\ GoTo("SENSOR")
  /\ UNCHANGED <<ev, wake, flag, left, job, tx, data, sent, up>>

\* Poll the sensors of a board; report when all are available.
PollSensors ==
  \/ /\ sns = "ready" /\ data' = "fresh" /\ GoTo("TX")
     /\ UNCHANGED <<ev, wake, flag, left, sns, job, tx, sent, up>>
  \/ sns # "ready" /\ Stay

\* Mutant: without clear_flag().
RequestWithOldFlag(awaiting) ==
  /\ tx' = "busy" /\ sent' = sent + 1
  /\ left' = TX_TIMEOUT
  /\ GoTo(awaiting)
  /\ UNCHANGED <<ev, wake, flag, sns, job, data, up>>

\* prepare_tx_packet() gives a packet, transmit() takes it; clear_flag() and
\* set_timeout(100) follow.
Request(awaiting) ==
  /\ tx' = "busy" /\ sent' = sent + 1
  /\ flag' = FALSE /\ left' = TX_TIMEOUT
  /\ GoTo(awaiting)
  /\ UNCHANGED <<ev, wake, sns, job, data, up>>

\* prepare_tx_packet() gives none, or transmit() refuses it.
NoRequest(failed) == GoTo(failed) /\ UNCHANGED Rest

\* Mutant: without the time-out.
AwaitCompletionForEver ==
  \/ flag /\ GoTo("GO_SLEEP") /\ UNCHANGED Rest
  \/ ~ flag /\ Stay

\* Wait for on_tx_comp; the time-out comes first and resets the node.
AwaitCompletion ==
  \/ left = 0 /\ ResetSystem
  \/ left > 0 /\ flag /\ GoTo("GO_SLEEP") /\ UNCHANGED Rest
  \/ left > 0 /\ ~ flag /\ Stay

----------------------------------------------------------------------------
\* Events.

\* A wait nothing in the act puts an end to.
Unbounded ==
  \/ st = "INTERACTIVE"
  \/ st = "SENSOR" /\ act \in {"PAL_AMB", "BRD_ARIA"}

\* A millisecond passes; loop() is called for the TickTimer.
Tick ==
  /\ run = "idle"
  /\ run' = "loop" /\ ev' = "tick"
  /\ left' = IF left > 0 THEN left - 1 ELSE 0
  /\ up' = IF Unbounded THEN up ELSE up + 1
  /\ UNCHANGED <<wake, st, flag, sns, job, tx, data, sent>>

\* loop() is called for something else, as a byte on the serial port.
OtherEvent ==
  /\ run = "idle"
  /\ run' = "loop" /\ ev' = "other"
  /\ UNCHANGED <<wake, st, flag, left, sns, job, tx, data, sent, up>>

\* on_tx_comp(): the request has been dealt with, sent or not. The callback of
\* PAL_AMB-bhv runs the state machine itself.
TxComplete ==
  /\ run = "idle" /\ tx = "busy"
  /\ tx' = "quiet" /\ flag' = TRUE
  /\ run' = IF act = "PAL_AMB-bhv" THEN "loop" ELSE "idle"
  /\ UNCHANGED <<ev, wake, st, left, sns, job, data, sent, up>>

\* The sensors are done. They need no processor, but they need power.
SensorReady ==
  /\ run \in {"loop", "idle", "nap"} /\ sns = "busy"
  /\ sns' = "ready"
  /\ UNCHANGED <<run, ev, wake, st, flag, left, job, tx, data, sent, up>>

\* The user leaves the settings screen, which resets the node.
CloseSettings == run = "idle" /\ st = "INTERACTIVE" /\ ResetSystem
=============================================================================
