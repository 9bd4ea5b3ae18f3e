----------------------------- MODULE SensorActs -----------------------------
(***************************************************************************)
(* The sensor acts: a node runs one of them, on the common platform of     *)
(* MwxNode, for ever. All of them implement the duty cycle of DutyCycle.   *)
(***************************************************************************)
EXTENDS PalAmb, PalAmbNap, PalAmbBhv, PalMag, BrdAria, BrdI2c, SlpWkTx, PalMotSingle

Acts == {"PAL_AMB", "PAL_AMB-usenap", "PAL_AMB-bhv", "PAL_MAG", "BRD_ARIA",
         "BRD_I2C_TEMPHUMID", "Slp_Wk_and_Tx", "PAL_MOT-single"}

Init ==
  /\ act \in Acts
  /\ run = "boot" /\ ev = "other" /\ wake = {}
  /\ st = "INIT" /\ flag = FALSE /\ left = 0
  /\ sns = "off" /\ job = 0 /\ tx = "quiet"
  /\ data = "none" /\ sent = 0 /\ up = 0

Setup ==
  \/ AmbSetup \/ NapSetup \/ BhvSetup \/ MagSetup \/ AriaSetup \/ I2cSetup
  \/ SwtSetup \/ MotSetup

Begin == NapBegin \/ BhvBegin \/ MagBegin \/ SwtBegin \/ MotBegin

Wakeup ==
  \/ AmbWakeup \/ NapWakeup \/ NapResume \/ BhvWakeup \/ BhvResume \/ MagWakeup
  \/ AriaWakeup \/ I2cWakeup \/ SwtWakeup \/ MotWakeup

Loop == AmbLoop \/ NapLoop \/ BhvLoop \/ MagLoop \/ AriaLoop \/ I2cLoop \/ SwtLoop \/ MotLoop

\* What the processor does without an event.
Step == UNCHANGED act /\ (Setup \/ Begin \/ Wakeup \/ Loop)

Event ==
  /\ UNCHANGED act
  /\ Tick \/ OtherEvent \/ TxComplete \/ SensorReady \/ CloseSettings

Next == Step \/ Event

\* The processor runs; the TickTimer interrupts it whatever else happens; a
\* working sensor is ready some time after it was started. Nothing says that a
\* request is ever completed.
Spec ==
  /\ Init /\ [][Next]_vars
  /\ WF_vars(Step)
  /\ SF_vars(UNCHANGED act /\ Tick)
  /\ WF_vars(UNCHANGED act /\ SensorReady)

----------------------------------------------------------------------------
\* Properties.

FieldsOK ==
  /\ act \in Acts
  /\ run \in {"boot", "begin", "loop", "idle", "sleep", "nap"}
  /\ ev \in {"tick", "other"} /\ wake \in SUBSET {"timer", "dio"}
  /\ st \in States /\ left \in Nat
  /\ sns \in {"off", "busy", "ready"} /\ job \in 0 .. WORK_MAX
  /\ tx \in {"quiet", "busy"}
  /\ data \in {"none", "fresh", "stale"} /\ sent \in Nat /\ up \in Nat

\* The type of the node's state: SM_SIMPLE<STATE> step, the sensor struct and
\* what MWX keeps.
TypeOK == FieldsOK /\ flag \in BOOLEAN

\* No act puts its node to sleep while the radio still has a request to send:
\* every path to sleepNow() has seen on_tx_comp for this request, not for an
\* earlier one, or has made no request.
RadioQuietAsleep == run \in {"sleep", "nap"} => tx = "quiet"

Unchecked == {"BRD_I2C_TEMPHUMID"}

Duty == INSTANCE DutyCycle WITH
  ACTS      <- Acts,
  UNCHECKED <- Unchecked,
  phase     <- IF run = "sleep" THEN "off" ELSE "on",
  data      <- IF data = "fresh" THEN "new" ELSE "old",
  radio     <- tx

\* In every period each act reports at most once, and only what it has measured
\* in this very period, through naps, failed requests, late completions and
\* resets; BRD_I2C_TEMPHUMID alone may report old values.
ImplementsDutyCycle == Duty!Spec

\* The milliseconds an act may take, per period, by its own time-outs, until it
\* makes its request, and in all.
MeasureBudget ==
  IF act = "BRD_I2C_TEMPHUMID" THEN CONV_TIME
  ELSE IF act = "Slp_Wk_and_Tx" THEN WORK_MAX
  ELSE IF act = "PAL_MOT-single" THEN TX_TIMEOUT
  ELSE 0

\* PAL_AMB-bhv gives its request up when more than TX_TIMEOUT ms are over.
Budget == MeasureBudget + TX_TIMEOUT + (IF act = "PAL_AMB-bhv" THEN 1 ELSE 0)

\* The battery: however the radio and the sensors misbehave, no act is awake
\* for longer than its time-outs add up to, but for the waits without a time-out
\* (PAL_AMB and BRD_ARIA for their sensors, all for the settings screen) and the
\* second Slp_Wk_and_Tx delays its reset by (Slp_Wk_and_Tx.cpp:109).
AwakeBounded == up <= Budget

\* With sensors that answer, every period comes to its end: the node sleeps or
\* is reset, even when on_tx_comp never comes.
CycleEnds ==
  run \in {"loop", "idle", "nap"} /\ st # "INTERACTIVE" ~> run \in {"sleep", "boot"}

\* Values that are sent were measured in this period. (BRD_I2C_TEMPHUMID: "the
\* sensor data should be ready".)
NoStaleReport == tx = "busy" => data = "fresh"

----------------------------------------------------------------------------
\* The inductive invariant behind RadioQuietAsleep, ImplementsDutyCycle and
\* AwakeBounded.

\* The states each act's switch statement has.
Cases ==
  /\ act \in {"PAL_AMB", "BRD_ARIA", "BRD_I2C_TEMPHUMID"} => st \in
       {"INTERACTIVE", "INIT", "SENSOR", "TX", "TX_WAIT_COMP", "GO_SLEEP"}
  /\ act = "PAL_AMB-usenap" => st \in
       {"INTERACTIVE", "INIT", "NAP", "SENSOR", "TX", "TX_WAIT_COMP", "GO_SLEEP"}
  /\ act = "PAL_AMB-bhv" => st \in {"INIT", "NAP", "TX", "TX_WAIT_COMP", "GO_SLEEP"}
  /\ act = "PAL_MAG" => st \in {"INTERACTIVE", "INIT", "TX", "TX_WAIT_COMP", "GO_SLEEP"}
  /\ act = "Slp_Wk_and_Tx" => st \in
       {"INIT", "WORK_JOB", "TX", "WAIT_TX", "EXIT_NORMAL", "EXIT_FATAL"}
  /\ act = "PAL_MOT-single" => st \in
       {"INTERACTIVE", "INIT", "START_CAPTURE", "WAIT_CAPTURE", "REQUEST_TX",
        "WAIT_TX", "EXIT_NORMAL", "EXIT_FATAL"}

Requesting == {"TX", "REQUEST_TX"}
Awaiting   == {"TX_WAIT_COMP", "WAIT_TX"}
Leaving    == {"GO_SLEEP", "EXIT_NORMAL", "EXIT_FATAL"}
Measuring  == {"INTERACTIVE", "INIT", "NAP", "SENSOR", "START_CAPTURE",
               "WAIT_CAPTURE", "WORK_JOB"}

\* Where the event loop and the state machine can be at the same time.
Places ==
  /\ Cases
  /\ run = "boot"  => st = "INIT"
  /\ run = "begin" => st \in {"INIT", "INTERACTIVE"}
  /\ run = "sleep" => st = "INIT"
  /\ run = "nap"   => st = "NAP"
  /\ run = "idle"  => st \in {"INTERACTIVE", "SENSOR", "WAIT_CAPTURE", "WORK_JOB"} \cup Awaiting
  /\ run = "idle" /\ st = "SENSOR" => act # "PAL_AMB-usenap"

\* The flag tells of this request: it is not left over from an earlier one.
Radio ==
  /\ tx = "busy" => run \in {"loop", "idle"} /\ st \in Awaiting \cup {"EXIT_FATAL"}
  /\ st \in Awaiting /\ flag => tx = "quiet"

\* How far the measurement and the report of this period are.
Reporting ==
  /\ sent <= 1
  /\ run \in {"boot", "begin", "sleep", "nap"} \/ st \in Measuring \cup Requesting => sent = 0
  /\ run \in {"boot", "begin", "sleep", "nap"} \/ st \in {"INIT", "NAP", "INTERACTIVE"}
       => data # "fresh"
  /\ st \in Requesting /\ act \notin Unchecked => data = "fresh"
  /\ act = "PAL_MAG" /\ run = "loop" /\ st = "INIT" => "dio" \in wake

\* The states in which the act looks at step.is_timeout().
Timed ==
  \/ st \in Awaiting \cup {"WAIT_CAPTURE"}
  \/ st = "SENSOR" /\ act = "BRD_I2C_TEMPHUMID"

\* What a state may still cost has not been spent.
Spending ==
  /\ st \in {"INTERACTIVE", "INIT", "NAP", "START_CAPTURE"} => up = 0
  /\ st = "SENSOR" /\ act # "BRD_I2C_TEMPHUMID" => up = 0
  /\ st = "SENSOR" /\ act = "BRD_I2C_TEMPHUMID" => up + left <= MeasureBudget
  /\ st = "WAIT_CAPTURE" => up + left <= MeasureBudget
  /\ st = "WORK_JOB" =>
       /\ job > 0
       /\ IF run = "loop" /\ ev = "tick" THEN up + job <= MeasureBudget + 1
                                         ELSE up + job <= MeasureBudget
  /\ st \in Requesting => up <= MeasureBudget
  /\ st \in Awaiting => up + left <= Budget
  /\ st \in Leaving => up <= Budget
  /\ run = "idle" /\ Timed => left > 0

IInv == TypeOK /\ Places /\ Radio /\ Reporting /\ Spending
=============================================================================
