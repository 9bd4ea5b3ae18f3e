-------------------------- MODULE SensorActsProof ---------------------------
(***************************************************************************)
(* Proofs about the sensor acts, for all values of the time-outs.          *)
(***************************************************************************)
EXTENDS SensorActs, TLAPS

USE DEF Acts, States, Requesting, Awaiting, Leaving, Measuring, Unchecked

\* setup() with SET low.
LEMMA OpenSettingsKeeps ==
  ASSUME IInv, UNCHANGED act, run = "boot", act \notin {"Slp_Wk_and_Tx", "PAL_AMB-bhv"},
         NEW next \in {"begin", "loop"}, OpenSettings(next)
  PROVE  IInv'
<1>1. FieldsOK'
  BY NodeAssumption DEF IInv, OpenSettings, Rest, FieldsOK, TypeOK
<1>2. flag' \in BOOLEAN
  BY DEF IInv, OpenSettings, Rest, TypeOK
<1>3. Places'
  BY DEF IInv, OpenSettings, Rest, FieldsOK, TypeOK, Places, Cases
<1>4. Radio'
  BY DEF IInv, OpenSettings, Rest, FieldsOK, TypeOK, Places, Cases, Radio
<1>5. Reporting'
  BY DEF IInv, OpenSettings, Rest, FieldsOK, TypeOK, Places, Cases, Radio, Reporting
<1>6. Spending'
  BY NodeAssumption DEF IInv, OpenSettings, Rest, FieldsOK, TypeOK, Places, Cases, Spending, Timed, Budget, MeasureBudget
<1>7. QED
  BY <1>1, <1>2, <1>3, <1>4, <1>5, <1>6 DEF IInv, TypeOK

\* setup() to its end.
LEMMA StartedKeeps ==
  ASSUME IInv, UNCHANGED act, run = "boot",
         NEW next \in {"begin", "loop"}, next = "begin" \/ act # "PAL_MAG", Started(next)
  PROVE  IInv'
<1>1. FieldsOK'
  BY NodeAssumption DEF IInv, Started, Rest, FieldsOK, TypeOK
<1>2. flag' \in BOOLEAN
  BY DEF IInv, Started, Rest, TypeOK
<1>3. Places'
  BY DEF IInv, Started, Rest, FieldsOK, TypeOK, Places, Cases
<1>4. Radio'
  BY DEF IInv, Started, Rest, FieldsOK, TypeOK, Places, Cases, Radio
<1>5. Reporting'
  BY DEF IInv, Started, Rest, FieldsOK, TypeOK, Places, Cases, Radio, Reporting
<1>6. Spending'
  BY NodeAssumption DEF IInv, Started, Rest, FieldsOK, TypeOK, Places, Cases, Spending, Timed, Budget, MeasureBudget
<1>7. QED
  BY <1>1, <1>2, <1>3, <1>4, <1>5, <1>6 DEF IInv, TypeOK

\* Sleeping, of a node whose radio is quiet.
LEMMA SleepKeeps ==
  ASSUME IInv, UNCHANGED act, tx = "quiet", SleepNow
  PROVE  IInv'
<1>1. FieldsOK'
  BY NodeAssumption DEF IInv, SleepNow, Aged, FieldsOK, TypeOK
<1>2. flag' \in BOOLEAN
  BY DEF IInv, SleepNow, Aged, TypeOK
<1>3. Places'
  BY DEF IInv, SleepNow, Aged, FieldsOK, TypeOK, Places, Cases
<1>4. Radio'
  BY DEF IInv, SleepNow, Aged, FieldsOK, TypeOK, Places, Cases, Radio
<1>5. Reporting'
  BY DEF IInv, SleepNow, Aged, FieldsOK, TypeOK, Places, Cases, Radio, Reporting
<1>6. Spending'
  BY NodeAssumption DEF IInv, SleepNow, Aged, FieldsOK, TypeOK, Places, Cases, Spending, Timed, Budget, MeasureBudget
<1>7. QED
  BY <1>1, <1>2, <1>3, <1>4, <1>5, <1>6 DEF IInv, TypeOK

\* loop() returns from a state it waits in.
LEMMA StayKeeps ==
  ASSUME IInv, UNCHANGED act, run \in {"loop", "begin"}, Stay,
         st \in {"INTERACTIVE", "SENSOR", "WAIT_CAPTURE", "WORK_JOB"} \cup Awaiting,
         st = "SENSOR" => act # "PAL_AMB-usenap",
         st = "WORK_JOB" => ev # "tick", Timed => left > 0
  PROVE  IInv'
<1>1. FieldsOK'
  BY NodeAssumption DEF IInv, Stay, Rest, FieldsOK, TypeOK
<1>2. flag' \in BOOLEAN
  BY DEF IInv, Stay, Rest, TypeOK
<1>3. Places'
  BY DEF IInv, Stay, Rest, FieldsOK, TypeOK, Places, Cases
<1>4. Radio'
  BY DEF IInv, Stay, Rest, FieldsOK, TypeOK, Places, Cases, Radio
<1>5. Reporting'
  BY DEF IInv, Stay, Rest, FieldsOK, TypeOK, Places, Cases, Radio, Reporting
<1>6. Spending'
  BY NodeAssumption DEF IInv, Stay, Rest, FieldsOK, TypeOK, Places, Cases, Spending, Timed, Budget, MeasureBudget
<1>7. QED
  BY <1>1, <1>2, <1>3, <1>4, <1>5, <1>6 DEF IInv, TypeOK

\* A request, followed by the state that awaits its completion.
LEMMA RequestKeeps ==
  ASSUME IInv, UNCHANGED act, run = "loop", st \in Requesting,
         NEW s \in Awaiting, Request(s),
         s = "WAIT_TX" <=> act \in {"Slp_Wk_and_Tx", "PAL_MOT-single"}
  PROVE  IInv'
<1>1. FieldsOK'
  BY NodeAssumption DEF IInv, Request, GoTo, FieldsOK, TypeOK
<1>2. flag' \in BOOLEAN
  BY DEF IInv, Request, GoTo, TypeOK
<1>3. Places'
  BY DEF IInv, Request, GoTo, FieldsOK, TypeOK, Places, Cases
<1>4. Radio'
  BY DEF IInv, Request, GoTo, FieldsOK, TypeOK, Places, Cases, Radio
<1>5. Reporting'
  BY DEF IInv, Request, GoTo, FieldsOK, TypeOK, Places, Cases, Radio, Reporting
<1>6. Spending'
  BY NodeAssumption DEF IInv, Request, GoTo, FieldsOK, TypeOK, Places, Cases, Spending, Timed, Budget, MeasureBudget
<1>7. QED
  BY <1>1, <1>2, <1>3, <1>4, <1>5, <1>6 DEF IInv, TypeOK

\* The way out of a period: to sleep with a quiet radio, or to reset.
LEMMA LeaveKeeps ==
  ASSUME IInv, UNCHANGED act, run = "loop",
         st \in Requesting \cup Awaiting \cup {"WAIT_CAPTURE"},
         NEW s \in Leaving, GoTo(s), UNCHANGED Rest,
         s = "GO_SLEEP" <=> act \notin {"Slp_Wk_and_Tx", "PAL_MOT-single"},
         s # "EXIT_FATAL" => tx = "quiet"
  PROVE  IInv'
<1>1. FieldsOK'
  BY NodeAssumption DEF IInv, GoTo, Rest, FieldsOK, TypeOK
<1>2. flag' \in BOOLEAN
  BY DEF IInv, GoTo, Rest, TypeOK
<1>3. Places'
  BY DEF IInv, GoTo, Rest, FieldsOK, TypeOK, Places, Cases
<1>4. Radio'
  BY DEF IInv, GoTo, Rest, FieldsOK, TypeOK, Places, Cases, Radio
<1>5. Reporting'
  BY DEF IInv, GoTo, Rest, FieldsOK, TypeOK, Places, Cases, Radio, Reporting
<1>6. Spending'
  BY NodeAssumption DEF IInv, GoTo, Rest, FieldsOK, TypeOK, Places, Cases, Spending, Timed, Budget, MeasureBudget
<1>7. QED
  BY <1>1, <1>2, <1>3, <1>4, <1>5, <1>6 DEF IInv, TypeOK

\* The sensors of a board are started, or polled.
LEMMA MeasureKeeps ==
  ASSUME IInv, UNCHANGED act, run = "loop",
         \/ st = "INIT" /\ act \in {"PAL_AMB", "BRD_ARIA"} /\ StartSensors
         \/ st = "SENSOR" /\ act \in {"PAL_AMB", "PAL_AMB-usenap", "BRD_ARIA"}
            /\ sns = "ready" /\ PollSensors
  PROVE  IInv'
<1>1. FieldsOK'
  BY NodeAssumption DEF IInv, StartSensors, PollSensors, GoTo, FieldsOK, TypeOK
<1>2. flag' \in BOOLEAN
  BY DEF IInv, StartSensors, PollSensors, GoTo, TypeOK
<1>3. Places'
  BY DEF IInv, StartSensors, PollSensors, GoTo, FieldsOK, TypeOK, Places, Cases
<1>4. Radio'
  BY DEF IInv, StartSensors, PollSensors, GoTo, FieldsOK, TypeOK, Places, Cases, Radio
<1>5. Reporting'
  BY DEF IInv, StartSensors, PollSensors, GoTo, FieldsOK, TypeOK, Places, Cases, Radio, Reporting
<1>6. Spending'
  BY NodeAssumption DEF IInv, StartSensors, PollSensors, GoTo, FieldsOK, TypeOK, Places, Cases, Spending, Timed, Budget, MeasureBudget
<1>7. QED
  BY <1>1, <1>2, <1>3, <1>4, <1>5, <1>6 DEF IInv, TypeOK

\* reset_system().
LEMMA ResetKeeps ==
  ASSUME act \in Acts, UNCHANGED act, ResetSystem
  PROVE  IInv'
<1>1. FieldsOK'
  BY NodeAssumption DEF IInv, ResetSystem, FieldsOK, TypeOK
<1>2. flag' \in BOOLEAN
  BY DEF IInv, ResetSystem, TypeOK
<1>3. Places'
  BY DEF IInv, ResetSystem, FieldsOK, TypeOK, Places, Cases
<1>4. Radio'
  BY DEF IInv, ResetSystem, FieldsOK, TypeOK, Places, Cases, Radio
<1>5. Reporting'
  BY DEF IInv, ResetSystem, FieldsOK, TypeOK, Places, Cases, Radio, Reporting
<1>6. Spending'
  BY NodeAssumption DEF IInv, ResetSystem, FieldsOK, TypeOK, Places, Cases, Spending, Timed, Budget, MeasureBudget
<1>7. QED
  BY <1>1, <1>2, <1>3, <1>4, <1>5, <1>6 DEF IInv, TypeOK

\* Waking up, with whatever wakeup() does to the values.
LEMMA WokenKeeps ==
  ASSUME IInv, UNCHANGED act,
         NEW a, NEW causes \in SUBSET SUBSET {"timer", "dio"}, Woken(a, causes),
         a = "PAL_MAG" => \A c \in causes : "dio" \in c,
         data' \in {data, "none"}
  PROVE  IInv'
<1>1. FieldsOK'
  BY NodeAssumption DEF IInv, Woken, FieldsOK, TypeOK
<1>2. flag' \in BOOLEAN
  BY DEF IInv, Woken, TypeOK
<1>3. Places'
  BY DEF IInv, Woken, FieldsOK, TypeOK, Places, Cases
<1>4. Radio'
  BY DEF IInv, Woken, FieldsOK, TypeOK, Places, Cases, Radio
<1>5. Reporting'
  BY DEF IInv, Woken, FieldsOK, TypeOK, Places, Cases, Radio, Reporting
<1>6. Spending'
  BY NodeAssumption DEF IInv, Woken, FieldsOK, TypeOK, Places, Cases, Spending, Timed, Budget, MeasureBudget
<1>7. QED
  BY <1>1, <1>2, <1>3, <1>4, <1>5, <1>6 DEF IInv, TypeOK

\* Falling into a nap.
LEMMA NapNowKeeps ==
  ASSUME IInv, UNCHANGED act, run = "loop", st = "INIT",
         act \in {"PAL_AMB-usenap", "PAL_AMB-bhv"}, NapNow
  PROVE  IInv'
<1>1. FieldsOK'
  BY NodeAssumption DEF IInv, NapNow, FieldsOK, TypeOK
<1>2. flag' \in BOOLEAN
  BY DEF IInv, NapNow, TypeOK
<1>3. Places'
  BY DEF IInv, NapNow, FieldsOK, TypeOK, Places, Cases
<1>4. Radio'
  BY DEF IInv, NapNow, FieldsOK, TypeOK, Places, Cases, Radio
<1>5. Reporting'
  BY DEF IInv, NapNow, FieldsOK, TypeOK, Places, Cases, Radio, Reporting
<1>6. Spending'
  BY NodeAssumption DEF IInv, NapNow, FieldsOK, TypeOK, Places, Cases, Spending, Timed, Budget, MeasureBudget
<1>7. QED
  BY <1>1, <1>2, <1>3, <1>4, <1>5, <1>6 DEF IInv, TypeOK

\* Waking from a nap.
LEMMA ResumedKeeps ==
  ASSUME IInv, UNCHANGED act,
         NEW a, NEW causes \in SUBSET SUBSET {"timer", "dio"}, Resumed(a, causes)
  PROVE  IInv'
<1>1. FieldsOK'
  BY NodeAssumption DEF IInv, Resumed, FieldsOK, TypeOK
<1>2. flag' \in BOOLEAN
  BY DEF IInv, Resumed, TypeOK
<1>3. Places'
  BY DEF IInv, Resumed, FieldsOK, TypeOK, Places, Cases
<1>4. Radio'
  BY DEF IInv, Resumed, FieldsOK, TypeOK, Places, Cases, Radio
<1>5. Reporting'
  BY DEF IInv, Resumed, FieldsOK, TypeOK, Places, Cases, Radio, Reporting
<1>6. Spending'
  BY NodeAssumption DEF IInv, Resumed, FieldsOK, TypeOK, Places, Cases, Spending, Timed, Budget, MeasureBudget
<1>7. QED
  BY <1>1, <1>2, <1>3, <1>4, <1>5, <1>6 DEF IInv, TypeOK

\* Events.
LEMMA EventKeeps ==
  ASSUME IInv, UNCHANGED act, Tick \/ OtherEvent \/ TxComplete \/ SensorReady \/ CloseSettings
  PROVE  IInv'
<1>1. CASE Tick
  <2>1. FieldsOK'
    BY <1>1, NodeAssumption DEF IInv, Tick, Unbounded, FieldsOK, TypeOK
  <2>2. flag' \in BOOLEAN
    BY <1>1 DEF IInv, Tick, Unbounded, TypeOK
  <2>3. Places'
    BY <1>1 DEF IInv, Tick, Unbounded, FieldsOK, TypeOK, Places, Cases
  <2>4. Radio'
    BY <1>1 DEF IInv, Tick, Unbounded, FieldsOK, TypeOK, Places, Cases, Radio
  <2>5. Reporting'
    BY <1>1 DEF IInv, Tick, Unbounded, FieldsOK, TypeOK, Places, Cases, Radio, Reporting
  <2>6. Spending'
    BY <1>1, NodeAssumption DEF IInv, Tick, Unbounded, FieldsOK, TypeOK, Places, Cases, Spending, Timed, Budget, MeasureBudget
  <2>7. QED
    BY <2>1, <2>2, <2>3, <2>4, <2>5, <2>6 DEF IInv, TypeOK
<1>2. CASE OtherEvent
  <2>1. FieldsOK'
    BY <1>2, NodeAssumption DEF IInv, OtherEvent, FieldsOK, TypeOK
  <2>2. flag' \in BOOLEAN
    BY <1>2 DEF IInv, OtherEvent, TypeOK
  <2>3. Places'
    BY <1>2 DEF IInv, OtherEvent, FieldsOK, TypeOK, Places, Cases
  <2>4. Radio'
    BY <1>2 DEF IInv, OtherEvent, FieldsOK, TypeOK, Places, Cases, Radio
  <2>5. Reporting'
    BY <1>2 DEF IInv, OtherEvent, FieldsOK, TypeOK, Places, Cases, Radio, Reporting
  <2>6. Spending'
    BY <1>2, NodeAssumption DEF IInv, OtherEvent, FieldsOK, TypeOK, Places, Cases, Spending, Timed, Budget, MeasureBudget
  <2>7. QED
    BY <2>1, <2>2, <2>3, <2>4, <2>5, <2>6 DEF IInv, TypeOK
<1>3. CASE TxComplete
  <2>1. FieldsOK'
    BY <1>3, NodeAssumption DEF IInv, TxComplete, FieldsOK, TypeOK
  <2>2. flag' \in BOOLEAN
    BY <1>3 DEF IInv, TxComplete, TypeOK
  <2>3. Places'
    BY <1>3 DEF IInv, TxComplete, FieldsOK, TypeOK, Places, Cases
  <2>4. Radio'
    BY <1>3 DEF IInv, TxComplete, FieldsOK, TypeOK, Places, Cases, Radio
  <2>5. Reporting'
    BY <1>3 DEF IInv, TxComplete, FieldsOK, TypeOK, Places, Cases, Radio, Reporting
  <2>6. Spending'
    BY <1>3, NodeAssumption DEF IInv, TxComplete, FieldsOK, TypeOK, Places, Cases, Spending, Timed, Budget, MeasureBudget
  <2>7. QED
    BY <2>1, <2>2, <2>3, <2>4, <2>5, <2>6 DEF IInv, TypeOK
<1>4. CASE SensorReady
  <2>1. FieldsOK'
    BY <1>4, NodeAssumption DEF IInv, SensorReady, FieldsOK, TypeOK
  <2>2. flag' \in BOOLEAN
    BY <1>4 DEF IInv, SensorReady, TypeOK
  <2>3. Places'
    BY <1>4 DEF IInv, SensorReady, FieldsOK, TypeOK, Places, Cases
  <2>4. Radio'
    BY <1>4 DEF IInv, SensorReady, FieldsOK, TypeOK, Places, Cases, Radio
  <2>5. Reporting'
    BY <1>4 DEF IInv, SensorReady, FieldsOK, TypeOK, Places, Cases, Radio, Reporting
  <2>6. Spending'
    BY <1>4, NodeAssumption DEF IInv, SensorReady, FieldsOK, TypeOK, Places, Cases, Spending, Timed, Budget, MeasureBudget
  <2>7. QED
    BY <2>1, <2>2, <2>3, <2>4, <2>5, <2>6 DEF IInv, TypeOK
<1>5. CASE CloseSettings
  BY <1>5, ResetKeeps DEF CloseSettings, IInv, TypeOK, FieldsOK
<1>6. QED
  BY <1>1, <1>2, <1>3, <1>4, <1>5

\* TX_WAIT_COMP.
LEMMA AwaitKeeps ==
  ASSUME IInv, UNCHANGED act, run = "loop", st = "TX_WAIT_COMP",
         act \notin {"Slp_Wk_and_Tx", "PAL_MOT-single"}, AwaitCompletion
  PROVE  IInv'
<1>1. CASE left = 0 /\ ResetSystem
  BY <1>1, ResetKeeps DEF IInv, TypeOK, FieldsOK
<1>2. CASE left > 0 /\ flag /\ GoTo("GO_SLEEP") /\ UNCHANGED Rest
  <2>1. tx = "quiet"
    BY <1>2 DEF IInv, Radio
  <2>2. QED
    BY <1>2, <2>1, LeaveKeeps
<1>3. CASE left > 0 /\ ~ flag /\ Stay
  BY <1>3, StayKeeps
<1>4. QED
  BY <1>1, <1>2, <1>3 DEF AwaitCompletion

\* PAL_AMB.
LEMMA AmbKeeps ==
  ASSUME IInv, UNCHANGED act, AmbSetup \/ AmbWakeup \/ AmbLoop
  PROVE  IInv'
<1>1. CASE AmbSetup
  BY <1>1, OpenSettingsKeeps, StartedKeeps DEF AmbSetup, Booting
<1>2. CASE AmbWakeup
  BY <1>2, WokenKeeps DEF AmbWakeup
<1>3. CASE AmbLoop
  <2>1. CASE In("PAL_AMB", "INTERACTIVE") /\ Stay
    BY <2>1, StayKeeps DEF In, Timed
  <2>2. CASE In("PAL_AMB", "INIT") /\ StartSensors
    BY <2>2, MeasureKeeps DEF In
  <2>3. CASE In("PAL_AMB", "SENSOR") /\ PollSensors
    <3>1. CASE sns = "ready"
      BY <2>3, <3>1, MeasureKeeps DEF In
    <3>2. CASE sns # "ready"
      BY <2>3, <3>2, StayKeeps DEF In, PollSensors, Timed
    <3>3. QED
      BY <3>1, <3>2
  <2>4. CASE In("PAL_AMB", "TX") /\ (Request("TX_WAIT_COMP") \/ NoRequest("GO_SLEEP"))
    <3>1. CASE Request("TX_WAIT_COMP")
      BY <2>4, <3>1, RequestKeeps DEF In
    <3>2. CASE NoRequest("GO_SLEEP")
      <4>1. tx = "quiet"
        BY <2>4 DEF In, IInv, TypeOK, FieldsOK, Radio
      <4>2. QED
        BY <2>4, <3>2, <4>1, LeaveKeeps DEF In, NoRequest
    <3>3. QED
      BY <2>4, <3>1, <3>2
  <2>5. CASE In("PAL_AMB", "TX_WAIT_COMP") /\ AwaitCompletion
    BY <2>5, AwaitKeeps DEF In
  <2>6. CASE In("PAL_AMB", "GO_SLEEP") /\ SleepNow
    <3>1. tx = "quiet"
      BY <2>6 DEF In, IInv, TypeOK, FieldsOK, Radio
    <3>2. QED
      BY <2>6, <3>1, SleepKeeps
  <2>7. QED
    BY <1>3, <2>1, <2>2, <2>3, <2>4, <2>5, <2>6 DEF AmbLoop
<1>4. QED
  BY <1>1, <1>2, <1>3

\* BRD_ARIA.
LEMMA AriaKeeps ==
  ASSUME IInv, UNCHANGED act, AriaSetup \/ AriaWakeup \/ AriaLoop
  PROVE  IInv'
<1>1. CASE AriaSetup
  BY <1>1, OpenSettingsKeeps, StartedKeeps DEF AriaSetup, Booting
<1>2. CASE AriaWakeup
  BY <1>2, WokenKeeps DEF AriaWakeup
<1>3. CASE AriaLoop
  <2>1. CASE In("BRD_ARIA", "INTERACTIVE") /\ Stay
    BY <2>1, StayKeeps DEF In, Timed
  <2>2. CASE In("BRD_ARIA", "INIT") /\ StartSensors
    BY <2>2, MeasureKeeps DEF In
  <2>3. CASE In("BRD_ARIA", "SENSOR") /\ PollSensors
    <3>1. CASE sns = "ready"
      BY <2>3, <3>1, MeasureKeeps DEF In
    <3>2. CASE sns # "ready"
      BY <2>3, <3>2, StayKeeps DEF In, PollSensors, Timed
    <3>3. QED
      BY <3>1, <3>2
  <2>4. CASE In("BRD_ARIA", "TX") /\ (Request("TX_WAIT_COMP") \/ NoRequest("GO_SLEEP"))
    <3>1. CASE Request("TX_WAIT_COMP")
      BY <2>4, <3>1, RequestKeeps DEF In
    <3>2. CASE NoRequest("GO_SLEEP")
      <4>1. tx = "quiet"
        BY <2>4 DEF In, IInv, TypeOK, FieldsOK, Radio
      <4>2. QED
        BY <2>4, <3>2, <4>1, LeaveKeeps DEF In, NoRequest
    <3>3. QED
      BY <2>4, <3>1, <3>2
  <2>5. CASE In("BRD_ARIA", "TX_WAIT_COMP") /\ AwaitCompletion
    BY <2>5, AwaitKeeps DEF In
  <2>6. CASE In("BRD_ARIA", "GO_SLEEP") /\ SleepNow
    <3>1. tx = "quiet"
      BY <2>6 DEF In, IInv, TypeOK, FieldsOK, Radio
    <3>2. QED
      BY <2>6, <3>1, SleepKeeps
  <2>7. QED
    BY <1>3, <2>1, <2>2, <2>3, <2>4, <2>5, <2>6 DEF AriaLoop
<1>4. QED
  BY <1>1, <1>2, <1>3

\* PAL_AMB-usenap.
LEMMA NapKeeps ==
  ASSUME IInv, UNCHANGED act, NapSetup \/ NapBegin \/ NapWakeup \/ NapResume \/ NapLoop
  PROVE  IInv'
<1>1. CASE NapSetup
  BY <1>1, OpenSettingsKeeps, StartedKeeps DEF NapSetup, Booting
<1>2. CASE NapBegin
  <2>1. CASE st = "INTERACTIVE" /\ Stay
    BY <1>2, <2>1, StayKeeps DEF NapBegin, Timed
  <2>2. CASE st # "INTERACTIVE" /\ SleepNow
    <3>1. tx = "quiet"
      BY <1>2 DEF NapBegin, IInv, TypeOK, FieldsOK, Radio
    <3>2. QED
      BY <2>2, <3>1, SleepKeeps
  <2>3. QED
    BY <1>2, <2>1, <2>2 DEF NapBegin
<1>3. CASE NapWakeup
  BY <1>3, WokenKeeps DEF NapWakeup
<1>4. CASE NapResume
  BY <1>4, ResumedKeeps DEF NapResume
<1>5. CASE NapLoop
  <2>1. CASE In("PAL_AMB-usenap", "INTERACTIVE") /\ Stay
    BY <2>1, StayKeeps DEF In, Timed
  <2>2. CASE In("PAL_AMB-usenap", "INIT") /\ NapNow
    BY <2>2, NapNowKeeps DEF In
  <2>3. CASE In("PAL_AMB-usenap", "NAP") /\ GoTo("SENSOR") /\ UNCHANGED Rest
    <3>1. FieldsOK'
      BY <2>3, NodeAssumption DEF IInv, In, GoTo, Rest, FieldsOK, TypeOK
    <3>2. flag' \in BOOLEAN
      BY <2>3 DEF IInv, In, GoTo, Rest, TypeOK
    <3>3. Places'
      BY <2>3 DEF IInv, In, GoTo, Rest, FieldsOK, TypeOK, Places, Cases
    <3>4. Radio'
      BY <2>3 DEF IInv, In, GoTo, Rest, FieldsOK, TypeOK, Places, Cases, Radio
    <3>5. Reporting'
      BY <2>3 DEF IInv, In, GoTo, Rest, FieldsOK, TypeOK, Places, Cases, Radio, Reporting
    <3>6. Spending'
      BY <2>3, NodeAssumption DEF IInv, In, GoTo, Rest, FieldsOK, TypeOK, Places, Cases, Spending, Timed, Budget, MeasureBudget
    <3>7. QED
      BY <3>1, <3>2, <3>3, <3>4, <3>5, <3>6 DEF IInv, TypeOK
  <2>4. CASE In("PAL_AMB-usenap", "SENSOR") /\ NapSensor
    <3>1. CASE sns = "ready" /\ PollSensors
      BY <2>4, <3>1, MeasureKeeps DEF In
    <3>2. CASE sns # "ready" /\ ResetSystem
      BY <3>2, ResetKeeps DEF IInv, TypeOK, FieldsOK
    <3>3. QED
      BY <2>4, <3>1, <3>2 DEF NapSensor
  <2>5. CASE In("PAL_AMB-usenap", "TX") /\ (Request("TX_WAIT_COMP") \/ NoRequest("GO_SLEEP"))
    <3>1. CASE Request("TX_WAIT_COMP")
      BY <2>5, <3>1, RequestKeeps DEF In
    <3>2. CASE NoRequest("GO_SLEEP")
      <4>1. tx = "quiet"
        BY <2>5 DEF In, IInv, TypeOK, FieldsOK, Radio
      <4>2. QED
        BY <2>5, <3>2, <4>1, LeaveKeeps DEF In, NoRequest
    <3>3. QED
      BY <2>5, <3>1, <3>2
  <2>6. CASE In("PAL_AMB-usenap", "TX_WAIT_COMP") /\ AwaitCompletion
    BY <2>6, AwaitKeeps DEF In
  <2>7. CASE In("PAL_AMB-usenap", "GO_SLEEP") /\ SleepNow
    <3>1. tx = "quiet"
      BY <2>7 DEF In, IInv, TypeOK, FieldsOK, Radio
    <3>2. QED
      BY <2>7, <3>1, SleepKeeps
  <2>8. QED
    BY <1>5, <2>1, <2>2, <2>3, <2>4, <2>5, <2>6, <2>7 DEF NapLoop
<1>6. QED
  BY <1>1, <1>2, <1>3, <1>4, <1>5

\* The request of PAL_AMB-bhv, or the wait for none.
LEMMA BhvWaitKeeps ==
  ASSUME IInv, UNCHANGED act, In("PAL_AMB-bhv", "TX"), NEW request \in BOOLEAN,
         BhvWait(request)
  PROVE  IInv'
<1>1. FieldsOK'
  BY NodeAssumption DEF IInv, In, BhvWait, GoTo, FieldsOK, TypeOK
<1>2. flag' \in BOOLEAN
  BY DEF IInv, In, BhvWait, GoTo, TypeOK
<1>3. Places'
  BY DEF IInv, In, BhvWait, GoTo, FieldsOK, TypeOK, Places, Cases
<1>4. Radio'
  BY DEF IInv, In, BhvWait, GoTo, FieldsOK, TypeOK, Places, Cases, Radio
<1>5. Reporting'
  BY DEF IInv, In, BhvWait, GoTo, FieldsOK, TypeOK, Places, Cases, Radio, Reporting
<1>6. Spending'
  BY NodeAssumption DEF IInv, In, BhvWait, GoTo, FieldsOK, TypeOK, Places, Cases, Spending, Timed, Budget, MeasureBudget
<1>7. QED
  BY <1>1, <1>2, <1>3, <1>4, <1>5, <1>6 DEF IInv, TypeOK

\* STATE_TX reads the sensors, or gives up.
LEMMA BhvReadKeeps ==
  ASSUME IInv, UNCHANGED act, In("PAL_AMB-bhv", "NAP"), BhvRead
  PROVE  IInv'
<1>1. FieldsOK'
  BY NodeAssumption DEF IInv, In, BhvRead, GoTo, Rest, FieldsOK, TypeOK
<1>2. flag' \in BOOLEAN
  BY DEF IInv, In, BhvRead, GoTo, Rest, TypeOK
<1>3. Places'
  BY DEF IInv, In, BhvRead, GoTo, Rest, FieldsOK, TypeOK, Places, Cases
<1>4. Radio'
  BY DEF IInv, In, BhvRead, GoTo, Rest, FieldsOK, TypeOK, Places, Cases, Radio
<1>5. Reporting'
  BY DEF IInv, In, BhvRead, GoTo, Rest, FieldsOK, TypeOK, Places, Cases, Radio, Reporting
<1>6. Spending'
  BY NodeAssumption DEF IInv, In, BhvRead, GoTo, Rest, FieldsOK, TypeOK, Places, Cases, Spending, Timed, Budget, MeasureBudget
<1>7. QED
  BY <1>1, <1>2, <1>3, <1>4, <1>5, <1>6 DEF IInv, TypeOK

\* PAL_AMB-bhv.
LEMMA BhvKeeps ==
  ASSUME IInv, UNCHANGED act, BhvSetup \/ BhvBegin \/ BhvWakeup \/ BhvResume \/ BhvLoop
  PROVE  IInv'
<1>1. CASE BhvSetup
  BY <1>1, StartedKeeps DEF BhvSetup, Booting
<1>2. CASE BhvBegin
  <2>1. tx = "quiet"
    BY <1>2 DEF BhvBegin, IInv, TypeOK, FieldsOK, Radio
  <2>2. QED
    BY <1>2, <2>1, SleepKeeps DEF BhvBegin
<1>3. CASE BhvWakeup
  BY <1>3, WokenKeeps DEF BhvWakeup
<1>4. CASE BhvResume
  BY <1>4, ResumedKeeps DEF BhvResume
<1>5. CASE BhvLoop
  <2>1. CASE In("PAL_AMB-bhv", "INIT") /\ NapNow
    BY <2>1, NapNowKeeps DEF In
  <2>2. CASE In("PAL_AMB-bhv", "NAP") /\ BhvRead
    BY <2>2, BhvReadKeeps
  <2>3. CASE In("PAL_AMB-bhv", "TX") /\ BhvTx
    <3>1. CASE BhvWait(TRUE) \/ BhvWait(FALSE)
      BY <2>3, <3>1, BhvWaitKeeps
    <3>2. CASE NoRequest("GO_SLEEP")
      <4>1. tx = "quiet"
        BY <2>3 DEF In, IInv, TypeOK, FieldsOK, Radio
      <4>2. QED
        BY <2>3, <3>2, <4>1, LeaveKeeps DEF In, NoRequest
    <3>3. QED
      BY <2>3, <3>1, <3>2 DEF BhvTx
  <2>4. CASE In("PAL_AMB-bhv", "TX_WAIT_COMP") /\ AwaitCompletion
    BY <2>4, AwaitKeeps DEF In
  <2>5. CASE In("PAL_AMB-bhv", "GO_SLEEP") /\ SleepNow
    <3>1. tx = "quiet"
      BY <2>5 DEF In, IInv, TypeOK, FieldsOK, Radio
    <3>2. QED
      BY <2>5, <3>1, SleepKeeps
  <2>6. QED
    BY <1>5, <2>1, <2>2, <2>3, <2>4, <2>5 DEF BhvLoop
<1>6. QED
  BY <1>1, <1>2, <1>3, <1>4, <1>5

\* PAL_MAG.
LEMMA MagKeeps ==
  ASSUME IInv, UNCHANGED act, MagSetup \/ MagBegin \/ MagWakeup \/ MagLoop
  PROVE  IInv'
<1>1. CASE MagSetup
  BY <1>1, OpenSettingsKeeps, StartedKeeps DEF MagSetup, Booting
<1>2. CASE MagBegin
  <2>1. CASE st = "INTERACTIVE" /\ Stay
    BY <1>2, <2>1, StayKeeps DEF MagBegin, Timed
  <2>2. CASE st # "INTERACTIVE" /\ SleepNow
    <3>1. tx = "quiet"
      BY <1>2 DEF MagBegin, IInv, TypeOK, FieldsOK, Radio
    <3>2. QED
      BY <2>2, <3>1, SleepKeeps
  <2>3. QED
    BY <1>2, <2>1, <2>2 DEF MagBegin
<1>3. CASE MagWakeup
  <2>1. CASE Woken("PAL_MAG", {{"dio"}}) /\ UNCHANGED data
    BY <2>1, WokenKeeps
  <2>2. CASE run = "sleep" /\ run' = run
    <3>1. FieldsOK'
      BY <1>3, <2>2, NodeAssumption DEF IInv, MagWakeup, Woken, FieldsOK, TypeOK
    <3>2. flag' \in BOOLEAN
      BY <1>3, <2>2 DEF IInv, MagWakeup, Woken, TypeOK
    <3>3. Places'
      BY <1>3, <2>2 DEF IInv, MagWakeup, Woken, FieldsOK, TypeOK, Places, Cases
    <3>4. Radio'
      BY <1>3, <2>2 DEF IInv, MagWakeup, Woken, FieldsOK, TypeOK, Places, Cases, Radio
    <3>5. Reporting'
      BY <1>3, <2>2 DEF IInv, MagWakeup, Woken, FieldsOK, TypeOK, Places, Cases, Radio, Reporting
    <3>6. Spending'
      BY <1>3, <2>2, NodeAssumption DEF IInv, MagWakeup, Woken, FieldsOK, TypeOK, Places, Cases, Spending, Timed, Budget, MeasureBudget
    <3>7. QED
      BY <3>1, <3>2, <3>3, <3>4, <3>5, <3>6 DEF IInv, TypeOK
  <2>3. QED
    BY <1>3, <2>1, <2>2 DEF MagWakeup
<1>4. CASE MagLoop
  <2>1. CASE In("PAL_MAG", "INTERACTIVE") /\ Stay
    BY <2>1, StayKeeps DEF In, Timed
  <2>2. CASE In("PAL_MAG", "INIT") /\ MagInit
    <3>1. FieldsOK'
      BY <2>2, NodeAssumption DEF IInv, In, MagInit, GoTo, FieldsOK, TypeOK
    <3>2. flag' \in BOOLEAN
      BY <2>2 DEF IInv, In, MagInit, GoTo, TypeOK
    <3>3. Places'
      BY <2>2 DEF IInv, In, MagInit, GoTo, FieldsOK, TypeOK, Places, Cases
    <3>4. Radio'
      BY <2>2 DEF IInv, In, MagInit, GoTo, FieldsOK, TypeOK, Places, Cases, Radio
    <3>5. Reporting'
      BY <2>2 DEF IInv, In, MagInit, GoTo, FieldsOK, TypeOK, Places, Cases, Radio, Reporting
    <3>6. Spending'
      BY <2>2, NodeAssumption DEF IInv, In, MagInit, GoTo, FieldsOK, TypeOK, Places, Cases, Spending, Timed, Budget, MeasureBudget
    <3>7. QED
      BY <3>1, <3>2, <3>3, <3>4, <3>5, <3>6 DEF IInv, TypeOK
  <2>3. CASE In("PAL_MAG", "TX") /\ (Request("TX_WAIT_COMP") \/ NoRequest("GO_SLEEP"))
    <3>1. CASE Request("TX_WAIT_COMP")
      BY <2>3, <3>1, RequestKeeps DEF In
    <3>2. CASE NoRequest("GO_SLEEP")
      <4>1. tx = "quiet"
        BY <2>3 DEF In, IInv, TypeOK, FieldsOK, Radio
      <4>2. QED
        BY <2>3, <3>2, <4>1, LeaveKeeps DEF In, NoRequest
    <3>3. QED
      BY <2>3, <3>1, <3>2
  <2>4. CASE In("PAL_MAG", "TX_WAIT_COMP") /\ AwaitCompletion
    BY <2>4, AwaitKeeps DEF In
  <2>5. CASE In("PAL_MAG", "GO_SLEEP") /\ SleepNow
    <3>1. tx = "quiet"
      BY <2>5 DEF In, IInv, TypeOK, FieldsOK, Radio
    <3>2. QED
      BY <2>5, <3>1, SleepKeeps
  <2>6. QED
    BY <1>4, <2>1, <2>2, <2>3, <2>4, <2>5 DEF MagLoop
<1>5. QED
  BY <1>1, <1>2, <1>3, <1>4

\* BRD_I2C_TEMPHUMID.
LEMMA I2cKeeps ==
  ASSUME IInv, UNCHANGED act, I2cSetup \/ I2cWakeup \/ I2cLoop
  PROVE  IInv'
<1>1. CASE I2cSetup
  BY <1>1, OpenSettingsKeeps, StartedKeeps DEF I2cSetup, Booting
<1>2. CASE I2cWakeup
  BY <1>2, WokenKeeps DEF I2cWakeup
<1>3. CASE I2cLoop
  <2>1. CASE In("BRD_I2C_TEMPHUMID", "INTERACTIVE") /\ Stay
    BY <2>1, StayKeeps DEF In, Timed
  <2>2. CASE In("BRD_I2C_TEMPHUMID", "INIT") /\ I2cInit
    <3>1. FieldsOK'
      BY <2>2, NodeAssumption DEF IInv, In, I2cInit, GoTo, FieldsOK, TypeOK
    <3>2. flag' \in BOOLEAN
      BY <2>2 DEF IInv, In, I2cInit, GoTo, TypeOK
    <3>3. Places'
      BY <2>2 DEF IInv, In, I2cInit, GoTo, FieldsOK, TypeOK, Places, Cases
    <3>4. Radio'
      BY <2>2 DEF IInv, In, I2cInit, GoTo, FieldsOK, TypeOK, Places, Cases, Radio
    <3>5. Reporting'
      BY <2>2 DEF IInv, In, I2cInit, GoTo, FieldsOK, TypeOK, Places, Cases, Radio, Reporting
    <3>6. Spending'
      BY <2>2, NodeAssumption DEF IInv, In, I2cInit, GoTo, FieldsOK, TypeOK, Places, Cases, Spending, Timed, Budget, MeasureBudget
    <3>7. QED
      BY <3>1, <3>2, <3>3, <3>4, <3>5, <3>6 DEF IInv, TypeOK
  <2>3. CASE In("BRD_I2C_TEMPHUMID", "SENSOR") /\ I2cSensor
    <3>1. CASE left > 0 /\ Stay
      BY <2>3, <3>1, StayKeeps DEF In, Timed
    <3>2. CASE left = 0 /\ I2cRead /\ GoTo("TX")
              /\ UNCHANGED <<ev, wake, flag, left, sns, job, tx, sent, up>>
      <4>1. FieldsOK'
        BY <2>3, <3>2, NodeAssumption DEF IInv, In, I2cRead, GoTo, FieldsOK, TypeOK
      <4>2. flag' \in BOOLEAN
        BY <2>3, <3>2 DEF IInv, In, I2cRead, GoTo, TypeOK
      <4>3. Places'
        BY <2>3, <3>2 DEF IInv, In, I2cRead, GoTo, FieldsOK, TypeOK, Places, Cases
      <4>4. Radio'
        BY <2>3, <3>2 DEF IInv, In, I2cRead, GoTo, FieldsOK, TypeOK, Places, Cases, Radio
      <4>5. Reporting'
        BY <2>3, <3>2 DEF IInv, In, I2cRead, GoTo, FieldsOK, TypeOK, Places, Cases, Radio, Reporting
      <4>6. Spending'
        BY <2>3, <3>2, NodeAssumption DEF IInv, In, I2cRead, GoTo, FieldsOK, TypeOK, Places, Cases, Spending, Timed, Budget, MeasureBudget
      <4>7. QED
        BY <4>1, <4>2, <4>3, <4>4, <4>5, <4>6 DEF IInv, TypeOK
    <3>3. QED
      BY <2>3, <3>1, <3>2 DEF I2cSensor
  <2>4. CASE In("BRD_I2C_TEMPHUMID", "TX") /\ (Request("TX_WAIT_COMP") \/ NoRequest("GO_SLEEP"))
    <3>1. CASE Request("TX_WAIT_COMP")
      BY <2>4, <3>1, RequestKeeps DEF In
    <3>2. CASE NoRequest("GO_SLEEP")
      <4>1. tx = "quiet"
        BY <2>4 DEF In, IInv, TypeOK, FieldsOK, Radio
      <4>2. QED
        BY <2>4, <3>2, <4>1, LeaveKeeps DEF In, NoRequest
    <3>3. QED
      BY <2>4, <3>1, <3>2
  <2>5. CASE In("BRD_I2C_TEMPHUMID", "TX_WAIT_COMP") /\ AwaitCompletion
    BY <2>5, AwaitKeeps DEF In
  <2>6. CASE In("BRD_I2C_TEMPHUMID", "GO_SLEEP") /\ SleepNow
    <3>1. tx = "quiet"
      BY <2>6 DEF In, IInv, TypeOK, FieldsOK, Radio
    <3>2. QED
      BY <2>6, <3>1, SleepKeeps
  <2>7. QED
    BY <1>3, <2>1, <2>2, <2>3, <2>4, <2>5, <2>6 DEF I2cLoop
<1>4. QED
  BY <1>1, <1>2, <1>3

\* Slp_Wk_and_Tx.
LEMMA SwtKeeps ==
  ASSUME IInv, UNCHANGED act, SwtSetup \/ SwtBegin \/ SwtWakeup \/ SwtLoop
  PROVE  IInv'
<1>1. CASE SwtSetup
  BY <1>1, StartedKeeps DEF SwtSetup, Booting
<1>2. CASE SwtBegin
  <2>1. tx = "quiet"
    BY <1>2 DEF SwtBegin, IInv, TypeOK, FieldsOK, Radio
  <2>2. QED
    BY <1>2, <2>1, SleepKeeps DEF SwtBegin
<1>3. CASE SwtWakeup
  BY <1>3, WokenKeeps DEF SwtWakeup
<1>4. CASE SwtLoop
  <2>1. CASE In("Slp_Wk_and_Tx", "INIT") /\ SwtInit
    <3>1. FieldsOK'
      BY <2>1, NodeAssumption DEF IInv, In, SwtInit, GoTo, FieldsOK, TypeOK
    <3>2. flag' \in BOOLEAN
      BY <2>1 DEF IInv, In, SwtInit, GoTo, TypeOK
    <3>3. Places'
      BY <2>1 DEF IInv, In, SwtInit, GoTo, FieldsOK, TypeOK, Places, Cases
    <3>4. Radio'
      BY <2>1 DEF IInv, In, SwtInit, GoTo, FieldsOK, TypeOK, Places, Cases, Radio
    <3>5. Reporting'
      BY <2>1 DEF IInv, In, SwtInit, GoTo, FieldsOK, TypeOK, Places, Cases, Radio, Reporting
    <3>6. Spending'
      <4>1. st' = "WORK_JOB" /\ up' = 0 /\ job' \in 1 .. WORK_MAX
        BY <2>1 DEF IInv, In, SwtInit, GoTo, Spending
      <4>2. MeasureBudget' = WORK_MAX
        BY <2>1 DEF In, MeasureBudget
      <4>3. \A n \in 1 .. WORK_MAX : n > 0 /\ 0 + n <= WORK_MAX /\ 0 + n <= WORK_MAX + 1
        BY NodeAssumption
      <4>4. QED
        BY <4>1, <4>2, <4>3 DEF Spending, Timed
    <3>7. QED
      BY <3>1, <3>2, <3>3, <3>4, <3>5, <3>6 DEF IInv, TypeOK
  <2>2. CASE In("Slp_Wk_and_Tx", "WORK_JOB") /\ SwtWorkJob
    <3>1. FieldsOK'
      <4>1. job' \in 0 .. WORK_MAX
        BY <2>2, NodeAssumption DEF IInv, In, SwtWorkJob, Stay, Rest, FieldsOK, TypeOK
      <4>2. data' \in {"none", "fresh", "stale"}
        BY <2>2 DEF IInv, In, SwtWorkJob, Stay, Rest, FieldsOK, TypeOK
      <4>3. QED
        BY <2>2, <4>1, <4>2 DEF IInv, In, SwtWorkJob, GoTo, Stay, Rest, FieldsOK, TypeOK
    <3>2. flag' \in BOOLEAN
      BY <2>2 DEF IInv, In, SwtWorkJob, GoTo, Stay, Rest, TypeOK
    <3>3. Places'
      BY <2>2 DEF IInv, In, SwtWorkJob, GoTo, Stay, Rest, FieldsOK, TypeOK, Places, Cases
    <3>4. Radio'
      BY <2>2 DEF IInv, In, SwtWorkJob, GoTo, Stay, Rest, FieldsOK, TypeOK, Places, Cases, Radio
    <3>5. Reporting'
      BY <2>2 DEF IInv, In, SwtWorkJob, GoTo, Stay, Rest, FieldsOK, TypeOK, Places, Cases, Radio, Reporting
    <3>6. Spending'
      BY <2>2, NodeAssumption DEF IInv, In, SwtWorkJob, GoTo, Stay, Rest, FieldsOK, TypeOK, Places, Cases, Spending, Timed, Budget, MeasureBudget
    <3>7. QED
      BY <3>1, <3>2, <3>3, <3>4, <3>5, <3>6 DEF IInv, TypeOK
  <2>3. CASE In("Slp_Wk_and_Tx", "TX") /\ (Request("WAIT_TX") \/ NoRequest("EXIT_FATAL"))
    <3>1. CASE Request("WAIT_TX")
      BY <2>3, <3>1, RequestKeeps DEF In
    <3>2. CASE NoRequest("EXIT_FATAL")
      <4>1. tx = "quiet"
        BY <2>3 DEF In, IInv, TypeOK, FieldsOK, Radio
      <4>2. QED
        BY <2>3, <3>2, <4>1, LeaveKeeps DEF In, NoRequest
    <3>3. QED
      BY <2>3, <3>1, <3>2
  <2>4. CASE In("Slp_Wk_and_Tx", "WAIT_TX") /\ SwtWaitTx
    <3>1. CASE flag /\ GoTo("EXIT_NORMAL") /\ UNCHANGED Rest
      <4>1. tx = "quiet"
        BY <2>4, <3>1 DEF In, IInv, Radio
      <4>2. QED
        BY <2>4, <3>1, <4>1, LeaveKeeps DEF In
    <3>2. CASE ~ flag /\ left = 0 /\ GoTo("EXIT_FATAL") /\ UNCHANGED Rest
      BY <2>4, <3>2, LeaveKeeps DEF In
    <3>3. CASE ~ flag /\ left > 0 /\ Stay
      BY <2>4, <3>3, StayKeeps DEF In
    <3>4. QED
      BY <2>4, <3>1, <3>2, <3>3 DEF SwtWaitTx
  <2>5. CASE In("Slp_Wk_and_Tx", "EXIT_NORMAL") /\ SleepNow
    <3>1. tx = "quiet"
      BY <2>5 DEF In, IInv, TypeOK, FieldsOK, Radio
    <3>2. QED
      BY <2>5, <3>1, SleepKeeps
  <2>6. CASE In("Slp_Wk_and_Tx", "EXIT_FATAL") /\ ResetSystem
    BY <2>6, ResetKeeps DEF IInv, TypeOK, FieldsOK
  <2>7. QED
    BY <1>4, <2>1, <2>2, <2>3, <2>4, <2>5, <2>6 DEF SwtLoop
<1>5. QED
  BY <1>1, <1>2, <1>3, <1>4

\* PAL_MOT-single.
LEMMA MotKeeps ==
  ASSUME IInv, UNCHANGED act, MotSetup \/ MotBegin \/ MotWakeup \/ MotLoop
  PROVE  IInv'
<1>1. CASE MotSetup
  BY <1>1, OpenSettingsKeeps, StartedKeeps DEF MotSetup, Booting
<1>2. CASE MotBegin
  <2>1. CASE st = "INTERACTIVE" /\ Stay
    BY <1>2, <2>1, StayKeeps DEF MotBegin, Timed
  <2>2. CASE st # "INTERACTIVE" /\ SleepNow
    <3>1. tx = "quiet"
      BY <1>2 DEF MotBegin, IInv, TypeOK, FieldsOK, Radio
    <3>2. QED
      BY <2>2, <3>1, SleepKeeps
  <2>3. QED
    BY <1>2, <2>1, <2>2 DEF MotBegin
<1>3. CASE MotWakeup
  BY <1>3, WokenKeeps DEF MotWakeup
<1>4. CASE MotLoop
  <2>1. CASE In("PAL_MOT-single", "INTERACTIVE") /\ Stay
    BY <2>1, StayKeeps DEF In, Timed
  <2>2. CASE In("PAL_MOT-single", "INIT") /\ MotInit
    <3>1. FieldsOK'
      BY <2>2, NodeAssumption DEF IInv, In, MotInit, GoTo, FieldsOK, TypeOK
    <3>2. flag' \in BOOLEAN
      BY <2>2 DEF IInv, In, MotInit, GoTo, TypeOK
    <3>3. Places'
      BY <2>2 DEF IInv, In, MotInit, GoTo, FieldsOK, TypeOK, Places, Cases
    <3>4. Radio'
      BY <2>2 DEF IInv, In, MotInit, GoTo, FieldsOK, TypeOK, Places, Cases, Radio
    <3>5. Reporting'
      BY <2>2 DEF IInv, In, MotInit, GoTo, FieldsOK, TypeOK, Places, Cases, Radio, Reporting
    <3>6. Spending'
      BY <2>2, NodeAssumption DEF IInv, In, MotInit, GoTo, FieldsOK, TypeOK, Places, Cases, Spending, Timed, Budget, MeasureBudget
    <3>7. QED
      BY <3>1, <3>2, <3>3, <3>4, <3>5, <3>6 DEF IInv, TypeOK
  <2>3. CASE In("PAL_MOT-single", "START_CAPTURE") /\ MotStartCapture
    <3>1. FieldsOK'
      BY <2>3, NodeAssumption DEF IInv, In, MotStartCapture, GoTo, FieldsOK, TypeOK
    <3>2. flag' \in BOOLEAN
      BY <2>3 DEF IInv, In, MotStartCapture, GoTo, TypeOK
    <3>3. Places'
      BY <2>3 DEF IInv, In, MotStartCapture, GoTo, FieldsOK, TypeOK, Places, Cases
    <3>4. Radio'
      BY <2>3 DEF IInv, In, MotStartCapture, GoTo, FieldsOK, TypeOK, Places, Cases, Radio
    <3>5. Reporting'
      BY <2>3 DEF IInv, In, MotStartCapture, GoTo, FieldsOK, TypeOK, Places, Cases, Radio, Reporting
    <3>6. Spending'
      BY <2>3, NodeAssumption DEF IInv, In, MotStartCapture, GoTo, FieldsOK, TypeOK, Places, Cases, Spending, Timed, Budget, MeasureBudget
    <3>7. QED
      BY <3>1, <3>2, <3>3, <3>4, <3>5, <3>6 DEF IInv, TypeOK
  <2>4. CASE In("PAL_MOT-single", "WAIT_CAPTURE") /\ MotWaitCapture
    <3>1. FieldsOK'
      BY <2>4, NodeAssumption DEF IInv, In, MotWaitCapture, GoTo, Stay, Rest, FieldsOK, TypeOK
    <3>2. flag' \in BOOLEAN
      BY <2>4 DEF IInv, In, MotWaitCapture, GoTo, Stay, Rest, TypeOK
    <3>3. Places'
      BY <2>4 DEF IInv, In, MotWaitCapture, GoTo, Stay, Rest, FieldsOK, TypeOK, Places, Cases
    <3>4. Radio'
      BY <2>4 DEF IInv, In, MotWaitCapture, GoTo, Stay, Rest, FieldsOK, TypeOK, Places, Cases, Radio
    <3>5. Reporting'
      BY <2>4 DEF IInv, In, MotWaitCapture, GoTo, Stay, Rest, FieldsOK, TypeOK, Places, Cases, Radio, Reporting
    <3>6. Spending'
      BY <2>4, NodeAssumption DEF IInv, In, MotWaitCapture, GoTo, Stay, Rest, FieldsOK, TypeOK, Places, Cases, Spending, Timed, Budget, MeasureBudget
    <3>7. QED
      BY <3>1, <3>2, <3>3, <3>4, <3>5, <3>6 DEF IInv, TypeOK
  <2>5. CASE In("PAL_MOT-single", "REQUEST_TX") /\ (Request("WAIT_TX") \/ NoRequest("EXIT_FATAL"))
    <3>1. CASE Request("WAIT_TX")
      BY <2>5, <3>1, RequestKeeps DEF In
    <3>2. CASE NoRequest("EXIT_FATAL")
      <4>1. tx = "quiet"
        BY <2>5 DEF In, IInv, TypeOK, FieldsOK, Radio
      <4>2. QED
        BY <2>5, <3>2, <4>1, LeaveKeeps DEF In, NoRequest
    <3>3. QED
      BY <2>5, <3>1, <3>2
  <2>6. CASE In("PAL_MOT-single", "WAIT_TX") /\ MotWaitTx
    <3>1. CASE left > 0 /\ flag /\ GoTo("EXIT_NORMAL") /\ UNCHANGED Rest
      <4>1. tx = "quiet"
        BY <2>6, <3>1 DEF In, IInv, Radio
      <4>2. QED
        BY <2>6, <3>1, <4>1, LeaveKeeps DEF In
    <3>2. CASE left = 0 /\ GoTo("EXIT_FATAL") /\ UNCHANGED Rest
      BY <2>6, <3>2, LeaveKeeps DEF In
    <3>3. CASE left > 0 /\ ~ flag /\ Stay
      BY <2>6, <3>3, StayKeeps DEF In
    <3>4. QED
      BY <2>6, <3>1, <3>2, <3>3 DEF MotWaitTx
  <2>7. CASE In("PAL_MOT-single", "EXIT_NORMAL") /\ SleepNow
    <3>1. tx = "quiet"
      BY <2>7 DEF In, IInv, TypeOK, FieldsOK, Radio
    <3>2. QED
      BY <2>7, <3>1, SleepKeeps
  <2>8. CASE In("PAL_MOT-single", "EXIT_FATAL") /\ ResetSystem
    BY <2>8, ResetKeeps DEF IInv, TypeOK, FieldsOK
  <2>9. QED
    BY <1>4, <2>1, <2>2, <2>3, <2>4, <2>5, <2>6, <2>7, <2>8 DEF MotLoop
<1>5. QED
  BY <1>1, <1>2, <1>3, <1>4

\* Init.
LEMMA Starts == Init => IInv
<1> SUFFICES ASSUME Init PROVE IInv
  OBVIOUS
<1>1. FieldsOK
  BY NodeAssumption DEF IInv, Init, FieldsOK, TypeOK
<1>2. flag \in BOOLEAN
  BY DEF Init, TypeOK
<1>3. Places
  BY DEF Init, FieldsOK, TypeOK, Places, Cases
<1>4. Radio
  BY DEF Init, FieldsOK, TypeOK, Places, Cases, Radio
<1>5. Reporting
  BY DEF Init, FieldsOK, TypeOK, Places, Cases, Radio, Reporting
<1>6. Spending
  BY NodeAssumption DEF IInv, Init, FieldsOK, TypeOK, Places, Cases, Spending, Timed, Budget, MeasureBudget
<1>7. QED
  BY <1>1, <1>2, <1>3, <1>4, <1>5, <1>6 DEF IInv, TypeOK

\* No step of any act, and no event, breaks the invariant.
LEMMA NextKeeps == IInv /\ [Next]_vars => IInv'
<1> SUFFICES ASSUME IInv, [Next]_vars PROVE IInv'
  OBVIOUS
<1>1. CASE UNCHANGED vars
  <2>1. FieldsOK'
    BY <1>1, NodeAssumption DEF IInv, vars, nodeVars, FieldsOK, TypeOK
  <2>2. flag' \in BOOLEAN
    BY <1>1 DEF IInv, vars, nodeVars, TypeOK
  <2>3. Places'
    BY <1>1 DEF IInv, vars, nodeVars, FieldsOK, TypeOK, Places, Cases
  <2>4. Radio'
    BY <1>1 DEF IInv, vars, nodeVars, FieldsOK, TypeOK, Places, Cases, Radio
  <2>5. Reporting'
    BY <1>1 DEF IInv, vars, nodeVars, FieldsOK, TypeOK, Places, Cases, Radio, Reporting
  <2>6. Spending'
    BY <1>1, NodeAssumption DEF IInv, vars, nodeVars, FieldsOK, TypeOK, Places, Cases, Spending, Timed, Budget, MeasureBudget
  <2>7. QED
    BY <2>1, <2>2, <2>3, <2>4, <2>5, <2>6 DEF IInv, TypeOK
<1>2. CASE Step
  BY <1>2, AmbKeeps, NapKeeps, BhvKeeps, MagKeeps, AriaKeeps, I2cKeeps, SwtKeeps, MotKeeps
     DEF Step, Setup, Begin, Wakeup, Loop
<1>3. CASE Event
  BY <1>3, EventKeeps DEF Event
<1>4. QED
  BY <1>1, <1>2, <1>3 DEF Next

\* The invariant holds in every state of every act.
THEOREM Invariance == Spec => []IInv
BY Starts, NextKeeps, PTL DEF Spec

----------------------------------------------------------------------------
(* Refinement: every step of an act is a step of the duty cycle, or none.  *)

DutyStep == Duty!Next \/ UNCHANGED Duty!vars

\* loop() or begin() returns.
LEMMA StayDuty ==
  ASSUME IInv, UNCHANGED act, run # "sleep", Stay
  PROVE  DutyStep
BY DEF IInv, TypeOK, FieldsOK, Stay, Rest,
       DutyStep, Duty!Next, Duty!vars

\* Nothing the duty cycle knows of has changed.
LEMMA MoveDuty ==
  ASSUME IInv, UNCHANGED act, run # "sleep", UNCHANGED Rest, run' # "sleep"
  PROVE  DutyStep
BY DEF IInv, TypeOK, FieldsOK, Rest,
       DutyStep, Duty!Next, Duty!vars

\* Sleeping switches the node off.
LEMMA SleepDuty ==
  ASSUME IInv, UNCHANGED act, run # "sleep", SleepNow, tx = "quiet"
  PROVE  DutyStep
BY DEF IInv, TypeOK, FieldsOK, SleepNow, Aged, Duty!SwitchOff,
       DutyStep, Duty!Next, Duty!vars

\* A reset is a restart.
LEMMA ResetDuty ==
  ASSUME IInv, UNCHANGED act, run # "sleep", ResetSystem
  PROVE  DutyStep
BY DEF IInv, TypeOK, FieldsOK, ResetSystem, Duty!Restart,
       DutyStep, Duty!Next, Duty!vars

\* A request is a transmission, of new data and the first of the period.
LEMMA RequestDuty ==
  ASSUME IInv, UNCHANGED act, run # "sleep", NEW s, Request(s), st \in Requesting
  PROVE  DutyStep
BY DEF IInv, TypeOK, FieldsOK, Places, Cases, Radio, Reporting, Request, GoTo, Duty!Transmit,
       DutyStep, Duty!Next, Duty!vars

\* A wake-up switches the node on.
LEMMA WokenDuty ==
  ASSUME IInv, UNCHANGED act, NEW a, NEW c, Woken(a, c), data' \in {data, "none"}
  PROVE  DutyStep
BY DEF IInv, TypeOK, FieldsOK, Reporting, Woken, Duty!SwitchOn,
       DutyStep, Duty!Next, Duty!vars

\* The sensors of a board are started, or polled.
LEMMA MeasureDuty ==
  ASSUME IInv, UNCHANGED act, run = "loop", st \in Measuring, StartSensors \/ PollSensors
  PROVE  DutyStep
BY DEF IInv, TypeOK, FieldsOK, Places, Radio, Reporting, StartSensors, PollSensors, GoTo, Stay, Rest, Duty!Measure,
       DutyStep, Duty!Next, Duty!vars

\* TX_WAIT_COMP.
LEMMA AwaitDuty ==
  ASSUME IInv, UNCHANGED act, run = "loop", AwaitCompletion
  PROVE  DutyStep
<1>1. CASE left = 0 /\ ResetSystem
  BY <1>1, ResetDuty
<1>2. CASE left > 0 /\ flag /\ GoTo("GO_SLEEP") /\ UNCHANGED Rest
  BY <1>2, MoveDuty DEF GoTo
<1>3. CASE left > 0 /\ ~ flag /\ Stay
  BY <1>3, StayDuty
<1>4. QED
  BY <1>1, <1>2, <1>3 DEF AwaitCompletion

\* Events.
LEMMA EventDuty ==
  ASSUME IInv, UNCHANGED act, Tick \/ OtherEvent \/ TxComplete \/ SensorReady \/ CloseSettings
  PROVE  DutyStep
<1>1. CASE CloseSettings
  BY <1>1, ResetDuty DEF CloseSettings
<1>2. CASE Tick \/ OtherEvent \/ SensorReady
  BY <1>2 DEF Tick, OtherEvent, SensorReady, DutyStep, Duty!vars
<1>3. CASE TxComplete
  BY <1>3 DEF TxComplete, DutyStep, Duty!Next, Duty!Complete
<1>4. QED
  BY <1>1, <1>2, <1>3

\* PAL_AMB.
LEMMA AmbDuty ==
  ASSUME IInv, UNCHANGED act, AmbSetup \/ AmbWakeup \/ AmbLoop
  PROVE  DutyStep
<1>1. CASE AmbSetup
  BY <1>1, MoveDuty DEF AmbSetup, Booting, OpenSettings, Started
<1>2. CASE AmbWakeup
  BY <1>2, WokenDuty DEF AmbWakeup
<1>3. CASE AmbLoop
  <2>1. CASE In("PAL_AMB", "INTERACTIVE") /\ Stay
    BY <2>1, StayDuty DEF In
  <2>2. CASE In("PAL_AMB", "INIT") /\ StartSensors
    BY <2>2, MeasureDuty DEF In
  <2>3. CASE In("PAL_AMB", "SENSOR") /\ PollSensors
    BY <2>3, MeasureDuty DEF In
  <2>4. CASE In("PAL_AMB", "TX") /\ (Request("TX_WAIT_COMP") \/ NoRequest("GO_SLEEP"))
    <3>1. CASE Request("TX_WAIT_COMP")
      BY <2>4, <3>1, RequestDuty DEF In
    <3>2. CASE NoRequest("GO_SLEEP")
      BY <2>4, <3>2, MoveDuty DEF In, NoRequest, GoTo
    <3>3. QED
      BY <2>4, <3>1, <3>2
  <2>5. CASE In("PAL_AMB", "TX_WAIT_COMP") /\ AwaitCompletion
    BY <2>5, AwaitDuty DEF In
  <2>6. CASE In("PAL_AMB", "GO_SLEEP") /\ SleepNow
    <3>1. tx = "quiet"
      BY <2>6 DEF In, IInv, TypeOK, FieldsOK, Radio
    <3>2. QED
      BY <2>6, <3>1, SleepDuty DEF In
  <2>7. QED
    BY <1>3, <2>1, <2>2, <2>3, <2>4, <2>5, <2>6 DEF AmbLoop
<1>4. QED
  BY <1>1, <1>2, <1>3

\* PAL_AMB-usenap.
LEMMA NapDuty ==
  ASSUME IInv, UNCHANGED act, NapSetup \/ NapBegin \/ NapWakeup \/ NapResume \/ NapLoop
  PROVE  DutyStep
<1>1. CASE NapSetup
  BY <1>1, MoveDuty DEF NapSetup, Booting, OpenSettings, Started
<1>2. CASE NapBegin
  <2>1. CASE st = "INTERACTIVE" /\ Stay
    BY <1>2, <2>1, StayDuty DEF NapBegin
  <2>2. CASE st # "INTERACTIVE" /\ SleepNow
    <3>1. tx = "quiet"
      BY <1>2 DEF NapBegin, IInv, TypeOK, FieldsOK, Radio
    <3>2. QED
      BY <1>2, <2>2, <3>1, SleepDuty DEF NapBegin
  <2>3. QED
    BY <1>2, <2>1, <2>2 DEF NapBegin
<1>3. CASE NapWakeup
  BY <1>3, WokenDuty DEF NapWakeup
<1>4. CASE NapResume
  BY <1>4 DEF NapResume, Resumed, DutyStep, Duty!vars
<1>5. CASE NapLoop
  <2>1. CASE In("PAL_AMB-usenap", "INTERACTIVE") /\ Stay
    BY <2>1, StayDuty DEF In
  <2>2. CASE In("PAL_AMB-usenap", "INIT") /\ NapNow
    BY <2>2 DEF In, NapNow, DutyStep, Duty!vars
  <2>3. CASE In("PAL_AMB-usenap", "NAP") /\ GoTo("SENSOR") /\ UNCHANGED Rest
    BY <2>3 DEF In, GoTo, Rest, DutyStep, Duty!vars
  <2>4. CASE In("PAL_AMB-usenap", "SENSOR") /\ NapSensor
    <3>1. CASE sns = "ready" /\ PollSensors
      BY <2>4, <3>1, MeasureDuty DEF In
    <3>2. CASE sns # "ready" /\ ResetSystem
      BY <2>4, <3>2, ResetDuty DEF In
    <3>3. QED
      BY <2>4, <3>1, <3>2 DEF NapSensor
  <2>5. CASE In("PAL_AMB-usenap", "TX") /\ (Request("TX_WAIT_COMP") \/ NoRequest("GO_SLEEP"))
    <3>1. CASE Request("TX_WAIT_COMP")
      BY <2>5, <3>1, RequestDuty DEF In
    <3>2. CASE NoRequest("GO_SLEEP")
      BY <2>5, <3>2, MoveDuty DEF In, NoRequest, GoTo
    <3>3. QED
      BY <2>5, <3>1, <3>2
  <2>6. CASE In("PAL_AMB-usenap", "TX_WAIT_COMP") /\ AwaitCompletion
    BY <2>6, AwaitDuty DEF In
  <2>7. CASE In("PAL_AMB-usenap", "GO_SLEEP") /\ SleepNow
    <3>1. tx = "quiet"
      BY <2>7 DEF In, IInv, TypeOK, FieldsOK, Radio
    <3>2. QED
      BY <2>7, <3>1, SleepDuty DEF In
  <2>8. QED
    BY <1>5, <2>1, <2>2, <2>3, <2>4, <2>5, <2>6, <2>7 DEF NapLoop
<1>6. QED
  BY <1>1, <1>2, <1>3, <1>4, <1>5

\* PAL_AMB-bhv.
LEMMA BhvDuty ==
  ASSUME IInv, UNCHANGED act, BhvSetup \/ BhvBegin \/ BhvWakeup \/ BhvResume \/ BhvLoop
  PROVE  DutyStep
<1>1. CASE BhvSetup
  BY <1>1, MoveDuty DEF BhvSetup, Booting, Started
<1>2. CASE BhvBegin
  <2>1. tx = "quiet"
    BY <1>2 DEF BhvBegin, IInv, TypeOK, FieldsOK, Radio
  <2>2. QED
    BY <1>2, <2>1, SleepDuty DEF BhvBegin
<1>3. CASE BhvWakeup
  BY <1>3, WokenDuty DEF BhvWakeup
<1>4. CASE BhvResume
  BY <1>4 DEF BhvResume, Resumed, DutyStep, Duty!vars
<1>5. CASE BhvLoop
  <2>1. CASE In("PAL_AMB-bhv", "INIT") /\ NapNow
    BY <2>1 DEF In, NapNow, DutyStep, Duty!vars
  <2>2. CASE In("PAL_AMB-bhv", "NAP") /\ BhvRead
    <3>1. sent = 0 /\ tx = "quiet"
      BY <2>2 DEF In, IInv, TypeOK, FieldsOK, Radio, Reporting
    <3>2. QED
      BY <2>2, <3>1 DEF In, BhvRead, GoTo, Rest, DutyStep, Duty!Next, Duty!Measure, Duty!vars
  <2>3. CASE In("PAL_AMB-bhv", "TX") /\ BhvTx
    <3>1. sent = 0 /\ tx = "quiet" /\ data = "fresh"
      BY <2>3 DEF In, IInv, TypeOK, FieldsOK, Radio, Reporting
    <3>2. CASE BhvWait(TRUE)
      BY <2>3, <3>1, <3>2 DEF In, BhvWait, GoTo, DutyStep, Duty!Next, Duty!Transmit
    <3>3. CASE BhvWait(FALSE)
      BY <2>3, <3>3 DEF In, BhvWait, GoTo, DutyStep, Duty!vars
    <3>4. CASE NoRequest("GO_SLEEP")
      BY <2>3, <3>4, MoveDuty DEF In, NoRequest, GoTo
    <3>5. QED
      BY <2>3, <3>2, <3>3, <3>4 DEF BhvTx
  <2>4. CASE In("PAL_AMB-bhv", "TX_WAIT_COMP") /\ AwaitCompletion
    BY <2>4, AwaitDuty DEF In
  <2>5. CASE In("PAL_AMB-bhv", "GO_SLEEP") /\ SleepNow
    <3>1. tx = "quiet"
      BY <2>5 DEF In, IInv, TypeOK, FieldsOK, Radio
    <3>2. QED
      BY <2>5, <3>1, SleepDuty DEF In
  <2>6. QED
    BY <1>5, <2>1, <2>2, <2>3, <2>4, <2>5 DEF BhvLoop
<1>6. QED
  BY <1>1, <1>2, <1>3, <1>4, <1>5

\* PAL_MAG.
LEMMA MagDuty ==
  ASSUME IInv, UNCHANGED act, MagSetup \/ MagBegin \/ MagWakeup \/ MagLoop
  PROVE  DutyStep
<1>1. CASE MagSetup
  BY <1>1, MoveDuty DEF MagSetup, Booting, OpenSettings, Started
<1>2. CASE MagBegin
  <2>1. CASE st = "INTERACTIVE" /\ Stay
    BY <1>2, <2>1, StayDuty DEF MagBegin
  <2>2. CASE st # "INTERACTIVE" /\ SleepNow
    <3>1. tx = "quiet"
      BY <1>2 DEF MagBegin, IInv, TypeOK, FieldsOK, Radio
    <3>2. QED
      BY <1>2, <2>2, <3>1, SleepDuty DEF MagBegin
  <2>3. QED
    BY <1>2, <2>1, <2>2 DEF MagBegin
<1>3. CASE MagWakeup
  <2>1. CASE Woken("PAL_MAG", {{"dio"}}) /\ UNCHANGED data
    BY <2>1, WokenDuty
  <2>2. CASE UNCHANGED <<run, ev, st, flag, left, sns, job, tx, data, sent, up>>
    BY <2>2 DEF DutyStep, Duty!vars
  <2>3. QED
    BY <1>3, <2>1, <2>2 DEF MagWakeup
<1>4. CASE MagLoop
  <2>1. CASE In("PAL_MAG", "INTERACTIVE") /\ Stay
    BY <2>1, StayDuty DEF In
  <2>2. CASE In("PAL_MAG", "INIT") /\ MagInit
    BY <2>2 DEF In, MagInit, GoTo,
       IInv, TypeOK, FieldsOK, Places, Radio, Reporting, DutyStep, Duty!Next, Duty!vars, Duty!Measure
  <2>3. CASE In("PAL_MAG", "TX") /\ (Request("TX_WAIT_COMP") \/ NoRequest("GO_SLEEP"))
    <3>1. CASE Request("TX_WAIT_COMP")
      BY <2>3, <3>1, RequestDuty DEF In
    <3>2. CASE NoRequest("GO_SLEEP")
      BY <2>3, <3>2, MoveDuty DEF In, NoRequest, GoTo
    <3>3. QED
      BY <2>3, <3>1, <3>2
  <2>4. CASE In("PAL_MAG", "TX_WAIT_COMP") /\ AwaitCompletion
    BY <2>4, AwaitDuty DEF In
  <2>5. CASE In("PAL_MAG", "GO_SLEEP") /\ SleepNow
    <3>1. tx = "quiet"
      BY <2>5 DEF In, IInv, TypeOK, FieldsOK, Radio
    <3>2. QED
      BY <2>5, <3>1, SleepDuty DEF In
  <2>6. QED
    BY <1>4, <2>1, <2>2, <2>3, <2>4, <2>5 DEF MagLoop
<1>5. QED
  BY <1>1, <1>2, <1>3, <1>4

\* BRD_ARIA.
LEMMA AriaDuty ==
  ASSUME IInv, UNCHANGED act, AriaSetup \/ AriaWakeup \/ AriaLoop
  PROVE  DutyStep
<1>1. CASE AriaSetup
  BY <1>1, MoveDuty DEF AriaSetup, Booting, OpenSettings, Started
<1>2. CASE AriaWakeup
  BY <1>2, WokenDuty DEF AriaWakeup
<1>3. CASE AriaLoop
  <2>1. CASE In("BRD_ARIA", "INTERACTIVE") /\ Stay
    BY <2>1, StayDuty DEF In
  <2>2. CASE In("BRD_ARIA", "INIT") /\ StartSensors
    BY <2>2, MeasureDuty DEF In
  <2>3. CASE In("BRD_ARIA", "SENSOR") /\ PollSensors
    BY <2>3, MeasureDuty DEF In
  <2>4. CASE In("BRD_ARIA", "TX") /\ (Request("TX_WAIT_COMP") \/ NoRequest("GO_SLEEP"))
    <3>1. CASE Request("TX_WAIT_COMP")
      BY <2>4, <3>1, RequestDuty DEF In
    <3>2. CASE NoRequest("GO_SLEEP")
      BY <2>4, <3>2, MoveDuty DEF In, NoRequest, GoTo
    <3>3. QED
      BY <2>4, <3>1, <3>2
  <2>5. CASE In("BRD_ARIA", "TX_WAIT_COMP") /\ AwaitCompletion
    BY <2>5, AwaitDuty DEF In
  <2>6. CASE In("BRD_ARIA", "GO_SLEEP") /\ SleepNow
    <3>1. tx = "quiet"
      BY <2>6 DEF In, IInv, TypeOK, FieldsOK, Radio
    <3>2. QED
      BY <2>6, <3>1, SleepDuty DEF In
  <2>7. QED
    BY <1>3, <2>1, <2>2, <2>3, <2>4, <2>5, <2>6 DEF AriaLoop
<1>4. QED
  BY <1>1, <1>2, <1>3

\* BRD_I2C_TEMPHUMID.
LEMMA I2cDuty ==
  ASSUME IInv, UNCHANGED act, I2cSetup \/ I2cWakeup \/ I2cLoop
  PROVE  DutyStep
<1>1. CASE I2cSetup
  BY <1>1, MoveDuty DEF I2cSetup, Booting, OpenSettings, Started
<1>2. CASE I2cWakeup
  BY <1>2, WokenDuty DEF I2cWakeup
<1>3. CASE I2cLoop
  <2>1. CASE In("BRD_I2C_TEMPHUMID", "INTERACTIVE") /\ Stay
    BY <2>1, StayDuty DEF In
  <2>2. CASE In("BRD_I2C_TEMPHUMID", "INIT") /\ I2cInit
    BY <2>2 DEF In, I2cInit, GoTo, DutyStep, Duty!vars
  <2>3. CASE In("BRD_I2C_TEMPHUMID", "SENSOR") /\ I2cSensor
    BY <2>3 DEF In, I2cSensor, I2cRead, GoTo, Stay, Rest,
       IInv, TypeOK, FieldsOK, Places, Radio, Reporting, DutyStep, Duty!Next, Duty!vars, Duty!Measure
  <2>4. CASE In("BRD_I2C_TEMPHUMID", "TX") /\ (Request("TX_WAIT_COMP") \/ NoRequest("GO_SLEEP"))
    <3>1. CASE Request("TX_WAIT_COMP")
      BY <2>4, <3>1, RequestDuty DEF In
    <3>2. CASE NoRequest("GO_SLEEP")
      BY <2>4, <3>2, MoveDuty DEF In, NoRequest, GoTo
    <3>3. QED
      BY <2>4, <3>1, <3>2
  <2>5. CASE In("BRD_I2C_TEMPHUMID", "TX_WAIT_COMP") /\ AwaitCompletion
    BY <2>5, AwaitDuty DEF In
  <2>6. CASE In("BRD_I2C_TEMPHUMID", "GO_SLEEP") /\ SleepNow
    <3>1. tx = "quiet"
      BY <2>6 DEF In, IInv, TypeOK, FieldsOK, Radio
    <3>2. QED
      BY <2>6, <3>1, SleepDuty DEF In
  <2>7. QED
    BY <1>3, <2>1, <2>2, <2>3, <2>4, <2>5, <2>6 DEF I2cLoop
<1>4. QED
  BY <1>1, <1>2, <1>3

\* Slp_Wk_and_Tx.
LEMMA SwtDuty ==
  ASSUME IInv, UNCHANGED act, SwtSetup \/ SwtBegin \/ SwtWakeup \/ SwtLoop
  PROVE  DutyStep
<1>1. CASE SwtSetup
  BY <1>1, MoveDuty DEF SwtSetup, Booting, OpenSettings, Started
<1>2. CASE SwtBegin
  <2>1. tx = "quiet"
    BY <1>2 DEF SwtBegin, IInv, TypeOK, FieldsOK, Radio
  <2>2. QED
    BY <1>2, <2>1, SleepDuty DEF SwtBegin
<1>3. CASE SwtWakeup
  BY <1>3, WokenDuty DEF SwtWakeup
<1>4. CASE SwtLoop
  <2>1. CASE In("Slp_Wk_and_Tx", "INIT") /\ SwtInit
    BY <2>1 DEF In, SwtInit, GoTo, DutyStep, Duty!vars
  <2>2. CASE In("Slp_Wk_and_Tx", "WORK_JOB") /\ SwtWorkJob
    BY <2>2 DEF In, SwtWorkJob, GoTo, Stay, Rest,
       IInv, TypeOK, FieldsOK, Places, Radio, Reporting, DutyStep, Duty!Next, Duty!vars, Duty!Measure
  <2>3. CASE In("Slp_Wk_and_Tx", "TX") /\ (Request("WAIT_TX") \/ NoRequest("EXIT_FATAL"))
    <3>1. CASE Request("WAIT_TX")
      BY <2>3, <3>1, RequestDuty DEF In
    <3>2. CASE NoRequest("EXIT_FATAL")
      BY <2>3, <3>2, MoveDuty DEF In, NoRequest, GoTo
    <3>3. QED
      BY <2>3, <3>1, <3>2
  <2>4. CASE In("Slp_Wk_and_Tx", "WAIT_TX") /\ SwtWaitTx
    BY <2>4 DEF In, SwtWaitTx, GoTo, Stay, Rest, DutyStep, Duty!vars
  <2>5. CASE In("Slp_Wk_and_Tx", "EXIT_NORMAL") /\ SleepNow
    <3>1. tx = "quiet"
      BY <2>5 DEF In, IInv, TypeOK, FieldsOK, Radio
    <3>2. QED
      BY <2>5, <3>1, SleepDuty DEF In
  <2>6. CASE In("Slp_Wk_and_Tx", "EXIT_FATAL") /\ ResetSystem
    BY <2>6, ResetDuty DEF In
  <2>7. QED
    BY <1>4, <2>1, <2>2, <2>3, <2>4, <2>5, <2>6 DEF SwtLoop
<1>5. QED
  BY <1>1, <1>2, <1>3, <1>4

\* PAL_MOT-single.
LEMMA MotDuty ==
  ASSUME IInv, UNCHANGED act, MotSetup \/ MotBegin \/ MotWakeup \/ MotLoop
  PROVE  DutyStep
<1>1. CASE MotSetup
  BY <1>1, MoveDuty DEF MotSetup, Booting, OpenSettings, Started
<1>2. CASE MotBegin
  <2>1. CASE st = "INTERACTIVE" /\ Stay
    BY <1>2, <2>1, StayDuty DEF MotBegin
  <2>2. CASE st # "INTERACTIVE" /\ SleepNow
    <3>1. tx = "quiet"
      BY <1>2 DEF MotBegin, IInv, TypeOK, FieldsOK, Radio
    <3>2. QED
      BY <1>2, <2>2, <3>1, SleepDuty DEF MotBegin
  <2>3. QED
    BY <1>2, <2>1, <2>2 DEF MotBegin
<1>3. CASE MotWakeup
  BY <1>3, WokenDuty DEF MotWakeup
<1>4. CASE MotLoop
  <2>1. CASE In("PAL_MOT-single", "INTERACTIVE") /\ Stay
    BY <2>1, StayDuty DEF In
  <2>2. CASE In("PAL_MOT-single", "INIT") /\ MotInit
    BY <2>2 DEF In, MotInit, GoTo,
       IInv, TypeOK, FieldsOK, Places, Radio, Reporting, DutyStep, Duty!Next, Duty!vars, Duty!Measure
  <2>3. CASE In("PAL_MOT-single", "START_CAPTURE") /\ MotStartCapture
    BY <2>3 DEF In, MotStartCapture, GoTo, DutyStep, Duty!vars
  <2>4. CASE In("PAL_MOT-single", "WAIT_CAPTURE") /\ MotWaitCapture
    BY <2>4 DEF In, MotWaitCapture, GoTo, Stay, Rest,
       IInv, TypeOK, FieldsOK, Places, Radio, Reporting, DutyStep, Duty!Next, Duty!vars, Duty!Measure
  <2>5. CASE In("PAL_MOT-single", "REQUEST_TX") /\ (Request("WAIT_TX") \/ NoRequest("EXIT_FATAL"))
    <3>1. CASE Request("WAIT_TX")
      BY <2>5, <3>1, RequestDuty DEF In
    <3>2. CASE NoRequest("EXIT_FATAL")
      BY <2>5, <3>2, MoveDuty DEF In, NoRequest, GoTo
    <3>3. QED
      BY <2>5, <3>1, <3>2
  <2>6. CASE In("PAL_MOT-single", "WAIT_TX") /\ MotWaitTx
    BY <2>6 DEF In, MotWaitTx, GoTo, Stay, Rest, DutyStep, Duty!vars
  <2>7. CASE In("PAL_MOT-single", "EXIT_NORMAL") /\ SleepNow
    <3>1. tx = "quiet"
      BY <2>7 DEF In, IInv, TypeOK, FieldsOK, Radio
    <3>2. QED
      BY <2>7, <3>1, SleepDuty DEF In
  <2>8. CASE In("PAL_MOT-single", "EXIT_FATAL") /\ ResetSystem
    BY <2>8, ResetDuty DEF In
  <2>9. QED
    BY <1>4, <2>1, <2>2, <2>3, <2>4, <2>5, <2>6, <2>7, <2>8 DEF MotLoop
<1>5. QED
  BY <1>1, <1>2, <1>3, <1>4

\* Every step of every act is one of the duty cycle, or none.
LEMMA NextDuty == IInv /\ [Next]_vars => [Duty!Next]_(Duty!vars)
<1> SUFFICES ASSUME IInv, [Next]_vars PROVE DutyStep
  BY DEF DutyStep
<1>1. CASE UNCHANGED vars
  BY <1>1 DEF vars, nodeVars, DutyStep, Duty!vars
<1>2. CASE Step
  BY <1>2, AmbDuty, NapDuty, BhvDuty, MagDuty, AriaDuty, I2cDuty, SwtDuty, MotDuty
     DEF Step, Setup, Begin, Wakeup, Loop
<1>3. CASE Event
  BY <1>3, EventDuty DEF Event
<1>4. QED
  BY <1>1, <1>2, <1>3 DEF Next

\* A node that is switched on starts a duty cycle.
LEMMA InitDuty == Init => Duty!Init
BY DEF Init, Duty!Init

----------------------------------------------------------------------------
(* The theorems.                                                           *)

\* The type invariant, for every time-out, conversion time and job length.
THEOREM TypeCorrect == Spec => []TypeOK
BY Invariance, PTL DEF IInv

\* For every value of the time-outs, no act sleeps or naps on a radio that still
\* has a packet to send.
THEOREM NeverSleepsOnAPacket == Spec => []RadioQuietAsleep
<1>1. IInv => RadioQuietAsleep
  BY DEF IInv, TypeOK, FieldsOK, Radio, RadioQuietAsleep
<1>2. QED
  BY <1>1, Invariance, PTL

\* For every value of the time-outs, no act stays awake in a period for longer
\* than its time-outs add up to, the waits without a time-out left out.
THEOREM BatteryIsBounded == Spec => []AwakeBounded
<1>1. IInv => AwakeBounded
  <2> SUFFICES ASSUME IInv PROVE up <= Budget
    BY DEF AwakeBounded
  <2>1. MeasureBudget \in Nat /\ TX_TIMEOUT \in Nat /\ CONV_TIME \in Nat /\ WORK_MAX \in Nat
    BY NodeAssumption DEF MeasureBudget
  <2>2. CASE st \in Measuring \cup Requesting
    BY <2>1, <2>2 DEF IInv, TypeOK, FieldsOK, Places, Cases, Spending, Budget
  <2>3. CASE st \in Awaiting \cup Leaving
    BY <2>1, <2>3 DEF IInv, TypeOK, FieldsOK, Spending, Budget
  <2>4. QED
    BY <2>2, <2>3 DEF IInv, TypeOK, FieldsOK
<1>2. QED
  BY <1>1, Invariance, PTL

\* Every act implements the duty cycle: one report per period at most, of values
\* measured in this period, and sleep only with a quiet radio.
THEOREM Refinement == Spec => ImplementsDutyCycle
BY InitDuty, NextDuty, Invariance, PTL DEF Spec, ImplementsDutyCycle, Duty!Spec

=============================================================================
