------------------------------- MODULE BrdI2c -------------------------------
(***************************************************************************)
(* BRD_I2C_TEMPHUMID: drives an SHTC3 or SHT40 chip over I2C by itself. It *)
(* waits for the conversion time of the chip, reads it once, and reports   *)
(* what is in the variables then: neither the result of begin() nor that   *)
(* of read() is looked at.                                                 *)
(***************************************************************************)
EXTENDS MwxNode

I2cSetup == Booting("BRD_I2C_TEMPHUMID") /\ (OpenSettings("loop") \/ Started("loop"))

I2cWakeup == Woken("BRD_I2C_TEMPHUMID", {{"timer"}}) /\ UNCHANGED data

\* sensor_device.begin(): the chip may not answer.
I2cInit ==
  /\ sns' \in {"busy", "off"}
  /\ left' = CONV_TIME
  /\ GoTo("SENSOR")
  /\ UNCHANGED <<ev, wake, flag, job, tx, data, sent, up>>

\* sensor_device.read(): without an answer, or with a wrong checksum, it leaves
\* the two variables alone and returns false.
I2cRead ==
  \/ sns = "ready" /\ data' = "fresh"
  \/ UNCHANGED data

I2cSensor ==
  \/ /\ left = 0 /\ I2cRead /\ GoTo("TX")
     /\ UNCHANGED <<ev, wake, flag, left, sns, job, tx, sent, up>>
  \/ left > 0 /\ Stay

I2cLoop ==
  \/ In("BRD_I2C_TEMPHUMID", "INTERACTIVE")  /\ Stay
  \/ In("BRD_I2C_TEMPHUMID", "INIT")         /\ I2cInit
  \/ In("BRD_I2C_TEMPHUMID", "SENSOR")       /\ I2cSensor
  \/ In("BRD_I2C_TEMPHUMID", "TX")           /\ (Request("TX_WAIT_COMP") \/ NoRequest("GO_SLEEP"))
  \/ In("BRD_I2C_TEMPHUMID", "TX_WAIT_COMP") /\ AwaitCompletion
  \/ In("BRD_I2C_TEMPHUMID", "GO_SLEEP")     /\ SleepNow
=============================================================================
