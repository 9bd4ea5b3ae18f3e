------------------------------ MODULE PalAmbBhv -----------------------------
(***************************************************************************)
(* PAL_AMB-bhv, as a child (MY_APP_CHILD): the state machine of a behavior *)
(* object, whose handlers are called with events, by the loop and by the   *)
(* callbacks. A handler that sets a state is followed by the handler of    *)
(* that state, in the same call. "NAP" is STATE_SENSOR after its nap, "TX" *)
(* and "TX_WAIT_COMP" are STATE_TX before and after its request, and       *)
(* flag says that the last event was the KICK with the id u8txid.          *)
(***************************************************************************)
EXTENDS MwxNode

\* setup() with an ID other than 0 on the DIP switch.
BhvSetup == Booting("PAL_AMB-bhv") /\ Started("begin")

\* on_begin(): the first sleep.
BhvBegin == act = "PAL_AMB-bhv" /\ run = "begin" /\ SleepNow

\* By the timer, or by the button once STATE_SLEEP has set its pin. The KICK
\* with id 0 of wakeup() meets a state that takes no notice of it.
BhvWakeup ==
  /\ Woken("PAL_AMB-bhv", SUBSET {"timer", "dio"} \ {{}})
  /\ UNCHANGED data

BhvResume == Resumed("PAL_AMB-bhv", SUBSET {"timer", "dio"} \ {{}})

\* STATE_TX, new: reads both sensors. One that does not answer, has not finished
\* or fails its check puts an end to the period.
BhvRead ==
  \/ /\ sns = "ready" /\ data' = "fresh" /\ GoTo("TX")
     /\ UNCHANGED <<ev, wake, flag, left, sns, job, tx, sent, up>>
  \/ GoTo("GO_SLEEP") /\ UNCHANGED Rest

\* u8txid is -1 or that of the request; more than 100 ms are too many.
BhvWait(request) ==
  /\ flag' = FALSE /\ left' = TX_TIMEOUT + 1
  /\ IF request THEN tx' = "busy" /\ sent' = sent + 1 ELSE UNCHANGED <<tx, sent>>
  /\ GoTo("TX_WAIT_COMP")
  /\ UNCHANGED <<ev, wake, sns, job, data, up>>

\* Nothing handles a packet that was not prepared: the state waits for a KICK that
\* will not come, until its time-out.
BhvTx == BhvWait(TRUE) \/ BhvWait(FALSE) \/ NoRequest("GO_SLEEP")

BhvLoop ==
  \/ In("PAL_AMB-bhv", "INIT")         /\ NapNow
  \/ In("PAL_AMB-bhv", "NAP")          /\ BhvRead
  \/ In("PAL_AMB-bhv", "TX")           /\ BhvTx
  \/ In("PAL_AMB-bhv", "TX_WAIT_COMP") /\ AwaitCompletion
  \/ In("PAL_AMB-bhv", "GO_SLEEP")     /\ SleepNow
=============================================================================
