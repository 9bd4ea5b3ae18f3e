------------------------------ MODULE BhvParent -----------------------------
(***************************************************************************)
(* PAL_AMB-bhv as a parent (MY_APP_PARENT): a state machine that its       *)
(* button drives, with a time-out. Received packets and keys are only      *)
(* printed, by myAppBhvParent.cpp.                                         *)
(***************************************************************************)
EXTENDS Integers

CONSTANTS
  DEBOUNCE,  \* ms of silence before a press counts: 100
  STATE3_MS, \* ms STATE_3 is to last: 3000
  SECOND     \* ms between two E_EVENT_TICK_SECOND: 1000

ASSUME BhvParentAssumption ==
  /\ DEBOUNCE \in Nat /\ STATE3_MS \in Nat /\ SECOND \in Nat \ {0}

VARIABLES
  state,    \* E_MWX::STATE_0 .. STATE_3
  elapsed,  \* PEV_u32Elaspsed_ms()
  second,   \* ms until the next E_EVENT_TICK_SECOND
  silence   \* millis() - u32tick_last, as far as it matters

bhvParentVars == <<state, elapsed, second, silence>>

\* u32tick_last is 0 like millis().
BhvParentInit == state = 0 /\ elapsed = 0 /\ second = SECOND /\ silence = 0

\* PEV_SetState(): the new state gets E_EVENT_NEW_STATE at 0 ms.
SetState(s) == state' = s /\ elapsed' = 0

\* The state stays, ms after it was set.
Remain(ms) == state' = state /\ elapsed' = ms

\* Mutant: the time-out of STATE_3 is looked at only when there is a KICK.
State3OnKick(kick, ms) ==
  IF kick THEN SetState(IF ms > STATE3_MS THEN 2 ELSE 1) ELSE Remain(ms)

\* STATE_3, ms after it was set. Without the else in front of the second if, a KICK
\* after the time-out sets the state twice.
State3(kick, ms) ==
  IF ms > STATE3_MS THEN SetState(2) \/ (kick /\ SetState(1))
  ELSE IF kick THEN SetState(1) ELSE Remain(ms)

\* The handler of the state, for a KICK or another event. Only STATE_3 looks at the time.
Handle(kick, ms) ==
  IF state = 3 THEN State3(kick, ms)
  ELSE IF kick THEN SetState(state + 1) ELSE Remain(0)

\* The button: a press after some silence is a KICK; every press starts the silence
\* anew.
Press ==
  /\ IF silence > DEBOUNCE THEN Handle(TRUE, elapsed) ELSE Remain(elapsed)
  /\ silence' = 0
  /\ UNCHANGED second

\* A millisecond passes, and there may be an event of some kind; the last of a second
\* has E_EVENT_TICK_SECOND for certain.
Millisecond ==
  LET ms == IF state = 3 THEN elapsed + 1 ELSE 0 IN
  /\ IF second > 1 THEN second' = second - 1 /\ (Remain(ms) \/ Handle(FALSE, ms))
                   ELSE second' = SECOND /\ Handle(FALSE, ms)
  /\ silence' = IF silence > DEBOUNCE THEN silence ELSE silence + 1

BhvParentNext == Press \/ Millisecond

----------------------------------------------------------------------------
\* Properties.

BhvParentTypeOK ==
  /\ state \in 0 .. 3 /\ elapsed \in Nat
  /\ second \in 1 .. SECOND /\ silence \in 0 .. DEBOUNCE + 1

\* STATE_3 ends within a second of its time-out, however the button is pressed, or
\* bounces: a KICK and the time-out never cancel each other out.
State3Ends == state = 3 => elapsed < STATE3_MS + SECOND

\* The inductive invariant behind State3Ends.
BhvParentInv ==
  /\ BhvParentTypeOK
  /\ state = 3 => elapsed + second <= STATE3_MS + SECOND
=============================================================================
