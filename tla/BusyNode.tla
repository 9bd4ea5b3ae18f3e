------------------------------ MODULE BusyNode ------------------------------
(***************************************************************************)
(* The platform of the acts that guard their radio with a flag instead of  *)
(* a state machine: Scratch, Setting and PulseCounter. What the MWX        *)
(* library does is modelled as these acts use it.                          *)
(*                                                                         *)
(* One thread: loop() and the callbacks follow one another.                *)
(* the_twelite.sleep() does not return; it keeps the RAM, but what becomes *)
(* of a request the radio was working on is not known: it may be           *)
(* completed after the wake-up, or never.                                  *)
(***************************************************************************)
EXTENDS Integers, FiniteSets

CONSTANT IDS   \* transmit() numbers its requests modulo this: 2^8

ASSUME BusyAssumption == IDS \in Nat \ {0}

VARIABLES
  act,    \* the firmware in the node's flash
  run,    \* "boot", "begin", "awake" or "asleep"
  busy,   \* tx_busy, txreq_stat or b_transmit
  txid,   \* the id in txreq_stat, or u8txid
  next,   \* the id of the next request
  under,  \* ids of the requests the radio works on
  done,   \* tx_status: ids whose completion nobody has asked for yet
  lost    \* history: the radio gave up a request because the node slept

busyVars == <<run, busy, txid, next, under, done, lost>>

BusyInit ==
  /\ run = "boot" /\ busy = FALSE /\ txid = 0
  /\ next = 0 /\ under = {} /\ done = {} /\ lost = FALSE

Running(a) == act = a /\ run = "awake"

\* setup(), and begin() of an act whose begin() does nothing.
Booted(a) ==
  /\ act = a /\ run = "boot" /\ run' = "awake"
  /\ UNCHANGED <<busy, txid, next, under, done, lost>>

\* prepare_tx_packet() gives a packet, and transmit() takes it.
Requested ==
  /\ busy' = TRUE /\ txid' = next /\ next' = (next + 1) % IDS
  /\ under' = under \cup {next} /\ done' = done \ {next}

\* One of the two fails.
NotRequested == UNCHANGED <<busy, txid, next, under, done>>

\* the_twelite.sleep().
FallAsleep ==
  /\ run' = "asleep"
  /\ \E kept \in SUBSET under :
       under' = kept /\ lost' = (lost \/ kept # under)

\* The timer wakes the node; wakeup() does nothing but print.
Woken(a) ==
  /\ act = a /\ run = "asleep" /\ run' = "awake"
  /\ UNCHANGED <<busy, txid, next, under, done, lost>>

\* The radio has dealt with a request; an act without on_tx_comp() will ask
\* tx_status for it.
Completed(a) ==
  /\ Running(a)
  /\ \E id \in under : under' = under \ {id} /\ done' = done \cup {id}
  /\ UNCHANGED <<run, busy, txid, next, lost>>

\* Mutant: the completion of the next request is waited for.
IsCompleteNext == busy /\ next \in done

\* tx_status.is_complete(id), asked when the flag is set.
IsComplete == busy /\ txid \in done

\* The completion is taken note of.
Cleared == busy' = FALSE /\ done' = done \ {txid}
=============================================================================
