------------------------------- MODULE DupNet -------------------------------
(***************************************************************************)
(* The duplicate checker among the devices it serves: pkt_apptwelite of    *)
(* Rcv_Univsl, which refuses what _dup_chk refuses, behind a network of    *)
(* senders and relays (App_Twelite, outside this repository).              *)
(*                                                                         *)
(* A sender numbers its packets with a clock of BITS bits, the             *)
(* u16timestamp of the packet. Relays repeat a packet, so that copies      *)
(* reach the receiver in any order, any number of times, or not at all, up *)
(* to MAX_DELAY ticks after it was sent. A sender that restarts counts     *)
(* from 0 again.                                                           *)
(***************************************************************************)
EXTENDS DupCheck

CONSTANTS
  MAX_DELAY,  \* ticks from the sending of a packet to the check of its last copy
  RESTARTS    \* TRUE: senders may restart

ASSUME NetAssumption ==
  /\ MAX_DELAY \in 0 .. TIMEOUT
  /\ RESTARTS \in BOOLEAN
  /\ Values = 0 .. 2^BITS - 1

VARIABLES
  clock,   \* u16timestamp of each sender
  air      \* packets that may still arrive: [key, value, sent, got]
           \* (sent: ticks since; got: how often the receiver accepted it)

netVars == <<clock, air>>
allVars == <<mmap, vacant, tick, since, out, age, clock, air>>

----------------------------------------------------------------------------
\* Senders and relays.

Send(k) ==
  /\ \A p \in air : ~ (p.key = k /\ p.value = clock[k])
  /\ air' = air \cup {[key |-> k, value |-> clock[k], sent |-> 0, got |-> 0]}
  /\ UNCHANGED <<dupVars, tick, since, clock>>

Restart(k) ==
  /\ RESTARTS
  /\ clock' = [clock EXCEPT ![k] = 0]
  /\ UNCHANGED <<dupVars, tick, since, air>>

\* The clocks go on, and the relays forget what is older than MAX_DELAY.
NetTimeStep ==
  /\ TimeStep
  /\ clock' = [k \in Keys |-> (clock[k] + 1) % 2^BITS]
  /\ air' = {[p EXCEPT !.sent = @ + 1] : p \in {q \in air : q.sent < MAX_DELAY}}

----------------------------------------------------------------------------
\* The receiver: pkt_apptwelite::analyze hands a packet on iff _dup_chk does
\* not call it a duplicate.

Accepted(p) == out' = <<"accept", p.key, p.value>>

Deliver(k) ==
  /\ \E p \in air, lag \in 0 .. RX_LAG :
       /\ p.key = k /\ lag <= p.sent
       /\ CheckDup(p.key, p.value, lag)
       /\ air' = IF Accepted(p)
                 THEN (air \ {p}) \cup {[p EXCEPT !.got = @ + 1]}
                 ELSE air
  /\ UNCHANGED <<tick, since, clock>>

NetRefresh == Refresh /\ UNCHANGED netVars

NetInit ==
  /\ Init
  /\ clock = [k \in Keys |-> 0]
  /\ air = {}

NetNext ==
  \/ \E k \in Keys : Send(k) \/ Restart(k) \/ Deliver(k)
  \/ NetTimeStep
  \/ NetRefresh

NetSafety == NetInit /\ [][NetNext]_allVars

\* Time passes and the receiver's loop runs; a sender that keeps sending is
\* heard again and again.
NetSpec ==
  /\ NetSafety
  /\ WF_allVars(NetTimeStep) /\ WF_allVars(NetRefresh)
  /\ \A k \in Keys : WF_allVars(Send(k)) /\ SF_allVars(Deliver(k))

----------------------------------------------------------------------------
\* Properties.

\* The type of the network's state.
NetTypeOK ==
  /\ TypeOK
  /\ clock \in [Keys -> Values]
  /\ air \subseteq [key: Keys, value: Values, sent: 0 .. MAX_DELAY, got: Nat]

\* However its copies are repeated, delayed and reordered, and whatever entries
\* are expired, refused or evicted in between, the application sees a packet at
\* most once (check_dup with MODE_REJECT_OLDER_SEQ).
AtMostOnce == \A p \in air : p.got <= 1

\* The application never sees a packet after a later one of the same sender.
InOrder ==
  [][\A p, q \in air :
       /\ p.key = q.key
       /\ p.got = 0 /\ [p EXCEPT !.got = 1] \in air'
       /\ q.got > 0
       => q.sent > p.sent]_allVars

\* A sender is heard again and again, even if it restarts its count as often as
\* it likes: a refused packet does not renew the entry it is refused for.
NeverLockedOut ==
  \A k \in Keys : []<>(\E v \in Values : out = <<"accept", k, v>>)

----------------------------------------------------------------------------
\* The inductive invariant behind AtMostOnce and InOrder, without restarts.

\* No copy is so late that its number looks new again.
Ordered == MODE = "OLDER" /\ ~ RESTARTS /\ MAX_DELAY <= 2^(BITS - 1)

\* The number of a packet tells when it was sent.
Numbered == \A p \in air : p.value = (clock[p.key] - p.sent) % 2^BITS

\* A sender sends one packet a tick, and its copies are one packet.
OnePerTick == \A p, q \in air : p.key = q.key /\ p.sent = q.sent => p = q

\* The packet that entry i records took some ticks to the receiver, and was not
\* sent before an accepted one.
RecordsLast(i) ==
  \E d \in 0 .. MAX_DELAY :
    /\ mmap[i].value = (clock[mmap[i].key] - (age[i] + d)) % 2^BITS
    /\ \A p \in air : p.key = mmap[i].key /\ p.got > 0 => age[i] + d <= p.sent

\* As long as a copy of an accepted packet may come, its sender has an entry.
Remembered ==
  \A p \in air : p.got > 0 => \E i \in DOMAIN mmap : mmap[i].key = p.key

OrderInv ==
  /\ IInv /\ NetTypeOK /\ AtMostOnce
  /\ Numbered /\ OnePerTick /\ Remembered
  /\ \A i \in DOMAIN mmap : RecordsLast(i)
=============================================================================
