------------------------------ MODULE MotFifo -------------------------------
(***************************************************************************)
(* PAL_MOT-fifo: the acceleration sensor samples for ever into its own     *)
(* FIFO; the node sleeps until the FIFO has FIFO_SAMPLE_COUNT samples,     *)
(* puts them into N_TX_PACKETS packets, requests their transmission one    *)
(* after the other and sleeps again when all of them have completed. The   *)
(* parent (Parent-MONOSTICK) prints the samples of a packet.               *)
(*                                                                         *)
(* The sensor and its driver are in the MWX library: the driver moves the  *)
(* FIFO into a queue when the node wakes up and finds the interrupt pin    *)
(* low, if "all data [are] pop'ed" (PAL_MOT-fifo.cpp:191); it numbers the  *)
(* samples. available() is: the queue is not empty.                        *)
(***************************************************************************)
EXTENDS MotCodec, Sequences, FiniteSets

CONSTANTS
  FIFO_DEPTH,         \* samples the sensor can hold (32)
  FIFO_SAMPLE_COUNT,  \* ... at which it interrupts (30)
  MAX_SAMP_IN_PKT,    \* samples in a packet, at most (15)
  Ids,                \* the 8 bit ids of transmit requests
  TX_TIMEOUT,         \* ms per request until the act gives up (100)
  T_MOD,              \* range of a sample's number (2^16)
  Reading             \* the samples: a function of their numbers

N_TX_PACKETS == (FIFO_SAMPLE_COUNT - 1) \div MAX_SAMP_IN_PKT + 1

\* wakeup() clears the two entries of txid by their indices.
ASSUME MotAssumption ==
  /\ FIFO_DEPTH \in Nat /\ FIFO_SAMPLE_COUNT \in 1 .. FIFO_DEPTH
  /\ MAX_SAMP_IN_PKT \in Nat \ {0} /\ N_TX_PACKETS = 2
  /\ T_MOD \in Nat /\ FIFO_DEPTH < T_MOD
  /\ Reading \in [0 .. T_MOD - 1 -> Sample]
  /\ TX_TIMEOUT \in Nat \ {0}
  /\ Ids \subseteq 0 .. 255 /\ Cardinality(Ids) > N_TX_PACKETS

VARIABLES
  run,      \* "boot", "begin", "loop", "idle" or "sleep", as in MwxNode
  st,       \* step.state()
  flag,     \* step.is_flag_ready()
  left,     \* ms until step.is_timeout()
  txid,     \* per packet: the id of its request, or what has become of it
  ip,       \* the loop over the packets of STATE::TX
  que,      \* the driver's queue: numbers of samples
  fifo,     \* how many samples the sensor's FIFO has, -1: not running
  next,     \* the number the driver gives to the next sample
  pending,  \* ids of the requests MWX has not completed
  wire,     \* history: the packets transmitted in this period
  out,      \* history: the number after that of the last sample popped
  up        \* history: ms awake in this period

vars == <<run, st, flag, left, txid, ip, que, fifo, next, pending, wire, out, up>>

Packets == 0 .. N_TX_PACKETS - 1

Plus(n, k) == (n + k) % T_MOD

\* The values of txid that are not ids.
TXID_VOID         == 32767
TXID_COMP_FAIL    == 32768
TXID_COMP_SUCCESS == 33024

IsComp(id) == id >= 32768

\* What an entry of txid can be: an id, 0 after power-up, or one of the above.
TxidValue ==
  Ids \cup {0, TXID_VOID, TXID_COMP_FAIL} \cup {TXID_COMP_SUCCESS + id : id \in Ids}

\* IS_TXID_DEFFERED: a request that has not completed.
Deferred == {i \in Packets : txid[i] <= 255}

----------------------------------------------------------------------------
\* Starting, sleeping and waking up.

\* A reset, or the power: the globals are zero, the sensor is not set up.
Reset ==
  /\ run' = "boot" /\ st' = "INIT" /\ flag' = FALSE /\ left' = 0
  /\ txid' = [i \in Packets |-> 0] /\ ip' = 0
  /\ que' = <<>> /\ fifo' = -1 /\ next' = 0
  /\ pending' = {} /\ wire' = {} /\ out' = 0 /\ up' = 0

Setup ==
  /\ run = "boot" /\ run' = "begin"
  /\ \/ st' = "INTERACTIVE" /\ UNCHANGED fifo
     \/ fifo' = 0 /\ UNCHANGED st
  /\ UNCHANGED <<flag, left, txid, ip, que, next, pending, wire, out, up>>

\* step.on_sleep(false); the_twelite.sleep(60000, false)
SleepNow ==
  /\ run' = "sleep" /\ st' = "INIT"
  /\ wire' = {} /\ up' = 0
  /\ UNCHANGED <<flag, left, txid, ip, que, fifo, next, pending, out>>

Begin ==
  /\ run = "begin"
  /\ \/ /\ st = "INTERACTIVE" /\ run' = "idle"
        /\ UNCHANGED <<st, flag, left, txid, ip, que, fifo, next, pending, wire, out, up>>
     \/ st # "INTERACTIVE" /\ SleepNow

\* The driver on wake-up, with n samples in the FIFO.
ReadFifo(n) ==
  \/ /\ n >= FIFO_SAMPLE_COUNT /\ que = <<>>
     /\ que' = [i \in 1 .. n |-> Plus(next, i - 1)]
     /\ next' = Plus(next, n)
     /\ fifo' = 0
  \/ /\ n < FIFO_SAMPLE_COUNT \/ que # <<>>
     /\ fifo' = n
     /\ UNCHANGED <<que, next>>

\* Mutant: the ids of the last period, or of the power-up, stay.
WakeupKeepsIds(n) ==
  /\ run = "sleep" /\ run' = "loop"
  /\ ReadFifo(n)
  /\ UNCHANGED <<st, flag, left, ip, pending, wire, out, up, txid>>

\* The driver, then wakeup().
Wakeup(n) ==
  /\ run = "sleep" /\ run' = "loop"
  /\ ReadFifo(n)
  /\ txid' = [i \in Packets |-> TXID_VOID]
  /\ UNCHANGED <<st, flag, left, ip, pending, wire, out, up>>

----------------------------------------------------------------------------
\* loop()

GoTo(s) == run' = "loop" /\ st' = s

Stay ==
  /\ run' = "idle"
  /\ UNCHANGED <<st, flag, left, txid, ip, que, fifo, next, pending, wire, out, up>>

StateInit ==
  \/ que = <<>> /\ SleepNow
  \/ /\ que # <<>> /\ GoTo("SENSOR")
     /\ UNCHANGED <<flag, left, txid, ip, que, fifo, next, pending, wire, out, up>>

\* The averages are not used.
StateSensor ==
  /\ GoTo("TX") /\ ip' = 0
  /\ UNCHANGED <<flag, left, txid, que, fifo, next, pending, wire, out, up>>

SizeOfNext == IF Len(que) >= MAX_SAMP_IN_PKT THEN MAX_SAMP_IN_PKT ELSE Len(que)

\* que.front().t; what is read from an empty queue is not defined.
SeqOfNext == IF que = <<>> THEN 0 .. T_MOD - 1 ELSE {Head(que)}

NextPacket(seq) ==
  [seq |-> seq, siz |-> SizeOfNext,
   body |-> [i \in 1 .. SizeOfNext |-> Encode(Reading[que[i]])]]

\* Mutants: one sample too few is popped; none is.
PopOneLess ==
  LET n == IF SizeOfNext > 0 THEN SizeOfNext - 1 ELSE 0
  IN  /\ que' = SubSeq(que, n + 1, Len(que))
      /\ out' = IF SizeOfNext > 0 THEN Plus(que[SizeOfNext], 1) ELSE out
PopNone == UNCHANGED <<que, out>>

\* What is packed is popped, whatever becomes of the packet.
PopSamples ==
  /\ que' = SubSeq(que, SizeOfNext + 1, Len(que))
  /\ out' = IF que = <<>> THEN out ELSE Plus(que[SizeOfNext], 1)

\* prepare_tx_packet() gives no packet: the samples stay, txid[ip] is void.
NotPrepared == UNCHANGED <<txid, que, pending, wire, out>>

\* transmit() refuses.
Refused ==
  /\ PopSamples /\ txid' = [txid EXCEPT ![ip] = TXID_COMP_FAIL]
  /\ UNCHANGED <<pending, wire>>

Requested ==
  /\ PopSamples
  /\ \E id \in Ids \ pending :
       /\ txid' = [txid EXCEPT ![ip] = id]
       /\ pending' = pending \cup {id}
  /\ \E seq \in SeqOfNext : wire' = wire \cup {NextPacket(seq)}

Prepared == Refused \/ Requested

\* Mutant: one round too many.
TxPacketOneMore ==
  /\ ip <= N_TX_PACKETS /\ ip' = ip + 1
  /\ NotPrepared \/ Prepared
  /\ UNCHANGED <<run, st, flag, left, fifo, next, up>>

\* One round of the for loop.
TxPacket ==
  /\ ip < N_TX_PACKETS /\ ip' = ip + 1
  /\ NotPrepared \/ Prepared
  /\ UNCHANGED <<run, st, flag, left, fifo, next, up>>

\* After the loop.
TxDone ==
  /\ ip = N_TX_PACKETS
  /\ \/ /\ Deferred # {}
        /\ flag' = FALSE /\ left' = TX_TIMEOUT * Cardinality(Deferred)
        /\ GoTo("TX_WAIT_COMP")
     \/ Deferred = {} /\ GoTo("GO_SLEEP") /\ UNCHANGED <<flag, left>>
  /\ UNCHANGED <<txid, ip, que, fifo, next, pending, wire, out, up>>

\* Mutant: without the time-out.
TxWaitCompForEver ==
  \/ /\ flag /\ GoTo("GO_SLEEP")
     /\ UNCHANGED <<flag, left, txid, ip, que, fifo, next, pending, wire, out, up>>
  \/ ~ flag /\ Stay

TxWaitComp ==
  \/ left = 0 /\ Reset
  \/ /\ left > 0 /\ flag /\ GoTo("GO_SLEEP")
     /\ UNCHANGED <<flag, left, txid, ip, que, fifo, next, pending, wire, out, up>>
  \/ left > 0 /\ ~ flag /\ Stay

In(s) == run = "loop" /\ st = s

Loop ==
  \/ In("INTERACTIVE")  /\ Stay
  \/ In("INIT")         /\ StateInit
  \/ In("SENSOR")       /\ StateSensor
  \/ In("TX")           /\ (TxPacket \/ TxDone)
  \/ In("TX_WAIT_COMP") /\ TxWaitComp
  \/ In("GO_SLEEP")     /\ SleepNow

----------------------------------------------------------------------------
\* Events.

Tick ==
  /\ run = "idle" /\ run' = "loop"
  /\ left' = IF left > 0 THEN left - 1 ELSE 0
  /\ up' = IF st = "INTERACTIVE" THEN up ELSE up + 1
  /\ UNCHANGED <<st, flag, txid, ip, que, fifo, next, pending, wire, out>>

Marked(id) ==
  [i \in Packets |-> IF txid[i] = id THEN TXID_COMP_SUCCESS + id ELSE txid[i]]

\* Mutant: the flag is set by the first completion.
OnTxCompAny(id) == txid' = Marked(id) /\ flag' = TRUE

\* on_tx_comp(): the status of the request is not looked at. The flag is set when
\* no request is left.
OnTxComp(id) ==
  /\ txid' = Marked(id)
  /\ flag' = (flag \/ \A i \in Packets : txid[i] # TXID_VOID => IsComp(Marked(id)[i]))

TxComplete ==
  /\ run = "idle"
  /\ \E id \in pending : pending' = pending \ {id} /\ OnTxComp(id)
  /\ UNCHANGED <<run, st, left, ip, que, fifo, next, wire, out, up>>

\* The sensor takes a sample; a full FIFO takes none. The falling edge of its
\* interrupt wakes a node that sleeps.
Capture ==
  /\ fifo \in 0 .. FIFO_DEPTH - 1
  /\ \/ run = "sleep" /\ fifo + 1 = FIFO_SAMPLE_COUNT /\ Wakeup(fifo + 1)
     \/ /\ ~ (run = "sleep" /\ fifo + 1 = FIFO_SAMPLE_COUNT)
        /\ fifo' = fifo + 1
        /\ UNCHANGED <<run, st, flag, left, txid, ip, que, next, pending, wire, out, up>>

\* 60 seconds are over.
Timer == Wakeup(fifo)

CloseSettings == run = "idle" /\ st = "INTERACTIVE" /\ Reset

Init ==
  /\ run = "boot" /\ st = "INIT" /\ flag = FALSE /\ left = 0
  /\ txid = [i \in Packets |-> 0] /\ ip = 0
  /\ que = <<>> /\ fifo = -1 /\ next = 0
  /\ pending = {} /\ wire = {} /\ out = 0 /\ up = 0

Step == Setup \/ Begin \/ Loop

Next == Step \/ Tick \/ TxComplete \/ Capture \/ Timer \/ CloseSettings

\* The processor runs, its timers interrupt it, the network layer does not
\* refuse to prepare a packet for ever.
Spec ==
  /\ Init /\ [][Next]_vars
  /\ WF_vars(Step) /\ WF_vars(Tick) /\ WF_vars(Timer)
  /\ SF_vars(In("TX") /\ TxPacket /\ Prepared)

----------------------------------------------------------------------------
\* The parent: the PMT1 case of analyze_payload().

Printed(p) == [i \in 1 .. p.siz |-> Decode(p.body[i])]

----------------------------------------------------------------------------
\* Properties.

FieldsOK ==
  /\ run \in {"boot", "begin", "loop", "idle", "sleep"}
  /\ st \in {"INTERACTIVE", "INIT", "SENSOR", "TX", "TX_WAIT_COMP", "GO_SLEEP"}
  /\ left \in 0 .. TX_TIMEOUT * N_TX_PACKETS
  /\ txid \in [Packets -> TxidValue]
  /\ ip \in 0 .. N_TX_PACKETS
  /\ que \in Seq(0 .. T_MOD - 1) /\ Len(que) <= FIFO_DEPTH
  /\ fifo \in -1 .. FIFO_DEPTH /\ next \in 0 .. T_MOD - 1
  /\ pending \subseteq Ids
  /\ out \in 0 .. T_MOD - 1 /\ up \in Nat

\* The type of the node's state.
TypeOK == FieldsOK /\ flag \in BOOLEAN

\* However many of the requests are not prepared, are refused, or complete in
\* whatever order: the node goes to sleep when none is left.
RadioQuietAsleep == run = "sleep" => pending = {}

\* txid has the ids of the requests under way, each once.
Awaited ==
  /\ {txid[i] : i \in Deferred} = pending
  /\ \A i, j \in Deferred : i # j => txid[i] # txid[j]

\* While the act waits, txid has exactly the requests that are still to come,
\* and the flag says whether there are any: none is forgotten, none is awaited
\* that was never made.
Bookkeeping == st = "TX_WAIT_COMP" => Awaited /\ (flag <=> pending = {})

\* The parent prints the very samples the sensor took, from the number in the
\* packet on.
ParentPrints ==
  \A p \in wire :
    Printed(p) = [i \in 1 .. p.siz |-> Reading[Plus(p.seq, i - 1)]]

\* A packet begins with the sample after the last one that was packed: in spite
\* of packets that were not prepared nothing is skipped, and nothing is sent twice.
InSequence ==
  [][\A p \in wire' \ wire : p.siz > 0 => p.seq = out]_vars

\* The battery: at most TX_TIMEOUT per request, however many are lost.
AwakeBounded == up <= TX_TIMEOUT * N_TX_PACKETS

\* Samples that were left in the queue are not left there for ever: the next
\* wake-ups send them, and the capture goes on.
QueueDrained == que # <<>> ~> que = <<>>

----------------------------------------------------------------------------
\* The inductive invariant behind the safety properties.

\* Where the event loop and the state machine can be at the same time.
Places ==
  /\ run = "boot"  => st = "INIT"
  /\ run = "begin" => st \in {"INIT", "INTERACTIVE"}
  /\ run = "sleep" => st = "INIT"
  /\ run = "idle"  => st \in {"INTERACTIVE", "TX_WAIT_COMP"}

\* txid is void before the loop over the packets comes to it, and agrees with MWX
\* from there on.
Ledger ==
  /\ st \notin {"TX", "TX_WAIT_COMP"} => pending = {}
  /\ run = "loop" /\ st \in {"INIT", "SENSOR"} => \A i \in Packets : txid[i] = TXID_VOID
  /\ st = "TX" => Awaited /\ \A i \in Packets : i >= ip => txid[i] = TXID_VOID

\* The queue has the samples after the last one popped, without a gap.
Samples ==
  /\ \A i \in 1 .. Len(que) : que[i] = Plus(out, i - 1)
  /\ next = Plus(out, Len(que))

\* What a state may still cost has not been spent.
Spending ==
  /\ st \in {"INTERACTIVE", "INIT", "SENSOR", "TX"} => up = 0
  /\ st = "TX_WAIT_COMP" => up + left <= TX_TIMEOUT * N_TX_PACKETS
  /\ st = "GO_SLEEP" => AwakeBounded
  /\ run = "idle" /\ st = "TX_WAIT_COMP" => left > 0

IInv ==
  TypeOK /\ Places /\ Ledger /\ Bookkeeping /\ Samples /\ ParentPrints /\ Spending
=============================================================================
