# A TLA+ model of Act_samples

Act_samples is a collection of some forty small programs ("acts") for the
TWELITE wireless micro-controllers of Mono Wireless: battery powered sensors,
receivers for a PC, remote controls, and tests of one peripheral each. Every act
is one C++ file, or a few, on top of the MWX library, which is not part of
this repository. This directory models the acts with a protocol of their own
to get wrong: who may sleep when, what is sent, and what a receiver believes.

## 1. The system

### The platform (MWX library, external)

One thread. `setup()` runs once after power-up or reset, `begin()` once after
it, then `loop()` once per event: a TickTimer interrupt every millisecond, a
byte, a button. Callbacks (`on_rx_packet`, `on_tx_comp`) run between two calls of
`loop()`, never inside one. `the_twelite.sleep()` and `reset_system()` do not
return: a sleeping node keeps its RAM and comes back through `wakeup()`; a reset
node starts from `setup()` with everything zero. `SM_SIMPLE` is a state machine
with a flag and a time-out; `while (step.b_more_loop())` runs it as long as
`step.next()` changes the state. A transmission is `prepare_tx_packet()`, which may
give none, then `transmit()`, which may refuse or return an 8 bit id; the id comes
back in `on_tx_comp()` some time later, sent or not, or never.

### The components

| Component | State it keeps | Operations | What is hard | What makes it correct |
|---|---|---|---|---|
| Rcv_Univsl, `dup_checker.hpp` | a pool of entries (sender, sequence number, 8 bit stamp), a ring of free indices, a multimap | `check_dup` (two modes), `clean_by_timeout` | stamps and numbers that wrap, a full pool, who renews an entry | a packet is accepted once, in order, and nobody is locked out |
| Rcv_Univsl, `main.cpp` and `pkt_*.cpp` | a refresh counter, the last parsed packet | dispatch by network type, parse, display | stale parse results, packed formats | every packet goes to the one parser that knows it |
| PAL_AMB, PAL_AMB-usenap, PAL_MAG, BRD_ARIA, BRD_I2C_TEMPHUMID, Slp_Wk_and_Tx, PAL_MOT-single | `step` (state, flag, time-out), the measured values | wake up, measure, send, wait, sleep | failed requests, late or missing completions, silent sensors, a nap in the middle | one fresh report per period, no sleep on a packet, a bounded time awake |
| PAL_MOT-fifo | the same, a queue of samples, one id per packet | send the queue in two packets, wait for both | completions in any order, packets that are not prepared | no sample skipped or sent twice |
| Parent-MONOSTICK | none beyond a packet | dispatch on four letters, unpack, print | packets of other acts on its channel, sign extension of packed numbers | prints what was sent |
| PAL_AMB-bhv | child and parent state machines in behaviours | events and kicks | a kick that is taken for another, a packet that is not prepared | as the sensor acts |
| BRD_APPTWELITE | inputs, outputs | mirror ports between two nodes | lost, doubled and overtaken packets, inputs that have not been captured | outputs agree with the inputs in the end |
| PulseCounter | `b_transmit`, `u8txid`, a hardware counter | read and reset, send, sleep | count lost between read and send, a counter that turns round | no pulse is reported twice, and none is lost but in those two ways |
| Scratch, Setting | `tx_busy` | send on a key, sleep on a key | a sleep in the middle of a request, late and lost completions | one request at a time; a send is possible again, but for the radio's fault |
| PingPong | none | request and answer | any packet may be a request | answers are not answered |
| WirelessUart | a serial parser | forward both ways | packets of other acts, broadcasts | what is printed was typed, for this node |
| Unit_Cue_MagBuz | beeping phase | alarm on a magnet's edge | the edge between test and sleep | an open door is heard, unless that edge was missed |
| Unit_*, act0..act4, build_all.sh | - | exercise a peripheral or the library | - | not modelled: nothing of their own can go wrong over several steps |

How they interact: sensors (PAL_*, BRD_*, Slp_Wk_and_Tx, PulseCounter) send to a
parent, Parent-MONOSTICK or Rcv_Univsl, and get no answer but the completion of
their own radio. App_Twelite devices (outside) send to Rcv_Univsl directly and
through relays. BRD_APPTWELITE, PingPong and WirelessUart talk to their own kind, but
the samples share one application id and one channel, so that each hears the
packets of all and tells them apart by their first four letters.

`PROJECT.json` lists every component with its status, and under "hazards" every
place of this code where a test would hardly reach what can go wrong, with the
properties that cover it.

## 2. The modules

### Duplicate checker

- **SeqOrder**: `Newer`, the comparison of wrapping sequence numbers
  (`int16_t diff = (a - b) << (16 - BITS)`), with its 16 bit wrap.
- **DupFilter** (abstract): a table of entries with true ages. A packet is refused
  only if an entry speaks against it or there is no room; a refusal changes
  nothing; what is older than the time-out is dropped.
- **DupCheck**: the code. `_vect_pool` and `_mmap_entries` are the function `mmap`
  from linked indices to nodes, `_ring_vecant_idx` is the sequence `vacant`,
  one tick is the 64 ms of `TS_TOu8`. One disjunct of `CheckDup` per `return` of
  `check_dup`; `Refresh` is `loop()` calling `clean_by_timeout`. `age` is a history
  variable: the true age an 8 bit stamp should tell. The order of nodes of one
  key in the multimap is not known to the code, so the model takes any.
- **DupNet**: DupCheck inside `pkt_apptwelite::analyze`, behind senders that
  number their packets with a wrapping clock, relays that lose, repeat, delay
  and reorder, and restarts that set the clock back to 0.
- **RcvUniv**: `on_rx_packet` of Rcv_Univsl: the parser of the packet's network,
  with its early returns, fills `pal` (vector, map and voltage survive from packet
  to packet in the code, and so here) or asks DupCheck; its two answers, `handled`
  and the returned `display`, decide what is `shown`. A PAL payload is a sequence of
  elements, of which the last may break off (`ok` is false, its extension byte may be
  `Missing`); the loop gets to `ParsedTo`, and `Pushed` is the vector behind each element,
  for as long as the loop goes on. An ADC element that breaks off has its key compared
  and its voltage copied all the same (`CutADC`, `Volts`): what is copied is then what
  `push_back()` left in the element, any `Garbage`. A block of accelerations is unpacked
  with the code's shifts (`Upper`, `Lower`), into a `v` whose last two places hold any `Garbage`.
- **MCRcvUniv**: packets on both sides of every early return, payloads that fill the vector,
  and payloads that break off.

### Sensor acts

- **DutyCycle** (abstract): in each period measure, send at most one packet, of
  this period's values, and switch off with a quiet radio.
- **MwxNode**: the platform above, and the steps the acts share word for word.
  `run` is where the event loop is, `st`/`flag`/`left` are SM_SIMPLE's, `tx` is the
  radio, `data` whether the values are of this period, `sent` and `up` histories.
- **PalAmb, PalAmbNap, PalAmbBhv, PalMag, BrdAria, BrdI2c, SlpWkTx, PalMotSingle**: one per act;
  an operator per callback and per case of `loop()`'s switch. PalAmbBhv is the child
  of PAL_AMB-bhv, whose state handlers are also run by its callbacks; its states
  have the names of the common ones that do the same.
- **SensorActs**: a node with any of the eight, the properties, and `IInv`.

### PAL_MOT-fifo and its parent

- **MotCodec**: one sample of three 13 bit numbers in a 32 bit word and a byte,
  packed by PAL_MOT-fifo, unpacked by Parent-MONOSTICK.
- **MotFifo**: PAL_MOT-fifo. `txid` holds, as in the code, ids, `TXID_VOID`,
  `TXID_COMP_FAIL` or a completed id. The `for` loop over the packets is one step
  per packet (`TxPacket`), each not prepared, refused or requested. The sensor's
  FIFO and its driver (external) number the samples; `out` is the history of what
  was popped, `wire` of what was sent. `Printed` is the parent's PMT1 case.
- **MCMotFifo**: readings for TLC at the edges of the encoding.

### The acts outside the duty cycle

- **BusyNode**: the platform for the acts that guard their radio with a flag: sleep
  keeps the RAM, but a request the radio was working on may be completed later or
  be given up (`lost`). **Scratch** and **Setting** (keys `t` and `s`; Setting polls
  for its completion where Scratch is called back), **PulseCounter** (the counter in
  hardware goes on, awake or asleep), and **BusyActs**, their properties.
- **BrdAppTwelite**: one direction of the pair, from the inputs of a node to the
  outputs of the other; the directions share no state. The first state of the buttons and
  every change is sent at once, the analogue inputs every 32 ticks; copies are lost,
  doubled, and overtake each other for up to `LIFE` ticks. `stable`, `shown` and `heard`
  are histories: ticks since the inputs changed, since the shown packet was sent, since
  the youngest packet that came was sent.
- **CueMagBuz**: the test of the pins, the setting of the edges and the sleep are
  separate steps, with the magnet moving between them. The wake-up of the timer
  goes back to sleep without looking at the pins.
- **BhvParent**: the parent of PAL_AMB-bhv: KICKs of a debounced button, events, and the
  time-out of STATE_3 with its missing `else`.
- **Packets**: the fields each act packs, as bytes that know their field and place; what
  `expand_bytes()` makes of them with other widths.
- **Channel**: the nodes that listen, logical ids and broadcasts, and packets on their way:
  a packet reaches each of its nodes at most once, in any order, or not at all (that
  it is at most once is NWK_SIMPLE's promise, and external). **PingPong**, **WirelessUart**,
  **ParentMonostick** are the `on_rx_packet` of their acts, **Talk** all of them on one
  channel, with sensors of all kinds.
- **PlainActs**: a behaviour is one of one of these acts, or of one channel. **MCPlainActs** gives
  the channel its nodes.

### Proofs

**DupCheckProof, DupNetProof, RcvUnivProof, SensorActsProof, MotCodecProof, MotFifoProof,
PlainActsProof**, and **Induction**, on which two of them rest; section 5.

## 3. The runs

Every passing run but plain_acts also checks for deadlock, though where the action relation
always has a step there is none to find. In plain_acts the channel is silent, and rightly, when
its users have used up their inputs (`MAX_INPUT`), so that deadlock is not checked.

| Run | Question | Bounds |
|---|---|---|
| dup_older | does MODE_REJECT_OLDER_SEQ implement DupFilter; pool, twins, stamps | 3 senders on a pool of 2, so that it fills; 3 values of 3 bits with one pair across the wrap; stamps modulo 4, time-out 1, refresh after 1 or 2 ticks: the stamp wraps during every entry's life |
| dup_same | the same for MODE_REJECT_SAME_SEQ; is a full pool freed | 2 senders, 2 values, pool of 2, stamps modulo 5 |
| dup_net | once, and in order, through relays | 2 senders with clocks of 2 bits, a pool of 1, so that entries are evicted; delays up to the time-out of 2, which is half of the clock's range, the most the order can bear |
| dup_restart | is a sender that restarts heard again | clocks of 2 bits, restarts at any time |
| rcv | is every packet displayed once, by one parser, with nothing of an earlier packet; who gets an entry of the duplicate checker; is it DupFilter still, between resets | vector of 3 elements and a payload of 4, one pair of accelerations and a block of two pairs, a failed element in the middle, a key given twice, ADC elements that break off before and behind their extension byte; one value of garbage; 2 senders on a pool of 1 |
| rcv_accel (violation) | are accelerations expanded to what they were made of | as rcv |
| rcv_volt (violation) | is the voltage that is displayed one that was received | as rcv, two values of garbage |
| sensor_acts | do the eight acts implement DutyCycle; sleep, battery, progress | time-outs of 2 ms, jobs of up to 3 ms: each wait is left before, at and after its time-out |
| acts_stale (violation) | is what is reported measured in this period | as sensor_acts |
| mot_fifo | txid, order of samples, what the parent prints, battery, progress | FIFO of 5 with an interrupt at 4, 2 samples to a packet: two packets, and a sample too many for both; numbers modulo 8 wrap; 3 ids for 2 requests |
| plain_acts | the acts outside the duty cycle: flags, pulses, outputs, alarm, time-out, lines, what the parent shows | 3 ids, so that they are used again; a counter of 4 values with reference 2 and up to 6 pulses: it turns round; a period of 2 ticks, copies that live 1 tick, at most 2 packets in the air, histories up to 4 ticks; STATE_3 of 4 ms against seconds of 3 and a debouncing of 1; two PingPong and two WirelessUart nodes, a Parent-MONOSTICK, a sensor, and a sensor with the id of a parent, which BRD_APPTWELITE addresses to the children, with 2 inputs |
| duty (violation) | is a duty in its range | as plain_acts |

The bounds keep the ratios that decide the interesting cases (pool smaller than
the number of senders, stamp range over time-out plus refresh, delay against the clock,
FIFO above two packets). What they leave out, sizes, is what the proofs cover.

What the runs show: the duplicate checker keeps its promises under its
assumption that the refresh is not later than 256 - 46 ticks (about 13 s)
after it is due; all eight acts have the duty cycle, BRD_I2C_TEMPHUMID without
the guarantee of fresh data; the dispatcher of Rcv_Univsl never shows stale values, but for the voltage of rcv_volt;
PAL_MOT-fifo neither skips nor repeats a sample. Of the plain acts: no flag is left set but
for a request the radio still has or has given up; PulseCounter counts no pulse twice, and loses
only those of a count whose packet was not prepared, or of a counter that turned round; the outputs
of BRD_APPTWELITE follow inputs that stay; the alarm is silent only after an edge that came
between the test of the pins and the sleep; answers end; nobody takes another act's packet for its own.

Four runs show where the code departs from its own comments:

- **acts_stale**: BRD_I2C_TEMPHUMID.cpp:247 does not look at `read()`'s result. A
  chip that does not answer makes the act report the last period's values ("the
  sensor data should be ready").
- **rcv_accel**: pkt_pal.cpp:157 says "expand 9bytes pack to 12bit x 3axis x
  2blocks.". The loop (:159) writes `v[k]` and `v[k+1]` for k = 0..2: the second number of a
  triple is overwritten, `v[4]` and `v[5]` are never written, and the shifts of :167,
  done in an `int`, extend no sign. `reserve()` (:151) leaves the containers' size at 0, so
  that the numbers are not displayed at all.
- **rcv_volt**: pkt_pal.cpp:195 copies the voltage of a new ADC element before :204 looks at
  `b_success`. When the payload ends before the value, the element is taken off again, but
  what `push_back()` left in it is displayed as "Module voltage (if available)"
  (pkt_common.hpp:31), in the place of a voltage that was received.
- **duty**: BRD_APPTWELITE.cpp:118 sends the first state of the buttons without waiting for
  the first capture of the analogue inputs, for which the periodic packet does wait (:133): 0xFFFF,
  from `setup()`, comes to `change_duty()`, of which :206 says "duty is set 0..1024".

PAL_MOT-fifo.cpp:191 asks that all data be popped to proceed to the next capture. A packet that
is not prepared (:214), or 31 or 32 samples read, leave samples behind. `QueueDrained`
shows what saves the act: later wake-ups send them, though they capture nothing new
meanwhile, and when fewer than 15 are left the second packet has no samples and the number
of an element that is not there (:223).

## 4. Fairness

- `WF(Step)`: the processor runs the code it is in.
- `Tick`: the TickTimer interrupts whatever else happens: weak in MotFifo and
  strong in SensorActs, where other events may disable it, for a moment, again
  and again.
- `WF(SensorReady)`: a sensor that was started is ready in the end. The acts' wait
  for PAL_AMB's and BRD_ARIA's sensors has no time-out, so `CycleEnds` needs it.
- `WF(TimeStep)`, `WF(Refresh)`: time passes, and the receiver's loop is called.
- dup_restart: a sender keeps sending, and copies that are sent again and again
  arrive again and again (strong fairness of `Deliver`): without it nobody can be
  heard at all.
- mot_fifo: `prepare_tx_packet()` does not fail for ever (strong fairness of
  a prepared round).
- plain_acts: the code that has something to do runs (`WF` of `BusyStep`); Setting's poll, which
  keys interrupt, is strong. Timer0 ticks; BRD_APPTWELITE's radio does not refuse every
  packet nor lose every one (`SF` of `Beat` and `OnRxPacket`): with a channel that loses
  all, no output can follow. A packet on the channel is heard or lost in the end.
- Nothing is assumed about completions: they may never come. Nor need anybody ever type a
  key, press a button or move a magnet.

## 5. What is proved

For every value of the constants that the named assumptions allow
(`DupAssumption`, `NetAssumption`, `RcvAssumption`, `NodeAssumption`, `MotAssumption`, and those of
the plain acts; TLC evaluates them in the runs). `PacketAssumption` gives the fields of a received
packet their types; nothing is assumed of the number, the order or the completeness of its elements.

- **DupCheckProof**: `TypeCorrect`, `PoolIsPartitioned`, `NoTwinEntries`,
  `StampsAreExact`, and `Refinement`: DupCheck implements DupFilter. The invariant is
  the conjunction of the four: that no index is free twice needs the ring and the
  map to be disjoint, that a stamp is exact needs the bound on the age that the
  clean-up gives, `age <= TIMEOUT + since`, which is why `StampsExact` has it. The
  arithmetic is in the lemmas about `%`, `WrapDown`, `WrapUp`, `WrapNone`.
- **DupNetProof**: `NetTypeCorrect`, with restarts or without; and, in the setting `Ordered`
  (MODE_REJECT_OLDER_SEQ, no restarts, delays up to half of the range of the numbers),
  `HandedOnOnce` and `HandedOnInOrder`. Neither is inductive. `OrderInv` adds that a
  packet's number tells when it was sent (`Numbered`), that the packet an entry records was not
  sent before an accepted one (`RecordsLast`), and that an entry outlives the copies of what it
  has accepted (`Remembered`), which needs `StampsExact` and MAX_DELAY <= TIMEOUT. `NotNewer` is
  about the shift: a number at most half of the range back is never newer, for
  all 16 widths. With 15 bits of 1/64 s half of the range is 256 s, and the time-out a few.
- **Induction**: what the library states for a predicate given as a parameter, restated for
  sets, so that it can be cited: a set of numbers has a least member (`NatLeast`, from the
  library's `WFMin`), what holds of 0 and is passed on up to N holds up to N (`UpTo`), and a
  recursive definition along 0..N has a function (`RecursionExists`). A property of every
  place of a sequence is proved with the set of the places where it holds.
- **RcvUnivProof**: `DisplayedOnce` and `EntriesAreOurs`, for which the parsers' two answers are
  enough (`Answers`); `PoolSurvivesDispatch` and `ReceiverFilters`: behind the dispatcher, between packets
  of all kinds, the checker's pool is still partitioned, through resets, and between two resets
  it still implements DupFilter (the step lemmas of DupCheckProof, of which only the
  verdicts can be asked for by a packet); `RcvTypes`, `MapIsOfSensors` and `DisplayIsFresh`, about what the
  PAL parser computes of any payload, however long and wherever it breaks off. `RcvInv`, the
  conjunction of the checker's invariant, the types and the map, is inductive: every step
  makes vector and map from one packet, or leaves both. `Pushed` is a function (`PushedDef`), and along
  the payload it has at most N_SENSORS elements (`PushedFits`), each of which comes from an
  element of its own, in their order, with none left out (`PushedInOrder`): that is `MadeOf`.
  `VoltFacts`, `MapFacts` and `AccelFacts` say what is made of it.
- **PlainActsProof**: `TypeCorrect`, `OneRequestAtATime`, `NoPulseTwice`, `OldCopiesAreHarmless`,
  `AlarmIsSilentForOneReason`, `TimeoutIsKept`, `PrintedLinesWereTyped`, `ValuesAreThoseSent`. Each act has its own inductive
  invariant, stated in its module (`BusyInv`, `PortInv`, `CueInv`, `BhvParentInv`, `TalkInv`); the steps of
  the other acts leave its variables alone. `PortInv` says that what was sent after the last
  change tells the inputs as they are; `TalkInv` that a line on its way was typed and only those it was typed for
  can still hear it; `BusyInv` that the flag is set while the radio has, or has done, a request.
  That the counter loses whole turns only is arithmetic (`ModNext`, `ModTurn`).
  `ValuesAreThoseSent` is about the acts' layouts on both sides: `PackedInv` says that a report on
  its way is a payload some act packed, `WidthsAgree` that the parent expands each act's fields
  by the widths the act packs them with. What the library makes of equal widths is the
  lemma `ExpandedAsPacked`: what `pack_bytes` lays side by side `expand_bytes` finds again; the
  field of every byte is known from the ends of the fields before it (`EndsOfFields`, `AllLaid`).
- **SensorActsProof**: `TypeCorrect`, `NeverSleepsOnAPacket`, `BatteryIsBounded`,
  `Refinement` (to DutyCycle). `IInv` says in which states `loop()` may return
  (`Places`), that the flag is never left over from an earlier request (`Radio`),
  what has been measured and sent in each state (`Reporting`), and what each
  state may still cost (`Spending`). One lemma per act, and one per shared step.
- **MotCodecProof**: `RoundTrip`, what the parent unpacks is what was packed, for
  all 2^39 samples.
- **MotFifoProof**: `TypeCorrect`, `TxidsAreKept`, `NeverSleepsOnAPacket`,
  `PrintsWhatWasTaken` (with `RoundTrip`), `BatteryIsBounded`, `NothingSkipped`. `IInv`
  adds to the properties that txid is void from `ip` on and agrees with MWX below
  (`Ledger`), that the queue continues what was popped without a gap (`Samples`), and
  the cost of each state. `MotAssumption` asks for two packets, as `wakeup()` does by
  clearing two entries.

Only model-checked: liveness (`PoolFreed`, `NeverLockedOut`, `CycleEnds`, `QueueDrained`,
`FlagStuckByRadio`, `OutputsFollow`, `AnswersEnd`), which the prover cannot do. Every invariant
and every action property of the runs is proved.

## 6. What is left out, and why

- Formatting, LEDs, addresses, retries and delays of the radio, averages and
  conversion formulas: nothing the properties tell apart.
- The MWX library beyond how the acts use it. In DupNet the deletion of entries
  during the iteration is one step: the iterators are the EASTL container's promise.
- `Slp_Wk_and_Tx`'s `delay(1000)` before a reset is not in `AwakeBounded`.
- PAL_AMB-bhv: an LTR-308ALS whose read fails is not put in stand-by
  (myAppBhvChild.cpp:82 returns before :102) and goes on measuring: its value in the next
  period may be some ms older than the wake-up, which the model calls fresh. The
  parent's `receive()` only prints.
- Rcv_Univsl: packets cut off inside a header; the addresses a
  router adds; what pkt_apptwelite and pkt_actsamples keep in `data`, which every
  call wipes before it fills it. The wording of the display.
- Plain acts: `u16seq` of PulseCounter, what the settings of Setting contain, the ASCII format
  of WirelessUart's lines, keys that only print, and LEDs. BRD_APPTWELITE's copies live `LIFE` ticks: a copy
  that could come at any time could put the outputs back, and `OutputsAgree` says no more than that it
  cannot come later than that. The channel delivers a packet to a node at most once, as
  NWK_SIMPLE says; the radio of a sleeping node gives its requests up or completes them later.
- Not modelled: the Unit_* acts but Unit_Cue_MagBuz, act0..act4 and build_all.sh. They exercise a peripheral, a
  container or a formatter of a library that is not in this repository, from a key press, or blink;
  nothing of their own can go wrong over several steps.

## 7. Plan

Order: what most acts and users depend on first.

1. (done) Duplicate checker: SeqOrder, DupFilter, DupCheck, DupNet; refinement proved.
2. (done) Sensor acts: DutyCycle, MwxNode, seven acts; refinement proved.
3. (done) PAL_MOT-fifo with its parent: MotCodec, MotFifo; safety proved.
4. (done) Rcv_Univsl's dispatcher and parsers: RcvUniv.
5. (done) PAL_AMB-bhv's child and parent: PalAmbBhv, and its refinement to DutyCycle; BhvParent.
6. (done) The acts without a state machine class: BusyActs, BrdAppTwelite, CueMagBuz, and the
   channel of PingPong, WirelessUart and Parent-MONOSTICK; safety proved.
7. (done) DupNet's order and RcvUniv's dispatch proved.
8. (done) RcvUniv's payloads and display, and the parent's round trip, proved by induction
   over sets (Induction).
9. (done) The receiver, with the dispatcher in front of the checker and resets, still implements
   DupFilter, proved.
10. Left: both directions of BRD_APPTWELITE with the children's and parent's addresses, if the
   directions ever come to share state.
