------------------------------- MODULE RcvUniv ------------------------------
(***************************************************************************)
(* on_rx_packet of Rcv_Univsl/main.cpp: a received packet goes to the      *)
(* parser of its network; the parser says whether it handled the packet    *)
(* and whether there is something to display; what no parser handled is    *)
(* displayed as unknown.                                                   *)
(*                                                                         *)
(*   pkt_pal          pal: the voltage in data, the elements in            *)
(*                    _vect_pal_sensors, _map_pal_sensors as a function    *)
(*                    from keys to positions in that vector, and the       *)
(*                    acceleration buffers, one six-tuple for two samples  *)
(*   pkt_apptwelite   its duplicate checker is DupCheck                    *)
(*                                                                         *)
(* What pkt_apptwelite and pkt_actsamples keep in data is wiped by every   *)
(* call that fills it and read by the display() behind that call only: it  *)
(* is in the packet, and left out.                                         *)
(*                                                                         *)
(* A packet is a record. Its field net is the network it came by; the      *)
(* other fields are what the parser of that network looks at.              *)
(***************************************************************************)
EXTENDS DupCheck

CONSTANTS
  Packets,      \* what may be received
  N_SENSORS,    \* capacity of _vect_pal_sensors: 15
  N_PACKS,      \* capacity of the acceleration buffers, in pairs of samples: 8
  Garbage       \* what 16 bits of memory that is not initialized may hold

ASSUME RcvAssumption ==
  /\ N_SENSORS \in Nat \ {0} /\ N_PACKS \in Nat \ {0}
  /\ Garbage # {} /\ Garbage \subseteq {n \in Nat : n < 65536}

VARIABLES
  pal,
  shown,   \* what the last call displayed, in order
  rx       \* history: the packet of the last step, <<>> if it took none

rcvVars == <<vars, pal, shown, rx>>

----------------------------------------------------------------------------
\* Elements of a PAL payload: a type, the extension byte as sent, a value, the
\* samples of an ACCEL block, and ok: complete, and not the code of a failure. Of
\* an element that is not complete the extension byte may be missing.

Missing == -1

Element ==
  {e \in [type: STRING, ext: Nat \cup {Missing}, value: Int, ok: BOOLEAN,
          samples: Seq(Seq(Int))] :
     /\ e.type = "ADC" => e.value \in Nat
     /\ e.ok => e.ext # Missing}

\* The fields of a packet have their types; a sender of App_Twelite is one of Keys.
ASSUME PacketAssumption ==
  \A p \in Packets :
    /\ p.net = "LAYERED" => p.elems \in Seq(Element)
    /\ p.net = "NONE" => p.src \in Keys /\ p.ts \in Values

FixedTypes == {"HALLIC", "TEMP", "HUM", "ILLUM", "FACTOR"}
ExtTypes   == {"EVENT", "ADC", "DIO", "EEPROM"}
KnownTypes == FixedTypes \cup ExtTypes \cup {"LED"}

\* What analyze() of the element's type leaves in u8ext.
Ext(e) ==
  CASE e.type \in FixedTypes           -> 0
    [] e.type = "LED"                  -> 1
    [] e.type = "ADC" /\ e.ext = 1     -> 8   \* for version compatibility
    [] OTHER                           -> e.ext

Simple(e) == e.type # "ACCEL"

\* What an element leaves in the vector.
Sensor(e) == [type |-> e.type, ext |-> Ext(e), value |-> e.value]

\* _vect_pal_sensors behind each element of s, if the loop gets there.
Pushed(s) ==
  LET vect[n \in 0 .. Len(s)] ==
        IF n = 0 THEN <<>>
        ELSE IF Simple(s[n]) THEN Append(vect[n - 1], Sensor(s[n])) ELSE vect[n - 1]
  IN  vect

\* Mutant: the vector is not checked for room.
ParsedUnbounded(s, i) ==
  IF Simple(s[i])
  THEN s[i].type \in KnownTypes /\ s[i].ok
  ELSE Len(s[i].samples) <= N_PACKS

\* The loop gets past element i of s.
Parsed(s, i) ==
  IF Simple(s[i])
  THEN /\ Len(Pushed(s)[i - 1]) < N_SENSORS
       /\ s[i].type \in KnownTypes
       /\ s[i].ok
  ELSE Len(s[i].samples) <= N_PACKS

\* The last element before the first one that ends the loop.
ParsedTo(s) == Max({n \in 0 .. Len(s) : \A i \in 1 .. n : Parsed(s, i)})

\* What becomes of _vect_pal_sensors.
Sensors(s) == Pushed(s)[ParsedTo(s)]

ModuleVolts(sensors) ==
  {i \in DOMAIN sensors : sensors[i].type = "ADC" /\ sensors[i].ext = 8}

\* Mutant: data is not wiped.
VoltKept(sensors) ==
  IF ModuleVolts(sensors) = {} THEN pal.volt ELSE sensors[Max(ModuleVolts(sensors))].value

\* u16volt of data, which starts from 0: that of the last ADC element #8 of the vector.
Volt(sensors) ==
  IF ModuleVolts(sensors) = {} THEN 0 ELSE sensors[Max(ModuleVolts(sensors))].value

\* An ADC element that is not complete ends the loop, but its key is looked at and its
\* voltage taken before that.
CutADC(s) ==
  LET n == ParsedTo(s) + 1
  IN  n \in DOMAIN s /\ s[n].type = "ADC" /\ Len(Sensors(s)) < N_SENSORS

\* What u16volt may be in the end: what push_back() left in the new element where its
\* analyze() wrote nothing. That may be the element of an earlier packet.
Volts(s) ==
  IF CutADC(s)
  THEN LET ext == s[ParsedTo(s) + 1].ext
       IN  {v \in {Volt(Sensors(s))} : ext \notin {1, 8}}
             \cup {g \in Garbage : ext \in {1, 8, Missing}}
  ELSE {Volt(Sensors(s))}

Key(x) == <<x.type, x.ext>>

First(sensors, k) == Min({i \in DOMAIN sensors : Key(sensors[i]) = k})

\* Mutant: the map is not cleared.
SensorMapKept(sensors) ==
  [k \in DOMAIN pal.map \cup {Key(sensors[i]) : i \in DOMAIN sensors} |->
     IF k \in DOMAIN pal.map THEN pal.map[k] ELSE First(sensors, k)]

\* intrusive_hash_map::insert of each element: the first one of a key is the one
\* that find_sensor returns.
SensorMap(sensors) ==
  [k \in {Key(sensors[i]) : i \in DOMAIN sensors} |-> First(sensors, k)]

\* Two samples (x, y, z, x, y, z) of 12 bits in nine bytes, unpacked: three bytes
\* for two numbers s and t. v[k] gets s; v[k + 1] gets t with four bits of s above
\* it, and is overwritten by the next turn, except the last. The shifts back and
\* forth are done in an int, and extend no sign; v[4] and v[5] are never set.
Field(s) == s % 4096

Upper(s) == Field(s)
Lower(s, t) == AsInt16((Field(s) % 16) * 4096 + Field(t))

Unpack(v, g) ==
  <<Upper(v[1]), Upper(v[3]), Upper(v[5]), Lower(v[5], v[6]), AsInt16(g[1]), AsInt16(g[2])>>

\* The acceleration buffers after the blocks of s. reserve() leaves their size
\* at 0, so that disp_detail does not display them.
Blocks(s) == {i \in 1 .. ParsedTo(s) : ~ Simple(s[i])}

Accel(s, g) ==
  [j \in UNION {DOMAIN s[i].samples : i \in Blocks(s)} |->
     LET last == Max({i \in Blocks(s) : j \in DOMAIN s[i].samples})
     IN  Unpack(s[last].samples[j], g[j])]

----------------------------------------------------------------------------
\* bool pkt_pal::analyze(rx, b_handled)

\* b_pal_packet_analyze_body gets to the payload: application data from the
\* network, of a node or by a router, with something behind the header.
HasBody(p) ==
  /\ p.nwk /\ p.cmd = "APP_DATA"
  /\ p.kind \in {"T", "R"}
  /\ p.rest

\* data is wiped, the containers are cleared and filled again.
PalPayload(p) ==
  \E v \in Volts(p.elems), g \in [1 .. N_PACKS -> Garbage \X Garbage] :
    LET sensors == Sensors(p.elems)
    IN  pal' = [volt |-> v, sensors |-> sensors,
                map |-> SensorMap(sensors), accel |-> Accel(p.elems, g)]

PalAnalyze(p, handled, display) ==
  \/ /\ ~ HasBody(p)
     /\ pal' = [pal EXCEPT !.volt = 0]
     /\ ~ handled /\ ~ display
  \/ /\ HasBody(p)
     /\ PalPayload(p)
     /\ handled = (pal'.sensors # <<>>)
     /\ display = handled

----------------------------------------------------------------------------
\* bool pkt_actsamples::analyze(rx, b_handled): four letters and the rest.

ActAnalyze(p, handled, display) ==
  /\ handled = (p.fourcc # "short")
  /\ display = handled

----------------------------------------------------------------------------
\* bool pkt_apptwelite::analyze(rx, b_handled)

\* identify(): the command, and a header of this application and version.
Identify(p) == p.cmd \in {"X81", "MSG"} /\ p.header

\* Mutant: low latency packets are checked too.
AlwaysChecked(p) == p.cmd \in {"X81", "MSG"}

\* Low latency packets come several times, and are all displayed.
NeedsCheck(p) == p.cmd = "MSG" \/ ~ p.low

Unchecked == out' = <<>> /\ UNCHANGED <<mmap, vacant, age>>

\* The packet is for this node, and not a duplicate: a message in parts is
\* dropped, anything else is displayed.
AppPayload(p, handled, display) ==
  /\ handled
  /\ display = (p.cmd = "X81" \/ p.single)

\* Mutant: b_handled is not set.
LeftToOthers(handled, display) == ~ handled /\ ~ display

\* b_handled = true; return false;
Dropped(handled, display) == handled /\ ~ display

AppAnalyze(p, lag, handled, display) ==
  \/ /\ ~ Identify(p)
     /\ ~ handled /\ ~ display
     /\ Unchecked
  \/ /\ Identify(p) /\ p.dst # 0
     /\ Dropped(handled, display)
     /\ Unchecked
  \/ /\ Identify(p) /\ p.dst = 0
     /\ IF NeedsCheck(p) THEN CheckDup(p.src, p.ts, lag) ELSE Unchecked
     /\ IF out' = <<"refuse", p.src, p.ts>>
        THEN Dropped(handled, display)
        ELSE AppPayload(p, handled, display)

----------------------------------------------------------------------------
\* void on_rx_packet(rx, handled), and the rest of the loop.

\* display(): the common line, and disp_detail.
Display(p) ==
  CASE p.net = "LAYERED" -> [by |-> "PAL", volt |-> pal'.volt, detail |-> pal'.sensors]
    [] p.net = "SIMPLE"  -> [by |-> "Act", volt |-> 0, detail |-> <<p.fourcc>>]
    [] p.net = "NONE"    -> [by |-> "AppTwelite", detail |-> <<p.cmd>>,
                             volt |-> IF p.cmd = "X81" THEN p.volt ELSE 0]

Unknown == [by |-> "Unknown", volt |-> 0, detail |-> <<>>]

\* The parser of the packet's network, if there is one.
Analyze(p, lag, handled, display) ==
  \/ /\ p.net = "LAYERED" /\ PalAnalyze(p, handled, display)
     /\ Unchecked
  \/ /\ p.net = "SIMPLE" /\ ActAnalyze(p, handled, display)
     /\ Unchecked /\ UNCHANGED pal
  \/ /\ p.net = "NONE" /\ AppAnalyze(p, lag, handled, display)
     /\ UNCHANGED pal
  \/ /\ p.net \notin {"LAYERED", "SIMPLE", "NONE"}
     /\ ~ handled /\ ~ display
     /\ Unchecked /\ UNCHANGED pal

OnRxPacket(p, lag) ==
  /\ rx' = p
  /\ \E handled, display \in BOOLEAN :
       /\ Analyze(p, lag, handled, display)
       /\ shown' = (IF display THEN <<Display(p)>> ELSE <<>>)
                     \o (IF handled THEN <<>> ELSE <<Unknown>>)
  /\ UNCHANGED <<tick, since>>

\* setup() constructs the parsers.
RcvInit ==
  /\ Init
  /\ pal = [volt |-> 0, sensors |-> <<>>, map |-> <<>>, accel |-> <<>>]
  /\ shown = <<>>
  /\ rx = <<>>

\* '!' on the serial port: reset_system(), and setup() again.
ResetSystem ==
  /\ mmap' = <<>> /\ age' = <<>>
  /\ vacant' = [n \in 1 .. N_ENTRIES |-> n - 1]
  /\ tick' \in 0 .. TS_MOD - 1
  /\ since' = 0 /\ out' = <<>>
  /\ pal' = [volt |-> 0, sensors |-> <<>>, map |-> <<>>, accel |-> <<>>]
  /\ shown' = <<>> /\ rx' = <<>>

RcvTimeStep == TimeStep /\ shown' = <<>> /\ rx' = <<>> /\ UNCHANGED pal

\* The refresh() of the other parsers does nothing.
RcvRefresh == Refresh /\ shown' = <<>> /\ rx' = <<>> /\ UNCHANGED pal

RcvNext ==
  \/ \E p \in Packets, lag \in 0 .. RX_LAG : OnRxPacket(p, lag)
  \/ RcvTimeStep
  \/ RcvRefresh
  \/ ResetSystem

RcvSpec == RcvInit /\ [][RcvNext]_rcvVars

----------------------------------------------------------------------------
\* Properties.

\* The type of the parsers' state.
RcvTypeOK ==
  /\ TypeOK
  /\ DOMAIN pal = {"volt", "sensors", "map", "accel"}
  /\ pal.volt \in Nat
  /\ pal.sensors \in Seq([type: KnownTypes, ext: Nat, value: Int])
  /\ Len(pal.sensors) <= N_SENSORS
  /\ \A j \in DOMAIN pal.accel : j <= N_PACKS

\* find_sensor never returns an element of an earlier packet: whatever packets
\* were rejected, parsed in part or too long before, a key of the map is the key
\* of the element it leads to, and every element can be found.
MapMatchesSensors ==
  /\ \A k \in DOMAIN pal.map :
       pal.map[k] \in DOMAIN pal.sensors /\ Key(pal.sensors[pal.map[k]]) = k
  /\ \A i \in DOMAIN pal.sensors : Key(pal.sensors[i]) \in DOMAIN pal.map

\* The inductive invariant: what the parsers and the checker keep.
RcvInv == IInv /\ RcvTypeOK /\ MapMatchesSensors

\* detail is made of the elements of s up to some place, but for the blocks, in their
\* order and without gaps, and none of them is faulty.
MadeOf(detail, s) ==
  \E n \in 0 .. Len(s) :
    \E at \in [DOMAIN detail -> {i \in 1 .. n : Simple(s[i])}] :
      /\ \A i, j \in DOMAIN detail : i < j => at[i] < at[j]
      /\ \A i \in 1 .. n : Simple(s[i]) => \E j \in DOMAIN detail : at[j] = i
      /\ \A i \in DOMAIN detail :
           /\ s[at[i]].ok
           /\ detail[i].type = s[at[i]].type /\ detail[i].value = s[at[i]].value

\* volt is a module voltage among these elements, or 0 if there is none.
VoltOf(volt, detail) ==
  IF ModuleVolts(detail) = {} THEN volt = 0
  ELSE \E i \in ModuleVolts(detail) : detail[i].value = volt

\* What is displayed of a PAL packet is in the packet: its elements in their order up
\* to a faulty one, with the voltage of one of them, and none if none has one, unless the
\* packet breaks off in an ADC element.
FreshDisplay ==
  \A d \in ToSet(shown) :
    d.by = "PAL" =>
      /\ d.detail # <<>> /\ MadeOf(d.detail, rx.elems)
      /\ VoltOf(d.volt, d.detail) \/ CutADC(rx.elems)

\* "Module voltage (if available)": what is displayed as such is that of a displayed
\* element, and if one has one it is displayed.
VoltOfModule ==
  \A d \in ToSet(shown) : d.by = "PAL" => VoltOf(d.volt, d.detail)

\* A packet is displayed at most once, and by one parser only; it is not
\* displayed at all only if it is of App_Twelite and for another node, refused by
\* check_dup, or a message in parts. A refused one does not show up as unknown.
ShownOnce ==
  rx # <<>> =>
    /\ Len(shown) <= 1
    /\ shown = <<>> <=>
         /\ rx.net = "NONE" /\ Identify(rx)
         /\ \/ rx.dst # 0
            \/ out = <<"refuse", rx.src, rx.ts>>
            \/ rx.cmd = "MSG" /\ ~ rx.single

\* The entries of the duplicate checker are kept for the packets it is asked
\* for: a packet to another node, or one that is displayed however often it
\* comes, neither takes one of the few entries nor changes one.
OnlyOurs ==
  [][\A i \in DOMAIN mmap' :
       \/ i \in DOMAIN mmap /\ mmap'[i] = mmap[i]
       \/ /\ rx'.net = "NONE" /\ rx'.dst = 0
          /\ ~ (rx'.cmd = "X81" /\ rx'.low)
          /\ mmap'[i].key = rx'.src /\ mmap'[i].value = rx'.ts]_rcvVars

\* Behind the dispatcher check_dup is the table of DupFilter still: what gets there is
\* accepted or refused as the table says, packets of other networks, for other nodes or
\* too fast to be checked leave it alone, and nothing but a reset empties it.
FiltersBetweenResets ==
  /\ Filter!Init
  /\ [][\/ Filter!Next
        \/ out' = <<>> /\ UNCHANGED Table
        \/ ResetSystem /\ Filter!Init']_rcvVars

\* "expand 9bytes pack to 12bit x 3axis x 2blocks": the buffers hold the samples
\* of the block that was received.
AccelExpanded ==
  rx # <<>> /\ rx.net = "LAYERED" =>
    \A i \in DOMAIN rx.elems :
      rx.elems[i].type = "ACCEL" => pal.accel = rx.elems[i].samples
=============================================================================
