------------------------------- MODULE Channel ------------------------------
(***************************************************************************)
(* One radio channel. The samples have the same application id and the     *)
(* same channel in their sources, so that every listening node hears the   *)
(* packets of every act and tells them apart by their first letters.       *)
(*                                                                         *)
(* NWK_SIMPLE (outside this repository) delivers a packet to a node at     *)
(* most once, in any order, or not at all.                                 *)
(***************************************************************************)
EXTENDS Packets

CONSTANTS
  Nodes,
  POST,       \* the act each node runs
  LID,        \* the logical id each node has
  MAX_INPUT   \* bound: what users and sensors send in a behaviour

Listening ==
  {n \in DOMAIN POST : POST[n] \in {"PingPong", "WirelessUart", "Parent-MONOSTICK"}}

\* The logical id of a child that has none of its own.
NoId == 254

ASSUME ChannelAssumption ==
  /\ DOMAIN POST = Nodes
  /\ LID \in [Nodes -> 0 .. 254] /\ MAX_INPUT \in Nat
  /\ \A n \in Nodes :
       /\ POST[n] = "PingPong" => LID[n] = NoId
       /\ POST[n] = "Parent-MONOSTICK" => LID[n] = 0

VARIABLES
  wave,     \* packets on their way: [kind, from, body, left], left being the
            \* nodes that may still hear it
  inputs,   \* how many inputs there have been
  typed,    \* history: the lines typed at WirelessUart nodes: [from, to, data]
  printed,  \* history: the lines they printed: [at, from, data]
  display   \* the last display of Parent-MONOSTICK: [kind, how, values]

chanVars == <<wave, inputs, typed, printed, display>>

Broadcast == 255

\* The nodes a packet of n to a logical id is for.
ByLid(n, to) ==
  {m \in Listening \ {n} : to = Broadcast \/ LID[m] = to}

\* A packet that left may still hear.
OnAir(kind, n, body, left) == [kind |-> kind, from |-> n, body |-> body, left |-> left]

\* A packet of n, if prepare_tx_packet() gives one and transmit() takes it.
Send(before, kind, n, to, body) ==
  \/ /\ to # {}
     /\ wave' = before \cup {OnAir(kind, n, body, to)}
  \/ wave' = before

\* m has heard p, or never will.
Past(p, m) ==
  (wave \ {p}) \cup {OnAir(p.kind, p.from, p.body, l) : l \in {p.left \ {m}} \ {{}}}

Input == inputs < MAX_INPUT /\ inputs' = inputs + 1

Lose(m) ==
  /\ \E p \in wave : m \in p.left /\ wave' = Past(p, m)
  /\ UNCHANGED <<inputs, typed, printed, display>>

\* tx_addr(): a sensor sends to the parent, Scratch and Setting to everybody, and a
\* BRD_APPTWELITE that is the parent itself to the children.
Address(n, kind) ==
  CASE kind = "SCRT"                -> Broadcast
    [] kind = "BAT1" /\ LID[n] = 0 -> NoId
    [] OTHER                        -> 0

\* A sensor sends what its act sends.
Report(n) ==
  /\ POST[n] = "sensor" /\ Input
  /\ \E k \in ActKinds : Send(wave, k, n, ByLid(n, Address(n, k)), Packed(Fields[k]))
  /\ UNCHANGED <<typed, printed, display>>
=============================================================================
