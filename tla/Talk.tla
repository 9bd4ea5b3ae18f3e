-------------------------------- MODULE Talk --------------------------------
(***************************************************************************)
(* The nodes of a channel together: PingPong, WirelessUart and             *)
(* Parent-MONOSTICK nodes, and sensors.                                    *)
(***************************************************************************)
EXTENDS PingPong, WirelessUart, ParentMonostick

TalkInit ==
  /\ wave = {} /\ inputs = 0 /\ typed = {} /\ printed = {}
  /\ display = Display("", "nothing", <<>>)

\* on_rx_packet() of the act of m.
Hear(m) ==
  \E p \in wave :
    /\ m \in p.left
    /\ PingPongHear(m, p) \/ WirelessUartHear(m, p) \/ ParentHear(m, p)

TalkNext ==
  \E n \in Nodes : Ping(n) \/ TypeLine(n) \/ Report(n) \/ Hear(n) \/ Lose(n)

----------------------------------------------------------------------------
\* Properties.

TalkTypeOK ==
  /\ \A p \in wave : p.from \in Nodes /\ p.left \subseteq Listening /\ p.left # {}
  /\ inputs \in 0 .. MAX_INPUT
  /\ typed \subseteq [from: Nodes, to: 0 .. 255, data: Data]
  /\ printed \subseteq [at: Nodes, from: 0 .. 255, data: Data \ {<<>>}]

\* Every line that comes out of a WirelessUart node was typed at a node with the
\* logical id it names, for this node or for all; packets of other acts on the
\* same channel never look like one.
LinesTrue ==
  \A l \in printed : \E t \in typed :
    LID[t.from] = l.from /\ t.to \in {LID[l.at], Broadcast} /\ t.data = l.data

\* When the users stop, the channel becomes silent: answers are not answered, by
\* whichever acts hear them.
AnswersEnd == <>[](wave = {})

\* What Parent-MONOSTICK shows of a sample's packet are the values its sender packed,
\* each byte in its place; it never takes one for broken.
ParentUnderstands ==
  /\ display.how # "error"
  /\ display.how = "values" =>
       display.values = [i \in DOMAIN Fields[display.kind] |-> BytesOf(Fields[display.kind][i])]

\* The inductive invariant behind ParentUnderstands: a sample's packet that is on its
\* way is what its act packs.
PackedInv ==
  /\ ParentUnderstands
  /\ \A p \in wave : p.kind \in ActKinds => p.body = Packed(Fields[p.kind])

\* The inductive invariant behind LinesTrue: what is on its way as a line was typed,
\* and only those can hear it that it was typed for.
TalkInv ==
  /\ TalkTypeOK /\ LinesTrue
  /\ \A p \in wave : p.kind = "WURT" =>
       \E t \in typed : /\ t.from = p.from /\ t.data = p.body
                        /\ p.left \subseteq ByLid(p.from, t.to)
=============================================================================
