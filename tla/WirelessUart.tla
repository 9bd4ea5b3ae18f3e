---------------------------- MODULE WirelessUart ----------------------------
(***************************************************************************)
(* WirelessUart: a line with an address and data on the serial port goes   *)
(* to the node of that logical id, which prints it with the sender's. The  *)
(* ASCII format of the lines is the library's.                             *)
(***************************************************************************)
EXTENDS Channel

CONSTANT Data   \* the data of a line: sequences of bytes

\* loop(): the first byte of a line is the address.
TypeLine(n) ==
  /\ POST[n] = "WirelessUart" /\ Input
  /\ \E to \in {LID[m] : m \in Nodes} \cup {Broadcast}, d \in Data :
       /\ typed' = typed \cup {[from |-> n, to |-> to, data |-> d]}
       /\ Send(wave, "WURT", n, ByLid(n, to), d)
  /\ UNCHANGED <<printed, display>>

\* Mutant: the letters are not looked at.
ForUartAny(p) == p.body # <<>>

\* "WURT" and at least one more byte.
ForUart(p) == p.kind = "WURT" /\ p.body # <<>>

\* on_rx_packet().
WirelessUartHear(m, p) ==
  /\ POST[m] = "WirelessUart"
  /\ wave' = Past(p, m)
  /\ printed' = IF ForUart(p)
                THEN printed \cup {[at |-> m, from |-> LID[p.from], data |-> p.body]}
                ELSE printed
  /\ UNCHANGED <<inputs, typed, display>>
=============================================================================
