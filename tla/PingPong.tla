------------------------------ MODULE PingPong ------------------------------
(***************************************************************************)
(* PingPong: a key or the button sends a PING to everybody, and whoever    *)
(* hears a PING answers its sender with a PONG.                            *)
(***************************************************************************)
EXTENDS Channel

\* loop(): 't', or the button. PIN_BTN is the only pin of Buttons.begin(), so that
\* btn_state && (1UL << PIN_BTN), which any pin satisfies, is true when it is down.
Ping(n) ==
  /\ POST[n] = "PingPong" /\ Input
  /\ Send(wave, "PING", n, ByLid(n, Broadcast), Packed(PingFields))
  /\ UNCHANGED <<typed, printed, display>>

\* Mutant: the answer is answered.
AnswersAny(p) == p.kind \in {"PING", "PONG"}

\* on_rx_packet() looks at four letters only.
Answers(p) == p.kind = "PING"

\* on_rx_packet(): the answer goes to the sender's long address.
PingPongHear(m, p) ==
  /\ POST[m] = "PingPong"
  /\ IF Answers(p)
     THEN Send(Past(p, m), "PONG", m, {p.from} \cap Listening, Packed(PingFields))
     ELSE wave' = Past(p, m)
  /\ UNCHANGED <<inputs, typed, printed, display>>
=============================================================================
