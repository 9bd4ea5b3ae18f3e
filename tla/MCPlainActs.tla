---------------------------- MODULE MCPlainActs -----------------------------
(***************************************************************************)
(* PlainActs with a channel of two PingPong nodes, two WirelessUart nodes, *)
(* a Parent-MONOSTICK, a sensor, and one that has the id of a parent.      *)
(***************************************************************************)
EXTENDS PlainActs

MCPost ==
  [ ping |-> "PingPong", pong |-> "PingPong", uart |-> "WirelessUart",
    wire |-> "WirelessUart", stick |-> "Parent-MONOSTICK",
    sensor |-> "sensor", board |-> "sensor" ]

MCNodes == DOMAIN MCPost

MCLid == [ping |-> 254, pong |-> 254, uart |-> 1, wire |-> 2, stick |-> 0, sensor |-> 254,
           board |-> 0]

MCData == {<<>>, <<"x">>}
=============================================================================
