----------------------------- MODULE MCRcvUniv ------------------------------
(***************************************************************************)
(* RcvUniv with packets on both sides of every early return of the parsers *)
(* and payloads that follow each other badly: a full one, one with a       *)
(* failed sensor in the middle, one that gives a key twice, and some that  *)
(* break off in an element.                                                *)
(***************************************************************************)
EXTENDS RcvUniv

Elem(type, ext, value) ==
  [type |-> type, ext |-> ext, value |-> value, ok |-> TRUE, samples |-> <<>>]
Failed(type) == [Elem(type, 0, 0) EXCEPT !.ok = FALSE]
Block(samples) == [Elem("ACCEL", 0, 0) EXCEPT !.samples = samples]

MCPayloads ==
  { <<Elem("ADC", 1, 3), Elem("TEMP", 0, 1), Elem("HUM", 0, 2), Elem("LED", 0, 1)>>,
    <<Elem("HALLIC", 0, 1), Failed("TEMP"), Elem("ADC", 8, 2)>>,
    <<Elem("ADC", 2, 1), Elem("ADC", 2, 2)>>,
    <<Elem("REPLY", 0, 1)>>,
    <<Elem("TEMP", 0, 1), [Failed("ADC") EXCEPT !.ext = Missing]>>,
    <<Elem("ADC", 8, 1), [Failed("ADC") EXCEPT !.ext = 1]>>,
    <<Elem("ADC", 8, 1), [Failed("ADC") EXCEPT !.ext = 2]>>,
    <<Block(<< <<1, 2, -1, 16, -3, 5>> >>), Elem("DIO", 4, 1)>>,
    <<Block(<< <<1, 2, 3, 4, 5, 6>>, <<1, 2, 3, 4, 5, 6>> >>), Elem("ADC", 8, 2)>> }

Layered(nwk, cmd, kind, rest, elems) ==
  [net |-> "LAYERED", nwk |-> nwk, cmd |-> cmd, kind |-> kind, rest |-> rest,
   elems |-> elems]

MCLayered ==
  {Layered(TRUE, "APP_DATA", "T", TRUE, s) : s \in MCPayloads}
  \cup {Layered(TRUE, "APP_DATA", "R", TRUE, <<Elem("ILLUM", 0, 1)>>)}
  \cup {Layered(FALSE, "APP_DATA", "T", TRUE, <<>>), Layered(TRUE, "APP_USER", "T", TRUE, <<>>),
        Layered(TRUE, "APP_DATA", "X", TRUE, <<>>), Layered(TRUE, "APP_DATA", "T", FALSE, <<>>)}

MCSimple == {[net |-> "SIMPLE", fourcc |-> f] : f \in {"PAB1", "short"}}

AppTwelite(cmd, src, dst, ts, low, single) ==
  [net |-> "NONE", cmd |-> cmd, header |-> TRUE, src |-> src, dst |-> dst,
   ts |-> ts, low |-> low, single |-> single, volt |-> 2]

MCNone ==
  {AppTwelite("X81", k, dst, v, low, TRUE) :
     k \in Keys, dst \in {0, 1}, v \in Values, low \in BOOLEAN}
  \cup {AppTwelite("MSG", k, 0, v, FALSE, single) :
          k \in Keys, v \in Values, single \in BOOLEAN}
  \cup {AppTwelite("X80", k, 0, 0, FALSE, TRUE) : k \in Keys}
  \cup {[AppTwelite("X81", k, 0, 0, FALSE, TRUE) EXCEPT !.header = FALSE] : k \in Keys}

MCPackets == MCLayered \cup MCSimple \cup MCNone \cup {[net |-> "other"]}
=============================================================================
