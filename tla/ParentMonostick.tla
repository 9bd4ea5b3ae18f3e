--------------------------- MODULE ParentMonostick --------------------------
(***************************************************************************)
(* Parent-MONOSTICK: shows the packets of the sensor acts it knows.        *)
(* analyze_payload() expands what it knows by the widths it expects.       *)
(***************************************************************************)
EXTENDS Channel

\* Mutant: temperature and humidity in four bytes each.
WidthsWide ==
  [ TXSP |-> <<4, 2>>, BAT1 |-> <<1, 2, 2, 2, 2, 2>>,
    PAB1 |-> <<4, 4, 4>>, PAB2 |-> <<4, 4, 4>>, PMG1 |-> <<1, 1>> ]

\* The kinds that are analyzed, and the widths of their values.
Widths ==
  [ TXSP |-> <<4, 2>>, BAT1 |-> <<1, 2, 2, 2, 2, 2>>,
    PAB1 |-> <<4, 2, 2>>, PAB2 |-> <<4, 2, 2>>, PMG1 |-> <<1, 1>> ]

Display(kind, how, values) == [kind |-> kind, how |-> how, values |-> values]

\* "..not analyzed..", ".. error .." or the values.
AnalyzePayload(p) ==
  IF p.kind \notin DOMAIN Widths THEN Display(p.kind, "not analyzed", <<>>)
  ELSE IF TooShort(p.body, Widths[p.kind]) THEN Display(p.kind, "error", <<>>)
  ELSE Display(p.kind, "values", Expanded(p.body, Widths[p.kind]))

ParentHear(m, p) ==
  /\ POST[m] = "Parent-MONOSTICK"
  /\ wave' = Past(p, m)
  /\ display' = AnalyzePayload(p)
  /\ UNCHANGED <<inputs, typed, printed>>
=============================================================================
