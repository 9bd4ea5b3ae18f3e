------------------------------- MODULE Packets ------------------------------
(***************************************************************************)
(* The payloads of the sample acts: four letters, then the fields each act *)
(* packs with pack_bytes(), big end first. A byte is known by the field it *)
(* belongs to and its place in it. PMT1 is in MotCodec.                    *)
(***************************************************************************)
EXTENDS Integers, Sequences

Field(name, bytes) == [name |-> name, bytes |-> bytes]

SwtFields == <<Field("tick_ms", 4), Field("work_ct", 2)>>
PortFields ==
  <<Field("DI", 1), Field("VCC", 2), Field("AI1", 2), Field("AI2", 2), Field("AI3", 2),
    Field("AI4", 2)>>
AmbFields == <<Field("luminance", 4), Field("temp", 2), Field("humid", 2)>>
MagFields == <<Field("north", 1), Field("south", 1)>>
I2cFields == <<Field("temp", 2), Field("humid", 2)>>
AriaFields == MagFields \o I2cFields
MotFields ==
  <<Field("seq", 2), Field("samples", 1),
    Field("x_ave", 2), Field("y_ave", 2), Field("z_ave", 2),
    Field("x_min", 2), Field("y_min", 2), Field("z_min", 2),
    Field("x_max", 2), Field("y_max", 2), Field("z_max", 2)>>
PulseFields == <<Field("seq", 2), Field("count", 2)>>
ScratchFields == <<Field("millis", 4)>>

\* The fields an act packs after its four letters; Scratch and Setting have the same.
Fields ==
  [ TXSP |-> SwtFields, BAT1 |-> PortFields, PAB1 |-> AmbFields, PAB2 |-> AmbFields,
    PAB3 |-> AmbFields, PMG1 |-> MagFields, ARA1 |-> AriaFields, BTH1 |-> I2cFields,
    PMT2 |-> MotFields, PLS1 |-> PulseFields, SCRT |-> ScratchFields ]

ActKinds == DOMAIN Fields

\* What PingPong packs behind PING or PONG.
PingFields == <<Field("A1", 2), Field("VCC", 2), Field("timestamp", 4)>>

\* The bytes of a field.
BytesOf(f) == [b \in 1 .. f.bytes |-> <<f.name, b>>]

\* pack_bytes().
Packed(fields) ==
  LET upTo[i \in 0 .. Len(fields)] ==
        IF i = 0 THEN <<>> ELSE upTo[i - 1] \o BytesOf(fields[i])
  IN  upTo[Len(fields)]

\* Where the values of these widths end in a payload.
Ends(widths) ==
  LET end[i \in 0 .. Len(widths)] == IF i = 0 THEN 0 ELSE end[i - 1] + widths[i]
  IN  end

\* expand_bytes() gives nullptr: the payload is too short for these widths.
TooShort(bytes, widths) == Ends(widths)[Len(widths)] > Len(bytes)

\* The values expand_bytes() takes out of a payload.
Expanded(bytes, widths) ==
  [i \in 1 .. Len(widths) |->
     SubSeq(bytes, Ends(widths)[i - 1] + 1, Ends(widths)[i])]
=============================================================================
