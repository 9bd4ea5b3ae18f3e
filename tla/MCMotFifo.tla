----------------------------- MODULE MCMotFifo ------------------------------
(***************************************************************************)
(* MotFifo with numbers of a few bits, and readings on both sides of the   *)
(* places where the encoding cuts and joins.                               *)
(***************************************************************************)
EXTENDS MotFifo

MCReading ==
  [n \in 0 .. T_MOD - 1 |->
     CASE n % 4 = 0 -> [x |-> -4000, y |-> 4000, z |-> -1]
       [] n % 4 = 1 -> [x |-> 4095, y |-> -4096, z |-> 127]
       [] n % 4 = 2 -> [x |-> 0, y |-> -1, z |-> -4096]
       [] n % 4 = 3 -> [x |-> -1, y |-> 1, z |-> 128]]
=============================================================================
