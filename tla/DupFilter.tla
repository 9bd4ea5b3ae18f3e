------------------------------ MODULE DupFilter -----------------------------
(***************************************************************************)
(* What the duplicate checker of Rcv_Univsl promises, without the index    *)
(* ring, the multimap and the 8 bit time stamps that implement it: a table *)
(* of at most |Slots| entries, each with its true age, and a verdict per   *)
(* packet.                                                                 *)
(*   - a packet is refused only when the table holds an entry against it,  *)
(*     or when the table has no room for it;                               *)
(*   - an accepted packet is in the table, with the age of its reception;  *)
(*   - an entry is dropped only when it is older than TIMEOUT, and none    *)
(*     gets older than MAX_AGE.                                            *)
(***************************************************************************)
EXTENDS SeqOrder

CONSTANTS
  Keys,      \* senders: 32 bit serial numbers
  Values,    \* sequence numbers
  Slots,     \* the entries of the table
  MODE,      \* "SAME" or "OLDER"
  TIMEOUT,   \* ticks an entry is kept for certain
  MAX_AGE,   \* ticks after which no entry is left
  RX_LAG     \* ticks a packet may have waited since its reception

VARIABLES
  table,     \* function from the slots in use to [key, value, age]
  out        \* the last verdict: <<>> or <<verdict, key, value>>

vars == <<table, out>>

Entry == [key: Keys, value: Values, age: Nat]

Known(k) == \E i \in DOMAIN table : table[i].key = k

\* An entry speaks against the packet (k, v).
Against(k, v) ==
  \E i \in DOMAIN table :
    /\ table[i].key = k
    /\ \/ MODE = "SAME"  /\ table[i].value = v
       \/ MODE = "OLDER" /\ ~ Newer(v, table[i].value)

Room(k) == DOMAIN table # Slots \/ (MODE = "OLDER" /\ Known(k))

\* The slots the packet of sender k may be recorded in.
SlotsFor(k) ==
  IF MODE = "OLDER" /\ Known(k)
  THEN {i \in DOMAIN table : table[i].key = k}
  ELSE Slots \ DOMAIN table

Init == table = <<>> /\ out = <<>>

Accept(k, v, lag) ==
  /\ out' = <<"accept", k, v>>
  /\ ~ Against(k, v)
  /\ \E i \in SlotsFor(k) :
       table' = [j \in DOMAIN table \cup {i} |->
                   IF j = i THEN [key |-> k, value |-> v, age |-> lag]
                            ELSE table[j]]

Refuse(k, v) ==
  /\ out' = <<"refuse", k, v>>
  /\ Against(k, v) \/ ~ Room(k)
  /\ UNCHANGED table

Elapse ==
  /\ out' = <<>>
  /\ \A i \in DOMAIN table : table[i].age < MAX_AGE
  /\ table' = [i \in DOMAIN table |->
                 [table[i] EXCEPT !.age = table[i].age + 1]]

Expire ==
  /\ out' = <<>>
  /\ table' = [i \in {j \in DOMAIN table : table[j].age <= TIMEOUT} |-> table[i]]

Next ==
  \/ \E k \in Keys, v \in Values, lag \in 0 .. RX_LAG : Accept(k, v, lag)
  \/ \E k \in Keys, v \in Values : Refuse(k, v)
  \/ Elapse
  \/ Expire

Spec == Init /\ [][Next]_vars
=============================================================================
