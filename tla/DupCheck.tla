------------------------------ MODULE DupCheck ------------------------------
(***************************************************************************)
(* dup_check<MODE, TIMEOUT_ms, N_ENTRIES> of Rcv_Univsl/dup_checker.hpp,   *)
(* and the clock and the periodic clean-up that drive it (main.cpp).       *)
(*                                                                         *)
(*   _mmap_entries, _vect_pool  mmap: function from the pool indices that  *)
(*                              are linked in the multimap to their node.  *)
(*                              The content of an unlinked node is never   *)
(*                              read, and is left out.                     *)
(*   _ring_vecant_idx           vacant: the free pool indices, a queue     *)
(*   u32TickCount_ms >> 6       tick, modulo the range of an 8 bit stamp   *)
(*   static unsigned t          since: ticks since the last clean-up       *)
(*                                                                         *)
(* One tick is 64 ms: the unit of TS_TOu8.                                 *)
(***************************************************************************)
EXTENDS SeqOrder, Sequences, SequencesExt

CONSTANTS
  Keys,          \* senders
  Values,        \* sequence numbers that are received
  N_ENTRIES,     \* nodes of the pool
  MODE,          \* "SAME": MODE_REJECT_SAME_SEQ, "OLDER": MODE_REJECT_OLDER_SEQ
  TIMEOUT,       \* TIMEOUT_ms >> 6
  TS_MOD,        \* range of _u8_ts: 256
  REFRESH_MIN,   \* ticks between two clean-ups, at least (1024 ms: 16) ...
  REFRESH_MAX,   \* ... and at most, with what the loop may be late
  RX_LAG         \* ticks between the reception of a packet and its check

ASSUME DupAssumption ==
  /\ N_ENTRIES \in Nat \ {0}
  /\ MODE \in {"SAME", "OLDER"}
  /\ Values \subseteq 0 .. 65535
  /\ TIMEOUT \in Nat /\ RX_LAG \in 0 .. TIMEOUT
  /\ REFRESH_MIN \in Nat \ {0} /\ REFRESH_MAX \in Nat
  /\ REFRESH_MIN <= REFRESH_MAX
  /\ TS_MOD \in Nat /\ TIMEOUT + REFRESH_MAX < TS_MOD

VARIABLES
  mmap, vacant, tick, since,
  out,     \* what the last call returned: <<>> or <<verdict, key, value>>
  age      \* history: true age, in ticks, of the packet a node records

dupVars == <<mmap, vacant, out, age>>
vars == <<mmap, vacant, out, age, tick, since>>

Idx == 0 .. N_ENTRIES - 1

Node == [key: Keys, value: Values, ts: 0 .. TS_MOD - 1]

----------------------------------------------------------------------------
\* Time stamps.

\* Mutant: the stamp is not cut to its width.
WideStamp(lag) == tick - lag

\* The stamp of a packet received lag ticks ago.
Stamp(lag) == (tick - lag) % TS_MOD

\* TS_DIFF(now, past), in ticks.
TSDiff(past) == (tick - past) % TS_MOD

----------------------------------------------------------------------------
\* The containers.

EqualRange(k) == {i \in DOMAIN mmap : mmap[i].key = k}

\* f with x at i, i in its domain or not.
With(f, i, x) == [j \in DOMAIN f \cup {i} |-> IF j = i THEN x ELSE f[j]]

\* f without the arguments in S.
Without(f, S) == [j \in DOMAIN f \ S |-> f[j]]

\* Mutant: the index stays in the ring.
InsertEntryKeepsIndex(k, v, lag) ==
  /\ vacant # <<>>
  /\ mmap' = With(mmap, Head(vacant), [key |-> k, value |-> v, ts |-> Stamp(lag)])
  /\ age' = With(age, Head(vacant), lag)
  /\ UNCHANGED vacant

\* _insert_entry with a vacant index.
InsertEntry(k, v, lag) ==
  /\ vacant # <<>>
  /\ mmap' = With(mmap, Head(vacant), [key |-> k, value |-> v, ts |-> Stamp(lag)])
  /\ age' = With(age, Head(vacant), lag)
  /\ vacant' = Tail(vacant)

\* Mutant: the indices of the deleted nodes are not put back.
DeleteEntriesLeaks(S) ==
  /\ mmap' = Without(mmap, S)
  /\ age' = Without(age, S)
  /\ UNCHANGED vacant

\* _delete_entry of every node of S, in the order the multimap has them.
DeleteEntries(S) ==
  /\ mmap' = Without(mmap, S)
  /\ age' = Without(age, S)
  /\ \E order \in SetToSeqs(S) : vacant' = vacant \o order

----------------------------------------------------------------------------
\* bool check_dup(u32ser, u16val, u32_timestamp): one disjunct per return.

Refuse(k, v) == out' = <<"refuse", k, v>>
Accept(k, v) == out' = <<"accept", k, v>>

\* MODE1: an entry of the sender has the same value.
SameValue(k, v) ==
  /\ MODE = "SAME"
  /\ \E i \in EqualRange(k) : mmap[i].value = v
  /\ Refuse(k, v)
  /\ UNCHANGED <<mmap, vacant, age>>

\* Mutant: a refused packet renews the entry it is refused for.
KnownSenderRenewed(k, v, lag) ==
  /\ MODE = "OLDER"
  /\ \E p \in EqualRange(k) :
       /\ mmap' = With(mmap, p, [key |-> k, value |-> IF Newer(v, mmap[p].value)
                                                    THEN v ELSE mmap[p].value,
                                 ts |-> Stamp(lag)])
       /\ age' = With(age, p, lag)
       /\ IF Newer(v, mmap[p].value) THEN Accept(k, v) ELSE Refuse(k, v)
       /\ UNCHANGED vacant

\* MODE2: the sender has an entry p. It is updated by a newer value and by
\* nothing else; nodes of the same key behind it are deleted.
KnownSender(k, v, lag) ==
  /\ MODE = "OLDER"
  /\ \E p \in EqualRange(k) :
       LET rest == EqualRange(k) \ {p}
       IN  /\ \/ /\ Newer(v, mmap[p].value)
                 /\ mmap' = Without(With(mmap, p, [key |-> k, value |-> v,
                                                   ts |-> Stamp(lag)]), rest)
                 /\ age' = Without(With(age, p, lag), rest)
                 /\ Accept(k, v)
              \/ /\ ~ Newer(v, mmap[p].value)
                 /\ mmap' = Without(mmap, rest)
                 /\ age' = Without(age, rest)
                 /\ Refuse(k, v)
           /\ \E order \in SetToSeqs(rest) : vacant' = vacant \o order

\* Mutant: the entries of the sender are not looked at.
AlwaysNotFound(k, v) == k \in Keys /\ v \in Values

\* Neither mode returned before the insertion.
NotFound(k, v) ==
  CASE MODE = "SAME"  -> \A i \in EqualRange(k) : mmap[i].value # v
    [] MODE = "OLDER" -> EqualRange(k) = {}

NewEntry(k, v, lag) ==
  /\ NotFound(k, v)
  /\ InsertEntry(k, v, lag)
  /\ Accept(k, v)

\* Mutant: without a vacant index the packet is let through.
PoolExhaustedAccepts(k, v) ==
  /\ NotFound(k, v)
  /\ vacant = <<>>
  /\ Accept(k, v)
  /\ UNCHANGED <<mmap, vacant, age>>

\* No vacant index: treated as duplicated.
PoolExhausted(k, v) ==
  /\ NotFound(k, v)
  /\ vacant = <<>>
  /\ Refuse(k, v)
  /\ UNCHANGED <<mmap, vacant, age>>

CheckDup(k, v, lag) ==
  \/ SameValue(k, v)
  \/ KnownSender(k, v, lag)
  \/ NewEntry(k, v, lag)
  \/ PoolExhausted(k, v)

----------------------------------------------------------------------------
\* void clean_by_timeout(u32now)

\* Mutant: the difference is not cut to 8 bits.
ExpiredWithoutWrap == {i \in DOMAIN mmap : tick - mmap[i].ts > TIMEOUT}

Expired == {i \in DOMAIN mmap : TSDiff(mmap[i].ts) > TIMEOUT}

CleanByTimeout == DeleteEntries(Expired) /\ out' = <<>>

----------------------------------------------------------------------------
\* The event loop. A refresh is due after 0x400 TickTimer events.

TimeStep ==
  /\ since < REFRESH_MAX
  /\ since' = since + 1
  /\ tick' = (tick + 1) % TS_MOD
  /\ age' = [i \in DOMAIN age |-> age[i] + 1]
  /\ out' = <<>>
  /\ UNCHANGED <<mmap, vacant>>

Refresh ==
  /\ since >= REFRESH_MIN
  /\ since' = 0
  /\ CleanByTimeout
  /\ UNCHANGED tick

Receive ==
  /\ \E k \in Keys, v \in Values, lag \in 0 .. RX_LAG : CheckDup(k, v, lag)
  /\ UNCHANGED <<tick, since>>

\* The constructor: no entry is linked, every index is vacant.
Init ==
  /\ mmap = <<>>
  /\ age = <<>>
  /\ vacant = [n \in 1 .. N_ENTRIES |-> n - 1]
  /\ tick \in 0 .. TS_MOD - 1
  /\ since = 0
  /\ out = <<>>

Next == Receive \/ TimeStep \/ Refresh

\* Time passes, and the loop that counts it keeps running.
Spec == Init /\ [][Next]_vars /\ WF_vars(TimeStep) /\ WF_vars(Refresh)

----------------------------------------------------------------------------
\* Properties.

Verdict == {<<>>} \cup ({"accept", "refuse"} \X Keys \X Values)

\* The type of the checker's state (dup_checker.hpp, the members of dup_check).
TypeOK ==
  /\ DOMAIN mmap \subseteq Idx
  /\ mmap \in [DOMAIN mmap -> Node]
  /\ age \in [DOMAIN mmap -> Nat]
  /\ vacant \in Seq(Idx)
  /\ tick \in 0 .. TS_MOD - 1
  /\ since \in 0 .. REFRESH_MAX
  /\ out \in Verdict

\* The free indices and the used ones split the pool, none of them free twice.
Partition(free, used) ==
  /\ \A m, n \in DOMAIN free : m # n => free[m] # free[n]
  /\ ToSet(free) \cap used = {}
  /\ ToSet(free) \cup used = Idx

\* No index is leaked, none is free twice, and none is free and linked at once:
\* _insert_entry never links a node that is in the multimap already, however
\* inserts, updates and clean-ups interleave.
PoolPartition == Partition(vacant, DOMAIN mmap)

\* Two nodes never record the same thing: the same packet in MODE1, the same
\* sender in MODE2 ("same id shall not be registered"), so that the check
\* which stops at the first node of a range misses nothing.
NoTwins ==
  \A i, j \in DOMAIN mmap :
    i # j => \/ mmap[i].key # mmap[j].key
             \/ MODE = "SAME" /\ mmap[i].value # mmap[j].value

\* The 8 bit stamp never aliases: the age clean_by_timeout computes from it is
\* the true age of the entry, and no entry lives longer than the time-out plus
\* the time since the last clean-up.
StampsExact ==
  \A i \in DOMAIN mmap :
    /\ TSDiff(mmap[i].ts) = age[i]
    /\ age[i] <= TIMEOUT + since

\* The table the linked nodes stand for.
Table == [i \in DOMAIN mmap |->
            [key |-> mmap[i].key, value |-> mmap[i].value, age |-> age[i]]]

Filter == INSTANCE DupFilter WITH
  Slots <- Idx, MAX_AGE <- TIMEOUT + REFRESH_MAX, table <- Table

\* The index pool, the multimap and the 8 bit stamps behave like a plain table
\* with true ages: check_dup refuses only what an entry speaks against or what
\* finds no room, a refused packet never renews an entry, and clean_by_timeout
\* drops the entries older than the time-out and no others.
ImplementsFilter == Filter!Spec

\* In MODE1 a full pool does not stay full: every entry is dropped in the end,
\* since no call renews one. (MODE2 renews entries, and may refuse a sixteenth
\* sender for ever.)
PoolFreed == vacant = <<>> ~> vacant # <<>>

\* The bound on the age that the induction for StampsExact needs is in
\* StampsExact itself; PoolPartition and NoTwins are each inductive with TypeOK.
IInv == TypeOK /\ PoolPartition /\ NoTwins /\ StampsExact
=============================================================================
