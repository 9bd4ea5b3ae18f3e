------------------------------ MODULE Induction -----------------------------
(***************************************************************************)
(* Induction on the natural numbers and what follows from it, with sets    *)
(* and functions in the place of predicates and operators: the shape in    *)
(* which the provers can use a lemma for a property of their own.          *)
(***************************************************************************)
EXTENDS Integers, FiniteSetsExt, WellFoundedInduction, TLAPS

\* A set of natural numbers has a least member.
LEMMA NatLeast ==
  ASSUME NEW S \in SUBSET Nat, S # {}
  PROVE  \E m \in S : \A n \in S : m <= n
<1>1. PICK m \in S : \A n \in S : ~ (<<n, m>> \in OpToRel(<, Nat))
  <2>1. IsWellFoundedOn(OpToRel(<, Nat), Nat)
    BY NatLessThanWellFounded
  <2>2. \E m \in S : \A n \in S : ~ (<<n, m>> \in OpToRel(<, Nat))
    BY <2>1, WFMin, Zenon
  <2> QED
    BY <2>2
<1>2. \A n \in S : n < m => <<n, m>> \in OpToRel(<, Nat)
  <2>1. \A n \in S : <<n, m>> \in Nat \X Nat
    OBVIOUS
  <2> QED
    BY <2>1 DEF OpToRel
<1>3. \A n \in S : ~ (n < m)
  BY <1>1, <1>2
<1> QED
  BY <1>3

\* What holds of 0, and of each number up to N if of the one before, holds of all.
LEMMA UpTo ==
  ASSUME NEW N \in Nat, NEW S,
         0 \in S,
         \A n \in 1 .. N : n - 1 \in S => n \in S
  PROVE  0 .. N \subseteq S
<1> SUFFICES ASSUME (0 .. N) \ S # {} PROVE FALSE
  OBVIOUS
<1>1. PICK m \in (0 .. N) \ S : \A n \in (0 .. N) \ S : m <= n
  <2>1. (0 .. N) \ S \in SUBSET Nat
    OBVIOUS
  <2> QED
    BY <2>1, NatLeast
<1>2. m \in 1 .. N /\ m - 1 \in 0 .. N /\ ~ (m <= m - 1)
  BY <1>1
<1> QED
  BY <1>1, <1>2

\* Min is what its name says.
LEMMA MinIsLeast ==
  ASSUME NEW S \in SUBSET Nat, S # {}
  PROVE  Min(S) \in S /\ \A n \in S : Min(S) <= n
BY NatLeast DEF Min

\* And so is Max, of a bounded set.
LEMMA MaxIsGreatest ==
  ASSUME NEW N \in Nat, NEW S \in SUBSET (0 .. N), S # {}
  PROVE  Max(S) \in S /\ \A n \in S : n <= Max(S)
<1> DEFINE down == {N - n : n \in S}
<1>1. down \in SUBSET Nat /\ down # {}
  <2>1. \A n \in S : N - n \in Nat
    OBVIOUS
  <2>2. \A n \in S : N - n \in down
    OBVIOUS
  <2> QED
    BY <2>1, <2>2
<1>2. PICK d \in down : \A n \in down : d <= n
  BY <1>1, NatLeast
<1>3. PICK m \in S : d = N - m
  OBVIOUS
<1>4. \A n \in S : m >= n
  <2>1. \A n \in S : d <= N - n
    BY <1>2
  <2> QED
    BY <1>3, <2>1
<1>5. Max(S) \in S /\ \A n \in S : Max(S) >= n
  BY <1>4 DEF Max
<1> QED
  BY <1>5

\* f starts with a and goes on by the steps up to N.
Steps(f, N, a, step) ==
  \A n \in 0 .. N : f[n] = IF n = 0 THEN a ELSE step[n][f[n - 1]]

\* A recursive definition along the numbers up to N, given its steps as functions,
\* is satisfied by a function.
LEMMA RecursionExists ==
  ASSUME NEW N \in Nat, NEW A, NEW a \in A, NEW step \in [1 .. N -> [A -> A]]
  PROVE  \E f \in [0 .. N -> A] : Steps(f, N, a, step)
<1> DEFINE Eq(f, k) == Steps(f, k, a, step)
           S == {k \in 0 .. N : \E f \in [0 .. k -> A] : Eq(f, k)}
<1>1. 0 \in S
  <2>1. 0 \in 0 .. N
    OBVIOUS
  <2>2. [n \in 0 .. 0 |-> a] \in [0 .. 0 -> A] /\ Eq([n \in 0 .. 0 |-> a], 0)
    BY DEF Steps
  <2> HIDE DEF Eq
  <2> QED
    BY <2>1, <2>2
<1>2. ASSUME NEW k \in 1 .. N, k - 1 \in S
      PROVE  k \in S
  <2>1. PICK f \in [0 .. k - 1 -> A] : Eq(f, k - 1)
    BY <1>2
  <2> DEFINE g == [n \in 0 .. k |-> IF n = k THEN step[k][f[k - 1]] ELSE f[n]]
  <2>2. f[k - 1] \in A /\ step[k][f[k - 1]] \in A
    OBVIOUS
  <2>3. g \in [0 .. k -> A]
    BY <2>2
  <2>4. \A n \in 0 .. k - 1 : g[n] = f[n]
    OBVIOUS
  <2>5. \A n \in 0 .. k - 1 : g[n] = IF n = 0 THEN a ELSE step[n][g[n - 1]]
    <3> HIDE DEF g
    <3> QED
      BY <2>1, <2>4 DEF Steps
  <2>6. g[k] = step[k][g[k - 1]]
    OBVIOUS
  <2>7. Eq(g, k)
    <3> HIDE DEF g
    <3> QED
      BY <2>5, <2>6 DEF Steps
  <2>8. k \in 0 .. N
    OBVIOUS
  <2> HIDE DEF Eq, g
  <2> QED
    BY <2>3, <2>7, <2>8
<1>3. N \in S
  <2> HIDE DEF S
  <2>1. 0 .. N \subseteq S
    BY <1>1, <1>2, UpTo
  <2> QED
    BY <2>1
<1>4. PICK f \in [0 .. N -> A] : Eq(f, N)
  BY <1>3
<1> QED
  BY <1>4
=============================================================================
