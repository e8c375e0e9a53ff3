------------------------------ MODULE NatLemmas ------------------------------
(***************************************************************************)
(* Induction on natural numbers, for the sets the proofs speak of: the     *)
(* library states it for operators, which no prover here can instantiate.  *)
(***************************************************************************)
EXTENDS Integers, WellFoundedInduction, TLAPS

Smaller == {p \in Nat \X Nat : p[1] < p[2]}

\* The order of the natural numbers is well-founded.
LEMMA SmallerWellFounded == IsWellFoundedOn(Smaller, Nat)
<1>1. Smaller = OpToRel(<, Nat)
  BY DEF Smaller, OpToRel
<1>2. QED
  BY <1>1, NatLessThanWellFounded, Zenon

\* A set of natural numbers with a member has a least one.
LEMMA LeastNumber ==
  ASSUME NEW S \in SUBSET Nat, S # {}
  PROVE  \E n \in S : \A m \in S : n <= m
<1>1. PICK n \in S : \A m \in S : <<m, n>> \notin Smaller
  BY SmallerWellFounded, WFMin
<1>2. ASSUME NEW m \in S PROVE n <= m
  <2>1. <<m, n>>[1] = m /\ <<m, n>>[2] = n /\ <<m, n>> \in Nat \X Nat
    OBVIOUS
  <2>2. ~(m < n)
    BY <1>1, <2>1, Zenon DEF Smaller
  <2>3. QED
    BY <2>2
<1>3. QED
  BY <1>2

\* A set with 0, and with the successor of each of its members, is Nat.
LEMMA NatSetInduction ==
  ASSUME NEW S \in SUBSET Nat, 0 \in S, \A n \in S : n + 1 \in S
  PROVE  S = Nat
<1>1. SUFFICES ASSUME Nat \ S # {} PROVE FALSE
  OBVIOUS
<1>2. PICK n \in Nat \ S : \A m \in Nat \ S : n <= m
  BY <1>1, LeastNumber
<1>3. n - 1 \in Nat /\ n - 1 \in S
  BY <1>2
<1>4. QED
  BY <1>2, <1>3

\* g is defined step by step from v.
Steps(g, v, step, N) == \A j \in 0 .. N : g[j] = IF j = 0 THEN v ELSE step[<<g[j - 1], j>>]

\* There is such a function.
LEMMA Recursion ==
  ASSUME NEW V, NEW v \in V, NEW N \in Nat, NEW step \in [V \X (1 .. N) -> V]
  PROVE  \E g \in [0 .. N -> V] : Steps(g, v, step, N)
<1> USE DEF Steps
<1> DEFINE Good(g, n) == g \in [0 .. N -> V] /\ Steps(g, v, step, n)
           S == {n \in Nat : n <= N => \E g : Good(g, n)}
<1>1. 0 \in S
  <2>1. Good([j \in 0 .. N |-> v], 0)
    OBVIOUS
  <2>2. QED
    BY <2>1
<1>2. ASSUME NEW n \in S PROVE n + 1 \in S
  <2>1. SUFFICES ASSUME n + 1 <= N PROVE \E g : Good(g, n + 1)
    OBVIOUS
  <2>2. PICK g : Good(g, n)
    BY <2>1
  <2> DEFINE h == [g EXCEPT ![n + 1] = step[<<g[n], n + 1>>]]
  <2>3. step[<<g[n], n + 1>>] \in V
    BY <2>1, <2>2
  <2>4. h \in [0 .. N -> V]
    BY <2>2, <2>3
  <2>5. ASSUME NEW j \in 0 .. n + 1
        PROVE  h[j] = IF j = 0 THEN v ELSE step[<<h[j - 1], j>>]
    <3>1. CASE j = n + 1
      <4>1. h[n + 1] = step[<<g[n], n + 1>>] /\ h[n] = g[n]
        BY <2>1, <2>2
      <4>2. j # 0 /\ j - 1 = n
        BY <2>1, <3>1
      <4> HIDE DEF h
      <4>3. h[j] = step[<<g[n], n + 1>>] /\ h[j - 1] = g[n] /\ j = n + 1
        BY <3>1, <4>1, <4>2
      <4>4. QED
        BY <4>2, <4>3, Zenon
    <3>2. CASE j \in 0 .. n
      BY <2>1, <2>2, <3>2
    <3>3. QED
      BY <3>1, <3>2
  <2> HIDE DEF h
  <2>6. QED
    BY <2>4, <2>5
<1>3. S = Nat
  <2> HIDE DEF S
  <2>1. S \in SUBSET Nat
    BY DEF S
  <2>2. QED
    BY <1>1, <1>2, <2>1, NatSetInduction
<1>4. \E g : Good(g, N)
  <2>1. N \in S
    BY <1>3
  <2>2. QED
    BY <2>1
<1>5. QED
  BY <1>4

\* The same on all natural numbers.
AllSteps(g, v, step) ==
  \A n \in Nat : g[n] = IF n = 0 THEN v ELSE step[<<g[n - 1], n>>]

LEMMA NatRecursion ==
  ASSUME NEW V, NEW v \in V, NEW step \in [V \X Nat -> V]
  PROVE  \E g \in [Nat -> V] : AllSteps(g, v, step)
<1> DEFINE Good(g, N) == g \in [0 .. N -> V] /\ Steps(g, v, step, N)
<1>1. ASSUME NEW N \in Nat PROVE \E g : Good(g, N)
  <2> DEFINE s == [x \in V \X (1 .. N) |-> step[x]]
  <2>1. s \in [V \X (1 .. N) -> V]
    OBVIOUS
  <2>2. PICK g \in [0 .. N -> V] : Steps(g, v, s, N)
    <3> HIDE DEF s
    <3>1. QED
      BY <2>1, Recursion, Zenon
  <2>3. ASSUME NEW j \in 0 .. N PROVE g[j] = IF j = 0 THEN v ELSE step[<<g[j - 1], j>>]
    <3>1. g[j] = IF j = 0 THEN v ELSE s[<<g[j - 1], j>>]
      BY <2>2 DEF Steps
    <3>2. j # 0 => <<g[j - 1], j>> \in V \X (1 .. N)
      OBVIOUS
    <3>3. QED
      BY <3>1, <3>2
  <2>4. Good(g, N)
    BY <2>3 DEF Steps
  <2>5. QED
    BY <2>4
<1> DEFINE Upto(N) == CHOOSE g : Good(g, N)
           h == [n \in Nat |-> Upto(n)[n]]
<1>2. ASSUME NEW N \in Nat PROVE Good(Upto(N), N)
  BY <1>1, Zenon
<1> HIDE DEF Upto
<1>0. ASSUME NEW N \in Nat
      PROVE  \A j \in 0 .. N : Upto(N)[j] = IF j = 0 THEN v ELSE step[<<Upto(N)[j - 1], j>>]
  <2>1. Steps(Upto(N), v, step, N)
    BY <1>2
  <2>2. QED
    BY <2>1, Zenon DEF Steps
<1>3. ASSUME NEW N \in Nat
      PROVE  \A j \in 0 .. N : Upto(N)[j] = Upto(N + 1)[j]
  <2> DEFINE S == {j \in Nat : j <= N => Upto(N)[j] = Upto(N + 1)[j]}
  <2>1. N + 1 \in Nat /\ 0 \in 0 .. N /\ 0 \in 0 .. N + 1
    OBVIOUS
  <2>2. 0 \in S
    <3>1. Upto(N)[0] = v
      BY <1>0, <2>1, Zenon
    <3>2. Upto(N + 1)[0] = v
      BY <1>0, <2>1, Zenon
    <3>3. QED
      BY <3>1, <3>2
  <2>3. ASSUME NEW j \in S PROVE j + 1 \in S
    <3>1. SUFFICES ASSUME j + 1 <= N PROVE Upto(N)[j + 1] = Upto(N + 1)[j + 1]
      OBVIOUS
    <3>2. PICK k \in Nat : k = j + 1 /\ k - 1 = j /\ k # 0 /\ k \in 0 .. N /\ k \in 0 .. N + 1
      BY <3>1
    <3>3. Upto(N)[j] = Upto(N + 1)[j]
      BY <3>1
    <3>4. Upto(N)[k] = step[<<Upto(N)[k - 1], k>>]
      BY <1>0, <2>1, <3>2, Zenon
    <3>5. Upto(N + 1)[k] = step[<<Upto(N + 1)[k - 1], k>>]
      BY <1>0, <2>1, <3>2, Zenon
    <3>6. QED
      BY <3>2, <3>3, <3>4, <3>5, Zenon
  <2>4. S = Nat
    <3> HIDE DEF S
    <3>1. S \in SUBSET Nat
      BY DEF S
    <3>2. QED
      BY <2>2, <2>3, <3>1, NatSetInduction
  <2>5. QED
    BY <2>4
<1>4. h \in [Nat -> V]
  <2>1. ASSUME NEW n \in Nat PROVE Upto(n)[n] \in V
    BY <1>2
  <2>2. QED
    BY <2>1
<1>5. ASSUME NEW n \in Nat PROVE h[n] = IF n = 0 THEN v ELSE step[<<h[n - 1], n>>]
  <2>1. Upto(n)[n] = IF n = 0 THEN v ELSE step[<<Upto(n)[n - 1], n>>]
    BY <1>0
  <2>2. CASE n = 0
    BY <2>1, <2>2
  <2>3. CASE n # 0
    <3>1. PICK m \in Nat : m = n - 1 /\ n = m + 1
      BY <2>3
    <3>2. Upto(m)[m] = Upto(m + 1)[m]
      BY <1>3
    <3>3. h[n] = Upto(n)[n] /\ h[m] = Upto(m)[m]
      OBVIOUS
    <3> HIDE DEF h
    <3>4. QED
      BY <2>1, <2>3, <3>1, <3>2, <3>3
  <2>4. QED
    BY <2>2, <2>3
<1> HIDE DEF h
<1>6. QED
  BY <1>4, <1>5 DEF AllSteps

=============================================================================
