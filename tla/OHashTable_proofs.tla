-------------------------- MODULE OHashTable_proofs --------------------------
(***************************************************************************)
(* Proofs about the bare table: its inductive invariant TableInv, and the  *)
(* properties of OHashTable that follow from it, for every set of keys,    *)
(* every hash function, and every capacity.                                *)
(***************************************************************************)
EXTENDS OHashTable, NatLemmas, FiniteSetTheorems, TLAPS

-----------------------------------------------------------------------------
(* Probing.                                                                *)

\* The home slot of a hash, `hash & (cap - 1)`, is a slot.
LEMMA HomeIsSlot ==
  ASSUME NEW h \in Nat, NEW c \in Nat \ {0}
  PROVE  h % c \in 0 .. c - 1
  OBVIOUS

\* So is every slot that `idx = (idx + 1) & (cap - 1)` reaches from it.
LEMMA AtIsSlot ==
  ASSUME NEW h \in Nat, NEW c \in Nat \ {0}, NEW n \in 0 .. c - 1
  PROVE  At(h, n, c) \in 0 .. c - 1
  BY HomeIsSlot DEF At

\* A probe of cap steps visits every slot.
LEMMA ProbeCovers ==
  ASSUME NEW h \in Nat, NEW c \in Nat \ {0}, NEW j \in 0 .. c - 1
  PROVE  \E n \in 0 .. c - 1 : At(h, n, c) = j
<1>1. h % c \in 0 .. c - 1
  BY HomeIsSlot
<1>2. CASE h % c <= j
  <2>1. At(h, j - (h % c), c) = j
    BY <1>1, <1>2 DEF At
  <2>2. QED
    BY <2>1, <1>1, <1>2
<1>3. CASE j < h % c
  <2>1. At(h, j + c - (h % c), c) = j
    BY <1>1, <1>3 DEF At
  <2>2. QED
    BY <2>1, <1>1, <1>3
<1>4. QED
  BY <1>1, <1>2, <1>3

-----------------------------------------------------------------------------
(* Words: what initohash's shifts, and the masks, do to their bits.       *)

Doubling(g) == g = [n \in Nat |-> IF n = 0 THEN 1 ELSE 2 * g[n - 1]]

\* 1 is a power of two, and twice each of them.
LEMMA PowersDouble ==
  /\ Pow2 \in [Nat -> Nat]
  /\ Pow2[0] = 1
  /\ \A n \in Nat : Pow2[n + 1] = 2 * Pow2[n]
<1> DEFINE step == [p \in Nat \X Nat |-> 2 * p[1]]
<1>1. \E g \in [Nat -> Nat] : Doubling(g)
  <2>1. step \in [Nat \X Nat -> Nat] /\ \A m, n \in Nat : step[<<m, n>>] = 2 * m
    OBVIOUS
  <2>2. 1 \in Nat
    OBVIOUS
  <2> HIDE DEF step
  <2>3. PICK g \in [Nat -> Nat] : AllSteps(g, 1, step)
    <3>1. step \in [Nat \X Nat -> Nat]
      BY <2>1
    <3>2. QED
      BY <2>2, <3>1, NatRecursion, Zenon
  <2>4. ASSUME NEW n \in Nat PROVE g[n] = IF n = 0 THEN 1 ELSE 2 * g[n - 1]
    <3>1. CASE n = 0
      BY <2>3, <3>1 DEF AllSteps
    <3>2. CASE n # 0
      <4>1. n - 1 \in Nat /\ g[n - 1] \in Nat
        BY <3>2
      <4>2. QED
        BY <2>1, <2>3, <3>2, <4>1 DEF AllSteps
    <3>3. QED
      BY <3>1, <3>2
  <2>5. QED
    BY <2>4 DEF Doubling
<1>2. Pow2 = [n \in Nat |-> IF n = 0 THEN 1 ELSE 2 * Pow2[n - 1]]
  <2>1. Pow2 = CHOOSE d : Doubling(d)
    BY DEF Pow2, Doubling
  <2>2. Doubling(Pow2)
    BY <1>1, <2>1, Zenon
  <2>3. QED
    BY <2>2 DEF Doubling
<1>3. DOMAIN Pow2 = Nat /\ \A n \in Nat : Pow2[n] = IF n = 0 THEN 1 ELSE 2 * Pow2[n - 1]
  BY <1>2, Zenon
<1>4. Pow2[0] = 1
  BY <1>3
<1>5. ASSUME NEW n \in Nat PROVE Pow2[n + 1] = 2 * Pow2[n]
  <2>1. n + 1 \in Nat /\ n + 1 # 0 /\ (n + 1) - 1 = n
    OBVIOUS
  <2>2. QED
    BY <1>3, <2>1, Zenon
<1>6. \A n \in Nat : Pow2[n] \in Nat
  <2> DEFINE S == {n \in Nat : Pow2[n] \in Nat}
  <2>1. 0 \in S
    BY <1>4
  <2>2. ASSUME NEW n \in S PROVE n + 1 \in S
    BY <1>5
  <2>3. S = Nat
    <3> HIDE DEF S
    <3>1. S \in SUBSET Nat
      BY DEF S
    <3>2. QED
      BY <2>1, <2>2, <3>1, NatSetInduction
  <2>4. QED
    BY <2>3
<1>7. Pow2 \in [Nat -> Nat]
  BY <1>2, <1>3, <1>6
<1>8. QED
  BY <1>4, <1>5, <1>7


\* Halving again and again, and adding up the bits.
Halving(g, x) == g = [n \in Nat |-> IF n = 0 THEN x ELSE g[n - 1] \div 2]
Adding(g, B)  == g = [n \in Nat |-> IF n = 0 THEN 0
                   ELSE g[n - 1] + (IF n - 1 \in B THEN Pow2[n - 1] ELSE 0)]

\* Shifting right by one more halves.
LEMMA ShiftsAre ==
  ASSUME NEW x \in Nat
  PROVE  /\ Shifts(x) \in [Nat -> Nat] /\ Shifts(x)[0] = x
         /\ \A n \in Nat : Shifts(x)[n + 1] = Shifts(x)[n] \div 2
<1> DEFINE step == [p \in Nat \X Nat |-> p[1] \div 2]
<1>1. PICK g \in [Nat -> Nat] : Halving(g, x)
  <2>1. step \in [Nat \X Nat -> Nat] /\ \A m, n \in Nat : step[<<m, n>>] = m \div 2
    OBVIOUS
  <2> HIDE DEF step
  <2>2. PICK g \in [Nat -> Nat] : AllSteps(g, x, step)
    BY <2>1, NatRecursion, Zenon
  <2>3. ASSUME NEW n \in Nat PROVE g[n] = IF n = 0 THEN x ELSE g[n - 1] \div 2
    <3>1. g[n] = IF n = 0 THEN x ELSE step[<<g[n - 1], n>>]
      BY <2>2, Zenon DEF AllSteps
    <3>2. n # 0 => g[n - 1] \in Nat
      OBVIOUS
    <3>3. QED
      BY <2>1, <3>1, <3>2
  <2>4. QED
    BY <2>3 DEF Halving
<1>2. Halving(Shifts(x), x)
  <2>1. Shifts(x) = CHOOSE d : Halving(d, x)
    BY DEF Shifts, Halving
  <2>2. QED
    BY <1>1, <2>1, Zenon
<1> DEFINE f == Shifts(x)
<1>3. DOMAIN f = Nat /\ f = [n \in DOMAIN f |-> f[n]]
      /\ \A n \in Nat : f[n] = IF n = 0 THEN x ELSE f[n - 1] \div 2
  BY <1>2 DEF Halving
<1> HIDE DEF f
<1>4. f[0] = x
  BY <1>3
<1>5. ASSUME NEW n \in Nat PROVE f[n + 1] = f[n] \div 2
  <2>1. n + 1 \in Nat /\ n + 1 # 0 /\ (n + 1) - 1 = n
    OBVIOUS
  <2>2. QED
    BY <1>3, <2>1, Zenon
<1>6. \A n \in Nat : f[n] \in Nat
  <2> DEFINE S == {n \in Nat : f[n] \in Nat}
  <2>1. 0 \in S
    BY <1>4
  <2>2. ASSUME NEW n \in S PROVE n + 1 \in S
    BY <1>5
  <2>3. S = Nat
    <3> HIDE DEF S
    <3>1. S \in SUBSET Nat
      BY DEF S
    <3>2. QED
      BY <2>1, <2>2, <3>1, NatSetInduction
  <2>4. QED
    BY <2>3
<1>7. QED
  BY <1>3, <1>4, <1>5, <1>6 DEF f

\* What bit n adds.
Weight(B, n) == IF n \in B THEN Pow2[n] ELSE 0

\* It is no more than 2^n.
LEMMA WeightIs ==
  ASSUME NEW B, NEW n \in Nat
  PROVE  Weight(B, n) \in Nat /\ Pow2[n] \in Nat /\ Weight(B, n) <= Pow2[n]
  BY PowersDouble DEF Weight

\* One more bit adds its weight.
LEMMA SumsAre ==
  ASSUME NEW B
  PROVE  /\ Sums(B) \in [Nat -> Nat] /\ Sums(B)[0] = 0
         /\ \A n \in Nat : Sums(B)[n + 1] = Sums(B)[n] + Weight(B, n)
<1> DEFINE step == [p \in Nat \X Nat |-> p[1] + (IF p[2] = 0 THEN 0 ELSE Weight(B, p[2] - 1))]
<1>1. PICK g \in [Nat -> Nat] : Adding(g, B)
  <2>1. step \in [Nat \X Nat -> Nat]
    <3>1. ASSUME NEW p \in Nat \X Nat PROVE step[p] \in Nat
      <4>1. p[1] \in Nat /\ p[2] \in Nat
        OBVIOUS
      <4>2. CASE p[2] = 0
        BY <4>1, <4>2
      <4>3. CASE p[2] # 0
        <5>1. Weight(B, p[2] - 1) \in Nat
          BY <4>1, <4>3, WeightIs
        <5>2. QED
          BY <4>1, <4>3, <5>1
      <4>4. QED
        BY <4>2, <4>3
    <3>2. QED
      BY <3>1
  <2>2. \A m, n \in Nat : n # 0 => step[<<m, n>>] = m + Weight(B, n - 1)
    OBVIOUS
  <2> HIDE DEF step
  <2>3. PICK g \in [Nat -> Nat] : AllSteps(g, 0, step)
    <3>1. 0 \in Nat
      OBVIOUS
    <3>2. QED
      BY <2>1, <3>1, NatRecursion, Zenon
  <2>4. ASSUME NEW n \in Nat
        PROVE  g[n] = IF n = 0 THEN 0 ELSE g[n - 1] + (IF n - 1 \in B THEN Pow2[n - 1] ELSE 0)
    <3>1. g[n] = IF n = 0 THEN 0 ELSE step[<<g[n - 1], n>>]
      BY <2>3, Zenon DEF AllSteps
    <3>2. n # 0 => g[n - 1] \in Nat
      OBVIOUS
    <3>3. QED
      BY <2>2, <3>1, <3>2 DEF Weight
  <2>5. QED
    BY <2>4 DEF Adding
<1>2. Adding(Sums(B), B)
  <2>1. Sums(B) = CHOOSE d : Adding(d, B)
    BY DEF Sums, Adding
  <2>2. QED
    BY <1>1, <2>1, Zenon
<1> DEFINE f == Sums(B)
<1>3. DOMAIN f = Nat /\ f = [n \in DOMAIN f |-> f[n]]
      /\ \A n \in Nat : f[n] = IF n = 0 THEN 0 ELSE f[n - 1] + Weight(B, n - 1)
  BY <1>2 DEF Adding, Weight
<1> HIDE DEF f
<1>4. f[0] = 0
  BY <1>3
<1>5. ASSUME NEW n \in Nat PROVE f[n + 1] = f[n] + Weight(B, n)
  <2>1. n + 1 \in Nat /\ n + 1 # 0 /\ (n + 1) - 1 = n
    OBVIOUS
  <2>2. QED
    BY <1>3, <2>1, Zenon
<1>6. \A n \in Nat : f[n] \in Nat
  <2> DEFINE S == {n \in Nat : f[n] \in Nat}
  <2>1. 0 \in S
    BY <1>4
  <2>2. ASSUME NEW n \in S PROVE n + 1 \in S
    BY <1>5, WeightIs
  <2>3. S = Nat
    <3> HIDE DEF S
    <3>1. S \in SUBSET Nat
      BY DEF S
    <3>2. QED
      BY <2>1, <2>2, <3>1, NatSetInduction
  <2>4. QED
    BY <2>3
<1>7. QED
  BY <1>3, <1>4, <1>5, <1>6 DEF f

\* The bits below n make less than 2^n.
LEMMA SumsBound ==
  ASSUME NEW B, NEW n \in Nat
  PROVE  Sums(B)[n] \in Nat /\ Pow2[n] \in Nat /\ Sums(B)[n] < Pow2[n]
<1> DEFINE S == {m \in Nat : Sums(B)[m] < Pow2[m]}
<1>1. 0 \in S
  BY SumsAre, PowersDouble
<1>2. ASSUME NEW m \in S PROVE m + 1 \in S
  <2>1. /\ Sums(B)[m] \in Nat /\ Sums(B)[m + 1] = Sums(B)[m] + Weight(B, m)
        /\ Pow2[m + 1] = 2 * Pow2[m]
    BY SumsAre, PowersDouble
  <2>2. Weight(B, m) \in Nat /\ Pow2[m] \in Nat /\ Weight(B, m) <= Pow2[m]
    BY WeightIs
  <2>3. QED
    BY <2>1, <2>2
<1>3. S = Nat
  <2> HIDE DEF S
  <2>1. S \in SUBSET Nat
    BY DEF S
  <2>2. QED
    BY <1>1, <1>2, <2>1, NatSetInduction
<1>4. QED
  BY <1>3, SumsAre, PowersDouble

\* Only the bits below n count for what they make.
LEMMA SumsAgree ==
  ASSUME NEW B, NEW C, NEW n \in Nat, \A b \in 0 .. n - 1 : b \in B <=> b \in C
  PROVE  Sums(B)[n] = Sums(C)[n]
<1> DEFINE S == {m \in Nat : m <= n => Sums(B)[m] = Sums(C)[m]}
<1>1. 0 \in S
  BY SumsAre
<1>2. ASSUME NEW m \in S PROVE m + 1 \in S
  <2>1. SUFFICES ASSUME m + 1 <= n PROVE Sums(B)[m + 1] = Sums(C)[m + 1]
    OBVIOUS
  <2>2. Sums(B)[m] = Sums(C)[m] /\ (m \in B <=> m \in C)
    BY <2>1
  <2>3. Weight(B, m) = Weight(C, m)
    BY <2>2 DEF Weight
  <2>4. QED
    BY <2>2, <2>3, SumsAre
<1>3. S = Nat
  <2> HIDE DEF S
  <2>1. S \in SUBSET Nat
    BY DEF S
  <2>2. QED
    BY <1>1, <1>2, <2>1, NatSetInduction
<1>4. QED
  BY <1>3

\* Where there are no more bits, nothing is added.
LEMMA SumsStay ==
  ASSUME NEW B, NEW n \in Nat, NEW w \in Nat, \A b \in Nat : b \in B => b < n, n <= w
  PROVE  Sums(B)[w] = Sums(B)[n]
<1> DEFINE S == {m \in Nat : n <= m => Sums(B)[m] = Sums(B)[n]}
<1>1. 0 \in S
  OBVIOUS
<1>2. ASSUME NEW m \in S PROVE m + 1 \in S
  <2>1. SUFFICES ASSUME n <= m PROVE Sums(B)[m + 1] = Sums(B)[n]
    OBVIOUS
  <2>2. Sums(B)[m] = Sums(B)[n] /\ m \notin B
    BY <2>1
  <2>3. Weight(B, m) = 0
    BY <2>2 DEF Weight
  <2>4. QED
    BY <2>2, <2>3, SumsAre
<1>3. S = Nat
  <2> HIDE DEF S
  <2>1. S \in SUBSET Nat
    BY DEF S
  <2>2. QED
    BY <1>1, <1>2, <2>1, NatSetInduction
<1>4. QED
  BY <1>3

\* All the bits below n make 2^n - 1.
LEMMA SumsFull ==
  ASSUME NEW n \in Nat
  PROVE  Sums(0 .. n - 1)[n] + 1 = Pow2[n]
<1> DEFINE B == 0 .. n - 1
           S == {m \in Nat : m <= n => Sums(B)[m] + 1 = Pow2[m]}
<1>1. 0 \in S
  <2>1. Sums(B)[0] = 0 /\ Pow2[0] = 1
    <3> HIDE DEF B
    <3>1. QED
      BY SumsAre, PowersDouble
  <2>2. QED
    BY <2>1
<1>2. ASSUME NEW m \in S PROVE m + 1 \in S
  <2>1. SUFFICES ASSUME m + 1 <= n PROVE Sums(B)[m + 1] + 1 = Pow2[m + 1]
    OBVIOUS
  <2>2. Sums(B)[m] + 1 = Pow2[m] /\ m \in B
    BY <2>1
  <2>3. Weight(B, m) = Pow2[m]
    BY <2>2 DEF Weight
  <2> HIDE DEF B
  <2>4. Sums(B)[m] \in Nat /\ Pow2[m] \in Nat
    BY SumsAre, PowersDouble
  <2>5. Sums(B)[m + 1] = Sums(B)[m] + Weight(B, m) /\ Pow2[m + 1] = 2 * Pow2[m]
    BY SumsAre, PowersDouble
  <2>6. QED
    BY <2>2, <2>3, <2>4, <2>5
<1>3. S = Nat
  <2> HIDE DEF S
  <2>1. S \in SUBSET Nat
    BY DEF S
  <2>2. QED
    BY <1>1, <1>2, <2>1, NatSetInduction
<1>4. QED
  BY <1>3

\* A multiple, by the half and the last bit of its factor.
LEMMA HalfAndBit ==
  ASSUME NEW p \in Nat, NEW s \in Nat
  PROVE  p * s = (2 * p) * (s \div 2) + (IF s % 2 = 1 THEN p ELSE 0)
<1>1. s \div 2 \in Nat /\ (s = 2 * (s \div 2) \/ s = 2 * (s \div 2) + 1) /\ s % 2 = s - 2 * (s \div 2)
  OBVIOUS
<1>2. PICK q \in Nat : q = s \div 2
  BY <1>1
<1>3. CASE s = 2 * q
  <2>1. s % 2 = 0
    BY <1>1, <1>2, <1>3
  <2>2. p * s = (2 * p) * q
    BY <1>3
  <2>3. QED
    BY <1>2, <2>1, <2>2
<1>4. CASE s = 2 * q + 1
  <2>1. s % 2 = 1
    BY <1>1, <1>2, <1>4
  <2>2. p * s = (2 * p) * q + p
    BY <1>4
  <2>3. QED
    BY <1>2, <2>1, <2>2
<1>5. QED
  BY <1>1, <1>2, <1>3, <1>4

Splits(x, n) == x = Pow2[n] * Shifts(x)[n] + Sums(Bits(x))[n]

\* A number is what its bits below n make, and 2^n times what is left above.
LEMMA Split ==
  ASSUME NEW x \in Nat, NEW n \in 0 .. WordBits
  PROVE  Splits(x, n)
<1> DEFINE S == {m \in Nat : m <= WordBits => Splits(x, m)}
<1>0. WordBits \in Nat
  BY WordAssumption
<1>1. 0 \in S
  <2>1. Pow2[0] = 1 /\ Shifts(x)[0] = x /\ Sums(Bits(x))[0] = 0
    BY PowersDouble, ShiftsAre, SumsAre
  <2>2. QED
    BY <2>1 DEF Splits
<1>2. ASSUME NEW m \in S PROVE m + 1 \in S
  <2>1. SUFFICES ASSUME m + 1 <= WordBits PROVE Splits(x, m + 1)
    OBVIOUS
  <2>2. PICK p \in Nat : p = Pow2[m] /\ Pow2[m + 1] = 2 * p
    BY PowersDouble
  <2>3. PICK s \in Nat : s = Shifts(x)[m] /\ Shifts(x)[m + 1] = s \div 2
    <3>1. Shifts(x)[m] \in Nat /\ Shifts(x)[m + 1] = Shifts(x)[m] \div 2
      BY ShiftsAre
    <3>2. QED
      BY <3>1, Zenon
  <2>4. PICK r \in Nat : r = Sums(Bits(x))[m] /\ Sums(Bits(x))[m + 1] = r + Weight(Bits(x), m)
    BY SumsAre
  <2>5. Weight(Bits(x), m) = IF s % 2 = 1 THEN p ELSE 0
    <3>1. m \in Bits(x) <=> s % 2 = 1
      BY <1>0, <2>1, <2>3 DEF Bits
    <3>2. QED
      BY <2>2, <3>1 DEF Weight
  <2>6. x = p * s + r
    BY <1>0, <2>1, <2>2, <2>3, <2>4 DEF Splits
  <2>7. p * s = (2 * p) * (s \div 2) + (IF s % 2 = 1 THEN p ELSE 0)
    BY HalfAndBit
  <2>8. x = (2 * p) * (s \div 2) + (r + (IF s % 2 = 1 THEN p ELSE 0))
    <3>1. PICK a \in Nat : a = (2 * p) * (s \div 2)
      OBVIOUS
    <3>2. QED
      BY <2>6, <2>7, <3>1
  <2>9. QED
    BY <2>2, <2>3, <2>4, <2>5, <2>8, Zenon DEF Splits
<1>3. S = Nat
  <2> HIDE DEF S
  <2>1. S \in SUBSET Nat
    BY DEF S
  <2>2. QED
    BY <1>1, <1>2, <2>1, NatSetInduction
<1>4. QED
  BY <1>0, <1>3

\* What is left of 2^n - 1 after b shifts.
OnesLeft(n, b) == b <= n => Shifts(Pow2[n] - 1)[b] + 1 = Pow2[n - b]

\* 2^n - 1 shifted right is one less than a power of two.
LEMMA OnesShift ==
  ASSUME NEW n \in Nat, NEW b \in Nat
  PROVE  OnesLeft(n, b)
<1> DEFINE S == {m \in Nat : OnesLeft(n, m)}
<1>0. Pow2[n] - 1 \in Nat
  BY SumsBound
<1>1. 0 \in S
  <2>1. Pow2[n] \in Nat /\ n - 0 = n
    BY PowersDouble
  <2>2. Shifts(Pow2[n] - 1)[0] = Pow2[n] - 1
    BY <1>0, ShiftsAre
  <2>3. QED
    BY <2>1, <2>2 DEF OnesLeft
<1>2. ASSUME NEW m \in S PROVE m + 1 \in S
  <2>1. SUFFICES ASSUME m + 1 <= n
                 PROVE  Shifts(Pow2[n] - 1)[m + 1] + 1 = Pow2[n - (m + 1)]
    BY DEF OnesLeft
  <2>2. PICK l \in Nat : l = n - (m + 1) /\ l + 1 = n - m
    BY <2>1
  <2>3. Pow2[l + 1] = 2 * Pow2[l] /\ Pow2[l] \in Nat
    BY PowersDouble
  <2>4. /\ Shifts(Pow2[n] - 1)[m] \in Nat
        /\ Shifts(Pow2[n] - 1)[m + 1] = Shifts(Pow2[n] - 1)[m] \div 2
    BY <1>0, ShiftsAre
  <2>5. Shifts(Pow2[n] - 1)[m] + 1 = Pow2[l + 1]
    BY <2>1, <2>2 DEF OnesLeft
  <2>6. PICK x \in Nat : x = Shifts(Pow2[n] - 1)[m]
    BY <2>4
  <2>7. PICK p \in Nat : p = Pow2[l]
    BY <2>3
  <2>8. x + 1 = 2 * p /\ Shifts(Pow2[n] - 1)[m + 1] = x \div 2
    BY <2>3, <2>4, <2>5, <2>6, <2>7
  <2>9. (x \div 2) + 1 = p
    BY <2>8
  <2>10. QED
    BY <2>2, <2>7, <2>8, <2>9
<1>3. S = Nat
  <2> HIDE DEF S
  <2>1. S \in SUBSET Nat
    BY DEF S
  <2>2. QED
    BY <1>1, <1>2, <2>1, NatSetInduction
<1>4. QED
  BY <1>3

\* Once shifted out, a number stays shifted out.
LEMMA ZerosStay ==
  ASSUME NEW x \in Nat, NEW n \in Nat, Shifts(x)[n] = 0, NEW b \in Nat, n <= b
  PROVE  Shifts(x)[b] = 0
<1> DEFINE S == {m \in Nat : n <= m => Shifts(x)[m] = 0}
<1>1. 0 \in S
  OBVIOUS
<1>2. ASSUME NEW m \in S PROVE m + 1 \in S
  <2>1. SUFFICES ASSUME n <= m + 1 PROVE Shifts(x)[m + 1] = 0
    OBVIOUS
  <2>2. CASE n = m + 1
    BY <2>2
  <2>3. CASE n # m + 1
    <3>1. Shifts(x)[m] = 0
      BY <2>1, <2>3
    <3>2. Shifts(x)[m + 1] = Shifts(x)[m] \div 2
      BY ShiftsAre
    <3>3. QED
      BY <3>1, <3>2
  <2>4. QED
    BY <2>2, <2>3
<1>3. S = Nat
  <2> HIDE DEF S
  <2>1. S \in SUBSET Nat
    BY DEF S
  <2>2. QED
    BY <1>1, <1>2, <2>1, NatSetInduction
<1>4. QED
  BY <1>3

\* The bits of 2^n - 1 are those below n.
LEMMA OnesBits ==
  ASSUME NEW n \in 0 .. WordBits
  PROVE  Bits(Pow2[n] - 1) = 0 .. n - 1
<1> DEFINE x == Pow2[n] - 1
<1>0. WordBits \in Nat /\ n \in Nat
  BY WordAssumption
<1>1. x \in Nat
  BY <1>0, SumsBound
<1>2. ASSUME NEW b \in 0 .. WordBits - 1
      PROVE  Shifts(x)[b] % 2 = 1 <=> b < n
  <2>1. CASE b < n
    <3>1. PICK l \in Nat : n - b = l + 1
      <4>1. (n - b) - 1 \in Nat /\ n - b = ((n - b) - 1) + 1
        BY <1>0, <2>1
      <4>2. QED
        BY <4>1
    <3>2. Shifts(x)[b] + 1 = Pow2[l + 1]
      BY <1>0, <2>1, <3>1, OnesShift DEF OnesLeft
    <3>3. Pow2[l + 1] = 2 * Pow2[l] /\ Pow2[l] \in Nat
      BY PowersDouble
    <3> HIDE DEF x
    <3>4. Shifts(x)[b] \in Nat
      BY <1>1, ShiftsAre
    <3>5. QED
      BY <2>1, <3>2, <3>3, <3>4
  <2>2. CASE ~(b < n)
    <3>1. Shifts(x)[n] + 1 = Pow2[n - n] /\ n - n = 0 /\ Pow2[0] = 1
      <4>1. OnesLeft(n, n)
        BY <1>0, OnesShift
      <4>2. Shifts(x)[n] + 1 = Pow2[n - n]
        BY <1>0, <4>1 DEF OnesLeft
      <4>3. QED
        BY <1>0, <4>2, PowersDouble
    <3> HIDE DEF x
    <3>2. Shifts(x)[n] \in Nat
      BY <1>0, <1>1, ShiftsAre
    <3>3. Shifts(x)[n] = 0
      BY <3>1, <3>2
    <3>4. Shifts(x)[b] = 0
      BY <1>0, <1>1, <2>2, <3>3, ZerosStay
    <3>5. QED
      BY <2>2, <3>4
  <2>3. QED
    BY <2>1, <2>2
<1> HIDE DEF x
<1>3. Bits(x) = 0 .. n - 1
  BY <1>0, <1>2 DEF Bits
<1>4. QED
  BY <1>3 DEF x

\* There is one remainder.
LEMMA RemainderIs ==
  ASSUME NEW x \in Nat, NEW p \in Nat \ {0}, NEW s \in Nat, NEW r \in 0 .. p - 1,
         x = p * s + r
  PROVE  (x % p) = r
  OBVIOUS

\* x & (2^n - 1) is the remainder of x by 2^n.
LEMMA MaskIsRemainder ==
  ASSUME NEW x \in Nat, NEW n \in 0 .. WordBits
  PROVE  Masked(x, Pow2[n]) = (x % Pow2[n])
<1>0. WordBits \in Nat /\ n \in Nat
  BY WordAssumption
<1> DEFINE B == Bits(x) \cap (0 .. n - 1)
<1>1. Masked(x, Pow2[n]) = Sums(B)[WordBits]
  BY OnesBits DEF Masked, Number
<1>2. \A b \in Nat : b \in B => b < n
  BY <1>0
<1>3. \A b \in 0 .. n - 1 : b \in B <=> b \in Bits(x)
  OBVIOUS
<1> HIDE DEF B
<1>4. Sums(B)[WordBits] = Sums(B)[n]
  BY <1>0, <1>2, SumsStay
<1>5. Sums(B)[n] = Sums(Bits(x))[n]
  BY <1>0, <1>3, SumsAgree
<1>6. PICK r \in Nat : r = Sums(Bits(x))[n] /\ r < Pow2[n]
  BY <1>0, SumsBound
<1>7. PICK p \in Nat : p = Pow2[n]
  BY <1>0, PowersDouble
<1>8. PICK s \in Nat : s = Shifts(x)[n]
  BY <1>0, ShiftsAre
<1>9. x = p * s + r
  BY <1>6, <1>7, <1>8, Split, Zenon DEF Splits
<1>10. (x % p) = r
  <2>1. p \in Nat \ {0} /\ r \in 0 .. p - 1
    BY <1>6, <1>7
  <2>2. QED
    BY <1>9, <2>1, RemainderIs
<1>11. QED
  BY <1>1, <1>4, <1>5, <1>6, <1>7, <1>10

\* The first bit of a word.
Top(c, t) == /\ Pow2[t] <= c /\ c < 2 * Pow2[t]
             /\ t \in Bits(c) /\ Bits(c) \subseteq 0 .. t

\* Every word but 0 has one.
LEMMA TopBit ==
  ASSUME NEW c \in Nat \ {0}, IsWord(c)
  PROVE  \E t \in 0 .. WordBits - 1 : Top(c, t)
<1> DEFINE S == {n \in Nat : Shifts(c)[n + 1] = 0}
<1>0. WordBits \in Nat /\ WordBits - 1 \in Nat /\ (WordBits - 1) + 1 = WordBits
  BY WordAssumption
<1>1. WordBits - 1 \in S
  BY <1>0 DEF IsWord
<1>2. PICK t \in S : \A m \in S : t <= m
  <2> HIDE DEF S
  <2>1. S \in SUBSET Nat
    BY DEF S
  <2>2. QED
    BY <1>1, <2>1, LeastNumber
<1>3. t \in 0 .. WordBits - 1
  BY <1>0, <1>1, <1>2
<1>4. Shifts(c)[t] \in Nat /\ Shifts(c)[t + 1] = Shifts(c)[t] \div 2 /\ Shifts(c)[t + 1] = 0
  BY ShiftsAre
<1>5. Shifts(c)[t] # 0
  <2>1. CASE t = 0
    BY <2>1, ShiftsAre
  <2>2. CASE t # 0
    <3>1. t - 1 \in Nat /\ (t - 1) + 1 = t /\ ~(t <= t - 1)
      BY <2>2
    <3>2. QED
      BY <1>2, <3>1
  <2>3. QED
    BY <2>1, <2>2
<1>6. Shifts(c)[t] = 1
  BY <1>4, <1>5
<1>7. t \in Bits(c)
  BY <1>3, <1>6 DEF Bits
<1>8. ASSUME NEW b \in Bits(c) PROVE b \in 0 .. t
  <2>1. b \in 0 .. WordBits - 1 /\ Shifts(c)[b] % 2 = 1
    BY DEF Bits
  <2>2. ASSUME t + 1 <= b PROVE FALSE
    <3>1. Shifts(c)[b] = 0
      BY <1>0, <1>4, <2>1, <2>2, ZerosStay
    <3>2. QED
      BY <2>1, <3>1
  <2>3. QED
    BY <1>0, <2>1, <2>2
<1>9. Pow2[t] <= c /\ c < 2 * Pow2[t]
  <2>1. t \in 0 .. WordBits
    BY <1>0, <1>3
  <2>2. PICK r \in Nat : r = Sums(Bits(c))[t] /\ r < Pow2[t]
    BY SumsBound
  <2>3. PICK p \in Nat : p = Pow2[t]
    BY PowersDouble
  <2>4. c = p * 1 + r
    BY <1>6, <2>1, <2>2, <2>3, Split, Zenon DEF Splits
  <2>5. QED
    BY <2>2, <2>3, <2>4
<1>10. QED
  BY <1>3, <1>7, <1>8, <1>9 DEF Top

\* The last w bits up to t are set, and none beyond.
Reaches(B, t, w) == /\ B \subseteq 0 .. t
                    /\ \A b \in 0 .. t : t < b + w => b \in B

\* One shift and or doubles the row of ones.
LEMMA SmearDoubles ==
  ASSUME NEW B, NEW t \in 0 .. WordBits - 1, NEW w \in Nat, Reaches(B, t, w)
  PROVE  Reaches(Smeared(B, w), t, 2 * w)
<1>0. WordBits \in Nat
  BY WordAssumption
<1>1. ASSUME NEW b \in Smeared(B, w) PROVE b \in 0 .. t
  <2>1. b \in B \/ (b \in 0 .. WordBits - 1 /\ b + w \in B)
    BY DEF Smeared
  <2>2. b \in B => b \in 0 .. t
    BY DEF Reaches
  <2>3. b + w \in B => b + w \in 0 .. t
    BY DEF Reaches
  <2>4. QED
    BY <1>0, <2>1, <2>2, <2>3
<1>2. ASSUME NEW b \in 0 .. t, t < b + 2 * w PROVE b \in Smeared(B, w)
  <2>1. CASE t < b + w
    BY <2>1 DEF Reaches, Smeared
  <2>2. CASE ~(t < b + w)
    <3>1. b + w \in 0 .. t /\ t < (b + w) + w
      BY <1>0, <1>2, <2>2
    <3>2. b + w \in B
      BY <3>1 DEF Reaches
    <3>3. b \in 0 .. WordBits - 1
      BY <1>0
    <3>4. QED
      BY <3>2, <3>3 DEF Smeared
  <2>3. QED
    BY <2>1, <2>2
<1>3. QED
  BY <1>1, <1>2 DEF Reaches

\* Six of them fill a word of 64 bits below its first one.
LEMMA FilledIs ==
  ASSUME NEW c, NEW t \in 0 .. WordBits - 1, Top(c, t)
  PROVE  Filled(c) = 0 .. t
<1>0. t \in 0 .. 63 /\ t \in Nat
  BY WordAssumption
<1>1. Reaches(Bits(c), t, 1)
  BY <1>0 DEF Top, Reaches
<1> DEFINE B1 == Smeared(Bits(c), 1)
           B2 == Smeared(B1, 2)
           B4 == Smeared(B2, 4)
           B8 == Smeared(B4, 8)
           B16 == Smeared(B8, 16)
           B32 == Smeared(B16, 32)
<1>2. Filled(c) = B32
  BY Zenon DEF Filled
<1> HIDE DEF B1, B2, B4, B8, B16, B32
<1>3. Reaches(B1, t, 2)
  BY <1>1, SmearDoubles, 2 * 1 = 2 DEF B1
<1>4. Reaches(B2, t, 4)
  BY <1>3, SmearDoubles, 2 * 2 = 4 DEF B2
<1>5. Reaches(B4, t, 8)
  BY <1>4, SmearDoubles, 2 * 4 = 8 DEF B4
<1>6. Reaches(B8, t, 16)
  BY <1>5, SmearDoubles, 2 * 8 = 16 DEF B8
<1>7. Reaches(B16, t, 32)
  BY <1>6, SmearDoubles, 2 * 16 = 32 DEF B16
<1>8. Reaches(B32, t, 64)
  BY <1>7, SmearDoubles, 2 * 32 = 64 DEF B32
<1>9. B32 = 0 .. t
  <2>1. B32 \subseteq 0 .. t /\ \A b \in 0 .. t : t < b + 64 => b \in B32
    BY <1>8 DEF Reaches
  <2>2. \A b \in 0 .. t : t < b + 64
    BY <1>0
  <2>3. QED
    BY <2>1, <2>2
<1>10. QED
  BY <1>2, <1>9

\* So getnext2power gives the next power of two, or 0 where a word has none.
LEMMA NextPower ==
  ASSUME NEW c, NEW t \in 0 .. WordBits - 1, Top(c, t)
  PROVE  getnext2power(c) = IF t = WordBits - 1 THEN 0 ELSE Pow2[t + 1]
<1>0. WordBits \in Nat /\ t \in Nat
  BY WordAssumption
<1>1. Filled(c) = 0 .. t
  BY FilledIs
<1>2. CASE t = WordBits - 1
  BY <1>1, <1>2 DEF getnext2power
<1>3. CASE t # WordBits - 1
  <2>1. (WordBits - 1) \in 0 .. WordBits - 1 /\ (WordBits - 1) \notin 0 .. t
    BY <1>0, <1>3
  <2>2. 0 .. t # 0 .. WordBits - 1
    BY <2>1, Zenon
  <2>3. getnext2power(c) = Sums(0 .. t)[WordBits] + 1
    BY <1>1, <2>2 DEF getnext2power, Number
  <2>4. PICK n \in Nat : n = t + 1
    BY <1>0
  <2>5. 0 .. t = 0 .. n - 1 /\ n <= WordBits
    BY <1>0, <2>4
  <2> DEFINE B == 0 .. n - 1
  <2>6. \A b \in Nat : b \in B => b < n
    OBVIOUS
  <2>7. Sums(B)[n] + 1 = Pow2[n]
    BY SumsFull
  <2> HIDE DEF B
  <2>8. Sums(B)[WordBits] = Sums(B)[n]
    BY <1>0, <2>5, <2>6, SumsStay
  <2>9. getnext2power(c) = Sums(B)[WordBits] + 1
    BY <2>3, <2>5 DEF B
  <2>10. QED
    BY <1>3, <2>4, <2>7, <2>8, <2>9
<1>4. QED
  BY <1>2, <1>3

\* A number with no bit in common with its predecessor is a power of two.
LEMMA NoCommonBit ==
  ASSUME NEW c \in Nat \ {0}, NEW t \in 0 .. WordBits - 1, Top(c, t),
         Bits(c) \cap Bits(c - 1) = {}
  PROVE  c = Pow2[t]
<1>0. WordBits \in Nat /\ t \in Nat /\ t \in 0 .. WordBits /\ c - 1 \in Nat
  BY WordAssumption
<1>1. PICK p \in Nat : p = Pow2[t]
  BY <1>0, PowersDouble
<1>2. p <= c /\ c < 2 * p /\ t \in Bits(c)
  BY <1>1 DEF Top
<1>3. ASSUME p <= c - 1 PROVE FALSE
  <2>1. PICK s \in Nat : s = Shifts(c - 1)[t]
    BY <1>0, ShiftsAre
  <2>2. PICK r \in Nat : r = Sums(Bits(c - 1))[t] /\ r < p
    BY <1>0, <1>1, SumsBound
  <2>3. c - 1 = p * s + r
    BY <1>0, <1>1, <2>1, <2>2, Split, Zenon DEF Splits
  <2>4. PICK y \in Nat : y = c - 1 /\ p <= y /\ y < 2 * p
    BY <1>0, <1>2, <1>3
  <2>5. s # 0
    <3>1. s = 0 => p * s = 0
      OBVIOUS
    <3>2. QED
      BY <2>2, <2>3, <2>4, <3>1
  <2>6. ~(2 <= s)
    <3>1. SUFFICES ASSUME 2 <= s PROVE FALSE
      OBVIOUS
    <3>2. PICK q \in Nat : s = q + 2
      <4>1. s - 2 \in Nat /\ s = (s - 2) + 2
        BY <3>1
      <4>2. QED
        BY <4>1
    <3>3. p * s = p * q + 2 * p
      BY <3>2
    <3>4. PICK a \in Nat : a = p * q
      OBVIOUS
    <3>5. QED
      BY <2>2, <2>3, <2>4, <3>3, <3>4
  <2>7. s = 1
    BY <2>5, <2>6
  <2>8. t \in Bits(c - 1)
    BY <2>1, <2>7 DEF Bits
  <2>9. QED
    BY <1>2, <2>8
<1>4. QED
  BY <1>1, <1>2, <1>3

\* What is left of 2^n after b shifts.
PowerLeft(n, b) == b <= n => Shifts(Pow2[n])[b] = Pow2[n - b]

\* 2^n shifted right is a power of two.
LEMMA PowerShift ==
  ASSUME NEW n \in Nat, NEW b \in Nat
  PROVE  PowerLeft(n, b)
<1> DEFINE S == {m \in Nat : PowerLeft(n, m)}
<1>0. Pow2[n] \in Nat
  BY PowersDouble
<1>1. 0 \in S
  <2>1. Shifts(Pow2[n])[0] = Pow2[n]
    BY <1>0, ShiftsAre
  <2>2. QED
    BY <2>1 DEF PowerLeft
<1>2. ASSUME NEW m \in S PROVE m + 1 \in S
  <2>1. SUFFICES ASSUME m + 1 <= n
                 PROVE  Shifts(Pow2[n])[m + 1] = Pow2[n - (m + 1)]
    BY DEF PowerLeft
  <2>2. PICK l \in Nat : l = n - (m + 1) /\ l + 1 = n - m
    BY <2>1
  <2>3. Pow2[l + 1] = 2 * Pow2[l] /\ Pow2[l] \in Nat
    BY PowersDouble
  <2>4. Shifts(Pow2[n])[m + 1] = Shifts(Pow2[n])[m] \div 2
    BY <1>0, ShiftsAre
  <2>5. Shifts(Pow2[n])[m] = Pow2[l + 1]
    BY <2>1, <2>2 DEF PowerLeft
  <2>6. PICK p \in Nat : p = Pow2[l]
    BY <2>3
  <2>7. (2 * p) \div 2 = p
    OBVIOUS
  <2>8. QED
    BY <2>2, <2>3, <2>4, <2>5, <2>6, <2>7
<1>3. S = Nat
  <2> HIDE DEF S
  <2>1. S \in SUBSET Nat
    BY DEF S
  <2>2. QED
    BY <1>1, <1>2, <2>1, NatSetInduction
<1>4. QED
  BY <1>3

\* It has no bit in common with its predecessor.
LEMMA PowerBits ==
  ASSUME NEW n \in 0 .. WordBits - 1
  PROVE  Bits(Pow2[n]) \cap Bits(Pow2[n] - 1) = {}
<1>0. WordBits \in Nat /\ n \in Nat /\ n \in 0 .. WordBits
  BY WordAssumption
<1>1. SUFFICES ASSUME NEW b \in Bits(Pow2[n]) \cap Bits(Pow2[n] - 1) PROVE FALSE
  OBVIOUS
<1>2. b \in 0 .. n - 1
  BY <1>0, OnesBits
<1>3. Shifts(Pow2[n])[b] % 2 = 1
  BY DEF Bits
<1>4. PICK l \in Nat : n - b = l + 1
  <2>1. (n - b) - 1 \in Nat /\ n - b = ((n - b) - 1) + 1
    BY <1>0, <1>2
  <2>2. QED
    BY <2>1
<1>5. Shifts(Pow2[n])[b] = Pow2[l + 1]
  <2>1. PowerLeft(n, b)
    BY <1>0, <1>2, PowerShift
  <2>2. QED
    BY <1>0, <1>2, <1>4, <2>1 DEF PowerLeft
<1>6. Pow2[l + 1] = 2 * Pow2[l] /\ Pow2[l] \in Nat
  BY PowersDouble
<1>7. QED
  BY <1>3, <1>5, <1>6

\* What initohash asks calloc for, whatever its caller asks for.
LEMMA CapacityIs ==
  ASSUME NEW c \in Nat, IsWord(c), Capacity(c) # 0
  PROVE  /\ \E n \in 0 .. WordBits - 1 : Capacity(c) = Pow2[n]
         /\ c <= Capacity(c) /\ Capacity(c) < 2 * c
<1>0. WordBits \in Nat /\ c # 0
  <2>1. Shifts(0)[0] = 0
    BY ShiftsAre
  <2>2. \A b \in Nat : Shifts(0)[b] = 0
    BY <2>1, ZerosStay
  <2>3. Bits(0) = {}
    BY <2>2 DEF Bits
  <2>4. c = 0 => Capacity(c) = 0
    BY <2>3 DEF Capacity
  <2>5. QED
    BY <2>4, WordAssumption
<1>1. PICK t \in 0 .. WordBits - 1 : Top(c, t)
  BY <1>0, TopBit
<1>2. PICK p \in Nat : p = Pow2[t] /\ p <= c /\ c < 2 * p
  BY <1>0, <1>1, PowersDouble DEF Top
<1>3. CASE Bits(c) \cap Bits(c - 1) = {}
  <2>1. Capacity(c) = c
    BY <1>3 DEF Capacity
  <2>2. c = Pow2[t]
    BY <1>0, <1>1, <1>3, NoCommonBit
  <2>3. QED
    BY <1>0, <2>1, <2>2
<1>4. CASE Bits(c) \cap Bits(c - 1) # {}
  <2>1. Capacity(c) = IF t = WordBits - 1 THEN 0 ELSE Pow2[t + 1]
    BY <1>1, <1>4, NextPower DEF Capacity
  <2>2. t + 1 \in 0 .. WordBits - 1 /\ Capacity(c) = Pow2[t + 1]
    BY <1>0, <2>1
  <2>3. Pow2[t + 1] = 2 * p
    BY <1>0, <1>2, PowersDouble
  <2>4. c # p
    BY <1>1, <1>2, <1>4, PowerBits
  <2>5. c <= Capacity(c) /\ Capacity(c) < 2 * c
    BY <1>2, <2>2, <2>3, <2>4
  <2>6. QED
    BY <2>2, <2>5
<1>5. QED
  BY <1>3, <1>4

\* What callers ask for becomes an array of one slot or more.
LEMMA AskedCapacity ==
  ASSUME NEW c \in Asked
  PROVE  /\ Capacity(c) \in Nat \ {0}
         /\ \E n \in 0 .. WordBits - 1 : Capacity(c) = Pow2[n]
<1>1. c \in Nat /\ IsWord(c) /\ Capacity(c) # 0
  BY CapAssumption DEF IsWord
<1>2. PICK n \in 0 .. WordBits - 1 : Capacity(c) = Pow2[n]
  BY <1>1, CapacityIs
<1>3. Pow2[n] \in Nat
  BY WordAssumption, PowersDouble
<1>4. QED
  BY <1>1, <1>2, <1>3

\* Twice a power is one that a word holds, if calloc grants it.
LEMMA DoublesInWord ==
  ASSUME NEW n \in 0 .. WordBits - 1, 2 * Pow2[n] <= MaxCap
  PROVE  n + 1 \in 0 .. WordBits - 1 /\ 2 * Pow2[n] = Pow2[n + 1]
<1>0. WordBits \in Nat /\ n \in Nat /\ WordBits \in 0 .. WordBits
  BY WordAssumption
<1>1. 2 * Pow2[n] = Pow2[n + 1]
  BY <1>0, PowersDouble
<1>2. MaxCap \in Nat /\ Shifts(MaxCap)[WordBits] = 0
  BY CapAssumption DEF IsWord
<1>3. PICK p \in Nat : p = Pow2[WordBits]
  BY <1>0, PowersDouble
<1>4. PICK r \in Nat : r = Sums(Bits(MaxCap))[WordBits] /\ r < p
  BY <1>0, <1>3, SumsBound
<1>5. MaxCap = p * 0 + r
  BY <1>0, <1>2, <1>3, <1>4, Split, Zenon DEF Splits
<1>6. MaxCap < p
  BY <1>4, <1>5
<1>7. n # WordBits - 1
  <2>1. n = WordBits - 1 => n + 1 = WordBits
    BY <1>0
  <2>2. QED
    BY <1>1, <1>2, <1>3, <1>6, <2>1
<1>8. QED
  BY <1>0, <1>1, <1>7

-----------------------------------------------------------------------------
(* Type correctness.                                                       *)

\* What calloc returns is an array of empty slots.
LEMMA CallocType ==
  ASSUME NEW c \in Nat
  PROVE  Calloc(c) \in [0 .. c - 1 -> Slot]
  BY DEF Calloc, NullSlot, Slot

\* The field updates of a slot.
LEMMA SlotUpdates ==
  ASSUME NEW s \in Slot, NEW e \in Nat
  PROVE  /\ Tombstone(s) \in Slot
         /\ Tombstone(s).key = s.key /\ Tombstone(s).hash = s.hash /\ Tombstone(s).keylen = s.keylen
         /\ Tombstone(s).v = s.v
         /\ Tombstone(s).rm = s.rm /\ Tombstone(s).tb
         /\ Vacated(s) \in Slot
         /\ Vacated(s).key = NULL /\ Vacated(s).rm /\ Vacated(s).tb
         /\ Renewed(s, e) \in Slot
         /\ Renewed(s, e).key = s.key /\ Renewed(s, e).hash = s.hash /\ Renewed(s, e).keylen = s.keylen
         /\ Renewed(s, e).v = s.v
         /\ Renewed(s, e).rm = s.rm /\ Renewed(s, e).tb = s.tb
<1>1. /\ Tombstone(s) \in Slot
      /\ Tombstone(s).key = s.key /\ Tombstone(s).hash = s.hash /\ Tombstone(s).keylen = s.keylen
         /\ Tombstone(s).v = s.v
      /\ Tombstone(s).rm = s.rm /\ Tombstone(s).tb
  BY DEF Tombstone, Slot
<1>2. /\ Vacated(s) \in Slot
      /\ Vacated(s).key = NULL /\ Vacated(s).rm /\ Vacated(s).tb
  BY DEF Vacated, Slot
<1>3. /\ Renewed(s, e) \in Slot
      /\ Renewed(s, e).key = s.key /\ Renewed(s, e).hash = s.hash /\ Renewed(s, e).keylen = s.keylen
         /\ Renewed(s, e).v = s.v
      /\ Renewed(s, e).rm = s.rm /\ Renewed(s, e).tb = s.tb
  BY DEF Renewed, Slot
<1>4. QED
  BY <1>1, <1>2, <1>3

\* What oget, otake and oexpired may do to a slot: nothing to an empty one;
\* to another, tombstone it, change its expiry time, or vacate it.
Aged(s, t) ==
  /\ Empty(t) => Empty(s)
  /\ Live(t) => Live(s) /\ t.hash = s.hash /\ t.keylen = s.keylen /\ t.key = s.key
  /\ t.key # NULL => s.key = t.key /\ t.v = s.v
  /\ t.rm => (t.tb /\ t.key = NULL) \/ (s.rm /\ t.key = s.key /\ (s.tb => t.tb))

\* Tombstoning the expired slots of a set only ages slots.
LEMMA BuryAges ==
  ASSUME NEW S, ohashtabl \in [0 .. cap - 1 -> Slot]
  PROVE  /\ Bury(S) \in [0 .. cap - 1 -> Slot]
         /\ \A j \in 0 .. cap - 1 : /\ Aged(ohashtabl[j], Bury(S)[j])
                                    /\ Bury(S)[j].key = ohashtabl[j].key
<1>1. ASSUME NEW j \in 0 .. cap - 1
      PROVE  /\ Bury(S)[j] \in Slot
             /\ Aged(ohashtabl[j], Bury(S)[j])
             /\ Bury(S)[j].key = ohashtabl[j].key
  <2>1. ohashtabl[j] \in Slot /\ 0 \in Nat
    OBVIOUS
  <2>2. Bury(S)[j] \in {ohashtabl[j], Tombstone(ohashtabl[j])}
    BY DEF Bury
  <2>3. CASE Bury(S)[j] = ohashtabl[j]
    BY <2>1, <2>3 DEF Aged
  <2>4. CASE Bury(S)[j] = Tombstone(ohashtabl[j])
    BY <2>1, <2>4, SlotUpdates DEF Aged, Empty, Live
  <2>5. QED
    BY <2>2, <2>3, <2>4
<1>2. Bury(S) \in [0 .. cap - 1 -> Slot]
  BY <1>1 DEF Bury
<1>3. QED
  BY <1>1, <1>2

-----------------------------------------------------------------------------
(* The operations that search: oget, otake, oexpired.                      *)

\* The operations that search only age slots; otake takes one entry out of
\* the table, and counts it, when it finds its key.
LEMMA SearchAges ==
  ASSUME TableTypeOK, NEW k \in Key, NEW n \in 0 .. cap, NEW e \in Nat,
         oget(k, n) \/ otake(k, n) \/ oexpired(k, e, n)
  PROVE  /\ ohashtabl' \in [0 .. cap - 1 -> Slot]
         /\ \A j \in 0 .. cap - 1 : Aged(ohashtabl[j], ohashtabl'[j])
         /\ \/ size' = size /\ Occupied' = Occupied
            \/ /\ otake(k, n) /\ Found(k, n) /\ size' = size - 1
               /\ At(Hash[k], n, cap) \in Occupied
               /\ Occupied' = Occupied \ {At(Hash[k], n, cap)}
<1> DEFINE a == At(Hash[k], n, cap)
<1>1. /\ cap \in Nat \ {0} /\ ohashtabl \in [0 .. cap - 1 -> Slot] /\ size \in Nat
      /\ Hash[k] \in Nat /\ NULL # k
  BY HashAssumption, NullAssumption DEF TableTypeOK
<1>2. ASSUME Walks(TakeStop(k), Hash[k], n), Found(k, n)
      PROVE  /\ n < cap /\ a \in 0 .. cap - 1
             /\ ~Empty(ohashtabl[a]) /\ Live(ohashtabl[a]) /\ ohashtabl[a].key = k
  <2>1. n # cap /\ ~Empty(ohashtabl[a])
    BY <1>2 DEF Found
  <2>2. n < cap /\ a \in 0 .. cap - 1
    <3>1. n \in 0 .. cap - 1
      BY <1>1, <2>1
    <3>2. QED
      BY <1>1, <3>1, AtIsSlot
  <2>3. a \in TakeStop(k)
    BY <1>2, <2>1 DEF Walks
  <2>4. ~ohashtabl[a].tb /\ ohashtabl[a].key = k
    BY <2>1, <2>3 DEF TakeStop, Match
  <2>5. QED
    BY <1>1, <2>1, <2>2, <2>4 DEF Live
<1>3. CASE oget(k, n)
  BY <1>1, <1>3, BuryAges DEF oget, Occupied, Occ
<1>4. CASE otake(k, n)
  <2> DEFINE buried == Bury(Passed(Hash[k], n))
  <2>1. /\ buried \in [0 .. cap - 1 -> Slot]
        /\ \A j \in 0 .. cap - 1 : /\ Aged(ohashtabl[j], buried[j])
                                   /\ buried[j].key = ohashtabl[j].key
    BY <1>1, BuryAges
  <2>2. CASE ~Found(k, n)
    BY <1>4, <2>1, <2>2 DEF otake, Occupied, Occ
  <2>3. CASE Found(k, n)
    <3>1. /\ a \in 0 .. cap - 1
          /\ ~Empty(ohashtabl[a]) /\ Live(ohashtabl[a]) /\ ohashtabl[a].key = k
      BY <1>2, <1>4, <2>3 DEF otake
    <3>2. /\ ohashtabl' = [buried EXCEPT ![a] = Vacated(buried[a])]
          /\ size' = size - 1 /\ cap' = cap
      BY <1>4, <2>3 DEF otake
    <3>3. /\ Vacated(buried[a]) \in Slot
          /\ Vacated(buried[a]).key = NULL
          /\ Vacated(buried[a]).rm /\ Vacated(buried[a]).tb
      <4>1. buried[a] \in Slot /\ 0 \in Nat
        BY <2>1, <3>1
      <4>2. QED
        BY <4>1, SlotUpdates
    <3>4. ohashtabl' \in [0 .. cap - 1 -> Slot]
      BY <2>1, <3>2, <3>3
    <3>5. ASSUME NEW j \in 0 .. cap - 1
          PROVE  Aged(ohashtabl[j], ohashtabl'[j])
      <4>1. CASE j = a
        <5>1. ohashtabl'[j] = Vacated(buried[a])
          BY <2>1, <3>1, <3>2, <4>1
        <5>2. QED
          BY <5>1, <3>3 DEF Aged, Empty, Live
      <4>2. CASE j # a
        BY <2>1, <3>1, <3>2, <4>2
      <4>3. QED
        BY <4>1, <4>2
    <3>6. Occupied' = Occupied \ {a}
      <4>1. ohashtabl'[a].key = NULL
        BY <2>1, <3>1, <3>2, <3>3
      <4>2. \A j \in 0 .. cap - 1 : j # a => ohashtabl'[j].key = ohashtabl[j].key
        BY <2>1, <3>1, <3>2
      <4>3. QED
        BY <4>1, <4>2, <3>2 DEF Occupied, Occ
    <3>7. a \in Occupied
      BY <1>1, <3>1 DEF Occupied, Occ
    <3>8. QED
      BY <1>4, <2>3, <3>2, <3>4, <3>5, <3>6, <3>7
  <2>4. QED
    BY <2>2, <2>3
<1>5. CASE oexpired(k, e, n)
  <2> DEFINE buried == Bury(Passed(Hash[k], n))
  <2>1. /\ buried \in [0 .. cap - 1 -> Slot]
        /\ \A j \in 0 .. cap - 1 : /\ Aged(ohashtabl[j], buried[j])
                                   /\ buried[j].key = ohashtabl[j].key
    BY <1>1, BuryAges
  <2>2. CASE ~Found(k, n)
    BY <1>5, <2>1, <2>2 DEF oexpired, Occupied, Occ
  <2>3. CASE Found(k, n)
    <3>1. a \in 0 .. cap - 1
      BY <1>2, <1>5, <2>3 DEF oexpired
    <3>2. ohashtabl' = [buried EXCEPT ![a] = Renewed(buried[a], e)] /\ size' = size
      BY <1>5, <2>3 DEF oexpired
    <3>3. buried[a] \in Slot
      BY <2>1, <3>1
    <3>4. ohashtabl' \in [0 .. cap - 1 -> Slot]
      BY <2>1, <3>2, <3>3, SlotUpdates
    <3>5. ASSUME NEW j \in 0 .. cap - 1
          PROVE  Aged(ohashtabl[j], ohashtabl'[j])
      <4>1. CASE j = a
        <5>1. ohashtabl'[j] = Renewed(buried[a], e) /\ Aged(ohashtabl[a], buried[a])
          BY <2>1, <3>1, <3>2, <4>1
        <5>2. LET t == ohashtabl'[j] IN
                /\ t.key = buried[a].key /\ t.hash = buried[a].hash
                /\ t.keylen = buried[a].keylen /\ t.v = buried[a].v
                /\ t.rm = buried[a].rm /\ t.tb = buried[a].tb
          BY <5>1, <3>3, SlotUpdates
        <5>3. QED
          BY <5>1, <5>2, <4>1 DEF Aged, Empty, Live
      <4>2. CASE j # a
        BY <2>1, <3>1, <3>2, <4>2
      <4>3. QED
        BY <4>1, <4>2
    <3>6. Occupied' = Occupied
      <4>1. ohashtabl'[a].key = ohashtabl[a].key
        BY <2>1, <3>1, <3>2, <3>3, SlotUpdates
      <4>2. \A j \in 0 .. cap - 1 : j # a => ohashtabl'[j].key = ohashtabl[j].key
        BY <2>1, <3>1, <3>2
      <4>3. cap' = cap
        BY <1>5 DEF oexpired
      <4>4. QED
        BY <4>1, <4>2, <4>3 DEF Occupied, Occ
    <3>7. QED
      BY <3>2, <3>4, <3>5, <3>6
  <2>4. QED
    BY <2>2, <2>3
<1>6. QED
  BY <1>3, <1>4, <1>5

-----------------------------------------------------------------------------
(* Counting slots.                                                         *)

\* A set of slots is finite, and adding or taking a slot changes its size by
\* at most one.
LEMMA SlotCount ==
  ASSUME NEW c \in Nat, NEW S \in SUBSET (0 .. c - 1)
  PROVE  /\ Cardinality(S) \in Nat
         /\ Cardinality(S) <= c
         /\ \A T \in SUBSET S : Cardinality(T) <= Cardinality(S)
         /\ \A x : Cardinality(S \cup {x}) <= Cardinality(S) + 1
         /\ \A x \in S : Cardinality(S \ {x}) = Cardinality(S) - 1
<1>1. IsFiniteSet(0 .. c - 1) /\ Cardinality(0 .. c - 1) = c
  BY FS_Interval
<1>2. IsFiniteSet(S) /\ Cardinality(S) <= c
  BY <1>1, FS_Subset
<1>3. Cardinality(S) \in Nat
  BY <1>2, FS_CardinalityType
<1>4. \A T \in SUBSET S : Cardinality(T) <= Cardinality(S)
  BY <1>2, FS_Subset
<1>5. ASSUME NEW x PROVE Cardinality(S \cup {x}) <= Cardinality(S) + 1
  <2>1. Cardinality(S \cup {x}) = IF x \in S THEN Cardinality(S) ELSE Cardinality(S) + 1
    BY <1>2, FS_AddElement
  <2>2. QED
    BY <1>3, <2>1
<1>6. ASSUME NEW x \in S PROVE Cardinality(S \ {x}) = Cardinality(S) - 1
  BY <1>2, FS_RemoveElement
<1>7. QED
  BY <1>2, <1>3, <1>4, <1>5, <1>6

\* One slot less to migrate pays for one slot more in the new array.
LEMMA OneMoved ==
  ASSUME NEW x \in Nat, NEW y \in Nat, NEW x2 \in Nat, NEW y2 \in Nat, NEW s \in Nat,
         x + y <= s, x2 <= x + 1, y2 = y - 1
  PROVE  x2 + y2 <= s
  OBVIOUS

\* A smaller count is a smaller load.
LEMMA LoadMonotone ==
  ASSUME NEW c \in Nat, NEW x \in Nat, NEW y \in Nat, y <= x, x * 10 < c * 7 + 10
  PROVE  y * 10 < c * 7 + 10
  OBVIOUS

-----------------------------------------------------------------------------
(* Every step preserves the inductive invariant.                           *)

\* Ageing slots keeps tombstones consistent and chains unbroken.
LEMMA AgeingKeeps ==
  ASSUME TableTypeOK, SlotsConsistent, Chains(ohashtabl, cap),
         cap' = cap, ohashtabl' \in [0 .. cap - 1 -> Slot],
         \A j \in 0 .. cap - 1 : Aged(ohashtabl[j], ohashtabl'[j])
  PROVE  SlotsConsistent' /\ Chains(ohashtabl, cap)'
<1>1. SlotsConsistent'
  BY DEF SlotsConsistent, Aged, Match, Tagged
<1>2. ASSUME NEW j \in 0 .. cap - 1, Live(ohashtabl'[j])
      PROVE  \E n \in 0 .. cap - 1 :
               /\ At(ohashtabl'[j].hash, n, cap) = j
               /\ \A m \in 0 .. n - 1 : ~Empty(ohashtabl'[At(ohashtabl'[j].hash, m, cap)])
  <2>1. Live(ohashtabl[j]) /\ ohashtabl'[j].hash = ohashtabl[j].hash
    BY <1>2 DEF Aged
  <2> DEFINE h == ohashtabl[j].hash
  <2>2. h \in Nat /\ cap \in Nat \ {0}
    BY DEF TableTypeOK, Slot
  <2>3. PICK n \in 0 .. cap - 1 :
               /\ At(h, n, cap) = j
               /\ \A m \in 0 .. n - 1 : ~Empty(ohashtabl[At(h, m, cap)])
    BY <2>1 DEF Chains
  <2>4. ASSUME NEW m \in 0 .. n - 1
        PROVE  ~Empty(ohashtabl'[At(h, m, cap)])
    <3>1. m \in 0 .. cap - 1
      BY <2>2
    <3>2. At(h, m, cap) \in 0 .. cap - 1
      BY <2>2, <3>1, AtIsSlot
    <3>3. QED
      BY <2>3, <3>2 DEF Aged
  <2>5. QED
    BY <2>1, <2>3, <2>4
<1>3. QED
  BY <1>1, <1>2 DEF Chains

\* An operation that searches preserves the invariant.
LEMMA SearchKeeps ==
  ASSUME TableInv, ~expanding, NEW k \in Key, NEW n \in 0 .. cap, NEW e \in Nat,
         oget(k, n) \/ otake(k, n) \/ oexpired(k, e, n)
  PROVE  TableInv'
<1>1. TableTypeOK /\ SizeCountsAll /\ LoadBounded /\ SlotsConsistent /\ Chains(ohashtabl, cap)
  BY DEF TableInv
<1>2. UNCHANGED <<cap, now, expanding, n_ohash, i>>
  BY DEF oget, otake, oexpired
<1>3. /\ ohashtabl' \in [0 .. cap - 1 -> Slot]
      /\ \A j \in 0 .. cap - 1 : Aged(ohashtabl[j], ohashtabl'[j])
      /\ \/ size' = size
         \/ size' = size - 1 /\ \E j \in Occupied : Occupied' = Occupied \ {j}
  BY <1>1, SearchAges
<1>4. SlotsConsistent' /\ Chains(ohashtabl, cap)'
  BY <1>1, <1>2, <1>3, AgeingKeeps
<1>5. /\ Occupied \in SUBSET (0 .. cap - 1)
      /\ cap \in Nat /\ size \in Nat /\ Cardinality(Occupied) <= size
  BY <1>1 DEF Occupied, Occ, TableTypeOK, SizeCountsAll
<1>6. Occupied' \in SUBSET Occupied
  BY <1>2, <1>3 DEF Occupied, Occ, Aged
<1>7. size' \in Nat /\ size' <= size /\ Cardinality(Occupied') <= size'
  <2>1. CASE size' = size
    <3>1. Cardinality(Occupied') <= Cardinality(Occupied)
      BY <1>5, <1>6, SlotCount
    <3>2. Cardinality(Occupied) \in Nat /\ Cardinality(Occupied') \in Nat
      BY <1>5, <1>6, SlotCount
    <3>3. QED
      BY <1>5, <2>1, <3>1, <3>2
  <2>2. CASE size' = size - 1 /\ \E j \in Occupied : Occupied' = Occupied \ {j}
    <3>1. PICK j \in Occupied : Occupied' = Occupied \ {j}
      BY <2>2
    <3>2. Cardinality(Occupied') = Cardinality(Occupied) - 1
      BY <1>5, <3>1, SlotCount
    <3>3. Cardinality(Occupied) \in Nat /\ Cardinality(Occupied') \in Nat
      BY <1>5, <1>6, SlotCount
    <3>4. QED
      BY <1>5, <2>2, <3>2, <3>3
  <2>3. QED
    BY <1>3, <2>1, <2>2
<1>8. TableTypeOK' /\ SizeCountsAll' /\ LoadBounded'
  <2>1. TableTypeOK'
    BY <1>1, <1>2, <1>3, <1>7 DEF TableTypeOK, NoArray, Calloc
  <2>2. SizeCountsAll'
    BY <1>7 DEF SizeCountsAll
  <2>3. LoadBounded'
    <3>1. size * 10 < cap * 7 + 10
      BY <1>1 DEF LoadBounded
    <3>2. cap' = cap
      BY <1>2
    <3>3. size' * 10 < cap * 7 + 10
      BY <1>5, <1>7, <3>1, LoadMonotone
    <3>4. QED
      BY <3>2, <3>3 DEF LoadBounded
  <2>4. QED
    BY <2>1, <2>2, <2>3
<1>9. ~expanding'
  BY <1>2
<1>10. QED
  BY <1>4, <1>8, <1>9 DEF TableInv, NewArrayFilled, MigrationCounted

\* Filling the first slot of a probe path that may be filled keeps every chain.
LEMMA FillKeepsChains ==
  ASSUME NEW c \in Nat \ {0}, NEW tab \in [0 .. c - 1 -> Slot], Chains(tab, c),
         NEW s \in Slot, ~Empty(s), NEW n \in 0 .. c - 1,
         \A m \in 0 .. n - 1 : ~Empty(tab[At(s.hash, m, c)])
  PROVE  Chains([tab EXCEPT ![At(s.hash, n, c)] = s], c)
<1> DEFINE a    == At(s.hash, n, c)
           tab2 == [tab EXCEPT ![a] = s]
<1>1. s.hash \in Nat
  BY DEF Slot
<1>2. a \in 0 .. c - 1
  BY <1>1, AtIsSlot
<1>3. /\ tab2 \in [0 .. c - 1 -> Slot]
      /\ tab2[a] = s
      /\ \A j \in 0 .. c - 1 : j # a => tab2[j] = tab[j]
  BY <1>2
<1> HIDE DEF tab2
<1>4. ASSUME NEW h \in Nat, NEW m \in 0 .. c - 1, ~Empty(tab[At(h, m, c)])
      PROVE  ~Empty(tab2[At(h, m, c)])
  BY <1>3, <1>4, AtIsSlot
<1>5. ASSUME NEW j \in 0 .. c - 1, Live(tab2[j])
      PROVE  \E d \in 0 .. c - 1 :
               /\ At(tab2[j].hash, d, c) = j
               /\ \A m \in 0 .. d - 1 : ~Empty(tab2[At(tab2[j].hash, m, c)])
  <2>1. CASE j = a
    <3>1. \A m \in 0 .. n - 1 : m \in 0 .. c - 1
      OBVIOUS
    <3>2. \A m \in 0 .. n - 1 : ~Empty(tab2[At(s.hash, m, c)])
      BY <1>1, <1>4, <3>1
    <3>3. QED
      BY <1>3, <2>1, <3>2
  <2>2. CASE j # a
    <3>1. Live(tab[j]) /\ tab2[j] = tab[j]
      BY <1>3, <1>5, <2>2
    <3>2. tab[j].hash \in Nat
      BY DEF Slot
    <3>3. PICK d \in 0 .. c - 1 :
            /\ At(tab[j].hash, d, c) = j
            /\ \A m \in 0 .. d - 1 : ~Empty(tab[At(tab[j].hash, m, c)])
      BY <3>1 DEF Chains
    <3>4. \A m \in 0 .. d - 1 : m \in 0 .. c - 1
      OBVIOUS
    <3>5. QED
      BY <1>4, <3>1, <3>2, <3>3, <3>4
  <2>3. QED
    BY <2>1, <2>2
<1>6. QED
  BY <1>5 DEF Chains, tab2

\* oinsert preserves the invariant: it fills the first slot its search may use.
LEMMA InsertKeeps ==
  ASSUME TableInv, ~expanding, NEW k \in Key, NEW n \in 0 .. cap,
         NEW p \in Ptr, NEW e \in Nat, oinsert(k, p, e, n)
  PROVE  TableInv'
<1> DEFINE a   == At(Hash[k], n, cap)
           new == [hash |-> Hash[k], key |-> k, keylen |-> KeyLen[k], v |-> p,
                   tb |-> FALSE, rm |-> FALSE, expiratime |-> e]
<1>1. TableTypeOK /\ SizeCountsAll /\ LoadBounded /\ SlotsConsistent /\ Chains(ohashtabl, cap)
  BY DEF TableInv
<1>2. /\ cap \in Nat \ {0} /\ ohashtabl \in [0 .. cap - 1 -> Slot] /\ size \in Nat
      /\ Hash[k] \in Nat /\ KeyLen[k] \in Nat /\ NULL # k
  BY <1>1, HashAssumption, NullAssumption DEF TableTypeOK
<1>3. UNCHANGED <<cap, now, expanding, n_ohash, i>>
  BY DEF oinsert
<1>4. CASE InsertRet(k, n) \in Refused
  <2>1. UNCHANGED tvars
    BY <1>3, <1>4 DEF oinsert, tvars
  <2>2. QED
    BY <2>1 DEF tvars, TableInv, TableTypeOK, SizeCountsAll, LoadBounded, SlotsConsistent,
                NewArrayFilled, MigrationCounted, Occupied, Occ, Chains,
                NoArray, Calloc
<1>5. CASE InsertRet(k, n) \notin Refused
  <2>1. ~Full /\ n \in 0 .. cap - 1
    BY <1>2, <1>5 DEF InsertRet, Refused
  <2>2. a \in 0 .. cap - 1
    BY <1>2, <2>1, AtIsSlot
  <2>3. \A m \in 0 .. n - 1 : At(Hash[k], m, cap) \notin InsertStop(k)
    BY <2>1 DEF oinsert, Walks
  <2>4. /\ ohashtabl' = [ohashtabl EXCEPT ![a] = new]
        /\ size' = IF InsertRet(k, n) \in {"OK", "REMOVED"} THEN size + 1 ELSE size
    BY <1>5 DEF oinsert, Counted
  <2>5. /\ new \in Slot /\ new.key = k /\ new.hash = Hash[k] /\ ~new.rm /\ ~new.tb
        /\ Live(new) /\ ~Empty(new) /\ Match(new, new.key)
    BY <1>2 DEF Slot, Live, Empty, Match, Tagged
  <2>6. /\ ohashtabl' \in [0 .. cap - 1 -> Slot]
        /\ ohashtabl'[a] = new
        /\ \A j \in 0 .. cap - 1 : j # a => ohashtabl'[j] = ohashtabl[j]
    BY <1>2, <2>2, <2>4, <2>5
  <2> HIDE DEF new
  <2>7. SlotsConsistent'
    <3>1. ASSUME NEW j \in 0 .. cap - 1
          PROVE  /\ ohashtabl'[j].rm => ohashtabl'[j].tb /\ ohashtabl'[j].key = NULL
                 /\ Live(ohashtabl'[j]) => Match(ohashtabl'[j], ohashtabl'[j].key)
      BY <1>1, <2>5, <2>6 DEF SlotsConsistent
    <3>2. QED
      BY <1>3, <3>1 DEF SlotsConsistent
  <2>8. Chains(ohashtabl, cap)'
    <3>1. ASSUME NEW m \in 0 .. n - 1
          PROVE  ~Empty(ohashtabl[At(new.hash, m, cap)])
      <4>1. m \in 0 .. cap - 1
        BY <1>2, <2>1
      <4>2. At(Hash[k], m, cap) \in 0 .. cap - 1
        BY <1>2, <4>1, AtIsSlot
      <4>3. QED
        BY <2>3, <2>5, <4>2 DEF InsertStop, Empty
    <3>2. Chains([ohashtabl EXCEPT ![At(new.hash, n, cap)] = new], cap)
      BY <1>1, <1>2, <2>1, <2>5, <3>1, FillKeepsChains
    <3>3. QED
      BY <1>3, <2>4, <2>5, <3>2
  <2>9. /\ size' \in Nat /\ size' * 10 < cap * 7 + 10
        /\ Cardinality(Occupied') <= size'
    <3>1. Occupied \in SUBSET (0 .. cap - 1) /\ cap \in Nat /\ Cardinality(Occupied) <= size
      BY <1>1, <1>2 DEF Occupied, Occ, SizeCountsAll
    <3>2. Cardinality(Occupied) \in Nat
      BY <3>1, SlotCount
    <3>3. Occupied' = Occupied \cup {a}
      BY <1>2, <1>3, <2>2, <2>5, <2>6 DEF Occupied, Occ
    <3>4. size * 10 < cap * 7
      BY <1>2, <2>1 DEF Full
    <3>5. CASE InsertRet(k, n) \in {"OK", "REMOVED"}
      <4>1. size' = size + 1
        BY <2>4, <3>5
      <4>2. Cardinality(Occupied \cup {a}) <= Cardinality(Occupied) + 1
        BY <3>1, SlotCount
      <4>3. Occupied' \in SUBSET (0 .. cap - 1)
        BY <2>2, <3>1, <3>3
      <4>4. Cardinality(Occupied') \in Nat
        BY <3>1, <4>3, SlotCount
      <4>5. QED
        BY <1>2, <3>1, <3>2, <3>3, <3>4, <4>1, <4>2, <4>4
    <3>6. CASE InsertRet(k, n) \notin {"OK", "REMOVED"}
      <4>1. size' = size
        BY <2>4, <3>6
      <4>2. ohashtabl[a].key # NULL
        BY <2>1, <3>6 DEF InsertRet
      <4>3. Occupied' = Occupied
        BY <2>2, <3>3, <4>2 DEF Occupied, Occ
      <4>4. QED
        BY <1>2, <3>1, <3>4, <4>1, <4>3
    <3>7. QED
      BY <3>5, <3>6
  <2>10. TableTypeOK'
    BY <1>1, <1>3, <2>6, <2>9 DEF TableTypeOK, NoArray, Calloc
  <2>11. SizeCountsAll' /\ LoadBounded'
    BY <1>3, <2>9 DEF SizeCountsAll, LoadBounded
  <2>12. QED
    BY <1>3, <2>7, <2>8, <2>10, <2>11 DEF TableInv, NewArrayFilled, MigrationCounted
<1>6. QED
  BY <1>4, <1>5

\* expand_capacity starts on an empty array.
LEMMA ExpandBeginKeeps ==
  ASSUME TableInv, ~expanding, ExpandBegin
  PROVE  TableInv'
<1>1. /\ TableTypeOK /\ cap \in Nat \ {0} /\ size \in Nat /\ 2 * cap \in Nat
      /\ Occupied \in SUBSET (0 .. cap - 1)
  BY DEF TableInv, TableTypeOK, Occupied, Occ
<1>2. /\ expanding' /\ n_ohash' = Calloc(2 * cap) /\ i' = 0
      /\ UNCHANGED <<ohashtabl, cap, size, now>>
  BY DEF ExpandBegin
<1>3. \A m \in 0 .. 2 * cap - 1 : n_ohash'[m] = NullSlot
  BY <1>2 DEF Calloc
<1>4. TableTypeOK'
  BY <1>1, <1>2, CallocType DEF TableTypeOK
<1>5. NewArrayFilled'
  BY <1>2, <1>3 DEF NewArrayFilled
<1>6. MigrationCounted'
  <2>1. Occ(n_ohash', 2 * cap) = {}
    BY <1>3 DEF Occ, NullSlot
  <2>2. {j \in Occupied : j >= i'} = Occupied
    <3>1. \A j \in Occupied : j >= i'
      BY <1>1, <1>2
    <3>2. QED
      BY <3>1
  <2>3. Cardinality(Occupied) \in Nat /\ Cardinality(Occupied) <= size
    BY <1>1, SlotCount DEF TableInv, SizeCountsAll
  <2>4. Cardinality({}) = 0
    BY FS_EmptySet
  <2>5. Cardinality(Occ(n_ohash', 2 * cap))
          + Cardinality({j \in Occupied : j >= i'}) <= size
    BY <1>1, <2>1, <2>2, <2>3, <2>4
  <2>6. QED
    BY <1>2, <2>5 DEF MigrationCounted, Occupied
<1>7. Chains(n_ohash', 2 * cap)
  BY <1>3 DEF Chains, Live, NullSlot
<1>8. SizeCountsAll' /\ LoadBounded' /\ SlotsConsistent' /\ Chains(ohashtabl, cap)'
  BY <1>2 DEF TableInv, SizeCountsAll, LoadBounded, SlotsConsistent, Occupied
<1>9. QED
  BY <1>2, <1>4, <1>5, <1>6, <1>7, <1>8 DEF TableInv

\* One round of the migration loop: a live slot goes to the first slot of the
\* new array whose hash is 0, all others go nowhere.
LEMMA ExpandSlotKeeps ==
  ASSUME TableInv, ExpandSlot
  PROVE  TableInv'
<1> DEFINE s    == ohashtabl[i]
           c2   == 2 * cap
           rest == {j \in Occupied : j >= i}
<1>1. /\ TableTypeOK /\ SizeCountsAll /\ LoadBounded /\ SlotsConsistent /\ Chains(ohashtabl, cap)
      /\ NewArrayFilled /\ MigrationCounted /\ expanding /\ Chains(n_ohash, c2)
  BY DEF TableInv, ExpandSlot
<1>2. /\ cap \in Nat \ {0} /\ c2 \in Nat \ {0} /\ size \in Nat /\ i \in 0 .. cap - 1
      /\ ohashtabl \in [0 .. cap - 1 -> Slot] /\ n_ohash \in [0 .. c2 - 1 -> Slot]
      /\ s \in Slot /\ s.hash \in Nat
  <2>1. /\ cap \in Nat \ {0} /\ c2 \in Nat \ {0} /\ size \in Nat /\ i \in 0 .. cap - 1
        /\ ohashtabl \in [0 .. cap - 1 -> Slot] /\ n_ohash \in [0 .. c2 - 1 -> Slot]
    BY <1>1 DEF TableTypeOK, ExpandSlot
  <2>2. QED
    BY <2>1 DEF Slot
<1>3. i' = i + 1 /\ UNCHANGED <<ohashtabl, cap, size, now, expanding>>
  BY DEF ExpandSlot
<1>4. /\ Occupied \in SUBSET (0 .. cap - 1) /\ rest \in SUBSET (0 .. cap - 1)
      /\ Occ(n_ohash, c2) \in SUBSET (0 .. c2 - 1)
      /\ {j \in Occupied : j >= i + 1} = rest \ {i}
  BY <1>2 DEF Occupied, Occ
<1>5. /\ Cardinality(rest) \in Nat /\ Cardinality(Occ(n_ohash, c2)) \in Nat
      /\ Cardinality(Occ(n_ohash, c2)) + Cardinality(rest) <= size
      /\ Cardinality(rest \ {i}) \in Nat /\ Cardinality(rest \ {i}) <= Cardinality(rest)
      /\ i \in Occupied => Cardinality(rest \ {i}) = Cardinality(rest) - 1
  <2>1. Cardinality(rest) \in Nat
    BY <1>2, <1>4, SlotCount
  <2>2. Cardinality(Occ(n_ohash, c2)) \in Nat
    BY <1>2, <1>4, SlotCount
  <2>3. Cardinality(Occ(n_ohash, c2)) + Cardinality(rest) <= size
    BY <1>1 DEF MigrationCounted
  <2>4. rest \ {i} \in SUBSET rest /\ rest \ {i} \in SUBSET (0 .. cap - 1)
    BY <1>4
  <2>5. Cardinality(rest \ {i}) \in Nat
    BY <1>2, <2>4, SlotCount
  <2>6. Cardinality(rest \ {i}) <= Cardinality(rest)
    BY <1>2, <1>4, <2>4, SlotCount
  <2>7. ASSUME i \in Occupied
        PROVE  Cardinality(rest \ {i}) = Cardinality(rest) - 1
    <3>1. i \in rest
      BY <1>2, <2>7
    <3>2. QED
      BY <1>2, <1>4, <3>1, SlotCount
  <2>8. QED
    BY <2>1, <2>2, <2>3, <2>5, <2>6, <2>7
<1> HIDE DEF rest
<1>6. SizeCountsAll' /\ LoadBounded' /\ SlotsConsistent' /\ Chains(ohashtabl, cap)'
  BY <1>1, <1>3 DEF SizeCountsAll, LoadBounded, SlotsConsistent, Occupied
<1>7. CASE Live(s) /\ ~s.rm
  <2>1. PICK n \in 0 .. c2 - 1 :
          FirstFree(s.hash, n) /\ n_ohash' = [n_ohash EXCEPT ![At(s.hash, n, c2)] = s]
    BY <1>7 DEF ExpandSlot
  <2> DEFINE a == At(s.hash, n, c2)
  <2>2. a \in 0 .. c2 - 1
    BY <1>2, AtIsSlot
  <2>3. /\ n_ohash' \in [0 .. c2 - 1 -> Slot] /\ n_ohash'[a] = s
        /\ \A m \in 0 .. c2 - 1 : m # a => n_ohash'[m] = n_ohash[m]
    BY <1>2, <2>1, <2>2
  <2>4. TableTypeOK'
    BY <1>1, <1>2, <1>3, <2>3 DEF TableTypeOK
  <2>5. NewArrayFilled'
    <3>1. i \in 0 .. i' - 1 /\ 0 .. i - 1 \subseteq 0 .. i' - 1
      BY <1>2, <1>3
    <3>2. ASSUME NEW m \in 0 .. c2 - 1
          PROVE  \/ n_ohash'[m] = NullSlot
                 \/ \E j \in 0 .. i' - 1 : n_ohash'[m] = ohashtabl[j] /\ Live(n_ohash'[m])
      <4>1. CASE m = a
        BY <1>7, <2>3, <3>1, <4>1
      <4>2. CASE m # a
        BY <1>1, <2>3, <3>1, <4>2 DEF NewArrayFilled
      <4>3. QED
        BY <4>1, <4>2
    <3>3. QED
      BY <1>3, <3>2 DEF NewArrayFilled
  <2>6. Chains(n_ohash', c2)
    <3>1. ASSUME NEW m \in 0 .. n - 1
          PROVE  ~Empty(n_ohash[At(s.hash, m, c2)])
      <4>1. m \in 0 .. c2 - 1
        BY <1>2
      <4>2. At(s.hash, m, c2) \in 0 .. c2 - 1
        BY <1>2, <4>1, AtIsSlot
      <4>3. n_ohash[At(s.hash, m, c2)].hash # 0
        BY <2>1 DEF FirstFree
      <4>4. n_ohash[At(s.hash, m, c2)] # NullSlot
        BY <4>3 DEF NullSlot
      <4>5. QED
        BY <1>1, <4>2, <4>4 DEF NewArrayFilled, Live, Empty
    <3>2. ~Empty(s)
      BY <1>7 DEF Live, Empty
    <3>3. QED
      BY <1>1, <1>2, <2>1, <3>1, <3>2, FillKeepsChains
  <2>7. MigrationCounted'
    <3>1. Occ(n_ohash', c2) = Occ(n_ohash, c2) \cup {a}
      BY <1>7, <2>2, <2>3 DEF Occ, Live
    <3>2. Cardinality(Occ(n_ohash, c2) \cup {a}) <= Cardinality(Occ(n_ohash, c2)) + 1
      BY <1>2, <1>4, SlotCount
    <3>3. Cardinality(Occ(n_ohash', c2)) \in Nat
      <4>1. Occ(n_ohash', c2) \in SUBSET (0 .. c2 - 1)
        BY DEF Occ
      <4>2. QED
        BY <1>2, <4>1, SlotCount
    <3>4. i \in Occupied
      BY <1>2, <1>7 DEF Occupied, Occ, Live
    <3>5. Cardinality(Occ(n_ohash', c2)) + Cardinality(rest \ {i}) <= size
      <4>1. Cardinality(rest \ {i}) = Cardinality(rest) - 1
        BY <1>5, <3>4
      <4>2. Cardinality(Occ(n_ohash', c2)) <= Cardinality(Occ(n_ohash, c2)) + 1
        BY <3>1, <3>2
      <4>3. QED
        BY <1>2, <1>5, <3>3, <4>1, <4>2, OneMoved
    <3>6. QED
      BY <1>3, <1>4, <3>5 DEF MigrationCounted, Occupied
  <2>8. QED
    BY <1>3, <1>6, <2>4, <2>5, <2>6, <2>7 DEF TableInv
<1>8. CASE ~(Live(s) /\ ~s.rm)
  <2>1. n_ohash' = n_ohash
    BY <1>8 DEF ExpandSlot
  <2>2. TableTypeOK'
    BY <1>1, <1>2, <1>3, <2>1 DEF TableTypeOK
  <2>3. NewArrayFilled'
    <3>1. 0 .. i - 1 \subseteq 0 .. i' - 1
      BY <1>2, <1>3
    <3>2. QED
      BY <1>1, <1>3, <2>1, <3>1 DEF NewArrayFilled
  <2>4. MigrationCounted'
    <3>1. Cardinality(Occ(n_ohash, c2)) + Cardinality(rest \ {i}) <= size
      BY <1>2, <1>5
    <3>2. QED
      BY <1>3, <1>4, <2>1, <3>1 DEF MigrationCounted, Occupied
  <2>5. QED
    BY <1>1, <1>3, <1>6, <2>1, <2>2, <2>3, <2>4 DEF TableInv
<1>9. QED
  BY <1>7, <1>8

\* The swap: the counters and chains of the new array become the table's.
LEMMA ExpandEndKeeps ==
  ASSUME TableInv, ExpandEnd
  PROVE  TableInv'
<1> DEFINE c2 == 2 * cap
<1>1. /\ TableTypeOK /\ LoadBounded /\ SlotsConsistent
      /\ NewArrayFilled /\ MigrationCounted /\ expanding /\ Chains(n_ohash, c2)
  BY DEF TableInv, ExpandEnd
<1>2. /\ cap \in Nat \ {0} /\ c2 \in Nat \ {0} /\ size \in Nat /\ i = cap
      /\ n_ohash \in [0 .. c2 - 1 -> Slot]
  BY <1>1 DEF TableTypeOK, ExpandEnd
<1>3. /\ ohashtabl' = n_ohash /\ cap' = c2 /\ ~expanding'
      /\ n_ohash' = NoArray /\ i' = 0 /\ size' = size /\ now' = now
  BY DEF ExpandEnd
<1>4. TableTypeOK'
  BY <1>1, <1>2, <1>3 DEF TableTypeOK, NoArray, Calloc
<1>5. SizeCountsAll'
  <2>1. {j \in Occupied : j >= i} \in SUBSET (0 .. cap - 1)
    BY DEF Occupied, Occ
  <2>2. Cardinality({j \in Occupied : j >= i}) \in Nat
    BY <1>2, <2>1, SlotCount
  <2>3. Occ(n_ohash, c2) \in SUBSET (0 .. c2 - 1)
    BY DEF Occ
  <2>4. Cardinality(Occ(n_ohash, c2)) \in Nat
    BY <1>2, <2>3, SlotCount
  <2>5. Cardinality(Occ(n_ohash, c2)) + Cardinality({j \in Occupied : j >= i}) <= size
    BY <1>1 DEF MigrationCounted
  <2>6. Cardinality(Occ(n_ohash, c2)) <= size
    BY <1>2, <2>2, <2>4, <2>5
  <2>7. QED
    BY <1>3, <2>6 DEF SizeCountsAll, Occupied
<1>6. LoadBounded'
  <2>1. size * 10 < cap * 7 + 10
    BY <1>1 DEF LoadBounded
  <2>2. size * 10 < c2 * 7 + 10
    BY <1>2, <2>1
  <2>3. QED
    BY <1>3, <2>2 DEF LoadBounded
<1>7. SlotsConsistent'
  <2>1. ASSUME NEW m \in 0 .. c2 - 1
        PROVE  /\ n_ohash[m].rm => n_ohash[m].tb /\ n_ohash[m].key = NULL
               /\ Live(n_ohash[m]) => Match(n_ohash[m], n_ohash[m].key)
    <3>1. CASE n_ohash[m] = NullSlot
      BY <3>1 DEF NullSlot, Live
    <3>2. CASE \E j \in 0 .. i - 1 : n_ohash[m] = ohashtabl[j]
      BY <1>1, <1>2, <3>2 DEF SlotsConsistent
    <3>3. QED
      BY <1>1, <3>1, <3>2 DEF NewArrayFilled
  <2>2. QED
    BY <1>3, <2>1 DEF SlotsConsistent
<1>8. Chains(ohashtabl, cap)'
  BY <1>1, <1>3
<1>9. QED
  BY <1>3, <1>4, <1>5, <1>6, <1>7, <1>8 DEF TableInv, NewArrayFilled, MigrationCounted

-----------------------------------------------------------------------------
(* The theorems.                                                           *)

\* A fresh table satisfies the invariant.
LEMMA TableInitInv == TableInit => TableInv
<1> SUFFICES ASSUME TableInit PROVE TableInv
  OBVIOUS
<1>1. /\ cap \in Nat \ {0} /\ size = 0 /\ ~expanding
      /\ \A j \in 0 .. cap - 1 : ohashtabl[j] = NullSlot
  BY AskedCapacity DEF TableInit, Calloc
<1>2. TableTypeOK
  <2>1. ohashtabl \in [0 .. cap - 1 -> Slot]
    <3>1. cap \in Nat \ {0} /\ ohashtabl = Calloc(cap)
      BY AskedCapacity DEF TableInit
    <3>2. QED
      BY <3>1, CallocType
  <2>2. expanding = FALSE /\ now = 1 /\ i = 0 /\ n_ohash = NoArray
    BY DEF TableInit
  <2>3. cap \in Nat \ {0} /\ size = 0
    BY <1>1
  <2>4. i \in 0 .. cap /\ now \in Nat /\ size \in Nat
    BY <2>2, <2>3
  <2>5. expanding \in BOOLEAN
    BY <2>2
  <2>6. QED
    BY <2>1, <2>2, <2>3, <2>4, <2>5 DEF TableTypeOK
<1>3. SizeCountsAll
  <2>1. Occupied = {}
    BY <1>1 DEF Occupied, Occ, NullSlot
  <2>2. QED
    BY <1>1, <2>1, FS_EmptySet DEF SizeCountsAll
<1>4. LoadBounded
  BY <1>1 DEF LoadBounded
<1>5. SlotsConsistent /\ Chains(ohashtabl, cap)
  BY <1>1 DEF SlotsConsistent, Chains, Live, NullSlot
<1>6. NewArrayFilled /\ MigrationCounted
  BY <1>1 DEF NewArrayFilled, MigrationCounted
<1>7. expanding => Chains(n_ohash, 2 * cap)
  BY <1>1
<1>8. QED
  BY <1>2, <1>3, <1>4, <1>5, <1>6, <1>7 DEF TableInv

\* Every step of the table preserves the invariant.
LEMMA TableStepInv == TableInv /\ [TableNext]_tvars => TableInv'
<1> SUFFICES ASSUME TableInv, [TableNext]_tvars
             PROVE  TableInv'
  OBVIOUS
<1> USE ExpiraAssumption
<1>1. CASE Operate
  <2>1. ~expanding
    BY <1>1 DEF Operate
  <2>2. PICK k \in Key, n \in 0 .. cap :
          \/ \E p \in Ptr, e \in Expira : oinsert(k, p, e, n)
          \/ oget(k, n)
          \/ otake(k, n)
          \/ \E e \in Expira : oexpired(k, e, n)
    BY <1>1 DEF Operate
  <2>3. CASE \E p \in Ptr, e \in Expira : oinsert(k, p, e, n)
    BY <2>1, <2>3, InsertKeeps
  <2>4. CASE oget(k, n) \/ otake(k, n)
    BY <2>1, <2>4, SearchKeeps
  <2>5. CASE \E e \in Expira : oexpired(k, e, n)
    BY <2>1, <2>5, SearchKeeps
  <2>6. QED
    BY <2>2, <2>3, <2>4, <2>5
<1>2. CASE ~expanding /\ ExpandBegin
  BY <1>2, ExpandBeginKeeps
<1>3. CASE ExpandSlot
  BY <1>3, ExpandSlotKeeps
<1>4. CASE ExpandEnd
  BY <1>4, ExpandEndKeeps
<1>5. CASE Tick \/ UNCHANGED tvars
  <2>1. UNCHANGED <<ohashtabl, cap, size, expanding, n_ohash, i>>
    BY <1>5 DEF Tick, tvars
  <2>2. now' \in Nat
    BY <1>5 DEF Tick, tvars, TableInv, TableTypeOK
  <2>3. QED
    BY <2>1, <2>2 DEF TableInv, TableTypeOK, SizeCountsAll, LoadBounded, SlotsConsistent,
       NewArrayFilled, MigrationCounted, Occupied
<1>6. QED
  BY <1>1, <1>2, <1>3, <1>4, <1>5 DEF TableNext

\* The inductive invariant holds of the table in every behaviour.
THEOREM TableInvariant == TableSpec => []TableInv
<1>1. TableInit => TableInv
  BY TableInitInv
<1>2. TableInv /\ [TableNext]_tvars => TableInv'
  BY TableStepInv
<1>3. QED
  BY <1>1, <1>2, PTL DEF TableSpec

\* The arrays always have the lengths cap says and hold well-formed slots.
THEOREM TableTypeCorrect == TableSpec => []TableTypeOK
<1>1. TableInv => TableTypeOK
  BY DEF TableInv
<1>2. QED
  BY <1>1, TableInvariant, PTL

\* size never falls below the number of keys in the table: it cannot wrap.
THEOREM SizeCorrect == TableSpec => []SizeCountsAll
<1>1. TableInv => SizeCountsAll
  BY DEF TableInv
<1>2. QED
  BY <1>1, TableInvariant, PTL

\* The load never exceeds the load factor by more than the entry that crossed it.
THEOREM LoadCorrect == TableSpec => []LoadBounded
<1>1. TableInv => LoadBounded
  BY DEF TableInv
<1>2. QED
  BY <1>1, TableInvariant, PTL

\* What the invariant says of a search: it passes no empty slot on its way to
\* a live slot of its key.
LEMMA InvReaches == TableInv => LiveKeysReached
<1> SUFFICES ASSUME TableInv,
                    NEW j \in 0 .. cap - 1, NEW n \in 0 .. cap, Live(ohashtabl[j]),
                    Walks(TakeStop(ohashtabl[j].key), Hash[ohashtabl[j].key], n)
             PROVE  Found(ohashtabl[j].key, n)
  BY DEF LiveKeysReached
<1> DEFINE k == ohashtabl[j].key
           h == Hash[ohashtabl[j].key]
<1>1. /\ cap \in Nat \ {0} /\ Match(ohashtabl[j], k) /\ ohashtabl[j].hash = h
      /\ ohashtabl[j].hash \in Nat
  BY DEF TableInv, TableTypeOK, SlotsConsistent, Slot, Match, Tagged
<1>2. PICK d \in 0 .. cap - 1 :
        /\ At(h, d, cap) = j
        /\ \A m \in 0 .. d - 1 : ~Empty(ohashtabl[At(h, m, cap)])
  BY <1>1 DEF TableInv, Chains
<1>3. j \in TakeStop(k)
  BY <1>1 DEF TakeStop, Live
<1>4. n <= d
  <2>1. \A m \in 0 .. n - 1 : At(h, m, cap) \notin TakeStop(k)
    BY DEF Walks
  <2>2. d \notin 0 .. n - 1
    BY <1>2, <1>3, <2>1
  <2>3. QED
    BY <1>1, <2>2
<1>5. ~Empty(ohashtabl[At(h, n, cap)])
  <2>1. CASE n = d
    BY <1>2, <2>1 DEF Live, Empty
  <2>2. CASE n # d
    <3>1. n \in 0 .. d - 1
      BY <1>1, <1>4, <2>2
    <3>2. QED
      BY <1>2, <3>1
  <2>3. QED
    BY <2>1, <2>2
<1>6. n # cap
  BY <1>1, <1>4
<1>7. QED
  BY <1>5, <1>6 DEF Found

\* No sequence of operations hides a live key from the searches for it.
THEOREM LookupsCorrect == TableSpec => []LiveKeysReached
<1>1. TableInv => LiveKeysReached
  BY InvReaches
<1>2. QED
  BY <1>1, TableInvariant, PTL

\* oget's search for a key that has one live slot passes everything before that
\* slot, and ends there unless the slot's time is over.
LEMMA InvGets == TableInv => GetFinds
<1> SUFFICES ASSUME TableInv, DistinctTags,
                    NEW j \in 0 .. cap - 1, NEW n \in 0 .. cap,
                    Live(ohashtabl[j]), ~Late(ohashtabl[j]), Only(j),
                    Walks(GetStop(ohashtabl[j].key), Hash[ohashtabl[j].key], n)
             PROVE  GetResult(ohashtabl[j].key, n) = ohashtabl[j].v
  BY DEF GetFinds
<1> DEFINE k == ohashtabl[j].key
           h == Hash[ohashtabl[j].key]
<1>1. /\ cap \in Nat \ {0} /\ Match(ohashtabl[j], k) /\ ohashtabl[j].hash = h
      /\ ohashtabl[j].hash \in Nat /\ k \in Key
  BY DEF TableInv, TableTypeOK, SlotsConsistent, Slot, Match, Tagged, Live
<1>2. PICK d \in 0 .. cap - 1 :
        /\ At(h, d, cap) = j
        /\ \A m \in 0 .. d - 1 : ~Empty(ohashtabl[At(h, m, cap)])
  BY <1>1 DEF TableInv, Chains
<1>3. j \in GetStop(k)
  BY <1>1 DEF GetStop, Live, Match
<1>4. n <= d
  <2>1. \A m \in 0 .. n - 1 : At(h, m, cap) \notin GetStop(k)
    BY DEF Walks
  <2>2. d \notin 0 .. n - 1
    BY <1>2, <1>3, <2>1
  <2>3. QED
    BY <1>1, <2>2
<1>5. ~Empty(ohashtabl[At(h, n, cap)]) /\ n # cap
  <2>1. CASE n = d
    BY <1>1, <1>2, <2>1 DEF Live, Empty
  <2>2. CASE n # d
    <3>1. n \in 0 .. d - 1
      BY <1>1, <1>4, <2>2
    <3>2. QED
      BY <1>1, <1>2, <3>1
  <2>3. QED
    BY <2>1, <2>2
<1> DEFINE e == At(h, n, cap)
<1>6. e \in GetStop(k) /\ e \in 0 .. cap - 1
  BY <1>5 DEF Walks, GetStop
<1>7. e = j
  <2>1. ~ohashtabl[e].tb /\ Tagged(ohashtabl[e], k)
    BY <1>5, <1>6 DEF GetStop
  <2>2. Live(ohashtabl[e])
    BY <1>5, <2>1 DEF Live, Empty
  <2>3. Match(ohashtabl[e], ohashtabl[e].key) /\ ohashtabl[e].key \in Key
    BY <1>6, <2>2 DEF TableInv, TableTypeOK, SlotsConsistent, Slot, Live
  <2>4. Hash[ohashtabl[e].key] = Hash[k] /\ KeyLen[ohashtabl[e].key] = KeyLen[k]
    BY <2>1, <2>3 DEF Match, Tagged
  <2>5. ohashtabl[e].key = k
    BY <1>1, <2>3, <2>4 DEF DistinctTags
  <2>6. QED
    BY <1>6, <2>2, <2>5 DEF Only
<1>8. QED
  BY <1>5, <1>7 DEF GetResult

\* GET answers with a key's own entry, whatever expires around it.
THEOREM GetsCorrect == TableSpec => []GetFinds
<1>1. TableInv => GetFinds
  BY InvGets
<1>2. QED
  BY <1>1, TableInvariant, PTL

\* Below the load limit an insertion always finds a slot: no UNKNOWN_ERROR.
LEMMA InsertSucceeds ==
  ASSUME TableInv, NEW k \in Key, NEW n \in 0 .. cap,
         ~Full, Walks(InsertStop(k), Hash[k], n)
  PROVE  InsertRet(k, n) \notin Refused
<1>1. cap \in Nat \ {0} /\ size \in Nat /\ Hash[k] \in Nat /\ Cardinality(Occupied) <= size
  BY HashAssumption DEF TableInv, TableTypeOK, SizeCountsAll
<1>2. ASSUME n = cap PROVE FALSE
  <2>1. ASSUME NEW j \in 0 .. cap - 1 PROVE j \in Occupied
    <3>1. PICK m \in 0 .. cap - 1 : At(Hash[k], m, cap) = j
      BY <1>1, ProbeCovers
    <3>2. j \notin InsertStop(k)
      BY <1>2, <3>1 DEF Walks
    <3>3. QED
      BY <3>2 DEF InsertStop, Occupied, Occ
  <2>2. Occupied = 0 .. cap - 1
    BY <2>1 DEF Occupied, Occ
  <2>3. Cardinality(Occupied) = cap
    BY <1>1, <2>2, FS_Interval
  <2>4. size * 10 < cap * 7
    BY <1>1 DEF Full
  <2>5. QED
    BY <1>1, <2>3, <2>4
<1>3. QED
  BY <1>2 DEF InsertRet, Refused

\* One round of the migration loop overwrites no entry it has copied, when no
\* key hashes to 0.
LEMMA MigrationStep ==
  ASSUME NonZeroHash, TableInv, MigrationKeeps, ExpandSlot
  PROVE  MigrationKeeps'
<1> DEFINE s  == ohashtabl[i]
           c2 == 2 * cap
<1>1. /\ expanding /\ i \in 0 .. cap - 1 /\ cap \in Nat \ {0}
      /\ n_ohash \in [0 .. c2 - 1 -> Slot] /\ ohashtabl \in [0 .. cap - 1 -> Slot]
  BY DEF ExpandSlot, TableInv, TableTypeOK
<1>2. i' = i + 1 /\ UNCHANGED <<ohashtabl, cap, expanding>>
  BY DEF ExpandSlot
<1>3. ASSUME NEW j \in 0 .. i - 1, Live(ohashtabl[j])
      PROVE  \E m \in 0 .. c2 - 1 : n_ohash[m] = ohashtabl[j]
  BY <1>1, <1>3 DEF MigrationKeeps
<1>4. ASSUME NEW j \in 0 .. cap - 1, Live(ohashtabl[j])
      PROVE  ohashtabl[j].hash # 0
  <2>1. ohashtabl[j].key \in Key
    BY <1>1, <1>4 DEF Live, Slot
  <2>2. QED
    BY <1>4, <2>1 DEF TableInv, SlotsConsistent, Match, Tagged, NonZeroHash
<1>5. ASSUME Live(s) /\ ~s.rm,
             NEW j \in 0 .. i, Live(ohashtabl[j])
      PROVE  \E m \in 0 .. c2 - 1 : n_ohash'[m] = ohashtabl[j]
  <2>1. PICK n \in 0 .. c2 - 1 :
          FirstFree(s.hash, n) /\ n_ohash' = [n_ohash EXCEPT ![At(s.hash, n, c2)] = s]
    BY <1>5 DEF ExpandSlot
  <2> DEFINE a == At(s.hash, n, c2)
  <2>2. s.hash \in Nat /\ c2 \in Nat \ {0}
    BY <1>1 DEF Slot
  <2>3. a \in 0 .. c2 - 1 /\ n_ohash[a].hash = 0
    BY <2>1, <2>2, AtIsSlot DEF FirstFree
  <2>4. CASE j = i
    BY <1>1, <2>1, <2>3, <2>4
  <2>5. CASE j # i
    <3>1. j \in 0 .. i - 1 /\ j \in 0 .. cap - 1
      BY <1>1, <2>5
    <3>2. PICK m \in 0 .. c2 - 1 : n_ohash[m] = ohashtabl[j]
      BY <1>3, <1>5, <3>1
    <3>3. m # a
      BY <1>4, <1>5, <2>3, <3>1, <3>2
    <3>4. QED
      BY <1>1, <2>1, <3>2, <3>3
  <2>6. QED
    BY <2>4, <2>5
<1>6. ASSUME ~(Live(s) /\ ~s.rm), NEW j \in 0 .. i, Live(ohashtabl[j])
      PROVE  \E m \in 0 .. c2 - 1 : n_ohash'[m] = ohashtabl[j]
  <2>1. n_ohash' = n_ohash
    BY <1>6 DEF ExpandSlot
  <2>2. j # i
    BY <1>1, <1>6 DEF TableInv, SlotsConsistent, Live
  <2>3. j \in 0 .. i - 1
    BY <1>1, <2>2
  <2>4. QED
    BY <1>3, <1>6, <2>1, <2>3
<1>7. \A j \in 0 .. i : Live(ohashtabl[j]) => \E m \in 0 .. c2 - 1 : n_ohash'[m] = ohashtabl[j]
  BY <1>5, <1>6
<1>8. 0 .. i' - 1 = 0 .. i
  BY <1>1, <1>2
<1>9. QED
  BY <1>2, <1>7, <1>8 DEF MigrationKeeps

\* Expansion loses no live entry, for every hash function that is never 0.
THEOREM MigrationCorrect ==
  ASSUME NonZeroHash
  PROVE  TableSpec => []MigrationKeeps
<1>1. TableInit => MigrationKeeps
  BY DEF TableInit, MigrationKeeps
<1>2. TableInv /\ MigrationKeeps /\ [TableNext]_tvars => MigrationKeeps'
  <2> SUFFICES ASSUME TableInv, MigrationKeeps, [TableNext]_tvars
               PROVE  MigrationKeeps'
    OBVIOUS
  <2>1. CASE Operate
    <3>1. ~expanding /\ expanding' = expanding
      BY <2>1 DEF Operate, oinsert, oget, otake, oexpired
    <3>2. QED
      BY <3>1 DEF MigrationKeeps
  <2>2. CASE ~expanding /\ ExpandBegin
    BY <2>2 DEF ExpandBegin, MigrationKeeps
  <2>3. CASE ExpandSlot
    BY <2>3, MigrationStep
  <2>4. CASE ExpandEnd
    BY <2>4 DEF ExpandEnd, MigrationKeeps
  <2>5. CASE Tick \/ UNCHANGED tvars
    BY <2>5 DEF Tick, tvars, MigrationKeeps
  <2>6. QED
    BY <2>1, <2>2, <2>3, <2>4, <2>5 DEF TableNext
<1>3. QED
  BY <1>1, <1>2, TableInvariant, PTL DEF TableSpec

-----------------------------------------------------------------------------
(* The capacity.                                                           *)

\* A capacity only ever doubles.
LEMMA CapacityStep ==
  CapInv /\ [TableNext]_tvars => CapInv'
<1> SUFFICES ASSUME CapInv, [TableNext]_tvars PROVE CapInv'
  OBVIOUS
<1>1. CASE ExpandBegin
  BY <1>1 DEF ExpandBegin, CapInv, CapIsPower
<1>2. CASE ExpandEnd
  <2>1. expanding /\ cap' = 2 * cap /\ ~expanding'
    BY <1>2 DEF ExpandEnd
  <2>2. PICK n \in 0 .. WordBits - 1 : cap = Pow2[n]
    BY DEF CapInv, CapIsPower
  <2>3. 2 * Pow2[n] <= MaxCap
    BY <2>1, <2>2 DEF CapInv
  <2>4. n + 1 \in 0 .. WordBits - 1 /\ cap' = Pow2[n + 1]
    BY <2>1, <2>2, <2>3, DoublesInWord
  <2>5. QED
    BY <2>1, <2>4 DEF CapInv, CapIsPower
<1>3. CASE ~ExpandBegin /\ ~ExpandEnd
  <2>1. cap' = cap /\ expanding' = expanding
    BY <1>3 DEF TableNext, Operate, oinsert, oget, otake, oexpired, ExpandSlot, Tick, tvars
  <2>2. QED
    BY <2>1 DEF CapInv, CapIsPower
<1>4. QED
  BY <1>1, <1>2, <1>3

\* Then a probe visits what the masks give.
LEMMA PowerMasks ==
  CapIsPower => MaskExact
<1> SUFFICES ASSUME CapIsPower, NEW k \in Key
             PROVE  /\ At(Hash[k], 0, cap) = Masked(Hash[k], cap)
                    /\ \A n \in 0 .. cap - 1 :
                         At(Hash[k], n + 1, cap) = Masked(At(Hash[k], n, cap) + 1, cap)
  BY DEF MaskExact
<1>1. PICK m \in 0 .. WordBits : cap = Pow2[m]
  BY WordAssumption DEF CapIsPower
<1>2. cap \in Nat \ {0}
  <2>1. Pow2[m] \in Nat /\ 0 < Pow2[m]
    <3>1. Sums({})[m] \in Nat /\ Pow2[m] \in Nat /\ Sums({})[m] < Pow2[m]
      BY WordAssumption, SumsBound
    <3>2. QED
      BY <3>1
  <2>2. QED
    BY <1>1, <2>1
<1>3. PICK h \in Nat : h = Hash[k]
  BY HashAssumption
<1>4. h % cap \in 0 .. cap - 1
  BY <1>2, <1>3
<1>5. At(h, 0, cap) = Masked(h, cap)
  <2>1. Masked(h, cap) = (h % cap)
    BY <1>1, MaskIsRemainder
  <2>2. At(h, 0, cap) = (h % cap)
    BY <1>2, <1>4 DEF At
  <2>3. QED
    BY <2>1, <2>2
<1>6. ASSUME NEW n \in 0 .. cap - 1
      PROVE  At(h, n + 1, cap) = Masked(At(h, n, cap) + 1, cap)
  <2>1. PICK s \in 0 .. cap - 1 : s = At(h, n, cap)
    BY <1>2, AtIsSlot
  <2>2. PICK q \in 0 .. cap - 1 : q = h % cap
    BY <1>4
  <2>3. s = (IF q + n < cap THEN q + n ELSE q + n - cap)
    BY <1>2, <2>1, <2>2 DEF At
  <2>4. At(h, n + 1, cap) = IF q + (n + 1) < cap THEN q + (n + 1) ELSE q + (n + 1) - cap
    BY <1>2, <2>2 DEF At
  <2>5. At(h, n + 1, cap) = IF s + 1 < cap THEN s + 1 ELSE 0
    BY <1>2, <2>3, <2>4
  <2>6. Masked(s + 1, cap) = ((s + 1) % cap)
    BY <1>1, <1>2, MaskIsRemainder
  <2>7. ((s + 1) % cap) = IF s + 1 < cap THEN s + 1 ELSE 0
    <3>1. CASE s + 1 < cap
      <4>1. s + 1 \in 0 .. cap - 1 /\ s + 1 = cap * 0 + (s + 1)
        BY <1>2, <3>1
      <4>2. ((s + 1) % cap) = s + 1
        BY <1>2, <4>1, RemainderIs
      <4>3. QED
        BY <3>1, <4>2
    <3>2. CASE ~(s + 1 < cap)
      <4>1. s + 1 = cap * 1 + 0 /\ 0 \in 0 .. cap - 1
        BY <1>2, <3>2
      <4>2. ((s + 1) % cap) = 0
        BY <1>2, <4>1, RemainderIs
      <4>3. QED
        BY <3>2, <4>2
    <3>3. QED
      BY <3>1, <3>2
  <2>8. QED
    BY <2>1, <2>5, <2>6, <2>7
<1>7. QED
  BY <1>3, <1>5, <1>6

\* A fresh table's capacity is a power of two.
LEMMA CapacityInit == TableInit => CapInv
<1> SUFFICES ASSUME TableInit PROVE CapInv
  OBVIOUS
<1>1. PICK c \in Asked : cap = Capacity(c)
  BY DEF TableInit
<1>2. ~expanding
  BY DEF TableInit
<1>3. QED
  BY <1>1, <1>2, AskedCapacity DEF CapInv, CapIsPower

\* Every table is as large as a power of two that a word holds.
LEMMA CapacityInvariant == TableSpec => []CapInv
<1>1. QED
  BY CapacityInit, CapacityStep, PTL DEF TableSpec

\* The masks of the probe loops give the slots of the whole array one after the
\* other, `hash & (cap - 1)` being the remainder: initohash's shifts fill every bit
\* below the first, whatever capacity was asked for, and expansions double it.
THEOREM MaskCorrect == TableSpec => []MaskExact
<1>1. CapInv => MaskExact
  BY PowerMasks DEF CapInv
<1>2. QED
  BY <1>1, CapacityInvariant, PTL

\* The powers grow.
LEMMA PowersGrow ==
  ASSUME NEW m \in Nat, NEW n \in Nat, m <= n
  PROVE  Pow2[m] <= Pow2[n] /\ 0 < Pow2[m]
<1> DEFINE S == {l \in Nat : m <= l => Pow2[m] <= Pow2[l]}
<1>1. 0 \in S
  BY PowersDouble
<1>2. ASSUME NEW l \in S PROVE l + 1 \in S
  <2>1. Pow2[l + 1] = 2 * Pow2[l] /\ Pow2[l] \in Nat /\ Pow2[m] \in Nat
    BY PowersDouble
  <2>2. CASE m = l + 1
    BY <2>1, <2>2
  <2>3. CASE m # l + 1
    BY <2>1, <2>3
  <2>4. QED
    BY <2>2, <2>3
<1>3. S = Nat
  <2> HIDE DEF S
  <2>1. S \in SUBSET Nat
    BY DEF S
  <2>2. QED
    BY <1>1, <1>2, <2>1, NatSetInduction
<1>4. 0 < Pow2[m]
  <2>1. Sums({})[m] \in Nat /\ Pow2[m] \in Nat /\ Sums({})[m] < Pow2[m]
    BY SumsBound
  <2>2. QED
    BY <2>1
<1>5. QED
  BY <1>3, <1>4

\* For every capacity but 0, initohash's shifts give the least power of two that is
\* no smaller; they wrap to 0 exactly where a word holds none.
THEOREM CapacityRounds ==
  \A c \in Nat \ {0} : IsWord(c) =>
    IF Pow2[WordBits - 1] < c
      THEN Capacity(c) = 0
      ELSE /\ \E n \in 0 .. WordBits - 1 : Capacity(c) = Pow2[n]
           /\ c <= Capacity(c) /\ Capacity(c) < 2 * c
<1> SUFFICES ASSUME NEW c \in Nat \ {0}, IsWord(c)
             PROVE  IF Pow2[WordBits - 1] < c
                      THEN Capacity(c) = 0
                      ELSE /\ \E n \in 0 .. WordBits - 1 : Capacity(c) = Pow2[n]
                           /\ c <= Capacity(c) /\ Capacity(c) < 2 * c
  OBVIOUS
<1>0. WordBits \in Nat /\ WordBits - 1 \in Nat
  BY WordAssumption
<1>1. PICK t \in 0 .. WordBits - 1 : Top(c, t)
  BY TopBit
<1>2. PICK p \in Nat : p = Pow2[t] /\ p <= c /\ c < 2 * p /\ 0 < p
  BY <1>0, <1>1, PowersDouble, PowersGrow DEF Top
<1>3. CASE Pow2[WordBits - 1] < c
  <2>1. t = WordBits - 1
    <3>1. ASSUME t # WordBits - 1 PROVE FALSE
      <4>1. Pow2[t + 1] = 2 * p /\ Pow2[t + 1] <= Pow2[WordBits - 1]
        BY <1>0, <1>2, <3>1, PowersDouble, PowersGrow
      <4>2. Pow2[WordBits - 1] \in Nat
        BY <1>0, PowersDouble
      <4>3. QED
        BY <1>2, <1>3, <4>1, <4>2
    <3>2. QED
      BY <3>1
  <2>2. Bits(c) \cap Bits(c - 1) # {}
    <3>1. c # Pow2[t]
      BY <1>2, <1>3, <2>1
    <3>2. QED
      BY <1>1, <3>1, NoCommonBit
  <2>3. getnext2power(c) = 0
    BY <1>1, <2>1, NextPower
  <2>4. QED
    BY <1>3, <2>2, <2>3 DEF Capacity
<1>4. CASE ~(Pow2[WordBits - 1] < c)
  <2>1. Capacity(c) # 0
    <3>1. CASE Bits(c) \cap Bits(c - 1) = {}
      BY <3>1 DEF Capacity
    <3>2. CASE Bits(c) \cap Bits(c - 1) # {}
      <4>1. c # p
        BY <1>1, <1>2, <3>2, PowerBits
      <4>2. t # WordBits - 1
        BY <1>2, <1>4, <4>1
      <4>3. Capacity(c) = Pow2[t + 1]
        BY <1>1, <3>2, <4>2, NextPower DEF Capacity
      <4>4. Pow2[t + 1] = 2 * p
        BY <1>0, <1>2, PowersDouble
      <4>5. QED
        BY <1>2, <4>3, <4>4
    <3>3. QED
      BY <3>1, <3>2
  <2>2. QED
    BY <1>4, <2>1, CapacityIs
<1>5. QED
  BY <1>3, <1>4

=============================================================================
