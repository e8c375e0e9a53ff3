---- MODULE XXH3Vectors_proofs ----
(* Every vector variant of XXH3's loops computes what the scalar one computes, *)
(* for words of any width, any shift and multiplier, and any exclusive or.     *)
EXTENDS XXH3Vectors, NatLemmas, SequenceTheorems, TLAPS

------------------------------------------------------------------------------
(* Arithmetic. *)

Words == 0..Word - 1

LEMMA WordsAre ==
  /\ Half \in Nat \ {0} /\ Word \in Nat \ {0} /\ Word = Half * Half
  /\ Shift \in Nat \ {0} /\ PRIME32_1 \in 0..Half - 1
<1>1. Half \in Nat \ {0} /\ Shift \in Nat \ {0} /\ PRIME32_1 \in 0..Half - 1
  BY VectorsAssumption
<1> QED
  BY <1>1 DEF Word

LEMMA XorIsWord ==
  ASSUME NEW x \in Words, NEW y \in Words
  PROVE  xor(x, y) \in Words
  BY VectorsAssumption DEF Words, Word

\* The quotient and the remainder of a division are the only ones.
LEMMA Divided ==
  ASSUME NEW m \in Nat \ {0}, NEW x \in Nat, NEW q \in Nat, NEW r \in 0..m - 1,
         x = m * q + r
  PROVE  x % m = r /\ x \div m = q
  OBVIOUS

LEMMA Division ==
  ASSUME NEW m \in Nat \ {0}, NEW x \in Nat
  PROVE  x \div m \in Nat /\ x % m \in 0..m - 1 /\ x = m * (x \div m) + (x % m)
  OBVIOUS

\* The sum of two words, kept in its width.
Plus(a, b) == (a + b) % Word

LEMMA RemainderPlus ==
  ASSUME NEW m \in Nat \ {0}, NEW a \in Nat, NEW b \in Nat
  PROVE  ((a % m) + b) % m = (a + b) % m
<1>1. PICK q \in Nat, r \in 0..m - 1 : a = m * q + r /\ r = a % m
  BY Division
<1>2. PICK p \in Nat, s \in 0..m - 1 : r + b = m * p + s
  <2>1. r + b \in Nat
    BY <1>1
  <2> QED
    BY <2>1, Division
<1>3. a + b = m * (q + p) + s /\ q + p \in Nat
  BY <1>1, <1>2
<1>4. (a + b) % m = s
  <2>1. a + b \in Nat /\ s \in 0..m - 1
    BY <1>2
  <2>2. PICK x \in Nat : x = a + b
    BY <2>1
  <2>3. PICK k \in Nat : k = q + p
    BY <1>3
  <2>4. x = m * k + s
    BY <1>3, <2>2, <2>3
  <2>5. x % m = s
    BY <2>1, <2>4, Divided
  <2> QED
    BY <2>2, <2>5
<1>5. (r + b) % m = s
  <2>1. PICK x \in Nat : x = r + b /\ x = m * p + s
    <3>1. r + b \in Nat
      BY <1>1
    <3> QED
      BY <1>2, <3>1
  <2>2. x % m = s
    BY <1>2, <2>1, Divided
  <2> QED
    BY <2>1, <2>2
<1> QED
  BY <1>1, <1>4, <1>5

LEMMA PlusIs ==
  ASSUME NEW a \in Nat, NEW b \in Nat, NEW c \in Nat
  PROVE  /\ Plus(a, b) \in Words
         /\ Plus(a, b) = Plus(b, a)
         /\ Plus(Plus(a, b), c) = Plus(a, Plus(b, c))
         /\ Plus(Plus(a, b), c) = Plus(Plus(a, c), b)
         /\ Plus(a, b % Word) = Plus(a, b)
         /\ Plus(a % Word, b) = Plus(a, b)
<1>1. Word \in Nat \ {0}
  BY WordsAre
<1>2. Plus(a, b) \in Words /\ Plus(b, c) \in Words
  BY <1>1, Division DEF Plus, Words
<1>3. ASSUME NEW x \in Nat, NEW y \in Nat, NEW z \in Nat
      PROVE  Plus(Plus(x, y), z) = (x + y + z) % Word
  <2>1. x + y \in Nat
    OBVIOUS
  <2>2. (((x + y) % Word) + z) % Word = (x + y + z) % Word
    BY <1>1, <2>1, RemainderPlus
  <2> QED
    BY <2>2 DEF Plus
<1>4. ASSUME NEW x \in Nat, NEW y \in Nat PROVE Plus(x, y) = Plus(y, x)
  BY DEF Plus
<1>5. Plus(Plus(a, b), c) = Plus(a, Plus(b, c))
  <2>1. Plus(b, c) \in Nat
    BY <1>1, <1>2 DEF Words
  <2>2. Plus(a, Plus(b, c)) = (b + c + a) % Word
    BY <1>3, <1>4, <2>1
  <2> QED
    BY <1>3, <2>2
<1>6. Plus(Plus(a, b), c) = Plus(Plus(a, c), b)
  BY <1>3
<1>7. Plus(a % Word, b) = Plus(a, b)
  BY <1>1, RemainderPlus DEF Plus
<1>8. Plus(a, b % Word) = Plus(a, b)
  <2>1. b % Word \in Nat
    BY <1>1, Division
  <2>2. Plus(b % Word, a) = Plus(b, a)
    BY <1>1, RemainderPlus DEF Plus
  <2> QED
    BY <1>4, <2>1, <2>2
<1> QED
  BY <1>2, <1>4, <1>5, <1>6, <1>7, <1>8

\* A word is its two half-words.
LEMMA HalvesOf ==
  ASSUME NEW x \in Words
  PROVE  /\ lo(x) \in 0..Half - 1 /\ hi(x) \in 0..Half - 1
         /\ x = Half * hi(x) + lo(x)
         /\ lo(hi(x)) = hi(x)
<1>1. Half \in Nat \ {0} /\ x \in Nat /\ x < Half * Half
  BY WordsAre DEF Words
<1>2. PICK q, r : q = x \div Half /\ r = x % Half
  OBVIOUS
<1>3. q \in Nat /\ r \in 0..Half - 1 /\ x = Half * q + r
  BY <1>1, <1>2, Division
<1>4. q \in 0..Half - 1
  <2> SUFFICES ASSUME ~(q < Half) PROVE FALSE
    BY <1>1, <1>3
  <2>1. PICK d \in Nat : q = Half + d
    <3>1. q - Half \in Nat /\ q = Half + (q - Half)
      BY <1>1, <1>3
    <3> QED
      BY <3>1
  <2>2. Half * d \in Nat
    BY <1>1
  <2>3. Half * q = Half * Half + Half * d
    BY <1>1, <2>1
  <2> QED
    BY <1>1, <1>3, <2>2, <2>3
<1>5. q % Half = q
  BY <1>1, <1>4
<1> QED
  BY <1>2, <1>3, <1>4, <1>5 DEF lo, hi

\* Two half-words make a word.
LEMMA Joined ==
  ASSUME NEW a \in 0..Half - 1, NEW b \in 0..Half - 1
  PROVE  /\ a + Half * b \in Words
         /\ lo(a + Half * b) = a /\ hi(a + Half * b) = b
<1>1. Half \in Nat \ {0} /\ Word = Half * Half
  BY WordsAre
<1>2. Half * b \in Nat /\ Half * (b + 1) = Half * b + Half
  BY <1>1
<1>3. Half * (b + 1) <= Half * Half
  <2>1. PICK d \in Nat : Half = b + 1 + d
    <3>1. Half - (b + 1) \in Nat /\ Half = b + 1 + (Half - (b + 1))
      BY <1>1
    <3> QED
      BY <3>1
  <2>2. Half * Half = Half * (b + 1) + Half * d /\ Half * d \in Nat /\ Half * (b + 1) \in Nat
    BY <1>1, <2>1
  <2> QED
    BY <2>2
<1>4. a + Half * b \in Nat /\ a + Half * b < Word
  BY <1>1, <1>2, <1>3
<1>5. a + Half * b = Half * b + a
  BY <1>2
<1>6. (a + Half * b) % Half = a /\ (a + Half * b) \div Half = b
  BY <1>1, <1>4, <1>5, Divided
<1> QED
  BY <1>4, <1>6, WordsAre DEF Words, lo, hi

\* A product of half-words is a word.
LEMMA ProductIsWord ==
  ASSUME NEW a \in 0..Half - 1, NEW b \in 0..Half - 1
  PROVE  a * b \in Words
<1>1. Half \in Nat \ {0} /\ Word = Half * Half
  BY WordsAre
<1>0. a \in Nat /\ b \in Nat
  BY <1>1
<1>2. a * b \in Nat /\ Half * b \in Nat
  BY <1>0, <1>1
<1>3. a * b <= Half * b
  <2>1. PICK d \in Nat : Half = a + d
    <3>1. Half - a \in Nat /\ Half = a + (Half - a)
      BY <1>1
    <3> QED
      BY <3>1
  <2>2. Half * b = a * b + d * b /\ d * b \in Nat
    BY <1>1, <2>1
  <2> QED
    BY <1>2, <2>2
<1>4. Half * b < Word
  <2>1. 0 + Half * b \in Words
    BY <1>1, Joined
  <2> QED
    BY <1>1, <1>2, <2>1 DEF Words
<1> QED
  BY <1>1, <1>2, <1>3, <1>4 DEF Words

------------------------------------------------------------------------------
(* What a round does to a lane. *)

Octet   == [0..7 -> Words]
Secrets == [0..23 -> Words]

\* The other lane of a lane's pair.
nb(j) == IF j % 2 = 0 THEN j + 1 ELSE j - 1

\* The product of a word's halves, and a lane after a round.
Product(x)            == lo(x) * hi(x)
MixedLane(a, d, o, k) == Plus(Plus(a, o), Product(xor(d, k)))

LEMMA ProductIs ==
  ASSUME NEW x \in Words
  PROVE  /\ Product(x) \in Words
         /\ XXH_mult32to64(x, hi(x)) = Product(x)
<1>1. Product(x) \in Words
  BY HalvesOf, ProductIsWord DEF Product
<1>2. XXH_mult32to64(x, hi(x)) = Product(x)
  BY HalvesOf, Zenon DEF Product, XXH_mult32to64
<1> QED
  BY <1>1, <1>2

LEMMA MixedIsWord ==
  ASSUME NEW a \in Words, NEW d \in Words, NEW o \in Words, NEW k \in Words
  PROVE  /\ MixedLane(a, d, o, k) \in Words
         /\ xor(d, k) \in Words /\ Product(xor(d, k)) \in Words
<1>1. Words \subseteq Nat
  BY DEF Words
<1>2. xor(d, k) \in Words /\ Product(xor(d, k)) \in Words
  BY XorIsWord, ProductIs
<1>3. Plus(a, o) \in Words
  BY <1>1, PlusIs
<1>4. Plus(Plus(a, o), Product(xor(d, k))) \in Words
  <2>1. PICK p, q \in Words : p = Plus(a, o) /\ q = Product(xor(d, k))
    BY <1>2, <1>3
  <2>2. Plus(p, q) \in Words
    BY <1>1, PlusIs
  <2> QED
    BY <2>1, <2>2
<1> QED
  BY <1>2, <1>4 DEF MixedLane

\* A lane's pair lies in the same vector, whatever the vector's width.
LEMMA PairInside ==
  ASSUME NEW w \in {2, 4, 8}, NEW j \in 0..w - 1
  PROVE  nb(j) \in 0..w - 1
<1>1. j \in 0..7
  OBVIOUS
<1> QED
  BY <1>1 DEF nb

LEMMA HalvesAt ==
  ASSUME NEW a, NEW n \in Nat
  PROVE  HalfOf(a, 2 * n) = lo(a[n]) /\ HalfOf(a, 2 * n + 1) = hi(a[n])
<1>1. (2 * n) % 2 = 0 /\ (2 * n) \div 2 = n
  OBVIOUS
<1>2. (2 * n + 1) % 2 = 1 /\ (2 * n + 1) \div 2 = n
  OBVIOUS
<1> QED
  BY <1>1, <1>2 DEF HalfOf

\* The four half-words of a pair, shuffled.
LEMMA Shuffled ==
  ASSUME NEW w \in {2, 4, 8}, NEW a \in [0..w - 1 -> Words], NEW j \in 0..w - 1, NEW sel
  PROVE  shuffle_epi32(a, sel)[j] =
           IF j % 2 = 0 THEN HalfOf(a, 2 * j + sel[1]) + Half * HalfOf(a, 2 * j + sel[2])
           ELSE HalfOf(a, 2 * (j - 1) + sel[3]) + Half * HalfOf(a, 2 * (j - 1) + sel[4])
<1>1. j \in 0..7 /\ j \in DOMAIN a
  OBVIOUS
<1>2. CASE j % 2 = 0
  <2>1. 2 * (j % 2) + 1 = 1 /\ 2 * (j % 2) + 2 = 2 /\ 2 * (j - (j % 2)) = 2 * j
    BY <1>1, <1>2
  <2> QED
    BY <1>1, <1>2, <2>1, Zenon DEF shuffle_epi32
<1>3. CASE j % 2 # 0
  <2>1. 2 * (j % 2) + 1 = 3 /\ 2 * (j % 2) + 2 = 4 /\ 2 * (j - (j % 2)) = 2 * (j - 1)
    BY <1>1, <1>3
  <2> QED
    BY <1>1, <1>3, <2>1, Zenon DEF shuffle_epi32
<1> QED
  BY <1>2, <1>3

LEMMA SwappedIs ==
  ASSUME NEW w \in {2, 4, 8}, NEW a \in [0..w - 1 -> Words], NEW j \in 0..w - 1
  PROVE  Swapped(a)[j] = a[nb(j)]
<1>1. j \in 0..7 /\ nb(j) \in 0..w - 1 /\ nb(j) \in Nat
  BY PairInside
<1>2. a[nb(j)] = lo(a[nb(j)]) + Half * hi(a[nb(j)])
  <2>1. PICK x \in Words : x = a[nb(j)]
    BY <1>1
  <2>2. x = Half * hi(x) + lo(x) /\ lo(x) \in Nat /\ Half * hi(x) \in Nat
    BY HalvesOf, WordsAre
  <2>3. x = lo(x) + Half * hi(x)
    BY <2>2
  <2> QED
    BY <2>1, <2>3
<1>3. Swapped(a)[j] =
        IF j % 2 = 0 THEN HalfOf(a, 2 * j + 2) + Half * HalfOf(a, 2 * j + 3)
        ELSE HalfOf(a, 2 * (j - 1) + 0) + Half * HalfOf(a, 2 * (j - 1) + 1)
  <2>1. PICK sel : sel = <<2, 3, 0, 1>>
    OBVIOUS
  <2>2. sel[1] = 2 /\ sel[2] = 3 /\ sel[3] = 0 /\ sel[4] = 1
    BY <2>1
  <2>3. shuffle_epi32(a, sel)[j] =
           IF j % 2 = 0 THEN HalfOf(a, 2 * j + sel[1]) + Half * HalfOf(a, 2 * j + sel[2])
           ELSE HalfOf(a, 2 * (j - 1) + sel[3]) + Half * HalfOf(a, 2 * (j - 1) + sel[4])
    BY Shuffled
  <2>4. Swapped(a) = shuffle_epi32(a, sel)
    BY <2>1, Zenon DEF Swapped
  <2> QED
    BY <2>2, <2>3, <2>4, Zenon
<1>4. CASE j % 2 = 0
  <2>1. PICK n \in Nat : n = nb(j) /\ 2 * j + 2 = 2 * n /\ 2 * j + 3 = 2 * n + 1
    BY <1>1, <1>4 DEF nb
  <2>2. HalfOf(a, 2 * n) = lo(a[n]) /\ HalfOf(a, 2 * n + 1) = hi(a[n])
    BY HalvesAt
  <2> QED
    BY <1>2, <1>3, <1>4, <2>1, <2>2, Zenon
<1>5. CASE j % 2 # 0
  <2>1. PICK n \in Nat : n = nb(j) /\ 2 * (j - 1) + 0 = 2 * n /\ 2 * (j - 1) + 1 = 2 * n + 1
    BY <1>1, <1>5 DEF nb
  <2>2. HalfOf(a, 2 * n) = lo(a[n]) /\ HalfOf(a, 2 * n + 1) = hi(a[n])
    BY HalvesAt
  <2> QED
    BY <1>2, <1>3, <1>5, <2>1, <2>2, Zenon
<1> QED
  BY <1>4, <1>5

LEMMA OddsDownIs ==
  ASSUME NEW w \in {2, 4, 8}, NEW a \in [0..w - 1 -> Words], NEW j \in 0..w - 1
  PROVE  lo(OddsDown(a)[j]) = hi(a[j])
<1>1. j \in 0..7 /\ j \in Nat
  OBVIOUS
<1>2. OddsDown(a)[j] =
        IF j % 2 = 0 THEN HalfOf(a, 2 * j + 1) + Half * HalfOf(a, 2 * j + 0)
        ELSE HalfOf(a, 2 * (j - 1) + 3) + Half * HalfOf(a, 2 * (j - 1) + 0)
  <2>1. PICK sel : sel = <<1, 0, 3, 0>>
    OBVIOUS
  <2>2. sel[1] = 1 /\ sel[2] = 0 /\ sel[3] = 3 /\ sel[4] = 0
    BY <2>1
  <2>3. shuffle_epi32(a, sel)[j] =
           IF j % 2 = 0 THEN HalfOf(a, 2 * j + sel[1]) + Half * HalfOf(a, 2 * j + sel[2])
           ELSE HalfOf(a, 2 * (j - 1) + sel[3]) + Half * HalfOf(a, 2 * (j - 1) + sel[4])
    BY Shuffled
  <2>4. OddsDown(a) = shuffle_epi32(a, sel)
    BY <2>1, Zenon DEF OddsDown
  <2> QED
    BY <2>2, <2>3, <2>4, Zenon
<1>3. HalfOf(a, 2 * j + 1) = hi(a[j]) /\ HalfOf(a, 2 * j) = lo(a[j])
  BY <1>1, HalvesAt
<1>4. hi(a[j]) \in 0..Half - 1 /\ lo(a[j]) \in 0..Half - 1
  BY HalvesOf
<1>5. CASE j % 2 = 0
  <2>1. 2 * j + 0 = 2 * j
    BY <1>1
  <2>2. OddsDown(a)[j] = hi(a[j]) + Half * lo(a[j])
    BY <1>2, <1>3, <1>5, <2>1, Zenon
  <2> QED
    BY <1>4, <2>2, Joined
<1>6. CASE j % 2 # 0
  <2>1. PICK m \in 0..w - 1 : m = j - 1 /\ 2 * (j - 1) + 0 = 2 * m /\ 2 * (j - 1) + 3 = 2 * j + 1
    BY <1>1, <1>6
  <2>2. HalfOf(a, 2 * m) = lo(a[m]) /\ lo(a[m]) \in 0..Half - 1
    <3>1. m \in Nat /\ a[m] \in Words
      OBVIOUS
    <3> QED
      BY <3>1, HalvesAt, HalvesOf
  <2>3. OddsDown(a)[j] = hi(a[j]) + Half * lo(a[m])
    BY <1>2, <1>3, <1>6, <2>1, <2>2, Zenon
  <2> QED
    BY <1>4, <2>2, <2>3, Joined
<1> QED
  BY <1>5, <1>6

------------------------------------------------------------------------------
(* The rounds of the vector units. *)

\* The instructions work lane by lane.
LEMMA AddAt == ASSUME NEW a, NEW b, NEW j \in DOMAIN a PROVE Add2(a, b)[j] = Plus(a[j], b[j])
  BY Zenon DEF Add2, Plus
LEMMA MulAt ==
  ASSUME NEW a, NEW b, NEW j \in DOMAIN a
  PROVE  mul_epu32(a, b)[j] = XXH_mult32to64(a[j], b[j])
  BY Zenon DEF mul_epu32
LEMMA ShiftAt == ASSUME NEW a, NEW j \in DOMAIN a PROVE ShiftHi(a)[j] = hi(a[j])
  BY Zenon DEF ShiftHi
LEMMA NeighbourAt == ASSUME NEW a, NEW j \in DOMAIN a PROVE Neighbour(a)[j] = a[nb(j)]
  BY Zenon DEF Neighbour, nb

LEMMA Domains ==
  ASSUME NEW a, NEW b
  PROVE  /\ DOMAIN Add2(a, b) = DOMAIN a /\ DOMAIN Xor2(a, b) = DOMAIN a
         /\ DOMAIN mul_epu32(a, b) = DOMAIN a /\ DOMAIN ShiftHi(a) = DOMAIN a
         /\ DOMAIN ToHi(a) = DOMAIN a /\ DOMAIN Neighbour(a) = DOMAIN a
         /\ DOMAIN shuffle_epi32(a, b) = DOMAIN a /\ DOMAIN Primes(a) = DOMAIN a
  BY Zenon DEF Add2, Xor2, mul_epu32, ShiftHi, ToHi, Neighbour, shuffle_epi32, Primes

\* The sums of a lane, its pair's data and its product, in any order.
LEMMA AnyOrder ==
  ASSUME NEW a \in Words, NEW o \in Words, NEW p \in Words
  PROVE  /\ Plus(p, Plus(a, o)) = Plus(Plus(a, o), p)
         /\ Plus(Plus(a, p), o) = Plus(Plus(a, o), p)
         /\ Plus(a, Plus(p, o)) = Plus(Plus(a, o), p)
         /\ Plus(a, Plus(o, p)) = Plus(Plus(a, o), p)
<1>1. a \in Nat /\ o \in Nat /\ p \in Nat
  BY DEF Words
<1>2. PICK s \in Words : s = Plus(a, o)
  BY <1>1, PlusIs
<1>3. s \in Nat
  BY DEF Words
<1>4. Plus(p, s) = Plus(s, p)
  BY <1>1, <1>3, PlusIs
<1>5. Plus(Plus(a, p), o) = Plus(Plus(a, o), p) /\ Plus(Plus(a, o), p) = Plus(a, Plus(o, p))
  BY <1>1, PlusIs
<1>6. Plus(p, o) = Plus(o, p)
  BY <1>1, PlusIs
<1> QED
  BY <1>2, <1>4, <1>5, <1>6, Zenon

\* A lane j of vectors of w words, and what a round takes for it: the data
\* with the key, the accumulator, the pair's data and the product.
Vector(w) == [0..w - 1 -> Words]

Operands(w, acc, data, key, j, x, a, o, p) ==
  /\ x = Xor2(data, key) /\ x \in Vector(w)
  /\ j \in DOMAIN x /\ j \in DOMAIN acc /\ j \in DOMAIN data
  /\ acc[j] = a /\ data[nb(j)] = o /\ Product(x[j]) = p
  /\ a \in Words /\ o \in Words /\ p \in Words /\ x[j] \in Words
  /\ XXH_mult32to64(x[j], hi(x[j])) = p
  /\ Swapped(data)[j] = o /\ j \in DOMAIN Swapped(data)
  /\ lo(OddsDown(x)[j]) = hi(x[j])
  /\ MixedLane(acc[j], data[j], data[nb(j)], key[j]) = Plus(Plus(a, o), p)

LEMMA OperandsAre ==
  ASSUME NEW w \in {2, 4, 8}, NEW acc \in Vector(w), NEW data \in Vector(w),
         NEW key \in Vector(w), NEW j \in 0..w - 1
  PROVE  \E x, a, o, p : Operands(w, acc, data, key, j, x, a, o, p)
<1>1. \A m \in 0..w - 1 : /\ acc[m] \in Words /\ data[m] \in Words /\ key[m] \in Words
                          /\ xor(data[m], key[m]) \in Words
  BY XorIsWord DEF Vector
<1>2. PICK x : x = Xor2(data, key)
  OBVIOUS
<1>3. DOMAIN acc = 0..w - 1 /\ DOMAIN data = 0..w - 1 /\ DOMAIN key = 0..w - 1
  BY DEF Vector
<1>4. x = [m \in 0..w - 1 |-> xor(data[m], key[m])]
  BY <1>2, <1>3, Zenon DEF Xor2
<1>5. x \in Vector(w) /\ x[j] = xor(data[j], key[j]) /\ DOMAIN x = 0..w - 1
  BY <1>1, <1>4 DEF Vector
<1>6. x[j] \in Words /\ Product(x[j]) \in Words
      /\ XXH_mult32to64(x[j], hi(x[j])) = Product(x[j])
  BY <1>1, <1>5, ProductIs
<1>7. nb(j) \in 0..w - 1
  BY PairInside
<1>8. Swapped(data)[j] = data[nb(j)]
  BY SwappedIs DEF Vector
<1>9. lo(OddsDown(x)[j]) = hi(x[j])
  BY <1>5, OddsDownIs DEF Vector
<1>10. DOMAIN Swapped(data) = DOMAIN data
  BY Domains, Zenon DEF Swapped
<1>11. MixedLane(acc[j], data[j], data[nb(j)], key[j])
         = Plus(Plus(acc[j], data[nb(j)]), Product(x[j]))
  BY <1>5, Zenon DEF MixedLane
<1>12. acc[j] \in Words /\ data[nb(j)] \in Words
  BY <1>1, <1>7
<1> QED
  BY <1>2, <1>3, <1>5, <1>6, <1>8, <1>9, <1>10, <1>11, <1>12, Zenon DEF Operands

LEMMA ShiftMixes ==
  ASSUME NEW w \in {2, 4, 8}, NEW acc \in Vector(w), NEW data \in Vector(w),
         NEW key \in Vector(w), NEW j \in 0..w - 1
  PROVE  RoundShift(acc, data, key)[j] = MixedLane(acc[j], data[j], data[nb(j)], key[j])
<1>1. PICK x, a, o, p : Operands(w, acc, data, key, j, x, a, o, p)
  BY OperandsAre
<1>2. mul_epu32(x, ShiftHi(x))[j] = p
  BY <1>1, MulAt, ShiftAt DEF Operands
<1>3. Add2(acc, Swapped(data))[j] = Plus(a, o)
  BY <1>1, AddAt DEF Operands
<1>4. RoundShift(acc, data, key)[j] = Plus(p, Plus(a, o))
  <2>1. RoundShift(acc, data, key) = Add2(mul_epu32(x, ShiftHi(x)), Add2(acc, Swapped(data)))
    BY <1>1, Zenon DEF Operands, RoundShift
  <2>2. j \in DOMAIN mul_epu32(x, ShiftHi(x))
    BY <1>1, Domains DEF Operands
  <2> QED
    BY <1>2, <1>3, <2>1, <2>2, AddAt
<1>5. Plus(p, Plus(a, o)) = Plus(Plus(a, o), p)
  BY <1>1, AnyOrder DEF Operands
<1> QED
  BY <1>1, <1>4, <1>5, Zenon DEF Operands

LEMMA ShuffleMixes ==
  ASSUME NEW w \in {2, 4, 8}, NEW acc \in Vector(w), NEW data \in Vector(w),
         NEW key \in Vector(w), NEW j \in 0..w - 1
  PROVE  RoundShuffle(acc, data, key)[j] = MixedLane(acc[j], data[j], data[nb(j)], key[j])
<1>1. PICK x, a, o, p : Operands(w, acc, data, key, j, x, a, o, p)
  BY OperandsAre
<1>2. mul_epu32(x, OddsDown(x))[j] = p
  <2>1. mul_epu32(x, OddsDown(x))[j] = lo(x[j]) * lo(OddsDown(x)[j])
    BY <1>1, MulAt DEF Operands, XXH_mult32to64
  <2> QED
    BY <1>1, <2>1, Zenon DEF Operands, Product
<1>3. Add2(acc, Swapped(data))[j] = Plus(a, o)
  BY <1>1, AddAt DEF Operands
<1>4. RoundShuffle(acc, data, key)[j] = Plus(p, Plus(a, o))
  <2>1. RoundShuffle(acc, data, key) = Add2(mul_epu32(x, OddsDown(x)), Add2(acc, Swapped(data)))
    BY <1>1, Zenon DEF Operands, RoundShuffle
  <2>2. j \in DOMAIN mul_epu32(x, OddsDown(x))
    BY <1>1, Domains DEF Operands
  <2> QED
    BY <1>2, <1>3, <2>1, <2>2, AddAt
<1>5. Plus(p, Plus(a, o)) = Plus(Plus(a, o), p)
  BY <1>1, AnyOrder DEF Operands
<1> QED
  BY <1>1, <1>4, <1>5, Zenon DEF Operands

LEMMA NarrowMixes ==
  ASSUME NEW w \in {2, 4, 8}, NEW acc \in Vector(w), NEW data \in Vector(w),
         NEW key \in Vector(w), NEW j \in 0..w - 1
  PROVE  RoundNarrow(acc, data, key)[j] = MixedLane(acc[j], data[j], data[nb(j)], key[j])
<1>1. PICK x, a, o, p : Operands(w, acc, data, key, j, x, a, o, p)
  BY OperandsAre
<1>2. mul_epu32(x, ShiftHi(x))[j] = p
  BY <1>1, MulAt, ShiftAt DEF Operands
<1>3. Add2(Swapped(data), mul_epu32(x, ShiftHi(x)))[j] = Plus(o, p)
  BY <1>1, <1>2, AddAt DEF Operands
<1>4. RoundNarrow(acc, data, key)[j] = Plus(a, Plus(o, p))
  <2>1. RoundNarrow(acc, data, key) = Add2(acc, Add2(Swapped(data), mul_epu32(x, ShiftHi(x))))
    BY <1>1, Zenon DEF Operands, RoundNarrow
  <2> QED
    BY <1>1, <1>3, <2>1, AddAt DEF Operands
<1>5. Plus(a, Plus(o, p)) = Plus(Plus(a, o), p)
  BY <1>1, AnyOrder DEF Operands
<1> QED
  BY <1>1, <1>4, <1>5, Zenon DEF Operands

LEMMA RotateMixes ==
  ASSUME NEW acc \in Vector(2), NEW data \in Vector(2),
         NEW key \in Vector(2), NEW j \in 0..1
  PROVE  RoundRotate(acc, data, key)[j] = MixedLane(acc[j], data[j], data[nb(j)], key[j])
<1>1. PICK x, a, o, p : Operands(2, acc, data, key, j, x, a, o, p)
  <2>1. PICK w \in {2, 4, 8} : w = 2 /\ j \in 0..w - 1
    OBVIOUS
  <2>2. acc \in Vector(w) /\ data \in Vector(w) /\ key \in Vector(w)
    BY <2>1
  <2>3. \E x, a, o, p : Operands(w, acc, data, key, j, x, a, o, p)
    BY <2>1, <2>2, OperandsAre
  <2> QED
    BY <2>1, <2>3
<1> DEFINE turned  == [m \in DOMAIN data |-> hi(x[m]) + Half * lo(x[m])]
           crossed == [m \in 0..1 |-> data[1 - m]]
<1>2. turned[j] = hi(x[j]) + Half * lo(x[j])
  BY <1>1, Zenon DEF Operands
<1>3. lo(turned[j]) = hi(x[j])
  <2>1. lo(x[j]) \in 0..Half - 1 /\ hi(x[j]) \in 0..Half - 1
    BY <1>1, HalvesOf DEF Operands
  <2>2. lo(hi(x[j]) + Half * lo(x[j])) = hi(x[j])
    BY <2>1, Joined
  <2> QED
    BY <1>2, <2>2, Zenon
<1>4. crossed[j] = o
  <2>1. crossed[j] = data[1 - j]
    BY Zenon
  <2>2. nb(j) = 1 - j
    BY DEF nb
  <2> QED
    BY <1>1, <2>1, <2>2, Zenon DEF Operands
<1>5. RoundRotate(acc, data, key) = Add2(Add2(acc, mul_epu32(x, turned)), crossed)
  BY <1>1, Zenon DEF RoundRotate, Operands
<1> HIDE DEF turned, crossed
<1>6. mul_epu32(x, turned)[j] = p
  <2>1. mul_epu32(x, turned)[j] = lo(x[j]) * lo(turned[j])
    BY <1>1, MulAt DEF Operands, XXH_mult32to64
  <2> QED
    BY <1>1, <1>3, <2>1, Zenon DEF Operands, Product
<1>7. Add2(acc, mul_epu32(x, turned))[j] = Plus(a, p)
  BY <1>1, <1>6, AddAt DEF Operands
<1>8. RoundRotate(acc, data, key)[j] = Plus(Plus(a, p), o)
  <2>1. j \in DOMAIN Add2(acc, mul_epu32(x, turned))
    BY <1>1, Domains, Zenon DEF Operands
  <2> QED
    BY <1>4, <1>5, <1>7, <2>1, AddAt
<1>9. Plus(Plus(a, p), o) = Plus(Plus(a, o), p)
  BY <1>1, AnyOrder DEF Operands
<1> QED
  BY <1>1, <1>8, <1>9, Zenon DEF Operands

LEMMA AccrndMixes ==
  ASSUME NEW w \in {2, 4, 8}, NEW acc \in Vector(w), NEW data \in Vector(w),
         NEW key \in Vector(w), NEW j \in 0..w - 1
  PROVE  ACCRND(acc, data, key)[j] = MixedLane(acc[j], data[j], data[nb(j)], key[j])
<1>1. PICK x, a, o, p : Operands(w, acc, data, key, j, x, a, o, p)
  BY OperandsAre
<1> DEFINE low == [m \in DOMAIN data |-> lo(x[m])]
           sum == [m \in DOMAIN data |-> (low[m] * ShiftHi(x)[m] + Neighbour(data)[m]) % Word]
<1>2. low[j] = lo(x[j]) /\ ShiftHi(x)[j] = hi(x[j]) /\ Neighbour(data)[j] = o
  BY <1>1, ShiftAt, NeighbourAt DEF Operands
<1>3. sum[j] = (low[j] * ShiftHi(x)[j] + Neighbour(data)[j]) % Word
  BY <1>1, Zenon DEF Operands
<1>4. ACCRND(acc, data, key) = Add2(acc, sum)
  BY <1>1, Zenon DEF ACCRND, Operands
<1> HIDE DEF low, sum
<1>5. sum[j] = Plus(p, o)
  BY <1>1, <1>2, <1>3, Zenon DEF Plus, Product, Operands
<1>6. ACCRND(acc, data, key)[j] = Plus(a, Plus(p, o))
  BY <1>1, <1>4, <1>5, AddAt DEF Operands
<1>7. Plus(a, Plus(p, o)) = Plus(Plus(a, o), p)
  BY <1>1, AnyOrder DEF Operands
<1> QED
  BY <1>1, <1>6, <1>7, Zenon DEF Operands

LEMMA MaskMixes ==
  ASSUME NEW w \in {2, 4, 8}, NEW acc \in Vector(w), NEW data \in Vector(w),
         NEW key \in Vector(w), NEW j \in 0..w - 1
  PROVE  RoundMask(acc, data, key)[j] = MixedLane(acc[j], data[j], data[nb(j)], key[j])
<1>1. PICK x, a, o, p : Operands(w, acc, data, key, j, x, a, o, p)
  BY OperandsAre
<1> DEFINE low    == [m \in DOMAIN data |-> lo(x[m])]
           summed == [m \in DOMAIN data |-> (acc[m] + low[m] * ShiftHi(x)[m]) % Word]
<1>2. low[j] = lo(x[j]) /\ ShiftHi(x)[j] = hi(x[j]) /\ Neighbour(data)[j] = o
  BY <1>1, ShiftAt, NeighbourAt DEF Operands
<1>3. summed[j] = (acc[j] + low[j] * ShiftHi(x)[j]) % Word /\ j \in DOMAIN summed
  BY <1>1, Zenon DEF Operands
<1>4. RoundMask(acc, data, key) = Add2(summed, Neighbour(data))
  BY <1>1, Zenon DEF RoundMask, Operands
<1> HIDE DEF low, summed
<1>5. summed[j] = Plus(a, p)
  BY <1>1, <1>2, <1>3, Zenon DEF Plus, Product, Operands
<1>6. RoundMask(acc, data, key)[j] = Plus(Plus(a, p), o)
  BY <1>2, <1>3, <1>4, <1>5, AddAt
<1>7. Plus(Plus(a, p), o) = Plus(Plus(a, o), p)
  BY <1>1, AnyOrder DEF Operands
<1> QED
  BY <1>1, <1>6, <1>7, Zenon DEF Operands

LEMMA UnzipMixes ==
  ASSUME NEW acc \in Vector(4), NEW data \in Vector(4),
         NEW key \in Vector(4), NEW j \in 0..3
  PROVE  RoundUnzip(acc, data, key)[j] = MixedLane(acc[j], data[j], data[nb(j)], key[j])
<1>1. PICK x, a, o, p : Operands(4, acc, data, key, j, x, a, o, p)
  <2>1. PICK w \in {2, 4, 8} : w = 4 /\ j \in 0..w - 1
    OBVIOUS
  <2>2. acc \in Vector(w) /\ data \in Vector(w) /\ key \in Vector(w)
    BY <2>1
  <2>3. \E x, a, o, p : Operands(w, acc, data, key, j, x, a, o, p)
    BY <2>1, <2>2, OperandsAre
  <2> QED
    BY <2>1, <2>3
<1> DEFINE low  == [d \in 0..3 |-> HalfOf(x, 2 * d)]
           high == [d \in 0..3 |-> HalfOf(x, 2 * d + 1)]
           sum  == [m \in 0..3 |-> (Swapped(data)[m] + low[m] * high[m]) % Word]
<1>2. low[j] = lo(x[j]) /\ high[j] = hi(x[j])
  <2>1. j \in Nat
    OBVIOUS
  <2>2. HalfOf(x, 2 * j) = lo(x[j]) /\ HalfOf(x, 2 * j + 1) = hi(x[j])
    BY <2>1, HalvesAt
  <2> QED
    BY <2>2, Zenon
<1>3. sum[j] = (Swapped(data)[j] + low[j] * high[j]) % Word
  BY Zenon
<1>4. RoundUnzip(acc, data, key) = Add2(acc, sum)
  BY <1>1, Zenon DEF RoundUnzip, Operands
<1> HIDE DEF low, high, sum
<1>5. sum[j] = Plus(o, p)
  BY <1>1, <1>2, <1>3, Zenon DEF Plus, Product, Operands
<1>6. RoundUnzip(acc, data, key)[j] = Plus(a, Plus(o, p))
  BY <1>1, <1>4, <1>5, AddAt DEF Operands
<1>7. Plus(a, Plus(o, p)) = Plus(Plus(a, o), p)
  BY <1>1, AnyOrder DEF Operands
<1> QED
  BY <1>1, <1>6, <1>7, Zenon DEF Operands

------------------------------------------------------------------------------
(* A stripe, vector by vector. *)

\* The accumulators after a stripe, with the secret from word `at` on.
Accumulated(acc, stripe, secret, at) ==
  [lane \in 0..7 |-> MixedLane(acc[lane], stripe[lane], stripe[nb(lane)], secret[at + lane])]

LEMMA AccumulatedIs ==
  ASSUME NEW acc \in Octet, NEW stripe \in Octet, NEW secret \in Secrets, NEW at \in 0..16
  PROVE  Accumulated(acc, stripe, secret, at) \in Octet
<1>1. ASSUME NEW lane \in 0..7
      PROVE  MixedLane(acc[lane], stripe[lane], stripe[nb(lane)], secret[at + lane]) \in Words
  <2>1. nb(lane) \in 0..7 /\ at + lane \in 0..23
    BY DEF nb
  <2>2. /\ acc[lane] \in Words /\ stripe[lane] \in Words
        /\ stripe[nb(lane)] \in Words /\ secret[at + lane] \in Words
    BY <2>1 DEF Octet, Secrets
  <2> QED
    BY <2>2, MixedIsWord
<1> QED
  BY <1>1, Zenon DEF Accumulated, Octet

\* Lane `lane` is word b of the vector of w words that begins at word i.
Lies(w, mem, from, lane, i, b) ==
  /\ i = lane - (lane % w) /\ b = lane % w /\ b \in 0..w - 1 /\ i \in 0..7
  /\ Vec(mem, from + i, w) \in Vector(w)
  /\ Vec(mem, from + i, w)[b] = mem[from + lane]
  /\ Vec(mem, from + i, w)[nb(b)] = mem[from + nb(lane)]

LEMMA LaneLies ==
  ASSUME NEW w \in {2, 4, 8}, NEW top \in Nat, NEW mem \in [0..top -> Words],
         NEW from \in Nat, from + 7 <= top, NEW lane \in 0..7
  PROVE  Lies(w, mem, from, lane, lane - (lane % w), lane % w)
<1>1. PICK b : b = lane % w
  OBVIOUS
<1>2. PICK i : i = lane - b
  OBVIOUS
<1>3. i \in 0..7 /\ b \in 0..w - 1 /\ i + b = lane /\ i + w <= 8
  <2>1. CASE w = 2
    BY <1>1, <1>2, <2>1
  <2>2. CASE w = 4
    BY <1>1, <1>2, <2>2
  <2>3. CASE w = 8
    BY <1>1, <1>2, <2>3
  <2> QED
    BY <2>1, <2>2, <2>3
<1>4. nb(b) \in 0..w - 1 /\ i + nb(b) = nb(lane)
  <2>1. i % 2 = 0
    <3>1. CASE w = 2
      BY <1>1, <1>2, <3>1
    <3>2. CASE w = 4
      BY <1>1, <1>2, <3>2
    <3>3. CASE w = 8
      BY <1>1, <1>2, <3>3
    <3> QED
      BY <3>1, <3>2, <3>3
  <2>2. b % 2 = lane % 2
    BY <1>3, <2>1
  <2> QED
    BY <1>3, <2>2, PairInside DEF nb
<1>5. \A m \in 0..w - 1 : from + i + m \in 0..top
  BY <1>3
<1>6. Vec(mem, from + i, w) = [m \in 0..w - 1 |-> mem[from + i + m]]
  BY DEF Vec
<1>7. Vec(mem, from + i, w) \in Vector(w)
  BY <1>5, <1>6 DEF Vector
<1>8. Vec(mem, from + i, w)[b] = mem[from + lane]
  <2>1. from + i + b = from + lane
    BY <1>3
  <2> QED
    BY <1>3, <1>6, <2>1, Zenon
<1>9. Vec(mem, from + i, w)[nb(b)] = mem[from + nb(lane)]
  <2>1. from + i + nb(b) = from + nb(lane)
    BY <1>3, <1>4
  <2> QED
    BY <1>4, <1>6, <2>1, Zenon
<1> QED
  BY <1>1, <1>2, <1>3, <1>7, <1>8, <1>9 DEF Lies

\* What a round of w words is given for a lane.
Given(w, acc, stripe, secret, at, lane, i, b) ==
  /\ i = lane - (lane % w) /\ b = lane % w /\ b \in 0..w - 1
  /\ Vec(acc, i, w) \in Vector(w) /\ Vec(acc, i, w)[b] = acc[lane]
  /\ Vec(stripe, i, w) \in Vector(w) /\ Vec(stripe, i, w)[b] = stripe[lane]
  /\ Vec(stripe, i, w)[nb(b)] = stripe[nb(lane)]
  /\ Vec(secret, at + i, w) \in Vector(w) /\ Vec(secret, at + i, w)[b] = secret[at + lane]

LEMMA LaneGiven ==
  ASSUME NEW w \in {2, 4, 8}, NEW acc \in Octet, NEW stripe \in Octet,
         NEW secret \in Secrets, NEW at \in 0..16, NEW lane \in 0..7
  PROVE  Given(w, acc, stripe, secret, at, lane, lane - (lane % w), lane % w)
<1>1. PICK i, b : i = lane - (lane % w) /\ b = lane % w
  OBVIOUS
<1>2. PICK z \in Nat : z = 0 /\ z + 7 <= 7 /\ 7 \in Nat
  OBVIOUS
<1>3. Lies(w, acc, z, lane, i, b) /\ Lies(w, stripe, z, lane, i, b)
  <2>1. acc \in [0..7 -> Words] /\ stripe \in [0..7 -> Words]
    BY DEF Octet
  <2> QED
    BY <1>1, <1>2, <2>1, LaneLies
<1>4. Lies(w, secret, at, lane, i, b)
  <2>1. secret \in [0..23 -> Words] /\ 23 \in Nat /\ at \in Nat /\ at + 7 <= 23
    BY DEF Secrets
  <2> QED
    BY <1>1, <2>1, LaneLies
<1>5. z + i = i /\ z + lane = lane /\ z + nb(lane) = nb(lane)
  <2>1. i \in Nat /\ nb(lane) \in Nat
    BY <1>3 DEF Lies, nb
  <2> QED
    BY <1>2, <2>1
<1> QED
  BY <1>1, <1>3, <1>4, <1>5, Zenon DEF Lies, Given

\* The stripe with each of the rounds, and that it is the same with all.
WithRoundShift(w, acc, stripe, secret, at) ==
  [lane \in 0..7 |-> RoundShift(Vec(acc, lane - (lane % w), w), Vec(stripe, lane - (lane % w), w),
                      Vec(secret, at + (lane - (lane % w)), w))[lane % w]]

LEMMA ByShift ==
  ASSUME NEW w \in {2, 4, 8}, NEW acc \in Octet, NEW stripe \in Octet,
         NEW secret \in Secrets, NEW at \in 0..16
  PROVE  WithRoundShift(w, acc, stripe, secret, at) = Accumulated(acc, stripe, secret, at)
<1>1. ASSUME NEW lane \in 0..7
      PROVE  RoundShift(Vec(acc, lane - (lane % w), w), Vec(stripe, lane - (lane % w), w),
                Vec(secret, at + (lane - (lane % w)), w))[lane % w]
               = MixedLane(acc[lane], stripe[lane], stripe[nb(lane)], secret[at + lane])
  <2>1. PICK i, b : i = lane - (lane % w) /\ b = lane % w
    OBVIOUS
  <2>2. Given(w, acc, stripe, secret, at, lane, i, b)
    BY <2>1, LaneGiven
  <2>3. PICK a, d, k \in Vector(w) : a = Vec(acc, i, w) /\ d = Vec(stripe, i, w) /\ k = Vec(secret, at + i, w)
    BY <2>2, Zenon DEF Given
  <2>4. RoundShift(a, d, k)[b] = MixedLane(a[b], d[b], d[nb(b)], k[b])
    <3>1. b \in 0..w - 1
      BY <2>2, Zenon DEF Given
    <3> QED
      BY <3>1, ShiftMixes
  <2> QED
    BY <2>1, <2>2, <2>3, <2>4, Zenon DEF Given
<1> QED
  BY <1>1, Zenon DEF Accumulated, WithRoundShift

WithRoundShuffle(w, acc, stripe, secret, at) ==
  [lane \in 0..7 |-> RoundShuffle(Vec(acc, lane - (lane % w), w), Vec(stripe, lane - (lane % w), w),
                      Vec(secret, at + (lane - (lane % w)), w))[lane % w]]

LEMMA ByShuffle ==
  ASSUME NEW w \in {2, 4, 8}, NEW acc \in Octet, NEW stripe \in Octet,
         NEW secret \in Secrets, NEW at \in 0..16
  PROVE  WithRoundShuffle(w, acc, stripe, secret, at) = Accumulated(acc, stripe, secret, at)
<1>1. ASSUME NEW lane \in 0..7
      PROVE  RoundShuffle(Vec(acc, lane - (lane % w), w), Vec(stripe, lane - (lane % w), w),
                Vec(secret, at + (lane - (lane % w)), w))[lane % w]
               = MixedLane(acc[lane], stripe[lane], stripe[nb(lane)], secret[at + lane])
  <2>1. PICK i, b : i = lane - (lane % w) /\ b = lane % w
    OBVIOUS
  <2>2. Given(w, acc, stripe, secret, at, lane, i, b)
    BY <2>1, LaneGiven
  <2>3. PICK a, d, k \in Vector(w) : a = Vec(acc, i, w) /\ d = Vec(stripe, i, w) /\ k = Vec(secret, at + i, w)
    BY <2>2, Zenon DEF Given
  <2>4. RoundShuffle(a, d, k)[b] = MixedLane(a[b], d[b], d[nb(b)], k[b])
    <3>1. b \in 0..w - 1
      BY <2>2, Zenon DEF Given
    <3> QED
      BY <3>1, ShuffleMixes
  <2> QED
    BY <2>1, <2>2, <2>3, <2>4, Zenon DEF Given
<1> QED
  BY <1>1, Zenon DEF Accumulated, WithRoundShuffle

WithRoundMask(w, acc, stripe, secret, at) ==
  [lane \in 0..7 |-> RoundMask(Vec(acc, lane - (lane % w), w), Vec(stripe, lane - (lane % w), w),
                      Vec(secret, at + (lane - (lane % w)), w))[lane % w]]

LEMMA ByMask ==
  ASSUME NEW w \in {2, 4, 8}, NEW acc \in Octet, NEW stripe \in Octet,
         NEW secret \in Secrets, NEW at \in 0..16
  PROVE  WithRoundMask(w, acc, stripe, secret, at) = Accumulated(acc, stripe, secret, at)
<1>1. ASSUME NEW lane \in 0..7
      PROVE  RoundMask(Vec(acc, lane - (lane % w), w), Vec(stripe, lane - (lane % w), w),
                Vec(secret, at + (lane - (lane % w)), w))[lane % w]
               = MixedLane(acc[lane], stripe[lane], stripe[nb(lane)], secret[at + lane])
  <2>1. PICK i, b : i = lane - (lane % w) /\ b = lane % w
    OBVIOUS
  <2>2. Given(w, acc, stripe, secret, at, lane, i, b)
    BY <2>1, LaneGiven
  <2>3. PICK a, d, k \in Vector(w) : a = Vec(acc, i, w) /\ d = Vec(stripe, i, w) /\ k = Vec(secret, at + i, w)
    BY <2>2, Zenon DEF Given
  <2>4. RoundMask(a, d, k)[b] = MixedLane(a[b], d[b], d[nb(b)], k[b])
    <3>1. b \in 0..w - 1
      BY <2>2, Zenon DEF Given
    <3> QED
      BY <3>1, MaskMixes
  <2> QED
    BY <2>1, <2>2, <2>3, <2>4, Zenon DEF Given
<1> QED
  BY <1>1, Zenon DEF Accumulated, WithRoundMask

WithRoundNarrow(w, acc, stripe, secret, at) ==
  [lane \in 0..7 |-> RoundNarrow(Vec(acc, lane - (lane % w), w), Vec(stripe, lane - (lane % w), w),
                      Vec(secret, at + (lane - (lane % w)), w))[lane % w]]

LEMMA ByNarrow ==
  ASSUME NEW w \in {2, 4, 8}, NEW acc \in Octet, NEW stripe \in Octet,
         NEW secret \in Secrets, NEW at \in 0..16
  PROVE  WithRoundNarrow(w, acc, stripe, secret, at) = Accumulated(acc, stripe, secret, at)
<1>1. ASSUME NEW lane \in 0..7
      PROVE  RoundNarrow(Vec(acc, lane - (lane % w), w), Vec(stripe, lane - (lane % w), w),
                Vec(secret, at + (lane - (lane % w)), w))[lane % w]
               = MixedLane(acc[lane], stripe[lane], stripe[nb(lane)], secret[at + lane])
  <2>1. PICK i, b : i = lane - (lane % w) /\ b = lane % w
    OBVIOUS
  <2>2. Given(w, acc, stripe, secret, at, lane, i, b)
    BY <2>1, LaneGiven
  <2>3. PICK a, d, k \in Vector(w) : a = Vec(acc, i, w) /\ d = Vec(stripe, i, w) /\ k = Vec(secret, at + i, w)
    BY <2>2, Zenon DEF Given
  <2>4. RoundNarrow(a, d, k)[b] = MixedLane(a[b], d[b], d[nb(b)], k[b])
    <3>1. b \in 0..w - 1
      BY <2>2, Zenon DEF Given
    <3> QED
      BY <3>1, NarrowMixes
  <2> QED
    BY <2>1, <2>2, <2>3, <2>4, Zenon DEF Given
<1> QED
  BY <1>1, Zenon DEF Accumulated, WithRoundNarrow

WithRoundRotate(acc, stripe, secret, at) ==
  [lane \in 0..7 |-> RoundRotate(Vec(acc, lane - (lane % 2), 2), Vec(stripe, lane - (lane % 2), 2),
                      Vec(secret, at + (lane - (lane % 2)), 2))[lane % 2]]

LEMMA ByRotate ==
  ASSUME NEW acc \in Octet, NEW stripe \in Octet,
         NEW secret \in Secrets, NEW at \in 0..16
  PROVE  WithRoundRotate(acc, stripe, secret, at) = Accumulated(acc, stripe, secret, at)
<1>1. ASSUME NEW lane \in 0..7
      PROVE  RoundRotate(Vec(acc, lane - (lane % 2), 2), Vec(stripe, lane - (lane % 2), 2),
                Vec(secret, at + (lane - (lane % 2)), 2))[lane % 2]
               = MixedLane(acc[lane], stripe[lane], stripe[nb(lane)], secret[at + lane])
  <2>0. PICK w \in {2, 4, 8} : w = 2
    OBVIOUS
  <2>1. PICK i, b : i = lane - (lane % w) /\ b = lane % w
    OBVIOUS
  <2>2. Given(w, acc, stripe, secret, at, lane, i, b)
    BY <2>1, LaneGiven
  <2>3. PICK a, d, k \in Vector(2) : a = Vec(acc, i, w) /\ d = Vec(stripe, i, w) /\ k = Vec(secret, at + i, w)
    BY <2>0, <2>2, Zenon DEF Given
  <2>4. RoundRotate(a, d, k)[b] = MixedLane(a[b], d[b], d[nb(b)], k[b])
    <3>1. b \in 0..1
      BY <2>0, <2>2 DEF Given
    <3> QED
      BY <3>1, RotateMixes
  <2> QED
    BY <2>0, <2>1, <2>2, <2>3, <2>4, Zenon DEF Given
<1> QED
  BY <1>1, Zenon DEF Accumulated, WithRoundRotate

WithRoundUnzip(acc, stripe, secret, at) ==
  [lane \in 0..7 |-> RoundUnzip(Vec(acc, lane - (lane % 4), 4), Vec(stripe, lane - (lane % 4), 4),
                      Vec(secret, at + (lane - (lane % 4)), 4))[lane % 4]]

LEMMA ByUnzip ==
  ASSUME NEW acc \in Octet, NEW stripe \in Octet,
         NEW secret \in Secrets, NEW at \in 0..16
  PROVE  WithRoundUnzip(acc, stripe, secret, at) = Accumulated(acc, stripe, secret, at)
<1>1. ASSUME NEW lane \in 0..7
      PROVE  RoundUnzip(Vec(acc, lane - (lane % 4), 4), Vec(stripe, lane - (lane % 4), 4),
                Vec(secret, at + (lane - (lane % 4)), 4))[lane % 4]
               = MixedLane(acc[lane], stripe[lane], stripe[nb(lane)], secret[at + lane])
  <2>0. PICK w \in {2, 4, 8} : w = 4
    OBVIOUS
  <2>1. PICK i, b : i = lane - (lane % w) /\ b = lane % w
    OBVIOUS
  <2>2. Given(w, acc, stripe, secret, at, lane, i, b)
    BY <2>1, LaneGiven
  <2>3. PICK a, d, k \in Vector(4) : a = Vec(acc, i, w) /\ d = Vec(stripe, i, w) /\ k = Vec(secret, at + i, w)
    BY <2>0, <2>2, Zenon DEF Given
  <2>4. RoundUnzip(a, d, k)[b] = MixedLane(a[b], d[b], d[nb(b)], k[b])
    <3>1. b \in 0..3
      BY <2>0, <2>2 DEF Given
    <3> QED
      BY <3>1, UnzipMixes
  <2> QED
    BY <2>0, <2>1, <2>2, <2>3, <2>4, Zenon DEF Given
<1> QED
  BY <1>1, Zenon DEF Accumulated, WithRoundUnzip

\* Every vector unit but NEON and SVE, whose code takes a stripe otherwise.
LEMMA StripeByVectors ==
  ASSUME NEW acc \in Octet, NEW stripe \in Octet, NEW secret \in Secrets, NEW at \in 0..16,
         NEW vl \in {2, 4, 8}
  PROVE  /\ XXH3_accumulate_512_avx512(acc, stripe, secret, at) = Accumulated(acc, stripe, secret, at)
         /\ XXH3_accumulate_512_avx2(acc, stripe, secret, at) = Accumulated(acc, stripe, secret, at)
         /\ XXH3_accumulate_512_sse2(acc, stripe, secret, at) = Accumulated(acc, stripe, secret, at)
         /\ XXH3_accumulate_512_vsx(acc, stripe, secret, at) = Accumulated(acc, stripe, secret, at)
         /\ XXH3_accumulate_512_lsx(acc, stripe, secret, at) = Accumulated(acc, stripe, secret, at)
         /\ XXH3_accumulate_512_lasx(acc, stripe, secret, at) = Accumulated(acc, stripe, secret, at)
         /\ XXH3_accumulate_512_rvv(vl, acc, stripe, secret, at) = Accumulated(acc, stripe, secret, at)
<1>1. 2 \in {2, 4, 8} /\ 4 \in {2, 4, 8} /\ 8 \in {2, 4, 8}
  OBVIOUS
<1>2. XXH3_accumulate_512_avx512(acc, stripe, secret, at) = Accumulated(acc, stripe, secret, at)
  <2>1. XXH3_accumulate_512_avx512(acc, stripe, secret, at) = WithRoundShift(8, acc, stripe, secret, at)
    BY Zenon DEF XXH3_accumulate_512_avx512, By, WithRoundShift
  <2> QED
    BY <1>1, <2>1, ByShift
<1>3. XXH3_accumulate_512_avx2(acc, stripe, secret, at) = Accumulated(acc, stripe, secret, at)
  <2>1. XXH3_accumulate_512_avx2(acc, stripe, secret, at) = WithRoundShift(4, acc, stripe, secret, at)
    BY Zenon DEF XXH3_accumulate_512_avx2, By, WithRoundShift
  <2> QED
    BY <1>1, <2>1, ByShift
<1>4. XXH3_accumulate_512_sse2(acc, stripe, secret, at) = Accumulated(acc, stripe, secret, at)
  <2>1. XXH3_accumulate_512_sse2(acc, stripe, secret, at) = WithRoundShuffle(2, acc, stripe, secret, at)
    BY Zenon DEF XXH3_accumulate_512_sse2, By, WithRoundShuffle
  <2> QED
    BY <1>1, <2>1, ByShuffle
<1>5. XXH3_accumulate_512_vsx(acc, stripe, secret, at) = Accumulated(acc, stripe, secret, at)
  <2>1. XXH3_accumulate_512_vsx(acc, stripe, secret, at) = WithRoundRotate(acc, stripe, secret, at)
    BY Zenon DEF XXH3_accumulate_512_vsx, By, WithRoundRotate
  <2> QED
    BY <1>1, <2>1, ByRotate
<1>6. XXH3_accumulate_512_lsx(acc, stripe, secret, at) = Accumulated(acc, stripe, secret, at)
  <2>1. XXH3_accumulate_512_lsx(acc, stripe, secret, at) = WithRoundShift(2, acc, stripe, secret, at)
    BY Zenon DEF XXH3_accumulate_512_lsx, By, WithRoundShift
  <2> QED
    BY <1>1, <2>1, ByShift
<1>7. XXH3_accumulate_512_lasx(acc, stripe, secret, at) = Accumulated(acc, stripe, secret, at)
  <2>1. XXH3_accumulate_512_lasx(acc, stripe, secret, at) = WithRoundShift(4, acc, stripe, secret, at)
    BY Zenon DEF XXH3_accumulate_512_lasx, By, WithRoundShift
  <2> QED
    BY <1>1, <2>1, ByShift
<1>8. XXH3_accumulate_512_rvv(vl, acc, stripe, secret, at) = Accumulated(acc, stripe, secret, at)
  <2>1. XXH3_accumulate_512_rvv(vl, acc, stripe, secret, at) = WithRoundMask(vl, acc, stripe, secret, at)
    BY Zenon DEF XXH3_accumulate_512_rvv, By, WithRoundMask
  <2> QED
    BY <2>1, ByMask
<1> QED
  BY <1>2, <1>3, <1>4, <1>5, <1>6, <1>7, <1>8

------------------------------------------------------------------------------
(* The scalar code: a lane after the other, each also for its pair. *)

\* What a lane's round makes of the accumulators.
RoundMakes(acc, stripe, lane, other, p, r) ==
  /\ r \in Octet /\ other \in 0..7 /\ p \in Words
  /\ r[lane] = Plus(acc[lane], p)
  /\ r[other] = Plus(acc[other], stripe[lane])
  /\ \A j \in 0..7 : j # lane /\ j # other => r[j] = acc[j]

LEMMA ScalarRoundIs ==
  ASSUME NEW acc \in Octet, NEW stripe \in Octet, NEW secret \in Secrets, NEW at \in 0..16,
         NEW lane \in 0..7, NEW other, other = nb(lane)
  PROVE  RoundMakes(acc, stripe, lane, other, Product(xor(stripe[lane], secret[at + lane])),
                    XXH3_scalarRound(acc, stripe, secret, at, lane))
<1>0. PICK p, r : /\ p = Product(xor(stripe[lane], secret[at + lane]))
                  /\ r = XXH3_scalarRound(acc, stripe, secret, at, lane)
  OBVIOUS
<1>1. other \in 0..7 /\ other # lane /\ at + lane \in 0..23
      /\ other = IF lane % 2 = 0 THEN lane + 1 ELSE lane - 1
  BY DEF nb
<1>2. PICK x : x = xor(stripe[lane], secret[at + lane])
  OBVIOUS
<1>3. /\ \A j \in 0..7 : acc[j] \in Words /\ stripe[j] \in Words
      /\ secret[at + lane] \in Words /\ DOMAIN acc = 0..7
  BY <1>1 DEF Octet, Secrets
<1>4. x \in Words
  BY <1>2, <1>3, XorIsWord
<1>5. p \in Words /\ XXH_mult32to64(x, hi(x)) = p
  BY <1>0, <1>2, <1>4, ProductIs
<1>6. Words \subseteq Nat
  BY DEF Words
<1> DEFINE crossed == [acc EXCEPT ![other] = (@ + stripe[lane]) % Word]
<1>7. r = [crossed EXCEPT ![lane] = (p + @) % Word]
  BY <1>0, <1>1, <1>2, <1>5, Zenon DEF XXH3_scalarRound
<1>8. /\ DOMAIN crossed = 0..7
      /\ crossed[other] = Plus(acc[other], stripe[lane])
      /\ \A j \in 0..7 : j # other => crossed[j] = acc[j]
  BY <1>1, <1>3, Zenon DEF Plus
<1> HIDE DEF crossed
<1>9. /\ DOMAIN r = 0..7
      /\ r[lane] = Plus(p, crossed[lane])
      /\ \A j \in 0..7 : j # lane => r[j] = crossed[j]
  BY <1>7, <1>8, Zenon DEF Plus
<1>10. r[lane] = Plus(acc[lane], p)
  <2>1. r[lane] = Plus(p, acc[lane])
    BY <1>1, <1>8, <1>9, Zenon
  <2>2. Plus(p, acc[lane]) = Plus(acc[lane], p)
    BY <1>3, <1>5, <1>6, PlusIs
  <2> QED
    BY <2>1, <2>2
<1>11. r[other] = Plus(acc[other], stripe[lane])
  BY <1>1, <1>8, <1>9, Zenon
<1>12. \A j \in 0..7 : j # lane /\ j # other => r[j] = acc[j]
  BY <1>8, <1>9, Zenon
<1>13. r \in Octet
  <2>1. Plus(acc[lane], p) \in Words /\ Plus(acc[other], stripe[lane]) \in Words
    BY <1>1, <1>3, <1>5, <1>6, PlusIs
  <2>2. \A j \in 0..7 : r[j] \in Words
    BY <1>3, <1>10, <1>11, <1>12, <2>1, Zenon
  <2>3. r = [j \in 0..7 |-> r[j]]
    BY <1>7, <1>8, <1>9, Zenon
  <2> QED
    BY <2>2, <2>3, Zenon DEF Octet
<1> QED
  BY <1>0, <1>1, <1>5, <1>10, <1>11, <1>12, <1>13, Zenon DEF RoundMakes

PairMakes(acc, stripe, secret, at, m, m1, c) ==
  /\ c \in Octet
  /\ c[m] = Accumulated(acc, stripe, secret, at)[m]
  /\ c[m1] = Accumulated(acc, stripe, secret, at)[m1]
  /\ \A j \in 0..7 : j # m /\ j # m1 => c[j] = acc[j]

\* Two lanes in turn: the pair is as after a round of vectors.
LEMMA PairInTurn ==
  ASSUME NEW acc \in Octet, NEW stripe \in Octet, NEW secret \in Secrets, NEW at \in 0..16,
         NEW m \in {0, 2, 4, 6}, NEW m1, m1 = m + 1
  PROVE  PairMakes(acc, stripe, secret, at, m, m1,
                   XXH3_scalarRound(XXH3_scalarRound(acc, stripe, secret, at, m),
                                    stripe, secret, at, m1))
<1>0. PICK b, c : /\ b = XXH3_scalarRound(acc, stripe, secret, at, m)
                  /\ c = XXH3_scalarRound(b, stripe, secret, at, m1)
  OBVIOUS
<1>1. m \in 0..7 /\ m1 \in 0..7 /\ m1 = nb(m) /\ m = nb(m1)
  BY DEF nb
<1>2. PICK p : p = Product(xor(stripe[m], secret[at + m]))
  OBVIOUS
<1>3. PICK q : q = Product(xor(stripe[m1], secret[at + m1]))
  OBVIOUS
<1>4. /\ b \in Octet /\ p \in Words /\ b[m] = Plus(acc[m], p)
      /\ b[m1] = Plus(acc[m1], stripe[m])
      /\ \A j \in 0..7 : j # m /\ j # m1 => b[j] = acc[j]
  <2>1. RoundMakes(acc, stripe, m, m1, p, b)
    BY <1>0, <1>1, <1>2, ScalarRoundIs
  <2> QED
    BY <2>1, Zenon DEF RoundMakes
<1>5. /\ c \in Octet /\ q \in Words /\ c[m1] = Plus(b[m1], q)
      /\ c[m] = Plus(b[m], stripe[m1])
      /\ \A j \in 0..7 : j # m /\ j # m1 => c[j] = b[j]
  <2>1. RoundMakes(b, stripe, m1, m, q, c)
    BY <1>0, <1>1, <1>3, <1>4, ScalarRoundIs
  <2> QED
    BY <2>1, Zenon DEF RoundMakes
<1>6. acc[m] \in Words /\ stripe[m1] \in Words
  BY <1>1 DEF Octet
<1>7. c[m] = Plus(Plus(acc[m], stripe[m1]), p)
  BY <1>4, <1>5, <1>6, AnyOrder
<1>8. c[m1] = Plus(Plus(acc[m1], stripe[m]), q)
  BY <1>4, <1>5
<1>9. /\ Accumulated(acc, stripe, secret, at)[m] = Plus(Plus(acc[m], stripe[m1]), p)
      /\ Accumulated(acc, stripe, secret, at)[m1] = Plus(Plus(acc[m1], stripe[m]), q)
  BY <1>1, <1>2, <1>3, Zenon DEF Accumulated, MixedLane
<1>10. \A j \in 0..7 : j # m /\ j # m1 => c[j] = acc[j]
  BY <1>4, <1>5, Zenon
<1> QED
  BY <1>0, <1>5, <1>7, <1>8, <1>9, <1>10, Zenon DEF PairMakes

ScalarLoop(first, acc, stripe, secret, at, g) ==
  g = [n \in 0..8 |-> IF n <= first THEN acc
                      ELSE XXH3_scalarRound(g[n - 1], stripe, secret, at, n - 1)]

LEMMA ScalarLoopEnds ==
  ASSUME NEW acc \in Octet, NEW stripe \in Octet, NEW secret \in Secrets, NEW at \in 0..16,
         NEW first \in Nat
  PROVE  \E g : ScalarLoop(first, acc, stripe, secret, at, g)
<1> DEFINE step == [p \in Octet \X (1..8) |->
                      IF p[2] <= first THEN acc
                      ELSE XXH3_scalarRound(p[1], stripe, secret, at, p[2] - 1)]
<1>1. ASSUME NEW a \in Octet, NEW n \in 1..8
      PROVE  XXH3_scalarRound(a, stripe, secret, at, n - 1) \in Octet
  <2>1. PICK lane \in 0..7 : lane = n - 1
    OBVIOUS
  <2>2. XXH3_scalarRound(a, stripe, secret, at, lane) \in Octet
    BY ScalarRoundIs DEF RoundMakes
  <2> QED
    BY <2>1, <2>2
<1>2. ASSUME NEW p \in Octet \X (1..8)
      PROVE  (IF p[2] <= first THEN acc
              ELSE XXH3_scalarRound(p[1], stripe, secret, at, p[2] - 1)) \in Octet
  <2>1. p[1] \in Octet /\ p[2] \in 1..8
    OBVIOUS
  <2> QED
    BY <1>1, <2>1, Zenon
<1>3. step \in [Octet \X (1..8) -> Octet]
  BY <1>2, Zenon
<1>4. \A a \in Octet, n \in 1..8 :
        step[<<a, n>>] = IF n <= first THEN acc
                         ELSE XXH3_scalarRound(a, stripe, secret, at, n - 1)
  <2> SUFFICES ASSUME NEW a \in Octet, NEW n \in 1..8
               PROVE  step[<<a, n>>] = IF n <= first THEN acc
                         ELSE XXH3_scalarRound(a, stripe, secret, at, n - 1)
    OBVIOUS
  <2>1. <<a, n>> \in Octet \X (1..8) /\ <<a, n>>[1] = a /\ <<a, n>>[2] = n
    OBVIOUS
  <2> QED
    BY <2>1, Zenon
<1> HIDE DEF step
<1>5. PICK g \in [0..8 -> Octet] : Steps(g, acc, step, 8)
  <2>1. PICK N \in Nat : N = 8
    OBVIOUS
  <2>2. step \in [Octet \X (1..N) -> Octet]
    BY <1>3, <2>1
  <2>3. \E g \in [0..N -> Octet] : Steps(g, acc, step, N)
    BY <2>2, Recursion, ZenonT(30)
  <2> QED
    BY <2>1, <2>3
<1>6. ASSUME NEW n \in 0..8
      PROVE  g[n] = IF n <= first THEN acc
                    ELSE XXH3_scalarRound(g[n - 1], stripe, secret, at, n - 1)
  <2>1. CASE n = 0
    BY <1>5, <2>1 DEF Steps
  <2>2. CASE n # 0
    <3>1. n \in 1..8 /\ n - 1 \in 0..8
      BY <2>2
    <3>2. g[n - 1] \in Octet
      BY <1>5, <3>1
    <3>3. g[n] = step[<<g[n - 1], n>>]
      BY <1>5, <2>2, Zenon DEF Steps
    <3> QED
      BY <1>4, <3>1, <3>2, <3>3, Zenon
  <2> QED
    BY <2>1, <2>2
<1>7. DOMAIN g = 0..8 /\ g = [n \in 0..8 |-> g[n]]
  BY <1>5
<1>8. ScalarLoop(first, acc, stripe, secret, at, g)
  BY <1>6, <1>7, Zenon DEF ScalarLoop
<1> QED
  BY <1>8

FromMakes(first, acc, stripe, secret, at, f) ==
  /\ f \in Octet
  /\ \A j \in 0..7 :
       f[j] = IF j < first THEN acc[j] ELSE Accumulated(acc, stripe, secret, at)[j]

\* The scalar code from a lane on leaves the lanes before it.
LEMMA ScalarFromIs ==
  ASSUME NEW acc \in Octet, NEW stripe \in Octet, NEW secret \in Secrets, NEW at \in 0..16,
         NEW first \in {0, 2, 4, 6, 8}
  PROVE  FromMakes(first, acc, stripe, secret, at, ScalarFrom(first, acc, stripe, secret, at))
<1> DEFINE g == CHOOSE h : ScalarLoop(first, acc, stripe, secret, at, h)
<1>1. ScalarLoop(first, acc, stripe, secret, at, g)
  <2>1. first \in Nat
    OBVIOUS
  <2>2. \E h : ScalarLoop(first, acc, stripe, secret, at, h)
    BY <2>1, ScalarLoopEnds
  <2> QED
    BY <2>2, Zenon
<1>2. ScalarFrom(first, acc, stripe, secret, at) = g[8]
  BY Zenon DEF ScalarFrom, ScalarLoop
<1> HIDE DEF g
<1>3. ASSUME NEW n \in 0..8
      PROVE  g[n] = IF n <= first THEN acc
                    ELSE XXH3_scalarRound(g[n - 1], stripe, secret, at, n - 1)
  BY <1>1, Zenon DEF ScalarLoop
<1> DEFINE A == Accumulated(acc, stripe, secret, at)
           Q(m) == /\ g[m] \in Octet
                   /\ \A j \in 0..7 : g[m][j] = IF first <= j /\ j < m THEN A[j] ELSE acc[j]
<1>4. ASSUME NEW m \in {0, 2, 4, 6, 8}, m <= first PROVE Q(m)
  <2>1. g[m] = acc
    BY <1>3, <1>4
  <2>2. \A j \in 0..7 : ~(first <= j /\ j < m)
    BY <1>4
  <2> QED
    BY <2>1, <2>2, Zenon
<1>5. ASSUME NEW m \in {0, 2, 4, 6}, first <= m, Q(m) PROVE Q(m + 2)
  <2>1. PICK a, b, c, m1 :
          /\ a \in Octet /\ a = g[m] /\ b = g[m + 1] /\ c = g[m + 2] /\ m1 = m + 1
    BY <1>5, Zenon
  <2>2. m1 \in 0..8 /\ m + 2 \in 0..8 /\ ~(m1 <= first) /\ ~(m + 2 <= first)
        /\ m1 - 1 = m /\ (m + 2) - 1 = m1
    BY <1>5, <2>1
  <2>3. b = XXH3_scalarRound(a, stripe, secret, at, m)
    BY <1>3, <2>1, <2>2, Zenon
  <2>4. c = XXH3_scalarRound(b, stripe, secret, at, m1)
    BY <1>3, <2>1, <2>2, Zenon
  <2>5. /\ c \in Octet
        /\ c[m] = Accumulated(a, stripe, secret, at)[m]
        /\ c[m1] = Accumulated(a, stripe, secret, at)[m1]
        /\ \A j \in 0..7 : j # m /\ j # m1 => c[j] = a[j]
    <3>1. PairMakes(a, stripe, secret, at, m, m1, c)
      BY <2>1, <2>3, <2>4, PairInTurn
    <3> QED
      BY <3>1, Zenon DEF PairMakes
  <2>6. \A j \in 0..7 : j >= m => a[j] = acc[j]
    BY <1>5, <2>1
  <2>7. m \in 0..7 /\ m1 \in 0..7 /\ m >= m /\ m1 >= m
    BY <2>1
  <2>8. /\ Accumulated(a, stripe, secret, at)[m] = A[m]
        /\ Accumulated(a, stripe, secret, at)[m1] = A[m1]
    BY <2>6, <2>7, Zenon DEF Accumulated
  <2> HIDE DEF A
  <2>9. \A j \in 0..7 : c[j] = IF first <= j /\ j < m + 2 THEN A[j] ELSE acc[j]
    <3> SUFFICES ASSUME NEW j \in 0..7
                 PROVE  c[j] = IF first <= j /\ j < m + 2 THEN A[j] ELSE acc[j]
      OBVIOUS
    <3>1. CASE j = m
      BY <1>5, <2>5, <2>8, <3>1
    <3>2. CASE j = m1
      BY <1>5, <2>1, <2>5, <2>8, <3>2
    <3>3. CASE j # m /\ j # m1
      <4>1. c[j] = a[j] /\ (j < m + 2 <=> j < m)
        BY <2>1, <2>5, <3>3
      <4>2. a[j] = IF first <= j /\ j < m THEN A[j] ELSE acc[j]
        BY <1>5, <2>1
      <4> QED
        BY <4>1, <4>2, Zenon
    <3> QED
      BY <3>1, <3>2, <3>3
  <2> QED
    BY <2>1, <2>5, <2>9, Zenon
<1> HIDE DEF Q
<1>6. ASSUME NEW m \in {0, 2, 4, 6}, Q(m) PROVE Q(m + 2)
  <2>1. CASE first <= m
    BY <1>5, <1>6, <2>1
  <2>2. CASE ~(first <= m)
    <3>1. PICK n \in {0, 2, 4, 6, 8} : n = m + 2 /\ n <= first
      BY <2>2
    <3> QED
      BY <1>4, <3>1
  <2> QED
    BY <2>1, <2>2
<1>7. Q(8)
  <2>1. Q(0)
    BY <1>4
  <2>2. Q(2)
    <3>1. Q(0 + 2)
      BY <1>6, <2>1
    <3> QED
      BY <3>1
  <2>3. Q(4)
    <3>1. Q(2 + 2)
      BY <1>6, <2>2
    <3> QED
      BY <3>1
  <2>4. Q(6)
    <3>1. Q(4 + 2)
      BY <1>6, <2>3
    <3> QED
      BY <3>1
  <2>5. Q(6 + 2)
    BY <1>6, <2>4
  <2> QED
    BY <2>5
<1>8. \A j \in 0..7 : g[8][j] = IF j < first THEN acc[j] ELSE A[j]
  <2>1. \A j \in 0..7 : (first <= j /\ j < 8) <=> ~(j < first)
    OBVIOUS
  <2> QED
    BY <1>7, <2>1, Zenon DEF Q
<1> QED
  BY <1>2, <1>7, <1>8, Zenon DEF Q, FromMakes

\* NEON takes the last lanes in scalar code, the first by fours and twos.
LEMMA StripeByNeon ==
  ASSUME NEW acc \in Octet, NEW stripe \in Octet, NEW secret \in Secrets, NEW at \in 0..16,
         NEW n \in {2, 4, 6, 8}
  PROVE  XXH3_accumulate_512_neon(n, acc, stripe, secret, at)
           = Accumulated(acc, stripe, secret, at)
<1> DEFINE A == Accumulated(acc, stripe, secret, at)
<1>1. PICK begun : begun = ScalarFrom(n, acc, stripe, secret, at)
  OBVIOUS
<1>2. /\ begun \in Octet
      /\ \A j \in 0..7 : begun[j] = IF j < n THEN acc[j] ELSE A[j]
  <2>1. PICK m \in {0, 2, 4, 6, 8} : m = n
    OBVIOUS
  <2>2. FromMakes(m, acc, stripe, secret, at, ScalarFrom(m, acc, stripe, secret, at))
    BY ScalarFromIs
  <2> QED
    BY <1>1, <2>1, <2>2, Zenon DEF FromMakes
<1>3. PICK fours : fours = WithRoundUnzip(begun, stripe, secret, at)
  OBVIOUS
<1>4. PICK twos : twos = WithRoundNarrow(2, begun, stripe, secret, at)
  OBVIOUS
<1>5. fours = Accumulated(begun, stripe, secret, at)
  BY <1>2, <1>3, ByUnzip
<1>6. twos = Accumulated(begun, stripe, secret, at)
  BY <1>2, <1>4, ByNarrow
<1>7. ASSUME NEW j \in 0..7, j < n
      PROVE  fours[j] = A[j] /\ twos[j] = A[j]
  <2>1. begun[j] = acc[j]
    BY <1>2, <1>7
  <2> QED
    BY <1>5, <1>6, <2>1, Zenon DEF Accumulated
<1>8. XXH3_accumulate_512_neon(n, acc, stripe, secret, at)
        = [lane \in 0..7 |-> IF lane < 4 * (n \div 4) THEN fours[lane]
                             ELSE IF lane < n THEN twos[lane] ELSE begun[lane]]
  BY <1>1, <1>3, <1>4, Zenon DEF XXH3_accumulate_512_neon, By, WithRoundUnzip, WithRoundNarrow
<1>9. A = [lane \in 0..7 |-> A[lane]]
  BY Zenon DEF Accumulated
<1> HIDE DEF A
<1>10. ASSUME NEW lane \in 0..7
       PROVE  (IF lane < 4 * (n \div 4) THEN fours[lane]
               ELSE IF lane < n THEN twos[lane] ELSE begun[lane]) = A[lane]
  <2>1. lane < 4 * (n \div 4) => lane < n
    OBVIOUS
  <2> QED
    BY <1>2, <1>7, <2>1, Zenon
<1>11. XXH3_accumulate_512_neon(n, acc, stripe, secret, at) = A
  BY <1>8, <1>9, <1>10, Zenon
<1> QED
  BY <1>11 DEF A

------------------------------------------------------------------------------
(* Stripe after stripe. *)

StripeUnits ==
  {<<"scalar", 1>>, <<"avx512", 8>>, <<"avx2", 4>>, <<"sse2", 2>>, <<"lsx", 2>>,
   <<"lasx", 4>>, <<"vsx", 2>>} \cup ({"rvv"} \X {2, 4, 8}) \cup ({"neon"} \X {2, 4, 6, 8})

LEMMA StripeAnyUnit ==
  ASSUME NEW v \in StripeUnits, NEW acc \in Octet, NEW stripe \in Octet,
         NEW secret \in Secrets, NEW at \in 0..16
  PROVE  XXH3_accumulate_512By(v, acc, stripe, secret, at)
           = Accumulated(acc, stripe, secret, at)
<1>1. PICK A : A = Accumulated(acc, stripe, secret, at)
  OBVIOUS
<1>2. CASE v[1] = "scalar"
  <2>1. PICK z \in {0, 2, 4, 6, 8} : z = 0
    OBVIOUS
  <2>2. FromMakes(z, acc, stripe, secret, at, ScalarFrom(z, acc, stripe, secret, at))
    BY ScalarFromIs
  <2>3. \A j \in 0..7 : ScalarFrom(z, acc, stripe, secret, at)[j] = A[j]
    <3>1. \A j \in 0..7 : ~(j < z)
      BY <2>1
    <3> QED
      BY <1>1, <2>2, <3>1, Zenon DEF FromMakes
  <2>4. A \in Octet
    BY <1>1, AccumulatedIs
  <2>5. PICK f : f = ScalarFrom(z, acc, stripe, secret, at)
    OBVIOUS
  <2>6. f = A
    <3>1. f \in [0..7 -> Words] /\ A \in [0..7 -> Words] /\ \A j \in 0..7 : f[j] = A[j]
      BY <2>2, <2>3, <2>4, <2>5, Zenon DEF Octet, FromMakes
    <3> QED
      BY <3>1
  <2>7. XXH3_accumulate_512By(v, acc, stripe, secret, at) = ScalarFrom(0, acc, stripe, secret, at)
    BY <1>2 DEF XXH3_accumulate_512By
  <2> QED
    BY <1>1, <2>1, <2>5, <2>6, <2>7, Zenon
<1>3. CASE v[1] = "neon"
  <2>1. v[2] \in {2, 4, 6, 8}
    BY <1>3 DEF StripeUnits
  <2>2. XXH3_accumulate_512By(v, acc, stripe, secret, at)
          = XXH3_accumulate_512_neon(v[2], acc, stripe, secret, at)
    BY <1>3 DEF XXH3_accumulate_512By
  <2> QED
    BY <2>1, <2>2, StripeByNeon
<1>4. CASE v[1] = "rvv"
  <2>1. v[2] \in {2, 4, 8}
    BY <1>4 DEF StripeUnits
  <2>2. XXH3_accumulate_512By(v, acc, stripe, secret, at)
          = XXH3_accumulate_512_rvv(v[2], acc, stripe, secret, at)
    BY <1>4 DEF XXH3_accumulate_512By
  <2> QED
    BY <2>1, <2>2, StripeByVectors
<1>5. CASE v[1] \in {"avx512", "avx2", "sse2", "vsx", "lsx", "lasx"}
  <2>1. PICK vl \in {2, 4, 8} : vl = 2
    OBVIOUS
  <2>2. /\ XXH3_accumulate_512_avx512(acc, stripe, secret, at) = A
        /\ XXH3_accumulate_512_avx2(acc, stripe, secret, at) = A
        /\ XXH3_accumulate_512_sse2(acc, stripe, secret, at) = A
        /\ XXH3_accumulate_512_vsx(acc, stripe, secret, at) = A
        /\ XXH3_accumulate_512_lsx(acc, stripe, secret, at) = A
        /\ XXH3_accumulate_512_lasx(acc, stripe, secret, at) = A
    BY <1>1, <2>1, StripeByVectors
  <2>3. XXH3_accumulate_512By(v, acc, stripe, secret, at) \in
          {XXH3_accumulate_512_avx512(acc, stripe, secret, at),
           XXH3_accumulate_512_avx2(acc, stripe, secret, at),
           XXH3_accumulate_512_sse2(acc, stripe, secret, at),
           XXH3_accumulate_512_vsx(acc, stripe, secret, at),
           XXH3_accumulate_512_lsx(acc, stripe, secret, at),
           XXH3_accumulate_512_lasx(acc, stripe, secret, at)}
    BY <1>5 DEF XXH3_accumulate_512By
  <2> QED
    BY <1>1, <2>2, <2>3, Zenon
<1>6. v[1] \in {"scalar", "neon", "rvv", "avx512", "avx2", "sse2", "vsx", "lsx", "lasx"}
  BY DEF StripeUnits
<1> QED
  BY <1>2, <1>3, <1>4, <1>5, <1>6

\* g[n] is the accumulators after the first n stripes.
RunLoop(acc, stripes, secret, at, g) ==
  /\ g \in [0..Len(stripes) -> Octet] /\ g[0] = acc
  /\ \A n \in 1..Len(stripes) : g[n] = Accumulated(g[n - 1], stripes[n], secret, at + n - 1)

\* Stripes of a block: there is a word of the secret for each.
Within(stripes, at) == stripes \in Seq(Octet) /\ at \in 0..15 /\ at + Len(stripes) <= 16

LEMMA WithinIs ==
  ASSUME NEW stripes, NEW at, Within(stripes, at)
  PROVE  /\ Len(stripes) \in Nat
         /\ \A n \in 1..Len(stripes) :
              stripes[n] \in Octet /\ at + n - 1 \in 0..16 /\ n - 1 \in 0..Len(stripes)
<1>1. stripes \in Seq(Octet) /\ at \in 0..15 /\ at + Len(stripes) <= 16
  BY DEF Within
<1>2. Len(stripes) \in Nat
  BY <1>1, LenProperties
<1>3. \A n \in 1..Len(stripes) : stripes[n] \in Octet
  BY <1>1, ElementOfSeq
<1> QED
  BY <1>1, <1>2, <1>3

LEMMA RunLoopEnds ==
  ASSUME NEW acc \in Octet, NEW stripes, NEW secret \in Secrets, NEW at, Within(stripes, at)
  PROVE  \E g : RunLoop(acc, stripes, secret, at, g)
<1> DEFINE N == Len(stripes)
           step == [p \in Octet \X (1..N) |-> Accumulated(p[1], stripes[p[2]], secret, at + p[2] - 1)]
<1>1. /\ N \in Nat
      /\ \A n \in 1..N : stripes[n] \in Octet /\ at + n - 1 \in 0..16 /\ n - 1 \in 0..N
  BY WithinIs
<1> HIDE DEF N
<1>2. ASSUME NEW a \in Octet, NEW n \in 1..N
      PROVE  Accumulated(a, stripes[n], secret, at + n - 1) \in Octet
  BY <1>1, AccumulatedIs
<1>3. step \in [Octet \X (1..N) -> Octet]
  <2>1. ASSUME NEW p \in Octet \X (1..N)
        PROVE  Accumulated(p[1], stripes[p[2]], secret, at + p[2] - 1) \in Octet
    <3>1. p[1] \in Octet /\ p[2] \in 1..N
      OBVIOUS
    <3> QED
      BY <1>2, <3>1, Zenon
  <2> QED
    BY <2>1, Zenon
<1>4. \A a \in Octet, n \in 1..N :
        step[<<a, n>>] = Accumulated(a, stripes[n], secret, at + n - 1)
  <2> SUFFICES ASSUME NEW a \in Octet, NEW n \in 1..N
               PROVE  step[<<a, n>>] = Accumulated(a, stripes[n], secret, at + n - 1)
    OBVIOUS
  <2>1. <<a, n>> \in Octet \X (1..N) /\ <<a, n>>[1] = a /\ <<a, n>>[2] = n
    OBVIOUS
  <2> QED
    BY <2>1, Zenon
<1> HIDE DEF step
<1>5. PICK g \in [0..N -> Octet] : Steps(g, acc, step, N)
  BY <1>1, <1>3, Recursion, ZenonT(30)
<1>6. g[0] = acc
  <2>1. 0 \in 0..N
    BY <1>1
  <2> QED
    BY <1>5, <2>1, Zenon DEF Steps
<1>7. ASSUME NEW n \in 1..N
      PROVE  g[n] = Accumulated(g[n - 1], stripes[n], secret, at + n - 1)
  <2>1. n \in 0..N /\ n # 0 /\ n - 1 \in 0..N
    BY <1>1
  <2>2. g[n - 1] \in Octet
    BY <1>5, <2>1
  <2>3. g[n] = step[<<g[n - 1], n>>]
    BY <1>5, <2>1, Zenon DEF Steps
  <2> QED
    BY <1>4, <2>2, <2>3, Zenon
<1>8. RunLoop(acc, stripes, secret, at, g)
  BY <1>5, <1>6, <1>7, Zenon DEF RunLoop, N
<1> QED
  BY <1>8

\* Two functions that start alike and go on alike are the same.
LEMMA SameSteps ==
  ASSUME NEW N \in Nat, NEW f, NEW g, f[0] = g[0],
         \A n \in 1..N : f[n - 1] = g[n - 1] => f[n] = g[n]
  PROVE  \A n \in 0..N : f[n] = g[n]
<1> DEFINE Bad == {n \in 0..N : f[n] # g[n]}
<1>1. SUFFICES ASSUME Bad # {} PROVE FALSE
  OBVIOUS
<1>2. PICK n \in Bad : \A m \in Bad : n <= m
  <2>1. Bad \in SUBSET Nat
    OBVIOUS
  <2> HIDE DEF Bad
  <2> QED
    BY <1>1, <2>1, LeastNumber
<1>3. n \in 1..N /\ n - 1 \in 0..N /\ n - 1 \notin Bad
  BY <1>2
<1> QED
  BY <1>2, <1>3

TemplateLoop(v, acc, stripes, secret, at, g) ==
  g = [n \in 0..Len(stripes) |->
         IF n = 0 THEN acc ELSE XXH3_accumulate_512By(v, g[n - 1], stripes[n], secret, at + n - 1)]

LEMMA TemplateRuns ==
  ASSUME NEW v \in StripeUnits, NEW acc \in Octet, NEW stripes, NEW secret \in Secrets, NEW at,
         Within(stripes, at), NEW run, RunLoop(acc, stripes, secret, at, run)
  PROVE  XXH3_accumulateBy(v, acc, stripes, secret, at) = run[Len(stripes)]
<1>1. PICK N \in Nat : N = Len(stripes)
  BY WithinIs
<1>2. \A n \in 1..N : stripes[n] \in Octet /\ at + n - 1 \in 0..16 /\ n - 1 \in 0..N
  BY <1>1, WithinIs
<1>3. /\ run \in [0..N -> Octet] /\ run[0] = acc
      /\ \A n \in 1..N : run[n] = Accumulated(run[n - 1], stripes[n], secret, at + n - 1)
  BY <1>1, Zenon DEF RunLoop
<1>4. ASSUME NEW n \in 1..N
      PROVE  run[n] = XXH3_accumulate_512By(v, run[n - 1], stripes[n], secret, at + n - 1)
  <2>1. PICK a \in Octet, stripe \in Octet, i \in 0..16 :
          a = run[n - 1] /\ stripe = stripes[n] /\ i = at + n - 1
    BY <1>2, <1>3
  <2>2. XXH3_accumulate_512By(v, a, stripe, secret, i) = Accumulated(a, stripe, secret, i)
    BY StripeAnyUnit
  <2> QED
    BY <1>3, <2>1, <2>2, Zenon
<1>5. \E g : TemplateLoop(v, acc, stripes, secret, at, g)
  <2>1. ASSUME NEW n \in 0..N
        PROVE  run[n] = IF n = 0 THEN acc
                        ELSE XXH3_accumulate_512By(v, run[n - 1], stripes[n], secret, at + n - 1)
    <3>1. n # 0 => n \in 1..N
      OBVIOUS
    <3> QED
      BY <1>3, <1>4, <3>1, Zenon
  <2>2. run = [n \in 0..N |-> run[n]]
    BY <1>3
  <2>3. TemplateLoop(v, acc, stripes, secret, at, run)
    BY <1>1, <2>1, <2>2, Zenon DEF TemplateLoop
  <2> QED
    BY <2>3
<1> DEFINE g == CHOOSE h : TemplateLoop(v, acc, stripes, secret, at, h)
<1>6. TemplateLoop(v, acc, stripes, secret, at, g)
  BY <1>5, Zenon
<1>7. XXH3_accumulateBy(v, acc, stripes, secret, at) = g[Len(stripes)]
  <2>1. v[1] # "sve"
    BY DEF StripeUnits
  <2> QED
    BY <2>1, Zenon DEF XXH3_accumulateBy, XXH3_accumulate_TEMPLATE, TemplateLoop
<1> HIDE DEF g
<1>8. \A n \in 0..N : g[n] = IF n = 0 THEN acc
                        ELSE XXH3_accumulate_512By(v, g[n - 1], stripes[n], secret, at + n - 1)
  BY <1>1, <1>6, Zenon DEF TemplateLoop
<1>9. \A n \in 0..N : g[n] = run[n]
  <2>1. g[0] = run[0]
    BY <1>1, <1>3, <1>8
  <2>2. ASSUME NEW n \in 1..N, g[n - 1] = run[n - 1] PROVE g[n] = run[n]
    <3>1. n \in 0..N /\ n # 0
      OBVIOUS
    <3> QED
      BY <1>4, <1>8, <2>2, <3>1, Zenon
  <2> QED
    BY <2>1, <2>2, SameSteps
<1> QED
  BY <1>1, <1>7, <1>9

\* SVE keeps vectors of accumulators over all the stripes.
RegLoop(w, i, acc, stripes, secret, at, g) ==
  g = [n \in 0..Len(stripes) |->
         IF n = 0 THEN Vec(acc, i, w)
         ELSE ACCRND(g[n - 1], Vec(stripes[n], i, w), Vec(secret, at + n - 1 + i, w))]

Begins(w, l, i) == i = l - (l % w)

LEMMA RegStep ==
  ASSUME NEW w \in {2, 4, 8}, NEW l \in 0..7, NEW i, Begins(w, l, i), NEW acc \in Octet,
         NEW stripe \in Octet, NEW secret \in Secrets, NEW at \in 0..16
  PROVE  ACCRND(Vec(acc, i, w), Vec(stripe, i, w), Vec(secret, at + i, w))
           = Vec(Accumulated(acc, stripe, secret, at), i, w)
<1>0. i = l - (l % w)
  BY DEF Begins
<1>1. ASSUME NEW b \in 0..w - 1
      PROVE  /\ ACCRND(Vec(acc, i, w), Vec(stripe, i, w), Vec(secret, at + i, w))[b]
                  = Accumulated(acc, stripe, secret, at)[i + b]
             /\ DOMAIN Vec(acc, i, w) = 0..w - 1
  <2>1. PICK lane \in 0..7 : lane = i + b /\ i = lane - (lane % w) /\ b = lane % w
    <3>1. CASE w = 2
      BY <1>0, <3>1
    <3>2. CASE w = 4
      BY <1>0, <3>2
    <3>3. CASE w = 8
      BY <1>0, <3>3
    <3> QED
      BY <3>1, <3>2, <3>3
  <2>2. Given(w, acc, stripe, secret, at, lane, i, b)
    BY <2>1, LaneGiven
  <2>3. PICK a, d, k \in Vector(w) : a = Vec(acc, i, w) /\ d = Vec(stripe, i, w) /\ k = Vec(secret, at + i, w)
    BY <2>2, Zenon DEF Given
  <2>4. ACCRND(a, d, k)[b] = MixedLane(a[b], d[b], d[nb(b)], k[b])
    BY AccrndMixes
  <2>5. ACCRND(a, d, k)[b] = MixedLane(acc[lane], stripe[lane], stripe[nb(lane)], secret[at + lane])
    BY <2>2, <2>3, <2>4, Zenon DEF Given
  <2>6. Accumulated(acc, stripe, secret, at)[lane]
          = MixedLane(acc[lane], stripe[lane], stripe[nb(lane)], secret[at + lane])
    BY Zenon DEF Accumulated
  <2>7. DOMAIN a = 0..w - 1
    BY DEF Vector
  <2> QED
    BY <2>1, <2>3, <2>5, <2>6, <2>7, Zenon
<1>2. PICK a, d, k : a = Vec(acc, i, w) /\ d = Vec(stripe, i, w) /\ k = Vec(secret, at + i, w)
  OBVIOUS
<1>3. DOMAIN a = 0..w - 1
  <2>1. 0 \in 0..w - 1
    OBVIOUS
  <2> QED
    BY <1>1, <1>2, <2>1, Zenon
<1>4. ACCRND(a, d, k) = [b \in DOMAIN a |-> ACCRND(a, d, k)[b]]
  <2>1. PICK q : ACCRND(a, d, k) = Add2(a, q)
    BY Zenon DEF ACCRND
  <2>2. Add2(a, q) = [b \in DOMAIN a |-> Add2(a, q)[b]]
    BY DEF Add2
  <2> QED
    BY <2>1, <2>2, Zenon
<1>5. Vec(Accumulated(acc, stripe, secret, at), i, w)
        = [b \in 0..w - 1 |-> Accumulated(acc, stripe, secret, at)[i + b]]
  BY Zenon DEF Vec
<1> QED
  BY <1>1, <1>2, <1>3, <1>4, <1>5, Zenon

LEMMA SveRuns ==
  ASSUME NEW w \in {2, 4, 8}, NEW acc \in Octet, NEW stripes, NEW secret \in Secrets, NEW at,
         Within(stripes, at), NEW run, RunLoop(acc, stripes, secret, at, run)
  PROVE  XXH3_accumulate_sve(w, acc, stripes, secret, at) = run[Len(stripes)]
<1>1. PICK N \in Nat : N = Len(stripes)
  BY WithinIs
<1>2. \A n \in 1..N : stripes[n] \in Octet /\ at + n - 1 \in 0..16 /\ n - 1 \in 0..N
  BY <1>1, WithinIs
<1>3. /\ run \in [0..N -> Octet] /\ run[0] = acc
      /\ \A n \in 1..N : run[n] = Accumulated(run[n - 1], stripes[n], secret, at + n - 1)
  BY <1>1, Zenon DEF RunLoop
<1> DEFINE Reg(i) == CHOOSE g : RegLoop(w, i, acc, stripes, secret, at, g)
<1>4. ASSUME NEW l \in 0..7
      PROVE  Reg(l - (l % w))[N][l % w] = run[N][l]
  <2>1. PICK i, b : i = l - (l % w) /\ b = l % w
    OBVIOUS
  <2> DEFINE h == [n \in 0..N |-> Vec(run[n], i, w)]
  <2>2. ASSUME NEW n \in 1..N
        PROVE  Vec(run[n], i, w)
                 = ACCRND(Vec(run[n - 1], i, w), Vec(stripes[n], i, w), Vec(secret, at + n - 1 + i, w))
    <3>1. PICK a \in Octet, stripe \in Octet, p \in 0..16 :
            a = run[n - 1] /\ stripe = stripes[n] /\ p = at + n - 1
      BY <1>2, <1>3
    <3>2. ACCRND(Vec(a, i, w), Vec(stripe, i, w), Vec(secret, p + i, w))
            = Vec(Accumulated(a, stripe, secret, p), i, w)
      <4>1. Begins(w, l, i)
        BY <2>1 DEF Begins
      <4> QED
        BY <4>1, RegStep
    <3> QED
      BY <1>3, <3>1, <3>2, Zenon
  <2>3. RegLoop(w, i, acc, stripes, secret, at, h)
    <3>1. \A n \in 0..N : h[n] = Vec(run[n], i, w)
      BY Zenon
    <3>2. h = [n \in 0..N |-> h[n]]
      BY Zenon
    <3> HIDE DEF h
    <3>3. ASSUME NEW n \in 0..N
          PROVE  h[n] = IF n = 0 THEN Vec(acc, i, w)
                        ELSE ACCRND(h[n - 1], Vec(stripes[n], i, w), Vec(secret, at + n - 1 + i, w))
      <4>1. CASE n = 0
        BY <1>3, <3>1, <4>1, Zenon
      <4>2. CASE n # 0
        <5>1. n \in 1..N /\ n - 1 \in 0..N
          BY <4>2
        <5>2. h[n - 1] = Vec(run[n - 1], i, w)
          BY <3>1, <5>1, Zenon
        <5> QED
          BY <2>2, <3>1, <4>2, <5>1, <5>2, Zenon
      <4> QED
        BY <4>1, <4>2
    <3> QED
      BY <1>1, <3>2, <3>3, Zenon DEF RegLoop
  <2>4. PICK g : g = Reg(i)
    OBVIOUS
  <2>5. RegLoop(w, i, acc, stripes, secret, at, g)
    BY <2>3, <2>4, Zenon
  <2>6. \A n \in 0..N : g[n] = IF n = 0 THEN Vec(acc, i, w)
                ELSE ACCRND(g[n - 1], Vec(stripes[n], i, w), Vec(secret, at + n - 1 + i, w))
    BY <1>1, <2>5, Zenon DEF RegLoop
  <2>7. \A n \in 0..N : h[n] = Vec(run[n], i, w)
    BY Zenon
  <2> HIDE DEF h
  <2>8. \A n \in 0..N : g[n] = h[n]
    <3>1. g[0] = h[0]
      <4>1. 0 \in 0..N
        OBVIOUS
      <4> QED
        BY <1>3, <2>6, <2>7, <4>1, Zenon
    <3>2. ASSUME NEW n \in 1..N, g[n - 1] = h[n - 1] PROVE g[n] = h[n]
      <4>1. n \in 0..N /\ n # 0 /\ n - 1 \in 0..N
        OBVIOUS
      <4>2. h[n - 1] = Vec(run[n - 1], i, w)
        BY <2>7, <4>1, Zenon
      <4> QED
        BY <2>2, <2>6, <2>7, <3>2, <4>1, <4>2, Zenon
    <3> QED
      BY <3>1, <3>2, SameSteps
  <2>9. g[N] = Vec(run[N], i, w)
    <3>1. N \in 0..N
      OBVIOUS
    <3> QED
      BY <2>7, <2>8, <3>1, Zenon
  <2>10. Vec(run[N], i, w)[b] = run[N][l]
    <3>1. PICK a \in Octet : a = run[N]
      BY <1>3
    <3>2. PICK z \in 0..16 : z = 0
      OBVIOUS
    <3>3. Given(w, a, a, secret, z, l, i, b)
      BY <2>1, LaneGiven
    <3> QED
      BY <3>1, <3>3, Zenon DEF Given
  <2> QED
    BY <2>1, <2>4, <2>9, <2>10, Zenon
<1>5. XXH3_accumulate_sve(w, acc, stripes, secret, at)
        = [lane \in 0..7 |-> Reg(lane - (lane % w))[Len(stripes)][lane % w]]
  BY Zenon DEF XXH3_accumulate_sve, RegLoop
<1> HIDE DEF Reg
<1>6. run[N] = [l \in 0..7 |-> run[N][l]]
  <2>1. run[N] \in Octet
    BY <1>3
  <2> QED
    BY <2>1 DEF Octet
<1> QED
  BY <1>1, <1>4, <1>5, <1>6, Zenon

LEMMA AccumulateAnyUnit ==
  ASSUME NEW v \in Variants, NEW u \in Variants, NEW acc \in Octet, NEW stripes,
         NEW secret \in Secrets, NEW at, Within(stripes, at)
  PROVE  /\ XXH3_accumulateBy(v, acc, stripes, secret, at) \in Octet
         /\ XXH3_accumulateBy(v, acc, stripes, secret, at)
              = XXH3_accumulateBy(u, acc, stripes, secret, at)
<1>1. PICK run : RunLoop(acc, stripes, secret, at, run)
  BY RunLoopEnds
<1>2. ASSUME NEW t \in Variants
      PROVE  XXH3_accumulateBy(t, acc, stripes, secret, at) = run[Len(stripes)]
  <2>1. CASE t \in StripeUnits
    BY <1>1, <2>1, TemplateRuns
  <2>2. CASE t \notin StripeUnits
    <3>1. t \in {"sve"} \X {2, 4, 8}
      <4>1. t \in StripeUnits \cup ({"sve"} \X {2, 4, 8})
        BY DEF Variants, StripeUnits
      <4> QED
        BY <2>2, <4>1
    <3>2. t[1] = "sve" /\ t[2] \in {2, 4, 8}
      BY <3>1
    <3>3. XXH3_accumulateBy(t, acc, stripes, secret, at)
            = XXH3_accumulate_sve(t[2], acc, stripes, secret, at)
      BY <3>2, Zenon DEF XXH3_accumulateBy
    <3> QED
      BY <1>1, <3>2, <3>3, SveRuns
  <2> QED
    BY <2>1, <2>2
<1>3. run[Len(stripes)] \in Octet
  <2>1. Len(stripes) \in 0..Len(stripes)
    BY WithinIs
  <2> QED
    BY <1>1, <2>1 DEF RunLoop
<1> QED
  BY <1>2, <1>3

------------------------------------------------------------------------------
(* Scrambles. *)

ScrambledLane(a, k) == (xor(xorshift(a), k) * PRIME32_1) % Word

AllScrambled(acc, secret, at) ==
  [lane \in 0..7 |-> ScrambledLane(acc[lane], secret[at + lane])]

LEMMA ShiftIsWord ==
  ASSUME NEW a \in Words, NEW k \in Words
  PROVE  xorshift(a) \in Words /\ xor(xorshift(a), k) \in Words /\ ScrambledLane(a, k) \in Words
<1>1. Shift \in Nat \ {0} /\ Word \in Nat \ {0} /\ PRIME32_1 \in Nat /\ a \in Nat
  BY WordsAre DEF Words
<1>2. PICK q : q = a \div Shift
  OBVIOUS
<1>3. q \in Words
  <2>1. PICK r \in Nat : q \in Nat /\ a = Shift * q + r
    <3>1. a \div Shift \in Nat /\ a % Shift \in 0..Shift - 1
          /\ a = Shift * (a \div Shift) + (a % Shift)
      BY <1>1, Division
    <3> QED
      BY <1>2, <3>1
  <2>2. PICK d \in Nat : Shift = d + 1
    <3>1. Shift - 1 \in Nat /\ Shift = (Shift - 1) + 1
      BY <1>1
    <3> QED
      BY <3>1
  <2>3. Shift * q = d * q + q /\ d * q \in Nat
    BY <2>1, <2>2
  <2>4. q <= a
    BY <1>1, <2>1, <2>3
  <2> QED
    BY <1>1, <2>1, <2>4 DEF Words
<1>4. xorshift(a) \in Words
  BY <1>2, <1>3, XorIsWord DEF xorshift
<1>5. PICK x \in Words : x = xor(xorshift(a), k)
  BY <1>4, XorIsWord
<1>6. (x * PRIME32_1) % Word \in Words
  <2>1. x * PRIME32_1 \in Nat
    BY <1>1 DEF Words
  <2>2. (x * PRIME32_1) % Word \in 0..Word - 1
    BY <1>1, <2>1, Division
  <2> QED
    BY <2>2 DEF Words
<1> QED
  BY <1>4, <1>5, <1>6 DEF ScrambledLane

\* Multiples of a word are lost.
LEMMA WordLost ==
  ASSUME NEW a \in Nat, NEW q \in Nat, NEW x \in Nat, x = a + Word * q
  PROVE  x % Word = a % Word
<1>1. Word \in Nat \ {0}
  BY WordsAre
<1>2. PICK p \in Nat, s \in 0..Word - 1 : a = Word * p + s /\ s = a % Word
  BY <1>1, Division
<1>3. PICK k \in Nat : k = p + q
  OBVIOUS
<1>4. x = Word * k + s
  BY <1>1, <1>2, <1>3
<1>5. s \in 0..Word - 1
  BY <1>2
<1>6. x % Word = s
  BY <1>1, <1>4, <1>5, Divided
<1> QED
  BY <1>2, <1>6

\* A word times the prime, from the products of its halves.
LEMMA HalvesTimes ==
  ASSUME NEW x \in Words
  PROVE  /\ Plus(lo(x) * PRIME32_1, lo(hi(x) * PRIME32_1) * Half) = (x * PRIME32_1) % Word
         /\ Plus(Half * lo(hi(x) * PRIME32_1), lo(x) * PRIME32_1) = (x * PRIME32_1) % Word
<1>1. PICK l \in Nat, h \in Nat : l = lo(x) /\ h = hi(x) /\ x = Half * h + l
  BY HalvesOf
<1>2. PICK P \in Nat : P = PRIME32_1
  BY WordsAre
<1>3. Half \in Nat \ {0} /\ Word = Half * Half /\ Word \in Nat
  BY WordsAre
<1>4. PICK m \in Nat : m = h * P
  OBVIOUS
<1>5. PICK q \in Nat, r \in 0..Half - 1 : m = Half * q + r /\ r = m % Half
  BY <1>3, Division
<1>6. PICK n \in Nat, t \in Nat, u \in Nat : n = l * P /\ t = Half * r /\ u = Word * q
  <2>1. r \in Nat
    BY <1>5
  <2>2. l * P \in Nat /\ Half * r \in Nat /\ Word * q \in Nat
    BY <1>3, <2>1
  <2> QED
    BY <2>2
<1>7. x * P = n + t + u
  <2>1. x * P = Half * (h * P) + l * P
    BY <1>1, <1>3
  <2>2. Half * m = Half * (Half * q) + Half * r
    BY <1>3, <1>5
  <2>3. Half * (Half * q) = Word * q
    BY <1>3
  <2> QED
    BY <1>3, <1>4, <1>6, <2>1, <2>2, <2>3
<1>8. (x * P) % Word = (n + t) % Word
  <2>0. n + t \in Nat /\ x * P \in Nat
    BY <1>7
  <2>1. PICK a, y : a = n + t /\ y = x * P
    OBVIOUS
  <2>2. y = a + Word * q
    BY <1>6, <1>7, <2>1
  <2>3. y % Word = a % Word
    <3>1. y \in Nat /\ a \in Nat
      BY <2>0, <2>1
    <3> QED
      BY <2>2, <3>1, WordLost
  <2> QED
    BY <2>1, <2>3
<1>9. lo(m) = r
  BY <1>5 DEF lo
<1>10. r * Half = t /\ n + t = t + n
  <2>1. r \in Nat
    BY <1>5
  <2> QED
    BY <1>3, <1>6, <2>1
<1>11. Plus(n, t) = (x * P) % Word /\ Plus(t, n) = (x * P) % Word
  BY <1>8, <1>10, Zenon DEF Plus
<1> QED
  BY <1>1, <1>2, <1>4, <1>6, <1>9, <1>10, <1>11, Zenon

\* What a scramble is given for a word: with x the accumulator shifted and mixed
\* with the secret.
ScrambleTakes(w, acc, key, j, dk, x) ==
  /\ dk = [m \in DOMAIN acc |-> xor(xorshift(acc[m]), key[m])]
  /\ dk \in Vector(w) /\ DOMAIN dk = DOMAIN acc /\ j \in DOMAIN acc /\ j \in DOMAIN dk
  /\ dk[j] = x /\ x \in Words /\ lo(hi(x)) = hi(x)
  /\ lo(OddsDown(dk)[j]) = hi(x)
  /\ DOMAIN OddsDown(dk) = DOMAIN acc
  /\ lo(Primes(acc)[j]) = PRIME32_1
  /\ ScrambledLane(acc[j], key[j]) = (x * PRIME32_1) % Word

LEMMA ScrambleGiven ==
  ASSUME NEW w \in {2, 4, 8}, NEW acc \in Vector(w), NEW key \in Vector(w), NEW j \in 0..w - 1
  PROVE  \E dk, x : ScrambleTakes(w, acc, key, j, dk, x)
<1>1. DOMAIN acc = 0..w - 1
  BY DEF Vector
<1>2. \A m \in 0..w - 1 : xor(xorshift(acc[m]), key[m]) \in Words
  <2> SUFFICES ASSUME NEW m \in 0..w - 1 PROVE xor(xorshift(acc[m]), key[m]) \in Words
    OBVIOUS
  <2>1. acc[m] \in Words /\ key[m] \in Words
    BY DEF Vector
  <2> QED
    BY <2>1, ShiftIsWord
<1>3. PICK dk : dk = [m \in DOMAIN acc |-> xor(xorshift(acc[m]), key[m])]
  OBVIOUS
<1>4. dk \in Vector(w) /\ DOMAIN dk = 0..w - 1
  BY <1>1, <1>2, <1>3 DEF Vector
<1>5. PICK x : x = dk[j]
  OBVIOUS
<1>6. x \in Words /\ x = xor(xorshift(acc[j]), key[j])
  BY <1>1, <1>2, <1>3, <1>5, Zenon
<1>7. lo(hi(x)) = hi(x)
  BY <1>6, HalvesOf
<1>8. lo(OddsDown(dk)[j]) = hi(x)
  BY <1>4, <1>5, OddsDownIs DEF Vector
<1>9. DOMAIN OddsDown(dk) = 0..w - 1
  BY <1>4, Domains, Zenon DEF OddsDown
<1>10. lo(Primes(acc)[j]) = PRIME32_1
  <2>1. Primes(acc)[j] = PRIME32_1 + Half * PRIME32_1
    BY <1>1, Zenon DEF Primes
  <2>2. lo(PRIME32_1 + Half * PRIME32_1) = PRIME32_1
    BY WordsAre, Joined
  <2> QED
    BY <2>1, <2>2, Zenon
<1>11. ScrambledLane(acc[j], key[j]) = (x * PRIME32_1) % Word
  BY <1>6, Zenon DEF ScrambledLane
<1> QED
  BY <1>1, <1>3, <1>4, <1>5, <1>6, <1>7, <1>8, <1>9, <1>10, <1>11, Zenon DEF ScrambleTakes

LEMMA ToHiAt == ASSUME NEW a, NEW j \in DOMAIN a PROVE ToHi(a)[j] = lo(a[j]) * Half
  BY Zenon DEF ToHi

\* The product of a word's half with the prime, and the high one moved up.
LEMMA TimesPrimes ==
  ASSUME NEW a, NEW b, NEW j \in DOMAIN b, lo(Primes(a)[j]) = PRIME32_1
  PROVE  /\ mul_epu32(b, Primes(a))[j] = lo(b[j]) * PRIME32_1
         /\ ToHi(mul_epu32(b, Primes(a)))[j] = lo(lo(b[j]) * PRIME32_1) * Half
<1>1. mul_epu32(b, Primes(a))[j] = lo(b[j]) * PRIME32_1
  BY MulAt DEF XXH_mult32to64
<1>2. j \in DOMAIN mul_epu32(b, Primes(a))
  BY Domains
<1> QED
  BY <1>1, <1>2, ToHiAt, Zenon

\* ScrambleHalves with either way to move the high halves down.
HalvesShifted(acc, key) ==
  LET dk == [j \in DOMAIN acc |-> xor(xorshift(acc[j]), key[j])]
  IN  Add2(mul_epu32(dk, Primes(acc)), ToHi(mul_epu32(ShiftHi(dk), Primes(acc))))

HalvesShuffled(acc, key) ==
  LET dk == [j \in DOMAIN acc |-> xor(xorshift(acc[j]), key[j])]
  IN  Add2(mul_epu32(dk, Primes(acc)), ToHi(mul_epu32(OddsDown(dk), Primes(acc))))

LEMMA HalvesScramble ==
  ASSUME NEW w \in {2, 4, 8}, NEW acc \in Vector(w), NEW key \in Vector(w), NEW j \in 0..w - 1
  PROVE  /\ HalvesShifted(acc, key)[j] = ScrambledLane(acc[j], key[j])
         /\ HalvesShuffled(acc, key)[j] = ScrambledLane(acc[j], key[j])
<1>1. PICK dk, x : ScrambleTakes(w, acc, key, j, dk, x)
  BY ScrambleGiven
<1>2. PICK a, b, c : /\ a = mul_epu32(dk, Primes(acc))
                     /\ b = ToHi(mul_epu32(ShiftHi(dk), Primes(acc)))
                     /\ c = ToHi(mul_epu32(OddsDown(dk), Primes(acc)))
  OBVIOUS
<1>3. a[j] = lo(x) * PRIME32_1 /\ j \in DOMAIN a
  BY <1>1, <1>2, TimesPrimes, Domains DEF ScrambleTakes
<1>4. b[j] = lo(hi(x) * PRIME32_1) * Half
  <2>1. j \in DOMAIN ShiftHi(dk) /\ ShiftHi(dk)[j] = hi(x)
    BY <1>1, Domains, ShiftAt DEF ScrambleTakes
  <2>2. b[j] = lo(lo(ShiftHi(dk)[j]) * PRIME32_1) * Half
    BY <1>1, <1>2, <2>1, TimesPrimes DEF ScrambleTakes
  <2> QED
    BY <1>1, <2>1, <2>2, Zenon DEF ScrambleTakes
<1>5. c[j] = lo(hi(x) * PRIME32_1) * Half
  <2>1. j \in DOMAIN OddsDown(dk)
    BY <1>1, Zenon DEF ScrambleTakes
  <2>2. c[j] = lo(lo(OddsDown(dk)[j]) * PRIME32_1) * Half
    BY <1>1, <1>2, <2>1, TimesPrimes DEF ScrambleTakes
  <2> QED
    BY <1>1, <2>2, Zenon DEF ScrambleTakes
<1>6. Plus(lo(x) * PRIME32_1, lo(hi(x) * PRIME32_1) * Half) = ScrambledLane(acc[j], key[j])
  BY <1>1, HalvesTimes, Zenon DEF ScrambleTakes
<1>7. HalvesShifted(acc, key) = Add2(a, b) /\ HalvesShuffled(acc, key) = Add2(a, c)
  BY <1>1, <1>2, Zenon DEF ScrambleTakes, HalvesShifted, HalvesShuffled
<1>8. Add2(a, b)[j] = Plus(a[j], b[j]) /\ Add2(a, c)[j] = Plus(a[j], c[j])
  BY <1>3, AddAt
<1> QED
  BY <1>3, <1>4, <1>5, <1>6, <1>7, <1>8, Zenon

LEMMA EvenOddScramble ==
  ASSUME NEW w \in {2, 4, 8}, NEW acc \in Vector(w), NEW key \in Vector(w), NEW j \in 0..w - 1
  PROVE  ScrambleEvenOdd(acc, key)[j] = ScrambledLane(acc[j], key[j])
<1>1. ScrambleEvenOdd(acc, key) = HalvesShifted(acc, key)
  <2>1. PICK dk : dk = [m \in DOMAIN acc |-> xor(xorshift(acc[m]), key[m])]
    OBVIOUS
  <2>2. Xor2([m \in DOMAIN acc |-> xorshift(acc[m])], key) = dk
    BY <2>1 DEF Xor2
  <2>3. HalvesShifted(acc, key)
          = Add2(mul_epu32(dk, Primes(acc)), ToHi(mul_epu32(ShiftHi(dk), Primes(acc))))
    BY <2>1, Zenon DEF HalvesShifted
  <2> QED
    BY <2>2, <2>3, Zenon DEF ScrambleEvenOdd
<1> QED
  BY <1>1, HalvesScramble

LEMMA InPlaceScramble ==
  ASSUME NEW w \in {2, 4, 8}, NEW acc \in Vector(w), NEW key \in Vector(w), NEW j \in 0..w - 1
  PROVE  ScrambleInPlace(acc, key)[j] = ScrambledLane(acc[j], key[j])
<1>1. PICK dk, x : ScrambleTakes(w, acc, key, j, dk, x)
  BY ScrambleGiven
<1>2. Xor2([m \in DOMAIN acc |-> xorshift(acc[m])], key) = dk
  <2>1. dk = [m \in DOMAIN acc |-> xor(xorshift(acc[m]), key[m])]
    BY <1>1, Zenon DEF ScrambleTakes
  <2> QED
    BY <2>1 DEF Xor2
<1> DEFINE a == [m \in DOMAIN acc |-> Half * lo(hi(dk[m]) * PRIME32_1)]
           b == [m \in DOMAIN acc |-> lo(dk[m]) * PRIME32_1]
<1>3. a[j] = Half * lo(hi(x) * PRIME32_1) /\ b[j] = lo(x) * PRIME32_1 /\ j \in DOMAIN a
  BY <1>1, Zenon DEF ScrambleTakes
<1>4. ScrambleInPlace(acc, key) = Add2(a, b)
  BY <1>2, Zenon DEF ScrambleInPlace
<1> HIDE DEF a, b
<1>5. Add2(a, b)[j] = Plus(a[j], b[j])
  BY <1>3, AddAt
<1>6. Plus(Half * lo(hi(x) * PRIME32_1), lo(x) * PRIME32_1) = ScrambledLane(acc[j], key[j])
  BY <1>1, HalvesTimes, Zenon DEF ScrambleTakes
<1> QED
  BY <1>3, <1>4, <1>5, <1>6, Zenon

LEMMA WordsScramble ==
  ASSUME NEW w \in {2, 4, 8}, NEW acc \in Vector(w), NEW key \in Vector(w), NEW j \in 0..w - 1
  PROVE  ScrambleWords(acc, key)[j] = ScrambledLane(acc[j], key[j])
<1>1. DOMAIN acc = 0..w - 1
  BY DEF Vector
<1> QED
  BY <1>1, Zenon DEF ScrambleWords, ScrambledLane

\* The accumulators with each of the scrambles, and that they are the same with all.
WithHalvesShifted(w, acc, secret, at) ==
  [lane \in 0..7 |-> HalvesShifted(Vec(acc, lane - (lane % w), w),
                      Vec(secret, at + (lane - (lane % w)), w))[lane % w]]

LEMMA ByHalvesShifted ==
  ASSUME NEW w \in {2, 4, 8}, NEW acc \in Octet, NEW secret \in Secrets, NEW at \in 0..16
  PROVE  WithHalvesShifted(w, acc, secret, at) = AllScrambled(acc, secret, at)
<1>1. ASSUME NEW lane \in 0..7
      PROVE  HalvesShifted(Vec(acc, lane - (lane % w), w), Vec(secret, at + (lane - (lane % w)), w))[lane % w]
               = ScrambledLane(acc[lane], secret[at + lane])
  <2>1. PICK i, b : i = lane - (lane % w) /\ b = lane % w
    OBVIOUS
  <2>2. Given(w, acc, acc, secret, at, lane, i, b)
    BY <2>1, LaneGiven
  <2>3. PICK a, k \in Vector(w) : a = Vec(acc, i, w) /\ k = Vec(secret, at + i, w)
    BY <2>2, Zenon DEF Given
  <2>4. HalvesShifted(a, k)[b] = ScrambledLane(a[b], k[b])
    <3>1. b \in 0..w - 1
      BY <2>2, Zenon DEF Given
    <3> QED
      BY <3>1, HalvesScramble
  <2> QED
    BY <2>1, <2>2, <2>3, <2>4, Zenon DEF Given
<1> QED
  BY <1>1, Zenon DEF AllScrambled, WithHalvesShifted

WithHalvesShuffled(w, acc, secret, at) ==
  [lane \in 0..7 |-> HalvesShuffled(Vec(acc, lane - (lane % w), w),
                      Vec(secret, at + (lane - (lane % w)), w))[lane % w]]

LEMMA ByHalvesShuffled ==
  ASSUME NEW w \in {2, 4, 8}, NEW acc \in Octet, NEW secret \in Secrets, NEW at \in 0..16
  PROVE  WithHalvesShuffled(w, acc, secret, at) = AllScrambled(acc, secret, at)
<1>1. ASSUME NEW lane \in 0..7
      PROVE  HalvesShuffled(Vec(acc, lane - (lane % w), w), Vec(secret, at + (lane - (lane % w)), w))[lane % w]
               = ScrambledLane(acc[lane], secret[at + lane])
  <2>1. PICK i, b : i = lane - (lane % w) /\ b = lane % w
    OBVIOUS
  <2>2. Given(w, acc, acc, secret, at, lane, i, b)
    BY <2>1, LaneGiven
  <2>3. PICK a, k \in Vector(w) : a = Vec(acc, i, w) /\ k = Vec(secret, at + i, w)
    BY <2>2, Zenon DEF Given
  <2>4. HalvesShuffled(a, k)[b] = ScrambledLane(a[b], k[b])
    <3>1. b \in 0..w - 1
      BY <2>2, Zenon DEF Given
    <3> QED
      BY <3>1, HalvesScramble
  <2> QED
    BY <2>1, <2>2, <2>3, <2>4, Zenon DEF Given
<1> QED
  BY <1>1, Zenon DEF AllScrambled, WithHalvesShuffled

WithScrambleEvenOdd(w, acc, secret, at) ==
  [lane \in 0..7 |-> ScrambleEvenOdd(Vec(acc, lane - (lane % w), w),
                      Vec(secret, at + (lane - (lane % w)), w))[lane % w]]

LEMMA ByEvenOdd ==
  ASSUME NEW w \in {2, 4, 8}, NEW acc \in Octet, NEW secret \in Secrets, NEW at \in 0..16
  PROVE  WithScrambleEvenOdd(w, acc, secret, at) = AllScrambled(acc, secret, at)
<1>1. ASSUME NEW lane \in 0..7
      PROVE  ScrambleEvenOdd(Vec(acc, lane - (lane % w), w), Vec(secret, at + (lane - (lane % w)), w))[lane % w]
               = ScrambledLane(acc[lane], secret[at + lane])
  <2>1. PICK i, b : i = lane - (lane % w) /\ b = lane % w
    OBVIOUS
  <2>2. Given(w, acc, acc, secret, at, lane, i, b)
    BY <2>1, LaneGiven
  <2>3. PICK a, k \in Vector(w) : a = Vec(acc, i, w) /\ k = Vec(secret, at + i, w)
    BY <2>2, Zenon DEF Given
  <2>4. ScrambleEvenOdd(a, k)[b] = ScrambledLane(a[b], k[b])
    <3>1. b \in 0..w - 1
      BY <2>2, Zenon DEF Given
    <3> QED
      BY <3>1, EvenOddScramble
  <2> QED
    BY <2>1, <2>2, <2>3, <2>4, Zenon DEF Given
<1> QED
  BY <1>1, Zenon DEF AllScrambled, WithScrambleEvenOdd

WithScrambleInPlace(w, acc, secret, at) ==
  [lane \in 0..7 |-> ScrambleInPlace(Vec(acc, lane - (lane % w), w),
                      Vec(secret, at + (lane - (lane % w)), w))[lane % w]]

LEMMA ByInPlace ==
  ASSUME NEW w \in {2, 4, 8}, NEW acc \in Octet, NEW secret \in Secrets, NEW at \in 0..16
  PROVE  WithScrambleInPlace(w, acc, secret, at) = AllScrambled(acc, secret, at)
<1>1. ASSUME NEW lane \in 0..7
      PROVE  ScrambleInPlace(Vec(acc, lane - (lane % w), w), Vec(secret, at + (lane - (lane % w)), w))[lane % w]
               = ScrambledLane(acc[lane], secret[at + lane])
  <2>1. PICK i, b : i = lane - (lane % w) /\ b = lane % w
    OBVIOUS
  <2>2. Given(w, acc, acc, secret, at, lane, i, b)
    BY <2>1, LaneGiven
  <2>3. PICK a, k \in Vector(w) : a = Vec(acc, i, w) /\ k = Vec(secret, at + i, w)
    BY <2>2, Zenon DEF Given
  <2>4. ScrambleInPlace(a, k)[b] = ScrambledLane(a[b], k[b])
    <3>1. b \in 0..w - 1
      BY <2>2, Zenon DEF Given
    <3> QED
      BY <3>1, InPlaceScramble
  <2> QED
    BY <2>1, <2>2, <2>3, <2>4, Zenon DEF Given
<1> QED
  BY <1>1, Zenon DEF AllScrambled, WithScrambleInPlace

WithScrambleWords(w, acc, secret, at) ==
  [lane \in 0..7 |-> ScrambleWords(Vec(acc, lane - (lane % w), w),
                      Vec(secret, at + (lane - (lane % w)), w))[lane % w]]

LEMMA ByWords ==
  ASSUME NEW w \in {2, 4, 8}, NEW acc \in Octet, NEW secret \in Secrets, NEW at \in 0..16
  PROVE  WithScrambleWords(w, acc, secret, at) = AllScrambled(acc, secret, at)
<1>1. ASSUME NEW lane \in 0..7
      PROVE  ScrambleWords(Vec(acc, lane - (lane % w), w), Vec(secret, at + (lane - (lane % w)), w))[lane % w]
               = ScrambledLane(acc[lane], secret[at + lane])
  <2>1. PICK i, b : i = lane - (lane % w) /\ b = lane % w
    OBVIOUS
  <2>2. Given(w, acc, acc, secret, at, lane, i, b)
    BY <2>1, LaneGiven
  <2>3. PICK a, k \in Vector(w) : a = Vec(acc, i, w) /\ k = Vec(secret, at + i, w)
    BY <2>2, Zenon DEF Given
  <2>4. ScrambleWords(a, k)[b] = ScrambledLane(a[b], k[b])
    <3>1. b \in 0..w - 1
      BY <2>2, Zenon DEF Given
    <3> QED
      BY <3>1, WordsScramble
  <2> QED
    BY <2>1, <2>2, <2>3, <2>4, Zenon DEF Given
<1> QED
  BY <1>1, Zenon DEF AllScrambled, WithScrambleWords

LEMMA ScrambledIs ==
  ASSUME NEW acc \in Octet, NEW secret \in Secrets, NEW at \in 0..16
  PROVE  AllScrambled(acc, secret, at) \in Octet
<1>1. ASSUME NEW lane \in 0..7
      PROVE  ScrambledLane(acc[lane], secret[at + lane]) \in Words
  <2>1. acc[lane] \in Words /\ secret[at + lane] \in Words
    BY DEF Octet, Secrets
  <2> QED
    BY <2>1, ShiftIsWord
<1> QED
  BY <1>1, Zenon DEF AllScrambled, Octet

LEMMA ScrambleByVectors ==
  ASSUME NEW acc \in Octet, NEW secret \in Secrets, NEW at \in 0..16, NEW vl \in {2, 4, 8}
  PROVE  /\ XXH3_scrambleAcc_scalar(acc, secret, at) = AllScrambled(acc, secret, at)
         /\ XXH3_scrambleAcc_avx512(acc, secret, at) = AllScrambled(acc, secret, at)
         /\ XXH3_scrambleAcc_avx2(acc, secret, at) = AllScrambled(acc, secret, at)
         /\ XXH3_scrambleAcc_sse2(acc, secret, at) = AllScrambled(acc, secret, at)
         /\ XXH3_scrambleAcc_vsx(acc, secret, at) = AllScrambled(acc, secret, at)
         /\ XXH3_scrambleAcc_lsx(acc, secret, at) = AllScrambled(acc, secret, at)
         /\ XXH3_scrambleAcc_lasx(acc, secret, at) = AllScrambled(acc, secret, at)
         /\ XXH3_scrambleAcc_rvv(vl, acc, secret, at) = AllScrambled(acc, secret, at)
<1>1. 2 \in {2, 4, 8} /\ 4 \in {2, 4, 8} /\ 8 \in {2, 4, 8}
  OBVIOUS
<1>2. XXH3_scrambleAcc_scalar(acc, secret, at) = AllScrambled(acc, secret, at)
  BY Zenon DEF XXH3_scrambleAcc_scalar, XXH3_scalarScrambleRound, AllScrambled, ScrambledLane
<1>3. XXH3_scrambleAcc_avx512(acc, secret, at) = AllScrambled(acc, secret, at)
  <2>1. XXH3_scrambleAcc_avx512(acc, secret, at) = WithHalvesShifted(8, acc, secret, at)
    BY Zenon DEF XXH3_scrambleAcc_avx512, Scrambled, WithHalvesShifted, HalvesShifted, ScrambleHalves
  <2> QED
    BY <1>1, <2>1, ByHalvesShifted
<1>4. XXH3_scrambleAcc_avx2(acc, secret, at) = AllScrambled(acc, secret, at)
  <2>1. XXH3_scrambleAcc_avx2(acc, secret, at) = WithHalvesShifted(4, acc, secret, at)
    BY Zenon DEF XXH3_scrambleAcc_avx2, Scrambled, WithHalvesShifted, HalvesShifted, ScrambleHalves
  <2> QED
    BY <1>1, <2>1, ByHalvesShifted
<1>5. XXH3_scrambleAcc_sse2(acc, secret, at) = AllScrambled(acc, secret, at)
  <2>1. XXH3_scrambleAcc_sse2(acc, secret, at) = WithHalvesShuffled(2, acc, secret, at)
    BY Zenon DEF XXH3_scrambleAcc_sse2, Scrambled, WithHalvesShuffled, HalvesShuffled, ScrambleHalves
  <2> QED
    BY <1>1, <2>1, ByHalvesShuffled
<1>6. XXH3_scrambleAcc_vsx(acc, secret, at) = AllScrambled(acc, secret, at)
  <2>1. XXH3_scrambleAcc_vsx(acc, secret, at) = WithScrambleEvenOdd(2, acc, secret, at)
    BY Zenon DEF XXH3_scrambleAcc_vsx, Scrambled, WithScrambleEvenOdd
  <2> QED
    BY <1>1, <2>1, ByEvenOdd
<1>7. XXH3_scrambleAcc_lsx(acc, secret, at) = AllScrambled(acc, secret, at)
  <2>1. XXH3_scrambleAcc_lsx(acc, secret, at) = WithScrambleWords(2, acc, secret, at)
    BY Zenon DEF XXH3_scrambleAcc_lsx, Scrambled, WithScrambleWords
  <2> QED
    BY <1>1, <2>1, ByWords
<1>8. XXH3_scrambleAcc_lasx(acc, secret, at) = AllScrambled(acc, secret, at)
  <2>1. XXH3_scrambleAcc_lasx(acc, secret, at) = WithScrambleWords(4, acc, secret, at)
    BY Zenon DEF XXH3_scrambleAcc_lasx, Scrambled, WithScrambleWords
  <2> QED
    BY <1>1, <2>1, ByWords
<1>9. XXH3_scrambleAcc_rvv(vl, acc, secret, at) = AllScrambled(acc, secret, at)
  <2>1. XXH3_scrambleAcc_rvv(vl, acc, secret, at) = WithScrambleWords(vl, acc, secret, at)
    BY Zenon DEF XXH3_scrambleAcc_rvv, Scrambled, WithScrambleWords
  <2> QED
    BY <1>1, <2>1, ByWords
<1> QED
  BY <1>2, <1>3, <1>4, <1>5, <1>6, <1>7, <1>8, <1>9

LEMMA ScrambleByNeon ==
  ASSUME NEW acc \in Octet, NEW secret \in Secrets, NEW at \in 0..16, NEW n
  PROVE  XXH3_scrambleAcc_neon(n, acc, secret, at) = AllScrambled(acc, secret, at)
<1>1. PICK w, twos : w \in {2, 4, 8} /\ w = 2 /\ twos = WithScrambleInPlace(w, acc, secret, at)
  OBVIOUS
<1> w \in {2, 4, 8}
  BY <1>1, Zenon
<1>2. twos = AllScrambled(acc, secret, at)
  BY <1>1, ByInPlace
<1>3. XXH3_scrambleAcc_neon(n, acc, secret, at)
        = [lane \in 0..7 |-> IF lane < n THEN twos[lane]
                             ELSE XXH3_scalarScrambleRound(acc, secret, at, lane)]
  BY <1>1, Zenon DEF XXH3_scrambleAcc_neon, Scrambled, WithScrambleInPlace
<1>4. ASSUME NEW lane \in 0..7
      PROVE  (IF lane < n THEN twos[lane] ELSE XXH3_scalarScrambleRound(acc, secret, at, lane))
               = ScrambledLane(acc[lane], secret[at + lane])
  BY <1>2, Zenon DEF AllScrambled, XXH3_scalarScrambleRound, ScrambledLane
<1> QED
  BY <1>3, <1>4, Zenon DEF AllScrambled

LEMMA ScrambleAnyUnit ==
  ASSUME NEW v \in Variants, NEW acc \in Octet, NEW secret \in Secrets, NEW at \in 0..16
  PROVE  XXH3_scrambleAccBy(v, acc, secret, at) = AllScrambled(acc, secret, at)
<1>1. PICK A : A = AllScrambled(acc, secret, at)
  OBVIOUS
<1>2. CASE v[1] = "neon"
  BY <1>2, ScrambleByNeon DEF XXH3_scrambleAccBy
<1>3. CASE v[1] = "rvv"
  <2>1. v[2] \in {2, 4, 8}
    BY <1>3 DEF Variants
  <2>2. XXH3_scrambleAccBy(v, acc, secret, at) = XXH3_scrambleAcc_rvv(v[2], acc, secret, at)
    BY <1>3 DEF XXH3_scrambleAccBy
  <2> QED
    BY <2>1, <2>2, ScrambleByVectors
<1>4. CASE v[1] \in {"scalar", "sve", "avx512", "avx2", "sse2", "vsx", "lsx", "lasx"}
  <2>1. PICK vl \in {2, 4, 8} : vl = 2
    OBVIOUS
  <2>2. /\ XXH3_scrambleAcc_scalar(acc, secret, at) = A
        /\ XXH3_scrambleAcc_avx512(acc, secret, at) = A
        /\ XXH3_scrambleAcc_avx2(acc, secret, at) = A
        /\ XXH3_scrambleAcc_sse2(acc, secret, at) = A
        /\ XXH3_scrambleAcc_vsx(acc, secret, at) = A
        /\ XXH3_scrambleAcc_lsx(acc, secret, at) = A
        /\ XXH3_scrambleAcc_lasx(acc, secret, at) = A
    BY <1>1, <2>1, ScrambleByVectors
  <2>3. XXH3_scrambleAccBy(v, acc, secret, at) \in
          {XXH3_scrambleAcc_scalar(acc, secret, at), XXH3_scrambleAcc_avx512(acc, secret, at),
           XXH3_scrambleAcc_avx2(acc, secret, at), XXH3_scrambleAcc_sse2(acc, secret, at),
           XXH3_scrambleAcc_vsx(acc, secret, at), XXH3_scrambleAcc_lsx(acc, secret, at),
           XXH3_scrambleAcc_lasx(acc, secret, at)}
    BY <1>4 DEF XXH3_scrambleAccBy
  <2> QED
    BY <1>1, <2>2, <2>3, Zenon
<1>5. v[1] \in {"scalar", "sve", "neon", "rvv", "avx512", "avx2", "sse2", "vsx", "lsx", "lasx"}
  BY DEF Variants
<1> QED
  BY <1>2, <1>3, <1>4, <1>5

------------------------------------------------------------------------------
(* Secrets. *)

Alternates(w, seed, seedVec) ==
  \A b \in 0..w - 1 : seedVec[b] = IF b % 2 = 0 THEN seed ELSE Negated(seed)

LEMMA SeededIs ==
  ASSUME NEW w \in {2, 4, 8}, NEW seed \in Words, NEW seedVec, Alternates(w, seed, seedVec)
  PROVE  Seeded(w, seedVec) = XXH3_initCustomSecret_scalar(seed)
<1>1. ASSUME NEW i \in 0..23
      PROVE  Add2(Vec(kWords, i - (i % w), w), seedVec)[i % w]
               = (kWords[i] + (IF i % 2 = 0 THEN seed ELSE Word - seed)) % Word
  <2>1. PICK b : b = i % w
    OBVIOUS
  <2>2. PICK f : f = i - b
    OBVIOUS
  <2>3. b \in 0..w - 1 /\ f + b = i /\ b % 2 = i % 2
    <3>1. CASE w = 2
      BY <2>1, <2>2, <3>1
    <3>2. CASE w = 4
      BY <2>1, <2>2, <3>2
    <3>3. CASE w = 8
      BY <2>1, <2>2, <3>3
    <3> QED
      BY <3>1, <3>2, <3>3
  <2>4. PICK m : m = Vec(kWords, f, w)
    OBVIOUS
  <2>5. m[b] = kWords[i] /\ b \in DOMAIN m
    BY <2>3, <2>4, Zenon DEF Vec
  <2>6. Add2(m, seedVec)[b] = Plus(kWords[i], seedVec[b])
    BY <2>5, AddAt
  <2>7. seedVec[b] = IF i % 2 = 0 THEN seed ELSE Negated(seed)
    BY <2>3, Zenon DEF Alternates
  <2>8. kWords[i] \in Nat /\ Word - seed \in Nat
    <3>1. kWords[i] \in 0..Half * Half - 1
      BY VectorsAssumption
    <3>2. seed \in Nat /\ seed <= Word /\ Word \in Nat
      BY WordsAre DEF Words
    <3> QED
      BY <3>1, <3>2
  <2>9. PICK t \in Nat, k \in Nat : t = Word - seed /\ k = kWords[i]
    BY <2>8
  <2>10. Plus(k, t % Word) = Plus(k, t)
    BY PlusIs
  <2>11. Plus(kWords[i], Negated(seed)) = (kWords[i] + (Word - seed)) % Word
    BY <2>9, <2>10, Zenon DEF Negated, Plus
  <2>12. Plus(kWords[i], seed) = (kWords[i] + seed) % Word
    BY Zenon DEF Plus
  <2>13. Add2(m, seedVec)[b] = (kWords[i] + (IF i % 2 = 0 THEN seed ELSE Word - seed)) % Word
    BY <2>6, <2>7, <2>11, <2>12, Zenon
  <2> QED
    BY <2>1, <2>2, <2>4, <2>13, Zenon
<1> QED
  BY <1>1, Zenon DEF Seeded, XXH3_initCustomSecret_scalar

LEMMA SecretIs ==
  ASSUME NEW seed \in Words
  PROVE  XXH3_initCustomSecret_scalar(seed) \in Secrets
<1>1. ASSUME NEW i \in 0..23
      PROVE  (kWords[i] + (IF i % 2 = 0 THEN seed ELSE Word - seed)) % Word \in Words
  <2>1. Word \in Nat \ {0} /\ Word = Half * Half
    BY WordsAre
  <2>2. kWords[i] \in Nat
    <3>1. kWords[i] \in 0..Half * Half - 1
      BY VectorsAssumption
    <3> QED
      BY <2>1, <3>1
  <2>3. PICK s \in Nat : s = IF i % 2 = 0 THEN seed ELSE Word - seed
    <3>1. seed \in Nat /\ Word - seed \in Nat
      BY <2>1 DEF Words
    <3> QED
      BY <3>1
  <2>4. kWords[i] + s \in Nat
    BY <2>2
  <2>5. (kWords[i] + s) % Word \in 0..Word - 1
    BY <2>1, <2>4, Division
  <2> QED
    BY <2>3, <2>5, Zenon DEF Words
<1> QED
  BY <1>1, Zenon DEF XXH3_initCustomSecret_scalar, Secrets

LEMMA SecretAnyUnit ==
  ASSUME NEW v \in Variants, NEW seed \in Words
  PROVE  XXH3_initCustomSecretBy(v, seed) = XXH3_initCustomSecret_scalar(seed)
<1>1. CASE v[1] = "avx512"
  <2>1. PICK w, s : /\ w \in {2, 4, 8} /\ w = 8
                    /\ s = [j \in 0..7 |-> IF j \in {1, 3, 5, 7} THEN Negated(seed) ELSE seed]
    OBVIOUS
  <2> w \in {2, 4, 8}
    BY <2>1, Zenon
  <2>2. Alternates(w, seed, s)
    BY <2>1 DEF Alternates
  <2>3. XXH3_initCustomSecretBy(v, seed) = Seeded(w, s)
    BY <1>1, <2>1 DEF XXH3_initCustomSecretBy, XXH3_initCustomSecret_avx512
  <2> QED
    BY <2>2, <2>3, SeededIs
<1>2. CASE v[1] = "avx2"
  <2>1. PICK w, n, s : w \in {2, 4, 8} /\ w = 4 /\ n = Negated(seed) /\ s = set_epi64x(<<seed, n, seed, n>>)
    OBVIOUS
  <2> w \in {2, 4, 8}
    BY <2>1, Zenon
  <2>2. Alternates(w, seed, s)
    <3>1. s = [j \in 0..3 |-> <<seed, n, seed, n>>[j + 1]]
      BY <2>1 DEF set_epi64x
    <3>2. s[0] = seed /\ s[1] = n /\ s[2] = seed /\ s[3] = n
      BY <3>1
    <3> QED
      BY <2>1, <3>2 DEF Alternates
  <2>3. XXH3_initCustomSecretBy(v, seed) = Seeded(w, s)
    BY <1>2, <2>1, Zenon DEF XXH3_initCustomSecretBy, XXH3_initCustomSecret_avx2
  <2> QED
    BY <2>2, <2>3, SeededIs
<1>3. CASE v[1] = "sse2"
  <2>1. PICK w, n, s : w \in {2, 4, 8} /\ w = 2 /\ n = Negated(seed) /\ s = set_epi64x(<<seed, n>>)
    OBVIOUS
  <2> w \in {2, 4, 8}
    BY <2>1, Zenon
  <2>2. Alternates(w, seed, s)
    <3>1. s = [j \in 0..1 |-> <<seed, n>>[j + 1]]
      BY <2>1 DEF set_epi64x
    <3>2. s[0] = seed /\ s[1] = n
      BY <3>1
    <3> QED
      BY <2>1, <3>2 DEF Alternates
  <2>3. XXH3_initCustomSecretBy(v, seed) = Seeded(w, s)
    BY <1>3, <2>1, Zenon DEF XXH3_initCustomSecretBy, XXH3_initCustomSecret_sse2
  <2> QED
    BY <2>2, <2>3, SeededIs
<1>4. CASE v[1] = "rvv"
  <2>1. v[2] \in {2, 4, 8}
    BY <1>4 DEF Variants
  <2>2. PICK w \in {2, 4, 8} : w = v[2]
    BY <2>1
  <2>3. PICK s : s = [j \in 0..w - 1 |-> IF j % 2 = 1 THEN Negated(seed) ELSE seed]
    OBVIOUS
  <2>4. Alternates(w, seed, s)
    <3>1. \A b \in 0..w - 1 : b % 2 = 0 <=> ~(b % 2 = 1)
      OBVIOUS
    <3> QED
      BY <2>3, <3>1, Zenon DEF Alternates
  <2>5. XXH3_initCustomSecretBy(v, seed) = Seeded(w, s)
    BY <1>4, <2>2, <2>3 DEF XXH3_initCustomSecretBy, XXH3_initCustomSecret_rvv
  <2> QED
    BY <2>4, <2>5, SeededIs
<1>5. CASE v[1] \notin {"avx512", "avx2", "sse2", "rvv"}
  BY <1>5 DEF XXH3_initCustomSecretBy
<1> QED
  BY <1>1, <1>2, <1>3, <1>4, <1>5

------------------------------------------------------------------------------
(* The product of two words in two words. *)

LEMMA ProductBound ==
  ASSUME NEW m \in Nat, NEW a \in 0..m, NEW b \in 0..m
  PROVE  a * b \in Nat /\ a * b <= m * m
<1>1. PICK c \in Nat, d \in Nat : c = m - a /\ d = m - b
  OBVIOUS
<1>2. a \in Nat /\ b \in Nat /\ m = a + c /\ m = b + d
  BY <1>1
<1>3. a * b \in Nat /\ c * b \in Nat /\ m * d \in Nat
  BY <1>2
<1>4. m * b = a * b + c * b
  BY <1>2
<1>5. m * m = m * b + m * d
  BY <1>2
<1> QED
  BY <1>3, <1>4, <1>5

LEMMA HalfWordAlone ==
  ASSUME NEW a \in 0..Half - 1
  PROVE  lo(a) = a
<1>1. Half \in Nat \ {0} /\ a \in Nat /\ a < Half
  BY WordsAre
<1>2. a = Half * 0 + a
  BY <1>1
<1>3. a % Half = a
  BY <1>1
<1> QED
  BY <1>3 DEF lo

LEMMA MultExact ==
  ASSUME NEW x \in Words, NEW y \in Words
  PROVE  XXH_mult64to128(x, y).high * Word + XXH_mult64to128(x, y).low = x * y
<1>1. PICK xl, xh, yl, yh \in 0..Half - 1 :
        xl = lo(x) /\ xh = hi(x) /\ yl = lo(y) /\ yh = hi(y)
  BY HalvesOf
<1>2. x = Half * xh + xl /\ y = Half * yh + yl
  BY <1>1, HalvesOf
<1>3. lo(xl) = xl /\ lo(xh) = xh /\ lo(yl) = yl /\ lo(yh) = yh
  BY HalfWordAlone
<1>4. Half \in Nat \ {0} /\ Word = Half * Half /\ Word \in Nat \ {0}
  BY WordsAre
<1>5. xl \in Nat /\ xh \in Nat /\ yl \in Nat /\ yh \in Nat
  OBVIOUS
<1>6. PICK A, B, C, D \in Words : A = xl * yl /\ B = xh * yl /\ C = xl * yh /\ D = xh * yh
  BY ProductIsWord
<1>7. PICK a0, a1 \in 0..Half - 1 : a0 = lo(A) /\ a1 = hi(A) /\ A = Half * a1 + a0
  BY HalvesOf
<1>8. PICK b0, b1 \in 0..Half - 1 : b0 = lo(B) /\ b1 = hi(B) /\ B = Half * b1 + b0
  BY HalvesOf
<1>9. PICK cross : cross = a1 + b0 + C
  OBVIOUS
<1>10. cross \in Words
  <2>1. PICK h \in Nat : Half = h + 1
    <3>1. Half - 1 \in Nat /\ Half = (Half - 1) + 1
      BY <1>4
    <3> QED
      BY <3>1
  <2>2. xl \in 0..h /\ yh \in 0..h /\ a1 \in 0..h /\ b0 \in 0..h
    BY <2>1
  <2>3. C \in Nat /\ C <= h * h
    BY <1>6, <2>2, ProductBound
  <2>4. Word = h * h + h + h + 1 /\ h * h \in Nat
    BY <1>4, <2>1
  <2>5. cross \in Nat /\ cross <= h * h + h + h
    BY <1>9, <2>2, <2>3, <2>4
  <2> QED
    BY <1>4, <2>4, <2>5 DEF Words
<1>11. PICK c0, c1 \in 0..Half - 1 : c0 = lo(cross) /\ c1 = hi(cross) /\ cross = Half * c1 + c0
  BY <1>10, HalvesOf
<1>12. cross % Word = cross
  BY <1>4, <1>10 DEF Words
<1>13. PICK top : top = b1 + c1 + D
  OBVIOUS
<1>14. top \in Nat /\ c0 * Half + a0 \in Nat
  <2>1. D \in Nat /\ b1 \in Nat /\ c1 \in Nat /\ c0 \in Nat /\ a0 \in Nat
    BY DEF Words
  <2> QED
    BY <1>4, <1>13, <2>1
<1>15. XXH_mult64to128(x, y) = [high |-> top % Word, low |-> c0 * Half + a0]
  <2>1. lo(lo(x)) = xl /\ lo(lo(y)) = yl /\ lo(hi(x)) = xh /\ lo(hi(y)) = yh
    BY <1>1, <1>3
  <2>2. /\ XXH_mult32to64(lo(x), lo(y)) = A /\ XXH_mult32to64(hi(x), lo(y)) = B
        /\ XXH_mult32to64(lo(x), hi(y)) = C /\ XXH_mult32to64(hi(x), hi(y)) = D
    BY <1>6, <2>1, Zenon DEF XXH_mult32to64
  <2>3. (hi(A) + lo(B) + C) % Word = cross
    BY <1>7, <1>8, <1>9, <1>12, Zenon
  <2> QED
    BY <1>7, <1>8, <1>11, <1>13, <2>2, <2>3, Zenon DEF XXH_mult64to128
<1>16. top * Word + (c0 * Half + a0) = x * y
  <2>1. /\ a0 \in Nat /\ a1 \in Nat /\ b0 \in Nat /\ b1 \in Nat /\ c0 \in Nat /\ c1 \in Nat
        /\ C \in Nat /\ D \in Nat
    BY DEF Words
  <2>2. x * y = A + Half * B + Half * C + Word * D
    <3>1. x * y = (Half * xh + xl) * (Half * yh + yl)
      BY <1>2
    <3>2. (Half * xh + xl) * (Half * yh + yl)
            = xl * yl + Half * (xh * yl) + Half * (xl * yh) + (Half * Half) * (xh * yh)
      BY <1>4, <1>5
    <3> QED
      BY <1>4, <1>6, <3>1, <3>2
  <2>3. Half * B = Word * b1 + Half * b0
    <3>1. Half * (Half * b1 + b0) = (Half * Half) * b1 + Half * b0
      BY <1>4, <2>1
    <3> QED
      BY <1>4, <1>8, <3>1
  <2>4. Half * a1 + Half * b0 + Half * C = Word * c1 + Half * c0
    <3>1. Half * cross = Half * a1 + Half * b0 + Half * C
      BY <1>4, <1>9, <2>1
    <3>2. Half * (Half * c1 + c0) = (Half * Half) * c1 + Half * c0
      BY <1>4, <2>1
    <3> QED
      BY <1>4, <1>11, <3>1, <3>2
  <2>5. top * Word = Word * b1 + Word * c1 + Word * D
    BY <1>4, <1>13, <2>1
  <2>6. /\ Half * a1 \in Nat /\ Half * b0 \in Nat /\ Half * C \in Nat /\ Half * c0 \in Nat
        /\ Word * b1 \in Nat /\ Word * c1 \in Nat /\ Word * D \in Nat
        /\ c0 * Half = Half * c0
    BY <1>4, <2>1
  <2>7. PICK n1 \in Nat, n2 \in Nat, n3 \in Nat, n4 \in Nat, n5 \in Nat, n6 \in Nat, n7 \in Nat :
          /\ n1 = Half * a1 /\ n2 = Half * b0 /\ n3 = Half * C /\ n7 = Half * c0
          /\ n4 = Word * b1 /\ n5 = Word * c1 /\ n6 = Word * D
    BY <2>6, Zenon
  <2>8. PICK p : p = x * y
    OBVIOUS
  <2>9. PICK t : t = top * Word
    OBVIOUS
  <2>10. p = (n1 + a0) + (n4 + n2) + n3 + n6
    BY <1>7, <2>2, <2>3, <2>7, <2>8, Zenon
  <2>11. n1 + n2 + n3 = n5 + n7
    BY <2>4, <2>7, Zenon
  <2>12. t = n4 + n5 + n6
    BY <2>5, <2>7, <2>9, Zenon
  <2>13. t + (n7 + a0) = p
    <3> a0 \in Nat
      BY <2>1
    <3> QED
      BY <2>10, <2>11, <2>12
  <2> QED
    BY <2>6, <2>7, <2>8, <2>9, <2>13, Zenon
<1>17. top % Word = top
  <2>1. x * y < Word * Word
    <3>1. PICK m \in Nat : Word = m + 1
      <4>1. Word - 1 \in Nat /\ Word = (Word - 1) + 1
        BY <1>4
      <4> QED
        BY <4>1
    <3>2. x \in 0..m /\ y \in 0..m
      BY <3>1 DEF Words
    <3>3. x * y \in Nat /\ x * y <= m * m
      BY <3>2, ProductBound
    <3>4. Word * Word = m * m + m + m + 1 /\ m * m \in Nat
      BY <3>1
    <3> QED
      BY <3>3, <3>4
  <2>2. top < Word
    <3> SUFFICES ASSUME ~(top < Word) PROVE FALSE
      OBVIOUS
    <3>1. PICK d \in Nat : top = Word + d
      <4>1. top - Word \in Nat /\ top = Word + (top - Word)
        BY <1>4, <1>14
      <4> QED
        BY <4>1
    <3>2. top * Word = Word * Word + d * Word /\ d * Word \in Nat /\ Word * Word \in Nat
      BY <1>4, <3>1
    <3> QED
      BY <1>14, <1>16, <2>1, <3>2
  <2> QED
    BY <1>4, <1>14, <2>2
<1>18. XXH_mult64to128(x, y).high = top /\ XXH_mult64to128(x, y).low = c0 * Half + a0
  BY <1>15, <1>17
<1> QED
  BY <1>16, <1>18, Zenon

------------------------------------------------------------------------------
(* The variants. *)

VecInv ==
  /\ lanes \in [Variants -> Octet] /\ words \in [Variants -> Secrets]
  /\ \A v, u \in Variants : lanes[v] = lanes[u] /\ words[v] = words[u]

LEMMA InitVec == Vectors_Init => VecInv
<1> SUFFICES ASSUME Vectors_Init PROVE VecInv
  OBVIOUS
<1>1. ASSUME NEW lane \in 0..7 PROVE (PRIME32_1 * (lane + 1)) % Word \in Words
  <2>1. Word \in Nat \ {0} /\ PRIME32_1 \in Nat
    BY WordsAre
  <2>2. PRIME32_1 * (lane + 1) \in Nat
    BY <2>1
  <2> QED
    BY <2>1, <2>2, Division DEF Words
<1>2. PICK a : a = [lane \in 0..7 |-> (PRIME32_1 * (lane + 1)) % Word]
  OBVIOUS
<1>3. a \in Octet
  BY <1>1, <1>2, Zenon DEF Octet
<1>4. kWords \in Secrets
  BY VectorsAssumption DEF Secrets, Words, Word
<1>5. lanes = [v \in Variants |-> a] /\ words = [v \in Variants |-> kWords]
  BY <1>2, Zenon DEF Vectors_Init
<1> QED
  BY <1>3, <1>4, <1>5, Zenon DEF VecInv

LEMMA NextVec == VecInv /\ [Vectors_Next]_vectorvars => VecInv'
<1> SUFFICES ASSUME VecInv, [Vectors_Next]_vectorvars PROVE VecInv'
  OBVIOUS
<1>0. PICK l, k : l = lanes /\ k = words
  OBVIOUS
<1>1. /\ \A v \in Variants : l[v] \in Octet /\ k[v] \in Secrets
      /\ \A v, u \in Variants : l[v] = l[u] /\ k[v] = k[u]
  BY <1>0 DEF VecInv
<1>2. CASE DeriveSecret
  <2>1. PICK seed \in SeedWords :
          words' = [v \in Variants |-> XXH3_initCustomSecretBy(v, seed)] /\ lanes' = lanes
    BY <1>2 DEF DeriveSecret
  <2>2. seed \in Words
    BY VectorsAssumption DEF Words, Word
  <2>3. PICK s : s = XXH3_initCustomSecret_scalar(seed)
    OBVIOUS
  <2>4. s \in Secrets /\ \A v \in Variants : XXH3_initCustomSecretBy(v, seed) = s
    BY <2>2, <2>3, SecretIs, SecretAnyUnit
  <2>5. words' = [v \in Variants |-> s]
    BY <2>1, <2>4, Zenon
  <2>6. words' \in [Variants -> Secrets] /\ \A v, u \in Variants : words'[v] = words'[u]
    BY <2>4, <2>5, Zenon
  <2> QED
    BY <2>1, <2>6, Zenon DEF VecInv
<1>3. CASE AccumulateStripes
  <2>1. PICK stripes \in Stripes, at \in SoFar :
          /\ at + Len(stripes) <= 16 /\ words' = words
          /\ lanes' = [v \in Variants |-> XXH3_accumulateBy(v, lanes[v], stripes, words[v], at)]
    BY <1>3 DEF AccumulateStripes
  <2>2. Within(stripes, at)
    <3>1. stripes \in Seq(Octet)
      <4>1. Octet = [0..7 -> 0..Half * Half - 1]
        BY DEF Octet, Words, Word
      <4> QED
        BY <4>1, VectorsAssumption, Zenon
    <3>2. at \in 0..15
      BY VectorsAssumption
    <3> QED
      BY <2>1, <3>1, <3>2 DEF Within
  <2>3. lanes' = [v \in Variants |-> XXH3_accumulateBy(v, l[v], stripes, k[v], at)]
    BY <1>0, <2>1, Zenon
  <2>4. ASSUME NEW v \in Variants, NEW u \in Variants
        PROVE  /\ XXH3_accumulateBy(v, l[v], stripes, k[v], at) \in Octet
               /\ XXH3_accumulateBy(v, l[v], stripes, k[v], at)
                    = XXH3_accumulateBy(u, l[u], stripes, k[u], at)
    <3>1. PICK a \in Octet, secret \in Secrets :
            a = l[v] /\ a = l[u] /\ secret = k[v] /\ secret = k[u]
      BY <1>1
    <3>2. /\ XXH3_accumulateBy(v, a, stripes, secret, at) \in Octet
          /\ XXH3_accumulateBy(v, a, stripes, secret, at)
               = XXH3_accumulateBy(u, a, stripes, secret, at)
      BY <2>2, AccumulateAnyUnit
    <3> QED
      BY <3>1, <3>2, Zenon
  <2>5. lanes' \in [Variants -> Octet] /\ \A v, u \in Variants : lanes'[v] = lanes'[u]
    BY <2>3, <2>4, Zenon
  <2> QED
    BY <2>1, <2>5, Zenon DEF VecInv
<1>4. CASE ScrambleLanes
  <2>1. /\ words' = words
        /\ lanes' = [v \in Variants |-> XXH3_scrambleAccBy(v, lanes[v], words[v], 16)]
    BY <1>4 DEF ScrambleLanes
  <2>2. lanes' = [v \in Variants |-> XXH3_scrambleAccBy(v, l[v], k[v], 16)]
    BY <1>0, <2>1, Zenon
  <2>3. ASSUME NEW v \in Variants, NEW u \in Variants
        PROVE  /\ XXH3_scrambleAccBy(v, l[v], k[v], 16) \in Octet
               /\ XXH3_scrambleAccBy(v, l[v], k[v], 16) = XXH3_scrambleAccBy(u, l[u], k[u], 16)
    <3>1. PICK a \in Octet, secret \in Secrets :
            a = l[v] /\ a = l[u] /\ secret = k[v] /\ secret = k[u]
      BY <1>1
    <3>2. PICK at \in 0..16 : at = 16
      OBVIOUS
    <3>3. /\ XXH3_scrambleAccBy(v, a, secret, at) = AllScrambled(a, secret, at)
          /\ XXH3_scrambleAccBy(u, a, secret, at) = AllScrambled(a, secret, at)
          /\ AllScrambled(a, secret, at) \in Octet
      BY ScrambleAnyUnit, ScrambledIs
    <3> QED
      BY <3>1, <3>2, <3>3, Zenon
  <2>4. lanes' \in [Variants -> Octet] /\ \A v, u \in Variants : lanes'[v] = lanes'[u]
    BY <2>2, <2>3, Zenon
  <2> QED
    BY <2>1, <2>4, Zenon DEF VecInv
<1>5. CASE UNCHANGED vectorvars
  BY <1>5 DEF vectorvars, VecInv
<1> QED
  BY <1>2, <1>3, <1>4, <1>5 DEF Vectors_Next

LEMMA VecAgree == VecInv => XXH3_VariantsAgree
<1> SUFFICES ASSUME VecInv PROVE XXH3_VariantsAgree
  OBVIOUS
<1>1. PICK s \in Variants : s = <<"scalar", 1>>
  BY DEF Variants
<1>2. \A v \in Variants : lanes[v] = lanes[s] /\ words[v] = words[s]
  BY DEF VecInv
<1>3. ASSUME NEW i \in {0, 2, 4, 6}
      PROVE  XXH_mult64to128(lanes[s][i], lanes[s][i + 1]).high * Word
               + XXH_mult64to128(lanes[s][i], lanes[s][i + 1]).low
               = lanes[s][i] * lanes[s][i + 1]
  <2>1. lanes[s][i] \in Words /\ lanes[s][i + 1] \in Words
    BY DEF VecInv, Octet
  <2> QED
    BY <2>1, MultExact
<1> QED
  BY <1>1, <1>2, <1>3, Zenon DEF XXH3_VariantsAgree

(* Whatever is hashed, under whatever secret, every vector unit's code has     *)
(* the accumulators and the secret of the scalar code, after every step; and   *)
(* the product put together from halves is the product (xxhash.h:4567-4582,    *)
(* 4995-6147).  It holds for words of any width.                               *)
THEOREM VariantsAgreeCorrect == Vectors_Spec => []XXH3_VariantsAgree
<1>1. Vectors_Spec => []VecInv
  BY InitVec, NextVec, PTL DEF Vectors_Spec
<1> QED
  BY <1>1, VecAgree, PTL

====
