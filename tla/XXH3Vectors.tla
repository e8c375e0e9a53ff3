---- MODULE XXH3Vectors ----
(* The loops under XXH3's long hashes in xxhash.h: accumulate a stripe,        *)
(* scramble the accumulators, derive a secret from a seed.  The header has    *)
(* them once for every vector unit, and the build picks one.  Here all of     *)
(* them compute side by side on the same input, on words of two half-words    *)
(* kept in their width; a vector is a function from its lanes to words.  What  *)
(* an exclusive or does to the bits matters to none of them: it is a constant. *)
EXTENDS Naturals, Sequences

CONSTANTS Half,       \* the values of a half-word: 2^32
          Shift,      \* 2^47: the shift of a scramble
          PRIME32_1,  \* its multiplier, a half-word
          xor(_, _),  \* the exclusive or of two words
          Stripes,    \* sequences of stripes an update may bring
          SoFar,      \* the stripes mixed in a block when an update comes
          kWords,     \* the library's secret, as words
          SeedWords,  \* the seeds secrets are derived from
          MaxMixes    \* the steps of a behaviour

ASSUME VectorsAssumption ==
  /\ Half \in Nat \ {0} /\ Shift \in Nat \ {0} /\ PRIME32_1 \in 0..Half - 1
  /\ kWords \in [0..23 -> 0..Half * Half - 1]
  /\ SeedWords \subseteq 0..Half * Half - 1
  /\ SoFar \subseteq 0..15 /\ MaxMixes \in Nat
  /\ Stripes \subseteq Seq([0..7 -> 0..Half * Half - 1])
  /\ \A x, y \in 0..Half * Half - 1 : xor(x, y) \in 0..Half * Half - 1

VARIABLES
  lanes,   \* the 8 accumulators, for every variant
  words,   \* the 24 words of the secret, for every variant
  mixes    \* the steps taken

vectorvars == <<lanes, words, mixes>>

\* A variant and its words per vector: for NEON, the lanes its vector code takes.
Variants ==
  {<<"scalar", 1>>, <<"avx512", 8>>, <<"avx2", 4>>, <<"sse2", 2>>, <<"lsx", 2>>,
   <<"lasx", 4>>, <<"vsx", 2>>} \cup ({"sve", "rvv"} \X {2, 4, 8}) \cup ({"neon"} \X {2, 4, 6, 8})

------------------------------------------------------------------------------
(* Instructions. *)

Word  == Half * Half
lo(x) == x % Half
hi(x) == x \div Half
xorshift(x) == xor(x, x \div Shift)

XXH_mult32to64(x, y) == lo(x) * lo(y)

Vec(mem, from, w) == [j \in 0..w - 1 |-> mem[from + j]]
Xor2(a, b) == [j \in DOMAIN a |-> xor(a[j], b[j])]
Add2(a, b) == [j \in DOMAIN a |-> (a[j] + b[j]) % Word]
ShiftHi(a) == [j \in DOMAIN a |-> hi(a[j])]          \* every word >> 32
ToHi(a)    == [j \in DOMAIN a |-> lo(a[j]) * Half]   \* every word << 32
mul_epu32(a, b) == [j \in DOMAIN a |-> XXH_mult32to64(a[j], b[j])]

\* The d-th half-word of a vector, the low half of a word first.
HalfOf(a, d) == IF d % 2 = 0 THEN lo(a[d \div 2]) ELSE hi(a[d \div 2])

\* In every pair of words, half-word sel[k] becomes the k-th.
shuffle_epi32(a, sel) ==
  [j \in DOMAIN a |->
     LET k == 2 * (j % 2)
         d == 2 * (j - (j % 2))
     IN  HalfOf(a, d + sel[k + 1]) + Half * HalfOf(a, d + sel[k + 2])]

Swapped(a) == shuffle_epi32(a, <<2, 3, 0, 1>>)
OddsDown(a) == shuffle_epi32(a, <<1, 0, 3, 0>>)

------------------------------------------------------------------------------
(* The scalar variant. *)

XXH3_scalarRound(acc, stripe, secret, at, lane) ==
  LET data_val == stripe[lane]
      data_key == xor(data_val, secret[at + lane])
      other    == IF lane % 2 = 0 THEN lane + 1 ELSE lane - 1
      crossed  == [acc EXCEPT ![other] = (@ + data_val) % Word]
  IN  [crossed EXCEPT ![lane] = (XXH_mult32to64(data_key, hi(data_key)) + @) % Word]

\* The rounds of the lanes from `first` on, in turn.
ScalarFrom(first, acc, stripe, secret, at) ==
  LET Done[n \in 0..8] ==
        IF n <= first THEN acc ELSE XXH3_scalarRound(Done[n - 1], stripe, secret, at, n - 1)
  IN  Done[8]

XXH3_scalarScrambleRound(acc, secret, at, lane) ==
  (xor(xorshift(acc[lane]), secret[at + lane]) * PRIME32_1) % Word

XXH3_initCustomSecret_scalar(seed) ==
  [i \in 0..23 |-> (kWords[i] + (IF i % 2 = 0 THEN seed ELSE Word - seed)) % Word]

------------------------------------------------------------------------------
(* The rounds of the vector variants: one vector of accumulators, of data and *)
(* of key.                                                                    *)

\* AVX512, AVX2, LSX and LASX.
RoundShift(acc, data, key) ==
  LET data_key == Xor2(data, key)
  IN  Add2(mul_epu32(data_key, ShiftHi(data_key)), Add2(acc, Swapped(data)))

\* A version that leaves the data where it is.
RoundUnswapped(acc, data, key) ==
  LET data_key == Xor2(data, key)
  IN  Add2(mul_epu32(data_key, OddsDown(data_key)), Add2(acc, data))

\* SSE2 moves the high halves down by a shuffle, which leaves others above them.
RoundShuffle(acc, data, key) ==
  LET data_key == Xor2(data, key)
  IN  Add2(mul_epu32(data_key, OddsDown(data_key)), Add2(acc, Swapped(data)))

\* VSX turns every word round; the odd half-words are the low ones.
RoundRotate(acc, data, key) ==
  LET data_key == Xor2(data, key)
      shuffled == [j \in DOMAIN data |-> hi(data_key[j]) + Half * lo(data_key[j])]
      product  == mul_epu32(data_key, shuffled)
  IN  Add2(Add2(acc, product), [j \in 0..1 |-> data[1 - j]])

\* SVE and RVV gather the data by the index of its neighbour; SVE adds product
\* and data before the accumulator, RVV after.
Neighbour(data) == [j \in DOMAIN data |-> data[IF j % 2 = 0 THEN j + 1 ELSE j - 1]]

ACCRND(acc, data, key) ==
  LET mixed == Xor2(data, key)
      low   == [j \in DOMAIN data |-> lo(mixed[j])]
  IN  Add2(acc, [j \in DOMAIN data |->
                   (low[j] * ShiftHi(mixed)[j] + Neighbour(data)[j]) % Word])

RoundMask(acc, data, key) ==
  LET data_key == Xor2(data, key)
      low      == [j \in DOMAIN data |-> lo(data_key[j])]
      summed   == [j \in DOMAIN data |-> (acc[j] + low[j] * ShiftHi(data_key)[j]) % Word]
  IN  Add2(summed, Neighbour(data))

\* NEON takes two vectors at once: their low halves in one vector of four
\* half-words, their high halves in another, multiplied two by two.
RoundUnzip(acc, data, key) ==
  LET data_key == Xor2(data, key)
      low      == [d \in 0..3 |-> HalfOf(data_key, 2 * d)]
      high     == [d \in 0..3 |-> HalfOf(data_key, 2 * d + 1)]
      sum      == [j \in 0..3 |-> (Swapped(data)[j] + low[j] * high[j]) % Word]
  IN  Add2(acc, sum)

\* Or one, narrowed to half-words.
RoundNarrow(acc, data, key) ==
  LET data_key == Xor2(data, key)
  IN  Add2(acc, Add2(Swapped(data), mul_epu32(data_key, ShiftHi(data_key))))

\* A round for every vector of w words.
By(w, Round(_, _, _), acc, stripe, secret, at) ==
  LET Done(i) == Round(Vec(acc, i, w), Vec(stripe, i, w), Vec(secret, at + i, w))
  IN  [lane \in 0..7 |-> Done(lane - (lane % w))[lane % w]]

XXH3_accumulate_512_avx512(acc, stripe, secret, at) ==
  By(8, RoundShift, acc, stripe, secret, at)
XXH3_accumulate_512_avx2(acc, stripe, secret, at) ==
  By(4, RoundShift, acc, stripe, secret, at)
XXH3_accumulate_512_sse2(acc, stripe, secret, at) ==
  By(2, RoundShuffle, acc, stripe, secret, at)
XXH3_accumulate_512_vsx(acc, stripe, secret, at) ==
  By(2, RoundRotate, acc, stripe, secret, at)
XXH3_accumulate_512_lsx(acc, stripe, secret, at) ==
  By(2, RoundShift, acc, stripe, secret, at)
XXH3_accumulate_512_lasx(acc, stripe, secret, at) ==
  By(4, RoundShift, acc, stripe, secret, at)
XXH3_accumulate_512_rvv(vl, acc, stripe, secret, at) ==
  By(vl, RoundMask, acc, stripe, secret, at)

\* The last lanes in scalar code, the first by fours, what remains by twos.
XXH3_accumulate_512_neon(n, acc, stripe, secret, at) ==
  LET begun == ScalarFrom(n, acc, stripe, secret, at)
      fours == By(4, RoundUnzip, begun, stripe, secret, at)
      twos  == By(2, RoundNarrow, begun, stripe, secret, at)
  IN  [lane \in 0..7 |-> IF lane < 4 * (n \div 4) THEN fours[lane]
                         ELSE IF lane < n THEN twos[lane] ELSE begun[lane]]

\* SVE keeps its accumulators in registers over all the stripes.
XXH3_accumulate_sve(w, acc, stripes, secret, at) ==
  LET Kept(i) ==
        LET Reg[n \in 0..Len(stripes)] ==
              IF n = 0 THEN Vec(acc, i, w)
              ELSE ACCRND(Reg[n - 1], Vec(stripes[n], i, w), Vec(secret, at + n - 1 + i, w))
        IN  Reg[Len(stripes)]
  IN  [lane \in 0..7 |-> Kept(lane - (lane % w))[lane % w]]

\* XXH3_ACCUMULATE_TEMPLATE: stripe after stripe, the secret a word further.
XXH3_accumulate_TEMPLATE(Acc512(_, _, _), acc, stripes, at) ==
  LET Done[n \in 0..Len(stripes)] ==
        IF n = 0 THEN acc ELSE Acc512(Done[n - 1], stripes[n], at + n - 1)
  IN  Done[Len(stripes)]

------------------------------------------------------------------------------
(* Scrambles. *)

Primes(a) == [j \in DOMAIN a |-> PRIME32_1 + Half * PRIME32_1]

\* AVX512, AVX2 and SSE2: the low and the high product, one above the other.
ScrambleHalves(acc, key, HighDown(_)) ==
  LET data_key == [j \in DOMAIN acc |-> xor(xorshift(acc[j]), key[j])]
  IN  Add2(mul_epu32(data_key, Primes(acc)),
           ToHi(mul_epu32(HighDown(data_key), Primes(acc))))

\* VSX: the odd half-words are the low ones, the even the high ones.
ScrambleEvenOdd(acc, key) ==
  LET data_key  == Xor2([j \in DOMAIN acc |-> xorshift(acc[j])], key)
      prod_even == mul_epu32(ShiftHi(data_key), Primes(acc))
  IN  Add2(mul_epu32(data_key, Primes(acc)), ToHi(prod_even))

\* NEON: half-words times {0, prime}, each kept in its width, and the low product.
ScrambleInPlace(acc, key) ==
  LET data_key == Xor2([j \in DOMAIN acc |-> xorshift(acc[j])], key)
      prod_hi  == [j \in DOMAIN acc |-> Half * lo(hi(data_key[j]) * PRIME32_1)]
  IN  Add2(prod_hi, [j \in DOMAIN acc |-> lo(data_key[j]) * PRIME32_1])

\* LSX, LASX and RVV multiply whole words.
ScrambleWords(acc, key) ==
  [j \in DOMAIN acc |-> (xor(xorshift(acc[j]), key[j]) * PRIME32_1) % Word]

Scrambled(w, Scramble(_, _), acc, secret, at) ==
  LET Done(i) == Scramble(Vec(acc, i, w), Vec(secret, at + i, w))
  IN  [lane \in 0..7 |-> Done(lane - (lane % w))[lane % w]]

XXH3_scrambleAcc_scalar(acc, secret, at) ==
  [lane \in 0..7 |-> XXH3_scalarScrambleRound(acc, secret, at, lane)]
XXH3_scrambleAcc_avx512(acc, secret, at) ==
  Scrambled(8, LAMBDA a, k : ScrambleHalves(a, k, ShiftHi), acc, secret, at)
XXH3_scrambleAcc_avx2(acc, secret, at) ==
  Scrambled(4, LAMBDA a, k : ScrambleHalves(a, k, ShiftHi), acc, secret, at)
XXH3_scrambleAcc_sse2(acc, secret, at) ==
  Scrambled(2, LAMBDA a, k : ScrambleHalves(a, k, OddsDown), acc, secret, at)
XXH3_scrambleAcc_vsx(acc, secret, at) == Scrambled(2, ScrambleEvenOdd, acc, secret, at)
XXH3_scrambleAcc_lsx(acc, secret, at) == Scrambled(2, ScrambleWords, acc, secret, at)
XXH3_scrambleAcc_lasx(acc, secret, at) == Scrambled(4, ScrambleWords, acc, secret, at)
XXH3_scrambleAcc_rvv(vl, acc, secret, at) ==
  Scrambled(vl, ScrambleWords, acc, secret, at)
XXH3_scrambleAcc_neon(n, acc, secret, at) ==
  LET twos == Scrambled(2, ScrambleInPlace, acc, secret, at)
  IN  [lane \in 0..7 |-> IF lane < n THEN twos[lane]
                         ELSE XXH3_scalarScrambleRound(acc, secret, at, lane)]

------------------------------------------------------------------------------
(* Secrets: the seed added to the even words, taken from the odd ones. *)

Seeded(w, seedVec) ==
  LET Done(i) == Add2(Vec(kWords, i, w), seedVec)
  IN  [i \in 0..23 |-> Done(i - (i % w))[i % w]]

Negated(seed) == (Word - seed) % Word

\* A vector from its words.
set_epi64x(s) == [j \in 0..Len(s) - 1 |-> s[j + 1]]

\* The bits of the mask 0xAA are the lanes negated.
XXH3_initCustomSecret_avx512(seed) ==
  Seeded(8, [j \in 0..7 |-> IF j \in {1, 3, 5, 7} THEN Negated(seed) ELSE seed])
XXH3_initCustomSecret_avx2(seed) ==
  Seeded(4, set_epi64x(<<seed, Negated(seed), seed, Negated(seed)>>))
XXH3_initCustomSecret_sse2(seed) == Seeded(2, set_epi64x(<<seed, Negated(seed)>>))
XXH3_initCustomSecret_rvv(vl, seed) ==
  Seeded(vl, [j \in 0..vl - 1 |-> IF j % 2 = 1 THEN Negated(seed) ELSE seed])

------------------------------------------------------------------------------
(* The choice the build makes (6152-6222). *)

XXH3_accumulate_512By(v, acc, stripe, secret, at) ==
  CASE v[1] = "scalar" -> ScalarFrom(0, acc, stripe, secret, at)
    [] v[1] = "avx512" -> XXH3_accumulate_512_avx512(acc, stripe, secret, at)
    [] v[1] = "avx2"   -> XXH3_accumulate_512_avx2(acc, stripe, secret, at)
    [] v[1] = "sse2"   -> XXH3_accumulate_512_sse2(acc, stripe, secret, at)
    [] v[1] = "neon"   -> XXH3_accumulate_512_neon(v[2], acc, stripe, secret, at)
    [] v[1] = "vsx"    -> XXH3_accumulate_512_vsx(acc, stripe, secret, at)
    [] v[1] = "lsx"    -> XXH3_accumulate_512_lsx(acc, stripe, secret, at)
    [] v[1] = "lasx"   -> XXH3_accumulate_512_lasx(acc, stripe, secret, at)
    [] v[1] = "rvv"    -> XXH3_accumulate_512_rvv(v[2], acc, stripe, secret, at)

XXH3_accumulateBy(v, acc, stripes, secret, at) ==
  IF v[1] = "sve" THEN XXH3_accumulate_sve(v[2], acc, stripes, secret, at)
  ELSE XXH3_accumulate_TEMPLATE(
         LAMBDA a, stripe, i : XXH3_accumulate_512By(v, a, stripe, secret, i),
         acc, stripes, at)

XXH3_scrambleAccBy(v, acc, secret, at) ==
  CASE v[1] \in {"scalar", "sve"} -> XXH3_scrambleAcc_scalar(acc, secret, at)
    [] v[1] = "avx512" -> XXH3_scrambleAcc_avx512(acc, secret, at)
    [] v[1] = "avx2"   -> XXH3_scrambleAcc_avx2(acc, secret, at)
    [] v[1] = "sse2"   -> XXH3_scrambleAcc_sse2(acc, secret, at)
    [] v[1] = "neon"   -> XXH3_scrambleAcc_neon(v[2], acc, secret, at)
    [] v[1] = "vsx"    -> XXH3_scrambleAcc_vsx(acc, secret, at)
    [] v[1] = "lsx"    -> XXH3_scrambleAcc_lsx(acc, secret, at)
    [] v[1] = "lasx"   -> XXH3_scrambleAcc_lasx(acc, secret, at)
    [] v[1] = "rvv"    -> XXH3_scrambleAcc_rvv(v[2], acc, secret, at)

XXH3_initCustomSecretBy(v, seed) ==
  CASE v[1] = "avx512" -> XXH3_initCustomSecret_avx512(seed)
    [] v[1] = "avx2"   -> XXH3_initCustomSecret_avx2(seed)
    [] v[1] = "sse2"   -> XXH3_initCustomSecret_sse2(seed)
    [] v[1] = "rvv"    -> XXH3_initCustomSecret_rvv(v[2], seed)
    [] OTHER           -> XXH3_initCustomSecret_scalar(seed)

------------------------------------------------------------------------------
(* Where the compiler has no 128-bit product. *)

\* XXH_mult64to128, from the products of the halves.
XXH_mult64to128(lhs, rhs) ==
  LET lo_lo == XXH_mult32to64(lo(lhs), lo(rhs))
      hi_lo == XXH_mult32to64(hi(lhs), lo(rhs))
      lo_hi == XXH_mult32to64(lo(lhs), hi(rhs))
      hi_hi == XXH_mult32to64(hi(lhs), hi(rhs))
      cross == (hi(lo_lo) + lo(hi_lo) + lo_hi) % Word
  IN  [high |-> (hi(hi_lo) + hi(cross) + hi_hi) % Word,
       low  |-> lo(cross) * Half + lo(lo_lo)]

------------------------------------------------------------------------------
Vectors_Init ==
  /\ lanes = [v \in Variants |-> [lane \in 0..7 |-> (PRIME32_1 * (lane + 1)) % Word]]
  /\ words = [v \in Variants |-> kWords]
  /\ mixes = 0

\* A seeded hash begins: initCustomSecret.
DeriveSecret ==
  \E seed \in SeedWords :
    /\ mixes = 0
    /\ words' = [v \in Variants |-> XXH3_initCustomSecretBy(v, seed)]
    /\ mixes' = mixes + 1
    /\ UNCHANGED lanes

\* Stripes of a block, from some way into the secret.
AccumulateStripes ==
  \E stripes \in Stripes, at \in SoFar :
    /\ mixes < MaxMixes
    /\ at + Len(stripes) <= 16
    /\ lanes' = [v \in Variants |->
                   XXH3_accumulateBy(v, lanes[v], stripes, words[v], at)]
    /\ mixes' = mixes + 1
    /\ UNCHANGED words

\* The end of a block: the secret's last 64 bytes.
ScrambleLanes ==
  /\ mixes < MaxMixes
  /\ lanes' = [v \in Variants |-> XXH3_scrambleAccBy(v, lanes[v], words[v], 16)]
  /\ mixes' = mixes + 1
  /\ UNCHANGED words

Vectors_Next == DeriveSecret \/ AccumulateStripes \/ ScrambleLanes

Vectors_Spec == Vectors_Init /\ [][Vectors_Next]_vectorvars

------------------------------------------------------------------------------
(* A hash does not depend on the machine that computes it: after any stripes  *)
(* and scrambles, under any secret, every vector variant has the accumulators *)
(* and the secret of the scalar one (4995-6147), and the product of two        *)
(* accumulators put together from their halves is the product (4567-4582).     *)
XXH3_VariantsAgree ==
  /\ \A v \in Variants :
       lanes[v] = lanes[<<"scalar", 1>>] /\ words[v] = words[<<"scalar", 1>>]
  /\ \A i \in {0, 2, 4, 6} :
       LET x == lanes[<<"scalar", 1>>][i]
           y == lanes[<<"scalar", 1>>][i + 1]
           p == XXH_mult64to128(x, y)
       IN  p.high * Word + p.low = x * y
====
