---- MODULE XXH3 ----
(* XXH3 and XXH128 of xxhash.h, in one call: which bytes of the input meet    *)
(* which bytes of which secret, in what order, for every length and every way *)
(* of keying the hash.  The arithmetic stays symbolic: a hash is its length,  *)
(* its seed and the sequence of operations done on words of the input and the *)
(* secret.  The 64-bit and 128-bit variants differ in those operations.        *)
EXTENDS XXHInput, FiniteSets

StripeLen   == 64    \* XXH_STRIPE_LEN
ConsumeRate == 8     \* XXH_SECRET_CONSUME_RATE
MidSizeMax  == 240   \* XXH3_MIDSIZE_MAX
SecretMin   == 136   \* XXH3_SECRET_SIZE_MIN
SecretSize0 == 192   \* XXH_SECRET_DEFAULT_SIZE
LastAcc     == 7     \* XXH_SECRET_LASTACC_START
MergeAccs   == 11    \* XXH_SECRET_MERGEACCS_START
MidStart    == 3     \* XXH3_MIDSIZE_STARTOFFSET
MidLast     == 17    \* XXH3_MIDSIZE_LASTOFFSET

\* A secret: the library's own, one derived from a seed, one of the caller's
\* (<<"user", size>>), or none.
kSecret == <<"kSecret", 0>>
NoSecret == <<"NULL", 0>>
XXH3_initCustomSecret(seed) == <<"seeded", seed>>
SizeOf(secret) == IF secret[1] = "user" THEN secret[2] ELSE SecretSize0

\* One operation: the input words it reads and the `size` bytes of secret + at.
Op(name, data, secret, at, size) ==
  [op |-> name, data |-> data, secret |-> secret, at |-> at, size |-> size]

Hash3(bits, len, seed, ops) == [bits |-> bits, len |-> len, seed |-> seed, ops |-> ops]

------------------------------------------------------------------------------
(* Inputs of at most 240 bytes. *)

XXH3_len_0to16_64b(in, secret) ==
  LET len == Len(in)
  IN  CASE len = 0 -> <<Op("empty", <<>>, secret, 56, 16)>>
        [] len \in 1..3 ->
             <<Op("1to3", <<in[1], in[len \div 2 + 1], in[len]>>, secret, 0, 8)>>
        [] len \in 4..8 ->
             <<Op("4to8", Read(in, 0, 4) \o Read(in, len - 4, 4), secret, 8, 16)>>
        [] len \in 9..16 ->
             <<Op("9to16", Read(in, 0, 8), secret, 24, 16),
               Op("9to16", Read(in, len - 8, 8), secret, 40, 16)>>

XXH3_len_0to16_128b(in, secret) ==
  LET len == Len(in)
  IN  CASE len = 0 -> <<Op("empty", <<>>, secret, 64, 32)>>
        [] len \in 1..3 ->
             <<Op("1to3", <<in[1], in[len \div 2 + 1], in[len]>>, secret, 0, 16)>>
        [] len \in 4..8 ->
             <<Op("4to8", Read(in, 0, 4) \o Read(in, len - 4, 4), secret, 16, 16)>>
        [] len \in 9..16 ->
             <<Op("9to16", Read(in, 0, 8) \o Read(in, len - 8, 8), secret, 32, 16),
               Op("9to16", Read(in, len - 8, 8), secret, 48, 16)>>

XXH3_mix16B(in, i, secret, at) == Op("mix16B", Read(in, i, 16), secret, at, 16)

\* Both halves of the accumulator take both words, crossed.
XXH128_mix32B(in, i, j, secret, at) ==
  Op("mix32B", Read(in, i, 16) \o Read(in, j, 16), secret, at, 32)

\* A version that stops one pair early.
PairsEarly(len) == (len - 17) \div 32

\* The outer pairs of words first: for i from (len-1)/32 down to 0.
Pairs(len) == (len - 1) \div 32

XXH3_len_17to128_64b(in, secret) ==
  [n \in 1..2 * (Pairs(Len(in)) + 1) |->
     LET i == Pairs(Len(in)) - (n - 1) \div 2
     IN  IF n % 2 = 1 THEN XXH3_mix16B(in, 16 * i, secret, 32 * i)
         ELSE XXH3_mix16B(in, Len(in) - 16 * (i + 1), secret, 32 * i + 16)]

XXH3_len_17to128_128b(in, secret) ==
  [n \in 1..Pairs(Len(in)) + 1 |->
     LET i == Pairs(Len(in)) + 1 - n
     IN  XXH128_mix32B(in, 16 * i, Len(in) - 16 * (i + 1), secret, 32 * i)]

XXH3_len_129to240_64b(in, secret) ==
  [i \in 1..8 |-> XXH3_mix16B(in, 16 * (i - 1), secret, 16 * (i - 1))]
  \o <<XXH3_mix16B(in, Len(in) - 16, secret, SecretMin - MidLast)>>
  \o [i \in 1..Len(in) \div 16 - 8 |->
        XXH3_mix16B(in, 16 * (i + 7), secret, 16 * (i - 1) + MidStart)]

\* With len a multiple of 32 the last 32 bytes are mixed twice.
XXH3_len_129to240_128b(in, secret) ==
  [i \in 1..4 |-> XXH128_mix32B(in, 32 * (i - 1), 32 * (i - 1) + 16, secret, 32 * (i - 1))]
  \o [i \in 1..(Len(in) - 128) \div 32 |->
        XXH128_mix32B(in, 96 + 32 * i, 112 + 32 * i, secret, MidStart + 32 * (i - 1))]
  \o <<XXH128_mix32B(in, Len(in) - 16, Len(in) - 32, secret, SecretMin - MidLast - 16)>>

XXH3_short(bits, in, seed, secret) ==
  LET len == Len(in)
  IN  Hash3(bits, len, seed,
        CASE bits = 64  /\ len <= 16  -> XXH3_len_0to16_64b(in, secret)
          [] bits = 128 /\ len <= 16  -> XXH3_len_0to16_128b(in, secret)
          [] bits = 64  /\ len \in 17..128 -> XXH3_len_17to128_64b(in, secret)
          [] bits = 128 /\ len \in 17..128 -> XXH3_len_17to128_128b(in, secret)
          [] bits = 64  /\ len > 128 -> XXH3_len_129to240_64b(in, secret)
          [] bits = 128 /\ len > 128 -> XXH3_len_129to240_128b(in, secret))

------------------------------------------------------------------------------
(* Longer inputs: stripes of 64 bytes, each against the secret eight bytes    *)
(* further on, and a scramble at the end of a block, when the secret is used  *)
(* up.  An accumulator is the operations done on it since XXH3_INIT_ACC.       *)

XXH3_INIT_ACC == <<>>

XXH3_accumulate_512(acc, mem, i, secret, at) ==
  Append(acc, Op("accumulate", Read(mem, i, StripeLen), secret, at, StripeLen))

XXH3_accumulate(acc, mem, i, secret, at, nbStripes) ==
  acc \o [n \in 1..nbStripes |->
            Op("accumulate", Read(mem, i + StripeLen * (n - 1), StripeLen),
               secret, at + ConsumeRate * (n - 1), StripeLen)]

XXH3_scrambleAcc(acc, secret, at) == Append(acc, Op("scramble", <<>>, secret, at, StripeLen))

XXH3_hashLong_internal_loop(in, secret, secretSize) ==
  LET perBlock == (secretSize - StripeLen) \div ConsumeRate
      blockLen == StripeLen * perBlock
      nbBlocks == (Len(in) - 1) \div blockLen
      Blocks[n \in Nat] ==
        IF n = 0 THEN XXH3_INIT_ACC
        ELSE XXH3_scrambleAcc(
               XXH3_accumulate(Blocks[n - 1], in, (n - 1) * blockLen, secret, 0, perBlock),
               secret, secretSize - StripeLen)
      nbStripes == ((Len(in) - 1) - blockLen * nbBlocks) \div StripeLen
  IN  XXH3_accumulate_512(
        XXH3_accumulate(Blocks[nbBlocks], in, nbBlocks * blockLen, secret, 0, nbStripes),
        in, Len(in) - StripeLen, secret, secretSize - StripeLen - LastAcc)

XXH3_mergeAccs(acc, secret, at) == Append(acc, Op("merge", <<>>, secret, at, 64))

\* The 128-bit hash merges the accumulators a second time, near the secret's end.
XXH3_finalizeLong(bits, acc, secret, secretSize, len) ==
  LET low == XXH3_mergeAccs(acc, secret, MergeAccs)
  IN  Hash3(bits, len, 0,
            IF bits = 64 THEN low
            ELSE XXH3_mergeAccs(low, secret, secretSize - StripeLen - MergeAccs))

XXH3_hashLong(bits, in, secret, secretSize) ==
  XXH3_finalizeLong(bits, XXH3_hashLong_internal_loop(in, secret, secretSize),
                    secret, secretSize, Len(in))

------------------------------------------------------------------------------
(* The functions of the API, for either width. *)

XXH3_bits(bits, in) ==
  IF Len(in) <= MidSizeMax THEN XXH3_short(bits, in, 0, kSecret)
  ELSE XXH3_hashLong(bits, in, kSecret, SecretSize0)

XXH3_withSecret(bits, in, secret, secretSize) ==
  IF Len(in) <= MidSizeMax THEN XXH3_short(bits, in, 0, secret)
  ELSE XXH3_hashLong(bits, in, secret, secretSize)

XXH3_withSeed(bits, in, seed) ==
  IF Len(in) <= MidSizeMax THEN XXH3_short(bits, in, seed, kSecret)
  ELSE XXH3_hashLong(bits, in,
         IF seed = 0 THEN kSecret ELSE XXH3_initCustomSecret(seed), SecretSize0)

XXH3_withSecretandSeed(bits, in, secret, secretSize, seed) ==
  IF Len(in) <= MidSizeMax THEN XXH3_short(bits, in, seed, kSecret)
  ELSE XXH3_hashLong(bits, in, secret, secretSize)
====
