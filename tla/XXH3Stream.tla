---- MODULE XXH3Stream ----
(* The streaming interface of XXH3 in xxhash.h: resets of one state that key  *)
(* the next hash in any of four ways, updates that bring the input in pieces,  *)
(* and the digest, which may be taken at any time.  A state keeps up to 256   *)
(* bytes unmixed, never fewer than one once input has come; what a reset does *)
(* not clear (the buffer's bytes, the secret derived from an earlier seed)    *)
(* stays in it.                                                               *)
EXTENDS XXH3

CONSTANTS UserSizes,       \* the sizes of the secrets callers bring
          XXH3_Pieces(_),  \* the sizes an update may bring after n bytes
          XXH3_MaxLen,     \* the longest input
          MaxCalls         \* the resets and updates of a behaviour

ASSUME XXH3_Assumption ==
  /\ UserSizes \subseteq Nat /\ \A n \in UserSizes : n >= SecretMin
  /\ XXH3_MaxLen \in Nat /\ MaxCalls \in Nat
  /\ \A n \in 0..XXH3_MaxLen : XXH3_Pieces(n) \subseteq Nat

BufferSize == 256    \* XXH3_INTERNALBUFFER_SIZE

VARIABLES
  s3,      \* the XXH3_state_t
  keyed,   \* how its last reset keyed the hash
  from3,   \* the bytes ever given before that reset
  given3,  \* the bytes given since
  calls    \* the calls made so far

xxh3vars == <<s3, keyed, from3, given3, calls>>

\* How a hash is keyed: the API's variant, its secret and its seed.
Key3(variant, secret, seed) == [variant |-> variant, secret |-> secret, seed |-> seed]
UserSecrets == {<<"user", n>> : n \in UserSizes}

Keyings ==
  {Key3("plain", kSecret, 0)}
  \cup {Key3("secret", u, 0) : u \in UserSecrets}
  \cup {Key3("seed", NoSecret, seed) : seed \in Seeds}
  \cup {Key3("secretandseed", u, seed) : u \in UserSecrets, seed \in Seeds}

\* XXH3_createState: XXH3_INITSTATE sets the seed and extSecret alone.
XXH3_createState ==
  [acc |-> XXH3_INIT_ACC, customSecret |-> NoSecret, buffer |-> Zeroed(BufferSize),
   bufferedSize |-> 0, useSeed |-> FALSE, nbStripesSoFar |-> 0, totalLen |-> 0,
   nbStripesPerBlock |-> 0, secretLimit |-> 0, seed |-> 0, extSecret |-> NoSecret]

XXH3_reset_internal(s, seed, secret, secretSize) ==
  [s EXCEPT !.acc = XXH3_INIT_ACC, !.bufferedSize = 0, !.nbStripesSoFar = 0,
            !.totalLen = 0, !.seed = seed, !.useSeed = seed # 0,
            !.extSecret = secret, !.secretLimit = secretSize - StripeLen,
            !.nbStripesPerBlock = (secretSize - StripeLen) \div ConsumeRate]

XXH3_reset(s) == XXH3_reset_internal(s, 0, kSecret, SecretSize0)

XXH3_reset_withSecret(s, secret) == XXH3_reset_internal(s, 0, secret, SizeOf(secret))

\* A version that looks at the seed alone.
DerivedOfSeed(s, seed) ==
  IF seed # s.seed THEN XXH3_initCustomSecret(seed) ELSE s.customSecret

\* The secret derived from the seed is kept when the seed is the last one's.
Derived(s, seed) ==
  IF seed # s.seed \/ s.extSecret # NoSecret THEN XXH3_initCustomSecret(seed)
  ELSE s.customSecret

XXH3_reset_withSeed(s, seed) ==
  IF seed = 0 THEN XXH3_reset(s)
  ELSE XXH3_reset_internal([s EXCEPT !.customSecret = Derived(s, seed)],
                           seed, NoSecret, SecretSize0)

XXH3_reset_withSecretandSeed(s, secret, seed) ==
  [XXH3_reset_internal(s, seed, secret, SizeOf(secret)) EXCEPT !.useSeed = TRUE]

ResetBy(s, key) ==
  CASE key.variant = "plain"         -> XXH3_reset(s)
    [] key.variant = "secret"        -> XXH3_reset_withSecret(s, key.secret)
    [] key.variant = "seed"          -> XXH3_reset_withSeed(s, key.seed)
    [] key.variant = "secretandseed" -> XXH3_reset_withSecretandSeed(s, key.secret, key.seed)

\* The secret of the long inputs.
SecretOf(s) == IF s.extSecret = NoSecret THEN s.customSecret ELSE s.extSecret

\* A version that begins every call at the start of a block.
XXH3_consumeFresh(acc, soFar, perBlock, mem, i, nbStripes, secret, limit) ==
  [acc   |-> XXH3_accumulate(acc, mem, i, secret, ConsumeRate * soFar, nbStripes),
   soFar |-> (soFar + nbStripes) % perBlock]

\* Mixes nbStripes stripes from mem + i on into acc, soFar stripes of the block
\* being mixed already.
XXH3_consumeStripes(acc, soFar, perBlock, mem, i, nbStripes, secret, limit) ==
  LET first == perBlock - soFar
      Block(a, from, at, n) ==
        XXH3_scrambleAcc(XXH3_accumulate(a, mem, i + StripeLen * from, secret, at, n),
                         secret, limit)
      Blocks[b \in Nat] ==
        IF b = 0 THEN Block(acc, 0, ConsumeRate * soFar, first)
        ELSE Block(Blocks[b - 1], first + (b - 1) * perBlock, 0, perBlock)
      more == (nbStripes - first) \div perBlock
      rest == nbStripes - first - more * perBlock
  IN  IF nbStripes < first
      THEN [acc   |-> XXH3_accumulate(acc, mem, i, secret, ConsumeRate * soFar, nbStripes),
            soFar |-> soFar + nbStripes]
      ELSE [acc   |-> XXH3_accumulate(Blocks[more], mem, i + StripeLen * (nbStripes - rest),
                                      secret, 0, rest),
            soFar |-> rest]

\* The buffer is full and more input has come: mix all of it.
Flushed(s, full) ==
  LET c == XXH3_consumeStripes(s.acc, s.nbStripesSoFar, s.nbStripesPerBlock, full, 0,
                               BufferSize \div StripeLen, SecretOf(s), s.secretLimit)
  IN  [s EXCEPT !.acc = c.acc, !.nbStripesSoFar = c.soFar,
                !.buffer = full, !.bufferedSize = 0]

\* The last stripe mixed from the caller's memory is kept at the buffer's end:
\* a digest taken before a whole stripe is buffered completes it from there.
KeptStripe(s, input) == Copy(s.buffer, BufferSize - StripeLen,
                             Read(input, Len(input) - StripeLen, StripeLen))

\* A version that mixes every whole stripe, the last too.
DirectAll(s, input) ==
  LET nbStripes == Len(input) \div StripeLen
      c == XXH3_consumeStripes(s.acc, s.nbStripesSoFar, s.nbStripesPerBlock, input, 0,
                               nbStripes, SecretOf(s), s.secretLimit)
  IN  [s EXCEPT !.acc = c.acc, !.nbStripesSoFar = c.soFar,
                !.buffer = KeptStripe(s, Read(input, 0, StripeLen * nbStripes))]

\* Mixes what the caller brings beyond a buffer, all but its last byte's stripe.
Direct(s, input) ==
  LET nbStripes == (Len(input) - 1) \div StripeLen
      c == XXH3_consumeStripes(s.acc, s.nbStripesSoFar, s.nbStripesPerBlock, input, 0,
                               nbStripes, SecretOf(s), s.secretLimit)
  IN  [s EXCEPT !.acc = c.acc, !.nbStripesSoFar = c.soFar,
                !.buffer = KeptStripe(s, Read(input, 0, StripeLen * nbStripes))]

Buffered(s, piece) ==
  [s EXCEPT !.buffer = Copy(@, s.bufferedSize, piece),
            !.bufferedSize = @ + Len(piece)]

XXH3_update(state, piece) ==
  LET s     == [state EXCEPT !.totalLen = @ + Len(piece)]
      room  == BufferSize - s.bufferedSize
      first == IF s.bufferedSize > 0 THEN room ELSE 0
      begun == IF s.bufferedSize > 0
               THEN Flushed(s, Copy(s.buffer, s.bufferedSize, Read(piece, 0, room)))
               ELSE s
      input == Read(piece, first, Len(piece) - first)
      done  == IF Len(input) > BufferSize THEN StripeLen * ((Len(input) - 1) \div StripeLen)
               ELSE 0
  IN  IF Len(piece) <= room THEN Buffered(s, piece)
      ELSE Buffered(IF Len(input) > BufferSize THEN Direct(begun, input) ELSE begun,
                    Read(input, done, Len(input) - done))

\* The stripe that ends the input: in the buffer, or begun at the buffer's end.
LastStripe(s) ==
  LET catchup == StripeLen - s.bufferedSize
  IN  IF s.bufferedSize >= StripeLen
      THEN Read(s.buffer, s.bufferedSize - StripeLen, StripeLen)
      ELSE Read(s.buffer, BufferSize - catchup, catchup) \o Read(s.buffer, 0, s.bufferedSize)

XXH3_digest_long(s, secret) ==
  LET nbStripes == IF s.bufferedSize >= StripeLen
                   THEN (s.bufferedSize - 1) \div StripeLen ELSE 0
      c == XXH3_consumeStripes(s.acc, s.nbStripesSoFar, s.nbStripesPerBlock, s.buffer, 0,
                               nbStripes, secret, s.secretLimit)
  IN  XXH3_accumulate_512(c.acc, LastStripe(s), 0, secret, s.secretLimit - LastAcc)

XXH3_digest(bits, s) ==
  LET short == Read(s.buffer, 0, s.totalLen)
  IN  IF s.totalLen > MidSizeMax
      THEN XXH3_finalizeLong(bits, XXH3_digest_long(s, SecretOf(s)), SecretOf(s),
                             s.secretLimit + StripeLen, s.totalLen)
      ELSE IF s.useSeed THEN XXH3_withSeed(bits, short, s.seed)
      ELSE XXH3_withSecret(bits, short, SecretOf(s), s.secretLimit + StripeLen)

XXH3_Init ==
  /\ s3 = XXH3_createState
  /\ keyed = Key3("none", NoSecret, 0)
  /\ from3 = 0 /\ given3 = 0 /\ calls = 0

Reset3 ==
  \E key \in Keyings :
    /\ calls < MaxCalls
    /\ s3' = ResetBy(s3, key)
    /\ keyed' = key
    /\ from3' = from3 + given3
    /\ given3' = 0
    /\ calls' = calls + 1

Update3 ==
  \E n \in XXH3_Pieces(given3) :
    /\ keyed.variant # "none"
    /\ calls < MaxCalls
    /\ given3 + n <= XXH3_MaxLen
    /\ s3' = XXH3_update(s3, Input(from3 + given3, n))
    /\ given3' = given3 + n
    /\ calls' = calls + 1
    /\ UNCHANGED <<keyed, from3>>

XXH3_Next == Reset3 \/ Update3

XXH3_Spec == XXH3_Init /\ [][XXH3_Next]_xxh3vars

------------------------------------------------------------------------------
\* What one call computes of the input given since the reset, keyed as it was.
Expected(bits) ==
  LET in == Input(from3, given3)
  IN  CASE keyed.variant = "plain"  -> XXH3_bits(bits, in)
        [] keyed.variant = "secret" ->
             XXH3_withSecret(bits, in, keyed.secret, SizeOf(keyed.secret))
        [] keyed.variant = "seed"   -> XXH3_withSeed(bits, in, keyed.seed)
        [] keyed.variant = "secretandseed" ->
             XXH3_withSecretandSeed(bits, in, keyed.secret, SizeOf(keyed.secret), keyed.seed)

Digests == {XXH3_digest(bits, s3) : bits \in {64, 128}}

\* The bytes operations read, and whether they stay within their secrets.
BytesMixed(ops) == UNION {{ops[j].data[i] : i \in DOMAIN ops[j].data} : j \in DOMAIN ops}
Inside(ops) ==
  \A j \in DOMAIN ops : ops[j].at >= 0 /\ ops[j].at + ops[j].size <= SizeOf(ops[j].secret)

(* However the input was cut and whatever the state hashed before, the digest *)
(* is the hash one call would give: of the stripes kept back in the buffer    *)
(* (XXH3_digest_long, 6795-6831), the stripe completed from its end, blocks    *)
(* that begin in one update and end in another (XXH3_consumeStripes,          *)
(* 6651-6687), and a secret kept from an earlier reset (6613-6621).             *)
XXH3_StreamIsOneShot ==
  keyed.variant # "none" => \A bits \in {64, 128} : XXH3_digest(bits, s3) = Expected(bits)

(* Every byte of the input is mixed into the hash, whatever its length: the    *)
(* overlapping reads of the short and middle lengths (4671-4885, 6868-7130)    *)
(* and the last stripe leave no gap.                                          *)
XXH3_EveryByteCounts ==
  keyed.variant # "none" =>
    \A h \in Digests : BytesMixed(h.ops) = from3 + 1 .. from3 + given3

(* No operation reads beyond the secret, down to the smallest a caller may    *)
(* bring (XXH3_SECRET_SIZE_MIN): not the stripe of a block, the scramble, the  *)
(* last stripe or the two merges.                                             *)
XXH3_SecretInside ==
  keyed.variant # "none" => \A h \in Digests : Inside(h.ops)

(* Some input is always kept back once there is any, as XXH3_digest_long       *)
(* asserts (6822), and what is buffered and what is mixed make up the input.   *)
XXH3_SomeBuffered ==
  /\ s3.totalLen = given3
  /\ given3 > 0 => s3.bufferedSize \in 1..BufferSize
  /\ Cardinality({j \in DOMAIN s3.acc : s3.acc[j].op = "accumulate"}) * StripeLen
       + s3.bufferedSize = given3
====
