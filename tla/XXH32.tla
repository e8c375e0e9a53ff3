---- MODULE XXH32 ----
(* XXH32 of xxhash.h, in one call and streaming, as XXH64 is modelled.  Its   *)
(* state differs in what it remembers of the length: 32 bits that wrap, and   *)
(* a flag that stays set once 16 bytes have been given.                       *)
EXTENDS XXHInput

CONSTANTS XXH32_Pieces(_),  \* the sizes an update may bring after n bytes
          XXH32_MaxLen,     \* the longest input
          XXH32_LenRange    \* 2^32: where total_len_32 wraps

ASSUME XXH32_Assumption ==
  /\ XXH32_MaxLen \in Nat
  /\ XXH32_LenRange \in Nat /\ XXH32_LenRange >= 32
  /\ \A n \in 0..XXH32_MaxLen : XXH32_Pieces(n) \subseteq Nat

VARIABLES
  s32,      \* the XXH32_state_t
  seed32,   \* the seed of its last reset
  from32,   \* the bytes ever given before that reset
  given32   \* the bytes given since

xxh32vars == <<s32, seed32, from32, given32>>

Lane32 == 0..3

\* What XXH32_initAccs adds to the seed, lane by lane.
Offset32 == [lane \in Lane32 |->
  CASE lane = 0 -> "PRIME1 + PRIME2" [] lane = 1 -> "PRIME2"
    [] lane = 2 -> "0"               [] lane = 3 -> "-PRIME1"]

XXH32_initAccs(seed) ==
  [lane \in Lane32 |-> [seed |-> seed, plus |-> Offset32[lane], words |-> <<>>]]

\* XXH32_round for each of the words given to a lane.
XXH32_round(lane, words) ==
  [seed |-> lane.seed, plus |-> lane.plus, words |-> lane.words \o words]

\* Mixes the whole blocks of 16 bytes found in len bytes at mem + at.
XXH32_consumeLong(acc, mem, at, len) ==
  [lane \in Lane32 |->
     XXH32_round(acc[lane],
                 [b \in 1..(len \div 16) |-> Read(mem, at + 16 * (b - 1) + 4 * lane, 4)])]

\* A hash: how it starts, the length added to it and the words of its tail.
Hash32(start, len, tail) ==
  [start |-> start, len |-> len % XXH32_LenRange, tail |-> tail]

XXH32_mergeAccs(acc) == <<"merged", acc>>
Short32(plainSeed)   == <<"PRIME5", plainSeed>>

\* The words XXH32_finalize reads: by 4, then by 1.
XXH32_finalize(mem, at, len) ==
  LET rest == len % 16
  IN  [i \in 1..(rest \div 4) |-> Read(mem, at + 4 * (i - 1), 4)]
      \o [i \in 1..(rest % 4) |-> Read(mem, at + 4 * (rest \div 4) + i - 1, 1)]

\* XXH32(input, len, seed): the hash in one call.
XXH32_oneshot(input, seed) ==
  LET len  == Len(input)
      done == IF len >= 16 THEN 16 * (len \div 16) ELSE 0
      acc  == XXH32_consumeLong(XXH32_initAccs(seed), input, 0, len)
  IN  Hash32(IF len >= 16 THEN XXH32_mergeAccs(acc)
             ELSE Short32([seed |-> seed, plus |-> "0", words |-> <<>>]),
             len, XXH32_finalize(input, done, len % 16))

------------------------------------------------------------------------------
(* Streaming. *)

XXH32_reset(seed) ==
  [total_len_32 |-> 0, large_len |-> FALSE, acc |-> XXH32_initAccs(seed),
   buffer |-> Zeroed(16), bufferedSize |-> 0]

\* The length modulo 2^32.
Total32(s, len) == (s.total_len_32 + len) % XXH32_LenRange

\* A version that asks the wrapped length alone.
LargeForgets(s, len) == len >= 16 \/ Total32(s, len) >= 16

\* Whether the length ever reached a block.
Large(s, len) == s.large_len \/ len >= 16 \/ Total32(s, len) >= 16

\* Not enough for a block: the piece waits in the buffer.
Buffer32(s, piece) ==
  [total_len_32 |-> Total32(s, Len(piece)),
   large_len    |-> Large(s, Len(piece)),
   acc          |-> s.acc,
   buffer       |-> Copy(s.buffer, s.bufferedSize, piece),
   bufferedSize |-> s.bufferedSize + Len(piece)]

\* What completes a block begun in the buffer, the buffer so completed, and the
\* accumulators once it is mixed.
First32(s) == IF s.bufferedSize > 0 THEN 16 - s.bufferedSize ELSE 0

Filled32(s, piece) == Copy(s.buffer, s.bufferedSize, Read(piece, 0, First32(s)))

Begun32(s, piece) ==
  IF s.bufferedSize > 0 THEN XXH32_consumeLong(s.acc, Filled32(s, piece), 0, 16) ELSE s.acc

\* The whole blocks that follow are mixed straight from the caller's memory, and
\* what is left goes to the buffer.
Whole32(s, piece) == 16 * ((Len(piece) - First32(s)) \div 16)
Left32(s, piece)  == Len(piece) - First32(s) - Whole32(s, piece)

Consume32(s, piece) ==
  [total_len_32 |-> Total32(s, Len(piece)),
   large_len    |-> Large(s, Len(piece)),
   acc          |-> XXH32_consumeLong(Begun32(s, piece), piece, First32(s),
                                      Whole32(s, piece)),
   buffer       |-> Copy(Filled32(s, piece), 0,
                         Read(piece, First32(s) + Whole32(s, piece), Left32(s, piece))),
   bufferedSize |-> Left32(s, piece)]

XXH32_update(s, piece) ==
  IF Len(piece) < 16 - s.bufferedSize THEN Buffer32(s, piece) ELSE Consume32(s, piece)

XXH32_digest(s) ==
  Hash32(IF s.large_len THEN XXH32_mergeAccs(s.acc) ELSE Short32(s.acc[2]),
         s.total_len_32, XXH32_finalize(s.buffer, 0, s.bufferedSize))

XXH32_Init ==
  /\ s32 = XXH32_reset(0)
  /\ seed32 = 0 /\ from32 = 0 /\ given32 = 0

\* XXH32_reset begins another hash in the same state.
Reset32 ==
  \E seed \in Seeds :
    /\ given32 > 0
    /\ from32 + given32 < XXH32_MaxLen
    /\ s32' = XXH32_reset(seed)
    /\ seed32' = seed
    /\ from32' = from32 + given32
    /\ given32' = 0

Update32 ==
  \E n \in XXH32_Pieces(given32) :
    /\ from32 + given32 + n <= XXH32_MaxLen
    /\ s32' = XXH32_update(s32, Input(from32 + given32, n))
    /\ given32' = given32 + n
    /\ UNCHANGED <<seed32, from32>>

XXH32_Next == Reset32 \/ Update32

XXH32_Spec == XXH32_Init /\ [][XXH32_Next]_xxh32vars

------------------------------------------------------------------------------
(* However the input was cut into pieces, the digest is the hash one call     *)
(* would give, on inputs longer than the 32 bits of total_len_32 too: the     *)
(* length alone would then say a long input is short, and XXH32_digest        *)
(* (3291-3305) would leave out every block mixed so far.                      *)
XXH32_StreamIsOneShot ==
  XXH32_digest(s32) = XXH32_oneshot(Input(from32, given32), seed32)
====
