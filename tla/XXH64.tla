---- MODULE XXH64 ----
(* XXH64 of xxhash.h: the hash in one call, which the hash table uses, and    *)
(* the streaming interface that hashes an input given in pieces.  The         *)
(* arithmetic of a round stays symbolic: a lane is the seed it started from    *)
(* and the words mixed into it, in order, so two hashes are equal here only   *)
(* when the code computes them by the same operations on the same words.      *)
EXTENDS XXHInput

CONSTANTS XXH64_Pieces(_), \* the sizes an update may bring after n bytes
          XXH64_MaxLen     \* the longest input

ASSUME XXH64_Assumption ==
  /\ XXH64_MaxLen \in Nat
  /\ \A n \in 0..XXH64_MaxLen : XXH64_Pieces(n) \subseteq Nat

VARIABLES
  s64,      \* the XXH64_state_t
  seed64,   \* the seed of its last reset
  from64,   \* the bytes ever given before that reset
  given64   \* the bytes given since

xxh64vars == <<s64, seed64, from64, given64>>

Lane64 == 0..3

\* What XXH64_initAccs adds to the seed, lane by lane.
Offset64 == [lane \in Lane64 |->
  CASE lane = 0 -> "PRIME1 + PRIME2" [] lane = 1 -> "PRIME2"
    [] lane = 2 -> "0"               [] lane = 3 -> "-PRIME1"]

XXH64_initAccs(seed) ==
  [lane \in Lane64 |-> [seed |-> seed, plus |-> Offset64[lane], words |-> <<>>]]

\* XXH64_round for each of the words given to a lane.
XXH64_round(lane, words) ==
  [seed |-> lane.seed, plus |-> lane.plus, words |-> lane.words \o words]

\* Mixes the whole blocks of 32 bytes found in len bytes at mem + at.
XXH64_consumeLong(acc, mem, at, len) ==
  [lane \in Lane64 |->
     XXH64_round(acc[lane],
                 [b \in 1..(len \div 32) |-> Read(mem, at + 32 * (b - 1) + 8 * lane, 8)])]

\* A hash: how it starts, the length added to it and the words of its tail.
Hash64(start, len, tail) == [start |-> start, len |-> len, tail |-> tail]

XXH64_mergeAccs(acc) == <<"merged", acc>>
Short64(plainSeed)   == <<"PRIME5", plainSeed>>

\* The words XXH64_finalize reads: by 8, then at most one of 4, then by 1.
XXH64_finalize(mem, at, len) ==
  LET rest == len % 32
      half == rest % 8 >= 4
  IN  [i \in 1..(rest \div 8) |-> Read(mem, at + 8 * (i - 1), 8)]
      \o (IF half THEN <<Read(mem, at + 8 * (rest \div 8), 4)>> ELSE <<>>)
      \o [i \in 1..(rest % 4) |-> Read(mem, at + 4 * (rest \div 4) + i - 1, 1)]

\* XXH64(input, len, seed): the hash in one call.
XXH64_oneshot(input, seed) ==
  LET len  == Len(input)
      done == IF len >= 32 THEN 32 * (len \div 32) ELSE 0
      acc  == XXH64_consumeLong(XXH64_initAccs(seed), input, 0, len)
  IN  Hash64(IF len >= 32 THEN XXH64_mergeAccs(acc)
             ELSE Short64([seed |-> seed, plus |-> "0", words |-> <<>>]),
             len, XXH64_finalize(input, done, len))

------------------------------------------------------------------------------
(* Streaming. *)

XXH64_reset(seed) ==
  [total_len |-> 0, acc |-> XXH64_initAccs(seed),
   buffer |-> Zeroed(32), bufferedSize |-> 0]

\* A version that forgets the block begun in the buffer.
Dropped64(s, piece) ==
  LET len   == Len(piece)
      whole == 32 * (len \div 32)
  IN  [total_len    |-> s.total_len + len,
       acc          |-> XXH64_consumeLong(s.acc, piece, 0, whole),
       buffer       |-> Copy(s.buffer, 0, Read(piece, whole, len - whole)),
       bufferedSize |-> len - whole]

\* Not enough for a block: the piece waits in the buffer.
Buffer64(s, piece) ==
  [total_len    |-> s.total_len + Len(piece),
   acc          |-> s.acc,
   buffer       |-> Copy(s.buffer, s.bufferedSize, piece),
   bufferedSize |-> s.bufferedSize + Len(piece)]

\* What completes a block begun in the buffer, the buffer so completed, and the
\* accumulators once it is mixed.
First64(s) == IF s.bufferedSize > 0 THEN 32 - s.bufferedSize ELSE 0

Filled64(s, piece) == Copy(s.buffer, s.bufferedSize, Read(piece, 0, First64(s)))

Begun64(s, piece) ==
  IF s.bufferedSize > 0 THEN XXH64_consumeLong(s.acc, Filled64(s, piece), 0, 32) ELSE s.acc

\* The whole blocks that follow are mixed straight from the caller's memory, and
\* what is left goes to the buffer.
Whole64(s, piece) == 32 * ((Len(piece) - First64(s)) \div 32)
Left64(s, piece)  == Len(piece) - First64(s) - Whole64(s, piece)

Consume64(s, piece) ==
  [total_len    |-> s.total_len + Len(piece),
   acc          |-> XXH64_consumeLong(Begun64(s, piece), piece, First64(s),
                                      Whole64(s, piece)),
   buffer       |-> Copy(Filled64(s, piece), 0,
                         Read(piece, First64(s) + Whole64(s, piece), Left64(s, piece))),
   bufferedSize |-> Left64(s, piece)]

XXH64_update(s, piece) ==
  IF Len(piece) < 32 - s.bufferedSize THEN Buffer64(s, piece) ELSE Consume64(s, piece)

XXH64_digest(s) ==
  Hash64(IF s.total_len >= 32 THEN XXH64_mergeAccs(s.acc) ELSE Short64(s.acc[2]),
         s.total_len, XXH64_finalize(s.buffer, 0, s.total_len))

XXH64_Init ==
  /\ s64 = XXH64_reset(0)
  /\ seed64 = 0 /\ from64 = 0 /\ given64 = 0

\* XXH64_reset begins another hash in the same state.
Reset64 ==
  \E seed \in Seeds :
    /\ given64 > 0
    /\ from64 + given64 < XXH64_MaxLen
    /\ s64' = XXH64_reset(seed)
    /\ seed64' = seed
    /\ from64' = from64 + given64
    /\ given64' = 0

Update64 ==
  \E n \in XXH64_Pieces(given64) :
    /\ from64 + given64 + n <= XXH64_MaxLen
    /\ s64' = XXH64_update(s64, Input(from64 + given64, n))
    /\ given64' = given64 + n
    /\ UNCHANGED <<seed64, from64>>

XXH64_Next == Reset64 \/ Update64

XXH64_Spec == XXH64_Init /\ [][XXH64_Next]_xxh64vars

------------------------------------------------------------------------------
(* However the input was cut into pieces, the digest is the hash one call     *)
(* would give: no byte is mixed twice, out of order, or left in the buffer    *)
(* by XXH64_update (3741-3782), and the length XXH64_digest (3786-3799) takes  *)
(* the tail's size from agrees with what is buffered.                         *)
XXH64_StreamIsOneShot ==
  XXH64_digest(s64) = XXH64_oneshot(Input(from64, given64), seed64)
====
