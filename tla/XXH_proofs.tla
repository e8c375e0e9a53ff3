---- MODULE XXH_proofs ----
(* The streaming interfaces of XXH64, XXH32, XXH3 and XXH128 compute the hash *)
(* of one call, for inputs of any length cut into any pieces.                 *)
EXTENDS XXH32, XXH64, XXH3Stream, NatLemmas, SequenceTheorems, FiniteSetTheorems, TLAPS

------------------------------------------------------------------------------
(* Sequences given by their elements. *)

LEMMA SeqOfFunction ==
  ASSUME NEW S, NEW n \in Nat, NEW f \in [1..n -> S]
  PROVE  f \in Seq(S) /\ Len(f) = n
<1>1. f \in Seq(S)
  BY SeqDef
<1> QED
  BY <1>1, LenProperties

LEMMA ConcatIs ==
  ASSUME NEW S, NEW f \in Seq(S), NEW g \in Seq(S), NEW h \in Seq(S),
         Len(h) = Len(f) + Len(g),
         \A i \in 1..Len(f) : h[i] = f[i],
         \A i \in 1..Len(g) : h[Len(f) + i] = g[i]
  PROVE  f \o g = h
<1>1. Len(f) \in Nat /\ Len(g) \in Nat
  BY LenProperties
<1>2. /\ f \o g \in Seq(S)
      /\ Len(f \o g) = Len(h)
      /\ \A i \in 1..Len(h) : (f \o g)[i] = IF i <= Len(f) THEN f[i] ELSE g[i - Len(f)]
  BY ConcatProperties
<1>3. ASSUME NEW i \in 1..Len(h) PROVE (f \o g)[i] = h[i]
  <2>1. CASE i <= Len(f)
    BY <1>1, <1>2, <2>1
  <2>2. CASE ~ (i <= Len(f))
    <3>1. i - Len(f) \in 1..Len(g) /\ Len(f) + (i - Len(f)) = i
      BY <1>1, <2>2
    <3> QED
      BY <1>2, <2>2, <3>1
  <2> QED
    BY <2>1, <2>2
<1> QED
  BY <1>2, <1>3, SeqEqual

------------------------------------------------------------------------------
(* Memory. *)

\* len bytes at mem + at are the input's, from the one that follows position `from`.
Holds(mem, at, len, from) == \A i \in 1..len : mem[at + i] = from + i

LEMMA InputHolds ==
  ASSUME NEW f \in Nat, NEW m \in Nat
  PROVE  /\ Input(f, m) \in [1..m -> Int] /\ Len(Input(f, m)) = m
         /\ Holds(Input(f, m), 0, m, f)
<1>1. Input(f, m) \in [1..m -> Int]
  BY DEF Input
<1>2. Holds(Input(f, m), 0, m, f)
  BY DEF Input, Holds
<1> QED
  BY <1>1, <1>2, SeqOfFunction

\* Bytes read from memory that holds the input hold it.
LEMMA ReadHolds ==
  ASSUME NEW f \in Nat, NEW len \in Nat, NEW mem, Holds(mem, 0, len, f),
         NEW at \in Nat, NEW m \in Nat, at + m <= len,
         NEW first \in Nat, first = f + at
  PROVE  /\ Read(mem, at, m) \in [1..m -> Int] /\ Len(Read(mem, at, m)) = m
         /\ Holds(Read(mem, at, m), 0, m, first)
<1>1. ASSUME NEW i \in 1..m PROVE mem[at + i] = first + i
  <2>1. at + i \in 1..len /\ 0 + (at + i) = at + i
    OBVIOUS
  <2> QED
    BY <2>1 DEF Holds
<1>2. Read(mem, at, m) \in [1..m -> Int]
  BY <1>1 DEF Read
<1>3. Holds(Read(mem, at, m), 0, m, first)
  BY <1>1 DEF Read, Holds
<1> QED
  BY <1>2, <1>3, SeqOfFunction

LEMMA CopyHolds ==
  ASSUME NEW N \in Nat, NEW f \in Nat, NEW mem \in [1..N -> Int], NEW at \in Nat,
         Holds(mem, 0, at, f),
         NEW m \in Nat, at + m <= N, NEW bytes \in [1..m -> Int],
         NEW first \in Nat, first = f + at, Holds(bytes, 0, m, first)
  PROVE  Copy(mem, at, bytes) \in [1..N -> Int] /\ Holds(Copy(mem, at, bytes), 0, at + m, f)
<1>1. Len(bytes) = m /\ Len(mem) = N
  BY SeqOfFunction
<1>2. Copy(mem, at, bytes)
        = [i \in 1..N |-> IF i \in at + 1 .. at + m THEN bytes[i - at] ELSE mem[i]]
  BY <1>1 DEF Copy
<1> DEFINE copy == [i \in 1..N |-> IF i \in at + 1 .. at + m THEN bytes[i - at] ELSE mem[i]]
<1>3. ASSUME NEW i \in 1..N
      PROVE  copy[i] \in Int
  <2>1. i \in at + 1 .. at + m => i - at \in 1..m
    OBVIOUS
  <2> QED
    BY <2>1
<1>4. ASSUME NEW i \in 1..at + m PROVE copy[i] = f + i
  <2>1. CASE i <= at
    <3>1. i \in 1..N /\ i \notin at + 1 .. at + m /\ i \in 1..at /\ 0 + i = i
      BY <2>1
    <3>2. mem[i] = f + i
      BY <3>1 DEF Holds
    <3> QED
      BY <3>1, <3>2
  <2>2. CASE i > at
    <3>1. i - at \in 1..m /\ 0 + (i - at) = i - at /\ i \in 1..N /\ i \in at + 1 .. at + m
      BY <2>2
    <3>2. bytes[i - at] = first + (i - at)
      BY <3>1 DEF Holds
    <3> QED
      BY <3>1, <3>2
  <2> QED
    BY <2>1, <2>2
<1>5. copy \in [1..N -> Int]
  BY <1>3
<1> HIDE DEF copy
<1>6. Holds(copy, 0, at + m, f)
  <2>1. \A i \in 1..at + m : 0 + i = i
    OBVIOUS
  <2> QED
    BY <1>4, <2>1 DEF Holds
<1>7. Copy(mem, at, bytes) = copy
  BY <1>2 DEF copy
<1> QED
  BY <1>5, <1>6, <1>7

\* Memory that holds the input holds it from any place on.
LEMMA HoldsOn ==
  ASSUME NEW f \in Nat, NEW len \in Nat, NEW mem, Holds(mem, 0, len, f),
         NEW at \in Nat, NEW m \in Nat, at + m <= len,
         NEW first \in Nat, first = f + at
  PROVE  Holds(mem, at, m, first)
<1>1. ASSUME NEW i \in 1..m PROVE mem[at + i] = first + i
  <2>1. at + i \in 1..len /\ 0 + (at + i) = at + i
    OBVIOUS
  <2> QED
    BY <2>1 DEF Holds
<1> QED
  BY <1>1 DEF Holds

\* Words read at the same places of memories that hold the same bytes.
LEMMA ReadsAgree ==
  ASSUME NEW m1, NEW a1 \in Nat, NEW m2, NEW a2 \in Nat, NEW rest \in Nat, NEW first,
         Holds(m1, a1, rest, first), Holds(m2, a2, rest, first),
         NEW from \in Nat, NEW size \in Nat, from + size <= rest,
         NEW p1, p1 = a1 + from, NEW p2, p2 = a2 + from
  PROVE  Read(m1, p1, size) = Read(m2, p2, size)
<1>1. ASSUME NEW i \in 1..size PROVE m1[p1 + i] = m2[p2 + i]
  <2> DEFINE j == from + i
  <2>1. j \in 1..rest /\ p1 + i = a1 + j /\ p2 + i = a2 + j
    OBVIOUS
  <2> HIDE DEF j
  <2> QED
    BY <2>1 DEF Holds
<1> QED
  BY <1>1 DEF Read

------------------------------------------------------------------------------
(* XXH64: the accumulators after k blocks of 32 bytes of an input that begins *)
(* after position f.                                                          *)

Block(f, b, lane) == [i \in 1..8 |-> f + 32 * (b - 1) + 8 * lane + i]

Blocks(f, k, lane)    == [b \in 1..k |-> Block(f, b, lane)]
After(f, k, q, lane)  == [b \in 1..q |-> Block(f, k + b, lane)]
LaneOf(seed, f, k, lane) ==
  [seed |-> seed, plus |-> Offset64[lane], words |-> Blocks(f, k, lane)]
AccOf(seed, f, k) == [lane \in Lane64 |-> LaneOf(seed, f, k, lane)]

BlockSet == [1..8 -> Int]

LEMMA InitAccsIsAccOf ==
  ASSUME NEW seed, NEW f
  PROVE  XXH64_initAccs(seed) = AccOf(seed, f, 0)
<1>1. [b \in 1..0 |-> 0] = << >>
  BY SMT
<1>2. ASSUME NEW lane \in Lane64
      PROVE  Blocks(f, 0, lane) = << >>
  BY SMT DEF Blocks
<1> QED
  BY <1>2 DEF XXH64_initAccs, AccOf, LaneOf

\* k blocks of a lane and the q that follow are its first k + q blocks.
LEMMA BlocksFollow ==
  ASSUME NEW f \in Nat, NEW k \in Nat, NEW q \in Nat, NEW lane \in Lane64
  PROVE  Blocks(f, k, lane) \o After(f, k, q, lane) = Blocks(f, k + q, lane)
<1> DEFINE g     == After(f, k, q, lane)
           mixed == [b \in 1..k |-> Block(f, b, lane)]
           all   == [b \in 1..k + q |-> Block(f, b, lane)]
<1>1. ASSUME NEW b \in Nat \ {0} PROVE Block(f, b, lane) \in BlockSet
  BY DEF Block, BlockSet, Lane64
<1>2. mixed \in [1..k -> BlockSet] /\ all \in [1..k + q -> BlockSet]
  BY <1>1
<1>3. g \in [1..q -> BlockSet]
  BY <1>1 DEF After
<1>4. \A i \in 1..k : all[i] = mixed[i]
  OBVIOUS
<1>5. \A i \in 1..q : all[k + i] = g[i]
  BY DEF After
<1> HIDE DEF g, mixed, all
<1>6. mixed \o g = all
  <2>1. mixed \in Seq(BlockSet) /\ Len(mixed) = k /\ g \in Seq(BlockSet) /\ Len(g) = q
    BY <1>2, <1>3, SeqOfFunction
  <2>2. all \in Seq(BlockSet) /\ Len(all) = k + q
    BY <1>2, SeqOfFunction
  <2>3. /\ Len(all) = Len(mixed) + Len(g)
        /\ \A i \in 1..Len(mixed) : all[i] = mixed[i]
        /\ \A i \in 1..Len(g) : all[Len(mixed) + i] = g[i]
    BY <1>4, <1>5, <2>1, <2>2
  <2> QED
    BY <2>1, <2>2, <2>3, ConcatIs
<1> QED
  BY <1>6 DEF g, mixed, all, Blocks

LEMMA RoundAppends ==
  ASSUME NEW seed, NEW f \in Nat, NEW k \in Nat, NEW q \in Nat, NEW lane \in Lane64
  PROVE  XXH64_round(LaneOf(seed, f, k, lane), After(f, k, q, lane))
           = LaneOf(seed, f, k + q, lane)
<1>1. Blocks(f, k, lane) \o After(f, k, q, lane) = Blocks(f, k + q, lane)
  BY BlocksFollow
<1> QED
  BY <1>1 DEF XXH64_round, LaneOf

\* Consuming memory that holds the input's next bytes mixes the blocks that follow.
LEMMA ConsumeMixes ==
  ASSUME NEW seed, NEW f \in Nat, NEW k \in Nat,
         NEW mem, NEW at \in Nat, NEW len \in Nat,
         NEW first \in Nat, first = f + 32 * k, Holds(mem, at, len, first),
         NEW n \in Nat, n = k + (len \div 32)
  PROVE  XXH64_consumeLong(AccOf(seed, f, k), mem, at, len) = AccOf(seed, f, n)
<1>1. PICK q \in Nat : q = len \div 32
  OBVIOUS
<1> DEFINE next(lane) == [b \in 1..q |-> Read(mem, at + 32 * (b - 1) + 8 * lane, 8)]
<1>2. ASSUME NEW lane \in Lane64
      PROVE  XXH64_round(LaneOf(seed, f, k, lane), next(lane)) = LaneOf(seed, f, k + q, lane)
  <2>1. ASSUME NEW b \in 1..q
        PROVE  Read(mem, at + 32 * (b - 1) + 8 * lane, 8) = Block(f, k + b, lane)
    <3>1. ASSUME NEW i \in 1..8
          PROVE  mem[at + 32 * (b - 1) + 8 * lane + i]
                   = f + 32 * (k + b - 1) + 8 * lane + i
      <4> DEFINE p == 32 * (b - 1) + 8 * lane + i
      <4>1. p \in 1..len
        BY <1>1 DEF Lane64
      <4>2. at + 32 * (b - 1) + 8 * lane + i = at + p
        BY DEF Lane64
      <4>3. first + p = f + 32 * (k + b - 1) + 8 * lane + i
        BY DEF Lane64
      <4>4. mem[at + p] = first + p
        BY <4>1 DEF Holds
      <4> HIDE DEF p
      <4> QED
        BY <4>2, <4>3, <4>4
    <3> QED
      BY <3>1 DEF Read, Block
  <2>2. next(lane) = After(f, k, q, lane)
    BY <2>1 DEF After
  <2> HIDE DEF next
  <2> QED
    BY <2>2, RoundAppends
<1>3. XXH64_consumeLong(AccOf(seed, f, k), mem, at, len)
        = [lane \in Lane64 |-> XXH64_round(LaneOf(seed, f, k, lane), next(lane))]
  BY <1>1 DEF XXH64_consumeLong, AccOf
<1> HIDE DEF next
<1>4. XXH64_consumeLong(AccOf(seed, f, k), mem, at, len) = AccOf(seed, f, k + q)
  BY <1>2, <1>3 DEF AccOf
<1> QED
  BY <1>1, <1>4

------------------------------------------------------------------------------
(* A state that has been given the n bytes after position f.                  *)

Memory == [1..32 -> Int]

LEMMA CopyHolds64 ==
  ASSUME NEW f \in Nat, NEW mem \in Memory, NEW at \in Nat, Holds(mem, 0, at, f),
         NEW m \in Nat, at + m <= 32, NEW bytes \in [1..m -> Int],
         NEW first \in Nat, first = f + at, Holds(bytes, 0, m, first)
  PROVE  Copy(mem, at, bytes) \in Memory /\ Holds(Copy(mem, at, bytes), 0, at + m, f)
<1>1. PICK N \in Nat : N = 32
  OBVIOUS
<1>2. mem \in [1..N -> Int] /\ at + m <= N
  BY <1>1 DEF Memory
<1>3. Copy(mem, at, bytes) \in [1..N -> Int] /\ Holds(Copy(mem, at, bytes), 0, at + m, f)
  BY <1>2, CopyHolds
<1> QED
  BY <1>1, <1>3 DEF Memory

StreamOf(s, seed, f, n) ==
  /\ s = [total_len |-> n, acc |-> AccOf(seed, f, n \div 32),
          buffer |-> s.buffer, bufferedSize |-> n % 32]
  /\ s.buffer \in Memory
  /\ \E first \in Nat : first = f + 32 * (n \div 32) /\ Holds(s.buffer, 0, n % 32, first)

LEMMA ResetIsEmpty ==
  ASSUME NEW seed, NEW f \in Nat
  PROVE  StreamOf(XXH64_reset(seed), seed, f, 0)
<1> DEFINE s == XXH64_reset(seed)
<1>1. s.buffer \in Memory
  BY DEF XXH64_reset, Zeroed, Memory
<1>2. Holds(s.buffer, 0, 0, f)
  BY DEF Holds
<1>3. 0 \div 32 = 0 /\ 0 % 32 = 0
  OBVIOUS
<1>4. s = [total_len |-> 0, acc |-> AccOf(seed, f, 0), buffer |-> s.buffer, bufferedSize |-> 0]
  BY InitAccsIsAccOf DEF XXH64_reset
<1> HIDE DEF s
<1>5. StreamOf(s, seed, f, 0)
  BY <1>1, <1>2, <1>3, <1>4 DEF StreamOf
<1> QED
  BY <1>5 DEF s

LEMMA BufferKeeps ==
  ASSUME NEW s, NEW seed, NEW f \in Nat, NEW n \in Nat, StreamOf(s, seed, f, n),
         NEW m \in Nat, m < 32 - (n % 32),
         NEW g \in Nat, g = f + n, NEW total \in Nat, total = n + m
  PROVE  StreamOf(Buffer64(s, Input(g, m)), seed, f, total)
<1> DEFINE piece == Input(g, m)
           t     == Buffer64(s, piece)
<1>1. PICK first \in Nat : first = f + 32 * (n \div 32) /\ Holds(s.buffer, 0, n % 32, first)
  BY DEF StreamOf
<1>2. n % 32 \in Nat /\ n \div 32 \in Nat /\ g = first + (n % 32)
  BY <1>1
<1>3. /\ total \div 32 = n \div 32
      /\ total % 32 = (n % 32) + m
      /\ (n % 32) + m <= 32
  OBVIOUS
<1>4. piece \in [1..m -> Int] /\ Len(piece) = m /\ Holds(piece, 0, m, g)
  BY InputHolds
<1>5. s.total_len = n /\ s.acc = AccOf(seed, f, n \div 32) /\ s.bufferedSize = n % 32
      /\ s.buffer \in Memory
  BY DEF StreamOf
<1> HIDE DEF piece
<1>6. /\ Copy(s.buffer, n % 32, piece) \in Memory
      /\ Holds(Copy(s.buffer, n % 32, piece), 0, (n % 32) + m, first)
  BY <1>1, <1>2, <1>3, <1>4, <1>5, CopyHolds64
<1>7. t = [total_len |-> n + m, acc |-> AccOf(seed, f, n \div 32),
           buffer |-> Copy(s.buffer, n % 32, piece), bufferedSize |-> (n % 32) + m]
  BY <1>4, <1>5 DEF Buffer64
<1> HIDE DEF t
<1>8. t.buffer = Copy(s.buffer, n % 32, piece)
  BY <1>7
<1>9. StreamOf(t, seed, f, total)
  BY <1>1, <1>3, <1>6, <1>7, <1>8 DEF StreamOf
<1> QED
  BY <1>9 DEF t, piece

\* A block begun in the buffer is completed: K blocks are mixed, and the rest of
\* the piece begins where they end.
Completed(s, seed, f, n, m, g) ==
  /\ First64(s) \in Nat /\ First64(s) <= m
  /\ Filled64(s, Input(g, m)) \in Memory
  /\ \E K \in Nat : /\ n + First64(s) = 32 * K
                   /\ Begun64(s, Input(g, m)) = AccOf(seed, f, K)

LEMMA BlockCompleted ==
  ASSUME NEW s, NEW seed, NEW f \in Nat, NEW n \in Nat, StreamOf(s, seed, f, n),
         NEW m \in Nat, ~ (m < 32 - (n % 32)), NEW g \in Nat, g = f + n
  PROVE  Completed(s, seed, f, n, m, g)
<1> DEFINE piece  == Input(g, m)
           first  == First64(s)
           filled == Filled64(s, piece)
<1>1. PICK start \in Nat : start = f + 32 * (n \div 32) /\ Holds(s.buffer, 0, n % 32, start)
  BY DEF StreamOf
<1>2. PICK r \in Nat : r = n % 32
  OBVIOUS
<1>3. s.acc = AccOf(seed, f, n \div 32) /\ s.bufferedSize = r /\ s.buffer \in Memory
  BY <1>2 DEF StreamOf
<1>4. /\ first \in Nat /\ first <= m /\ r + first <= 32 /\ g = start + r
      /\ 0 + first <= m /\ g = g + 0
  BY <1>1, <1>2, <1>3 DEF First64
<1>5. Holds(piece, 0, m, g)
  BY InputHolds
<1>6. filled = Copy(s.buffer, r, Read(piece, 0, first))
  BY <1>3 DEF Filled64
<1> HIDE DEF piece, first, filled
<1>7. /\ Read(piece, 0, first) \in [1..first -> Int]
      /\ Holds(Read(piece, 0, first), 0, first, g)
  BY <1>4, <1>5, ReadHolds
<1>8. filled \in Memory /\ Holds(filled, 0, r + first, start)
  BY <1>1, <1>2, <1>3, <1>4, <1>6, <1>7, CopyHolds64
<1>9. CASE r = 0
  <2>1. first = 0 /\ Begun64(s, piece) = AccOf(seed, f, n \div 32)
    BY <1>3, <1>9 DEF Begun64, First64, first
  <2>2. n + first = 32 * (n \div 32) /\ n \div 32 \in Nat
    BY <1>2, <1>9, <2>1
  <2> QED
    BY <1>4, <1>8, <2>1, <2>2 DEF first, filled, piece, Completed
<1>10. CASE r > 0
  <2>1. PICK q \in Nat : q = n \div 32
    OBVIOUS
  <2>2. PICK K \in Nat : K = q + (32 \div 32)
    BY <2>1
  <2>3. first = 32 - r
    BY <1>3, <1>10 DEF First64, first
  <2>4. r + first = 32 /\ n + first = 32 * K
    BY <1>2, <2>1, <2>2, <2>3
  <2>5. Begun64(s, piece) = XXH64_consumeLong(AccOf(seed, f, q), filled, 0, 32)
    BY <1>3, <1>10, <2>1 DEF Begun64, filled
  <2>6. Holds(filled, 0, 32, start) /\ start = f + 32 * q
    BY <1>1, <1>8, <2>1, <2>4
  <2>7. Begun64(s, piece) = AccOf(seed, f, K)
    BY <2>2, <2>5, <2>6, ConsumeMixes
  <2> QED
    BY <1>4, <1>8, <2>4, <2>7 DEF first, filled, piece, Completed
<1> QED
  BY <1>2, <1>9, <1>10

LEMMA ConsumeKeeps ==
  ASSUME NEW s, NEW seed, NEW f \in Nat, NEW n \in Nat, StreamOf(s, seed, f, n),
         NEW m \in Nat, ~ (m < 32 - (n % 32)),
         NEW g \in Nat, g = f + n, NEW total \in Nat, total = n + m
  PROVE  StreamOf(Consume64(s, Input(g, m)), seed, f, total)
<1> DEFINE piece  == Input(g, m)
           t      == Consume64(s, piece)
           first  == First64(s)
           filled == Filled64(s, piece)
           begun  == Begun64(s, piece)
           whole  == Whole64(s, piece)
           left   == Left64(s, piece)
           acc    == XXH64_consumeLong(begun, piece, first, whole)
           rest   == Read(piece, first + whole, left)
           buffer == Copy(filled, 0, rest)
<1>1. /\ piece \in [1..m -> Int] /\ Len(piece) = m /\ Holds(piece, 0, m, g)
  BY InputHolds
<1>2. s.total_len = n
  BY DEF StreamOf
<1>3. /\ first \in Nat /\ first <= m /\ filled \in Memory
      /\ \E K \in Nat : n + first = 32 * K /\ begun = AccOf(seed, f, K)
  <2>1. Completed(s, seed, f, n, m, g)
    BY BlockCompleted
  <2> QED
    BY <2>1 DEF Completed
<1> HIDE DEF piece, first, filled, begun
<1>4. whole = 32 * ((m - first) \div 32) /\ left = m - first - whole
  BY <1>1 DEF Whole64, Left64, first
<1> HIDE DEF whole, left
<1>5. t = [total_len |-> n + m, acc |-> acc, buffer |-> buffer, bufferedSize |-> left]
  BY <1>1, <1>2 DEF Consume64, first, filled, begun, whole, left
<1>6. PICK K \in Nat : n + first = 32 * K /\ begun = AccOf(seed, f, K)
  BY <1>3
<1>7. whole \in Nat /\ left \in Nat /\ left < 32 /\ first + whole \in Nat
      /\ first + whole + left = m /\ first + whole <= m
  BY <1>3, <1>4
<1>8. PICK N \in Nat : N = K + (whole \div 32)
  BY <1>7
<1>9. total = 32 * N + left /\ N = total \div 32 /\ left = total % 32
  <2>1. whole \div 32 = (m - first) \div 32
    BY <1>3, <1>4
  <2>2. total = 32 * N + left
    BY <1>3, <1>4, <1>6, <1>8, <2>1
  <2> QED
    BY <1>7, <2>2
<1>10. PICK next \in Nat : next = f + 32 * K
  BY <1>6
<1>11. PICK after \in Nat : after = f + 32 * N
  BY <1>8
<1>12. next = g + first
  BY <1>3, <1>6, <1>10
<1>13. after = g + (first + whole)
  BY <1>3, <1>7, <1>9, <1>11
<1>14. acc = AccOf(seed, f, N)
  <2>1. Holds(piece, first, whole, next)
    BY <1>1, <1>3, <1>7, <1>12, HoldsOn
  <2> QED
    BY <1>3, <1>6, <1>7, <1>8, <1>10, <2>1, ConsumeMixes
<1>15. rest \in [1..left -> Int] /\ Holds(rest, 0, left, after)
  <2>1. PICK at \in Nat : at = first + whole
    BY <1>7
  <2>2. Read(piece, at, left) \in [1..left -> Int] /\ Holds(Read(piece, at, left), 0, left, after)
    BY <1>1, <1>7, <1>13, <2>1, ReadHolds
  <2> QED
    BY <2>1, <2>2
<1> HIDE DEF rest
<1>16. buffer \in Memory /\ Holds(buffer, 0, left, after)
  <2>1. Holds(filled, 0, 0, after)
    BY DEF Holds
  <2>2. after = after + 0 /\ 0 + left <= 32 /\ 0 + left = left
    BY <1>7, <1>11
  <2>3. Copy(filled, 0, rest) \in Memory /\ Holds(Copy(filled, 0, rest), 0, 0 + left, after)
    BY <1>3, <1>7, <1>11, <1>15, <2>1, <2>2, CopyHolds64
  <2> QED
    BY <2>2, <2>3
<1> HIDE DEF acc, buffer, t
<1>17. StreamOf(t, seed, f, total)
  <2>1. t.buffer = buffer
    BY <1>5
  <2> QED
    BY <1>5, <1>9, <1>11, <1>14, <1>16, <2>1 DEF StreamOf
<1> QED
  BY <1>17 DEF t, piece

LEMMA UpdateKeeps ==
  ASSUME NEW s, NEW seed, NEW f \in Nat, NEW n \in Nat, StreamOf(s, seed, f, n),
         NEW m \in Nat, NEW g \in Nat, g = f + n, NEW total \in Nat, total = n + m
  PROVE  StreamOf(XXH64_update(s, Input(g, m)), seed, f, total)
<1>1. Len(Input(g, m)) = m /\ s.bufferedSize = n % 32
  BY InputHolds DEF StreamOf
<1>2. CASE m < 32 - (n % 32)
  <2>1. XXH64_update(s, Input(g, m)) = Buffer64(s, Input(g, m))
    BY <1>1, <1>2 DEF XXH64_update
  <2> QED
    BY <1>2, <2>1, BufferKeeps
<1>3. CASE ~ (m < 32 - (n % 32))
  <2>1. XXH64_update(s, Input(g, m)) = Consume64(s, Input(g, m))
    BY <1>1, <1>3 DEF XXH64_update
  <2> QED
    BY <1>3, <2>1, ConsumeKeeps
<1> QED
  BY <1>2, <1>3

------------------------------------------------------------------------------
(* The digest.                                                                *)

\* The tail is read alike wherever its bytes are.
LEMMA TailsAgree ==
  ASSUME NEW m1, NEW a1 \in Nat, NEW m2, NEW a2 \in Nat, NEW len \in Nat, NEW first,
         Holds(m1, a1, len % 32, first), Holds(m2, a2, len % 32, first)
  PROVE  XXH64_finalize(m1, a1, len) = XXH64_finalize(m2, a2, len)
<1>1. PICK rest \in Nat : rest = len % 32 /\ Holds(m1, a1, rest, first) /\ Holds(m2, a2, rest, first)
  OBVIOUS
<1>2. ASSUME NEW i \in 1..(rest \div 8)
      PROVE  Read(m1, a1 + 8 * (i - 1), 8) = Read(m2, a2 + 8 * (i - 1), 8)
  <2>1. PICK from \in Nat, p1 \in Nat, p2 \in Nat :
          from = 8 * (i - 1) /\ p1 = a1 + from /\ p2 = a2 + from
    OBVIOUS
  <2>2. from + 8 <= rest
    BY <2>1
  <2>3. p1 = a1 + from /\ p2 = a2 + from
    BY <2>1
  <2>4. Read(m1, p1, 8) = Read(m2, p2, 8)
    <3>1. ASSUME NEW k \in 1..8 PROVE m1[p1 + k] = m2[p2 + k]
      <4>1. PICK j \in 1..rest : j = from + k
        BY <2>2
      <4>2. p1 + k = a1 + j /\ p2 + k = a2 + j
        BY <2>3, <4>1
      <4> QED
        BY <1>1, <4>2 DEF Holds
    <3> QED
      BY <3>1 DEF Read
  <2> QED
    BY <2>1, <2>4
<1>3. ASSUME rest % 8 >= 4
      PROVE  Read(m1, a1 + 8 * (rest \div 8), 4) = Read(m2, a2 + 8 * (rest \div 8), 4)
  <2>1. 8 * (rest \div 8) \in Nat /\ 8 * (rest \div 8) + 4 <= rest
    BY <1>3
  <2> QED
    BY <1>1, <2>1, ReadsAgree
<1>4. ASSUME NEW i \in 1..(rest % 4)
      PROVE  Read(m1, a1 + 4 * (rest \div 4) + i - 1, 1)
               = Read(m2, a2 + 4 * (rest \div 4) + i - 1, 1)
  <2>1. PICK from \in Nat, p1 \in Nat, p2 \in Nat :
          from = 4 * (rest \div 4) + i - 1 /\ p1 = a1 + from /\ p2 = a2 + from
    OBVIOUS
  <2>2. from + 1 <= rest
    BY <2>1
  <2>3. p1 = a1 + from /\ p2 = a2 + from
    BY <2>1
  <2>4. Read(m1, p1, 1) = Read(m2, p2, 1)
    <3>1. ASSUME NEW k \in 1..1 PROVE m1[p1 + k] = m2[p2 + k]
      <4>1. PICK j \in 1..rest : j = from + k
        BY <2>2
      <4>2. p1 + k = a1 + j /\ p2 + k = a2 + j
        BY <2>3, <4>1
      <4> QED
        BY <1>1, <4>2 DEF Holds
    <3> QED
      BY <3>1 DEF Read
  <2>5. p1 = a1 + 4 * (rest \div 4) + i - 1 /\ p2 = a2 + 4 * (rest \div 4) + i - 1
    BY <2>1
  <2> QED
    BY <2>4, <2>5
<1> DEFINE eights(mem, at) == [i \in 1..(rest \div 8) |-> Read(mem, at + 8 * (i - 1), 8)]
           four(mem, at)   == IF rest % 8 >= 4 THEN <<Read(mem, at + 8 * (rest \div 8), 4)>>
                              ELSE <<>>
           ones(mem, at)   == [i \in 1..(rest % 4) |-> Read(mem, at + 4 * (rest \div 4) + i - 1, 1)]
<1>5. eights(m1, a1) = eights(m2, a2)
  BY <1>2
<1>6. four(m1, a1) = four(m2, a2)
  BY <1>3
<1>7. ones(m1, a1) = ones(m2, a2)
  BY <1>4
<1>8. /\ XXH64_finalize(m1, a1, len) = eights(m1, a1) \o four(m1, a1) \o ones(m1, a1)
      /\ XXH64_finalize(m2, a2, len) = eights(m2, a2) \o four(m2, a2) \o ones(m2, a2)
  BY <1>1 DEF XXH64_finalize
<1> HIDE DEF eights, four, ones
<1> QED
  BY <1>5, <1>6, <1>7, <1>8

LEMMA DigestIsOneShot ==
  ASSUME NEW s, NEW seed, NEW f \in Nat, NEW n \in Nat, StreamOf(s, seed, f, n)
  PROVE  XXH64_digest(s) = XXH64_oneshot(Input(f, n), seed)
<1> DEFINE input == Input(f, n)
           done  == IF n >= 32 THEN 32 * (n \div 32) ELSE 0
           acc   == XXH64_consumeLong(XXH64_initAccs(seed), input, 0, n)
           plain == [seed |-> seed, plus |-> "0", words |-> <<>>]
<1>1. Len(input) = n /\ Holds(input, 0, n, f)
  BY InputHolds
<1>2. PICK first \in Nat : first = f + 32 * (n \div 32) /\ Holds(s.buffer, 0, n % 32, first)
  BY DEF StreamOf
<1>3. s.total_len = n /\ s.acc = AccOf(seed, f, n \div 32)
  BY DEF StreamOf
<1>4. done \in Nat /\ done = 32 * (n \div 32) /\ first = f + done /\ done + (n % 32) <= n
  BY <1>2
<1> HIDE DEF input, done
<1>5. XXH64_finalize(s.buffer, 0, n) = XXH64_finalize(input, done, n)
  <2>1. n % 32 \in Nat
    OBVIOUS
  <2>2. Holds(input, done, n % 32, first)
    BY <1>1, <1>2, <1>4, <2>1, HoldsOn
  <2> QED
    BY <1>2, <1>4, <2>2, TailsAgree
<1>6. acc = s.acc
  <2>1. XXH64_initAccs(seed) = AccOf(seed, f, 0)
    BY InitAccsIsAccOf
  <2>2. PICK q \in Nat : q = 0 + (n \div 32) /\ q = n \div 32
    OBVIOUS
  <2>3. f = f + 32 * 0
    OBVIOUS
  <2>4. XXH64_consumeLong(AccOf(seed, f, 0), input, 0, n) = AccOf(seed, f, q)
    BY <1>1, <2>2, <2>3, ConsumeMixes
  <2> QED
    BY <1>3, <2>1, <2>2, <2>4
<1> HIDE DEF acc
<1>7. n < 32 => s.acc[2] = plain
  <2>1. SUFFICES ASSUME n < 32 PROVE AccOf(seed, f, 0)[2] = plain
    <3>1. n < 32 => n \div 32 = 0
      OBVIOUS
    <3> QED
      BY <1>3, <2>1, <3>1
  <2>2. AccOf(seed, f, 0)[2] = XXH64_initAccs(seed)[2]
    BY InitAccsIsAccOf
  <2> QED
    BY <2>2 DEF XXH64_initAccs, Lane64, Offset64
<1> DEFINE start == IF n >= 32 THEN XXH64_mergeAccs(s.acc) ELSE Short64(plain)
<1>8. XXH64_digest(s) = Hash64(start, n, XXH64_finalize(s.buffer, 0, n))
  BY <1>3, <1>7 DEF XXH64_digest
<1>9. XXH64_oneshot(input, seed) = Hash64(start, n, XXH64_finalize(input, done, n))
  BY <1>1, <1>6 DEF XXH64_oneshot, acc, done
<1> QED
  BY <1>5, <1>8, <1>9 DEF input

------------------------------------------------------------------------------
(* The specification.                                                          *)

StreamInv ==
  /\ from64 \in Nat /\ given64 \in Nat /\ from64 + given64 <= XXH64_MaxLen
  /\ StreamOf(s64, seed64, from64, given64)

LEMMA InitStream == XXH64_Init => StreamInv
<1> SUFFICES ASSUME XXH64_Init PROVE StreamInv
  OBVIOUS
<1>1. s64 = XXH64_reset(0) /\ seed64 = 0 /\ from64 = 0 /\ given64 = 0
  BY DEF XXH64_Init
<1>2. StreamOf(XXH64_reset(0), 0, 0, 0)
  BY ResetIsEmpty
<1> QED
  BY <1>1, <1>2, XXH64_Assumption DEF StreamInv

LEMMA NextStream == StreamInv /\ [XXH64_Next]_xxh64vars => StreamInv'
<1> SUFFICES ASSUME StreamInv, [XXH64_Next]_xxh64vars PROVE StreamInv'
  OBVIOUS
<1> USE XXH64_Assumption DEF StreamInv
<1>1. CASE Reset64
  <2>1. PICK seed \in Seeds : /\ from64 + given64 < XXH64_MaxLen
                            /\ s64' = XXH64_reset(seed) /\ seed64' = seed
                            /\ from64' = from64 + given64 /\ given64' = 0
    BY <1>1 DEF Reset64
  <2>2. StreamOf(XXH64_reset(seed), seed, from64', 0)
    BY <2>1, ResetIsEmpty
  <2> QED
    BY <2>1, <2>2
<1>2. CASE Update64
  <2>1. PICK m \in XXH64_Pieces(given64) :
          /\ from64 + given64 + m <= XXH64_MaxLen
          /\ s64' = XXH64_update(s64, Input(from64 + given64, m))
          /\ given64' = given64 + m
          /\ seed64' = seed64 /\ from64' = from64
    BY <1>2 DEF Update64
  <2>2. m \in Nat
    BY <2>1
  <2>3. PICK g \in Nat : g = from64 + given64
    OBVIOUS
  <2>4. given64' \in Nat
    BY <2>1, <2>2
  <2>5. StreamOf(XXH64_update(s64, Input(g, m)), seed64, from64, given64')
    BY <2>1, <2>2, <2>3, <2>4, UpdateKeeps
  <2> QED
    BY <2>1, <2>2, <2>3, <2>4, <2>5
<1>3. CASE UNCHANGED xxh64vars
  BY <1>3 DEF xxh64vars, StreamOf
<1> QED
  BY <1>1, <1>2, <1>3 DEF XXH64_Next

(* Whatever the pieces, their number and the length of the input, the digest   *)
(* of XXH64's streaming interface is the hash of one call.                     *)
THEOREM StreamIsOneShot64 == XXH64_Spec => []XXH64_StreamIsOneShot
<1>1. StreamInv => XXH64_StreamIsOneShot
  BY DigestIsOneShot DEF StreamInv, XXH64_StreamIsOneShot
<1> QED
  BY <1>1, InitStream, NextStream, PTL DEF XXH64_Spec
------------------------------------------------------------------------------
(* XXH32: the accumulators after k blocks of 16 bytes of an input that begins *)
(* after position f.                                                          *)

Block32(f, b, lane) == [i \in 1..4 |-> f + 16 * (b - 1) + 4 * lane + i]

Blocks32(f, k, lane)    == [b \in 1..k |-> Block32(f, b, lane)]
After32(f, k, q, lane)  == [b \in 1..q |-> Block32(f, k + b, lane)]
LaneOf32(seed, f, k, lane) ==
  [seed |-> seed, plus |-> Offset32[lane], words |-> Blocks32(f, k, lane)]
AccOf32(seed, f, k) == [lane \in Lane32 |-> LaneOf32(seed, f, k, lane)]

BlockSet32 == [1..4 -> Int]

LEMMA InitAccsIsAccOf32 ==
  ASSUME NEW seed, NEW f
  PROVE  XXH32_initAccs(seed) = AccOf32(seed, f, 0)
<1>1. [b \in 1..0 |-> 0] = << >>
  BY SMT
<1>2. ASSUME NEW lane \in Lane32
      PROVE  Blocks32(f, 0, lane) = << >>
  BY SMT DEF Blocks32
<1> QED
  BY <1>2 DEF XXH32_initAccs, AccOf32, LaneOf32

\* k blocks of a lane and the q that follow are its first k + q blocks.
LEMMA BlocksFollow32 ==
  ASSUME NEW f \in Nat, NEW k \in Nat, NEW q \in Nat, NEW lane \in Lane32
  PROVE  Blocks32(f, k, lane) \o After32(f, k, q, lane) = Blocks32(f, k + q, lane)
<1> DEFINE g     == After32(f, k, q, lane)
           mixed == [b \in 1..k |-> Block32(f, b, lane)]
           all   == [b \in 1..k + q |-> Block32(f, b, lane)]
<1>1. ASSUME NEW b \in Nat \ {0} PROVE Block32(f, b, lane) \in BlockSet32
  BY DEF Block32, BlockSet32, Lane32
<1>2. mixed \in [1..k -> BlockSet32] /\ all \in [1..k + q -> BlockSet32]
  BY <1>1
<1>3. g \in [1..q -> BlockSet32]
  BY <1>1 DEF After32
<1>4. \A i \in 1..k : all[i] = mixed[i]
  OBVIOUS
<1>5. \A i \in 1..q : all[k + i] = g[i]
  BY DEF After32
<1> HIDE DEF g, mixed, all
<1>6. mixed \o g = all
  <2>1. mixed \in Seq(BlockSet32) /\ Len(mixed) = k /\ g \in Seq(BlockSet32) /\ Len(g) = q
    BY <1>2, <1>3, SeqOfFunction
  <2>2. all \in Seq(BlockSet32) /\ Len(all) = k + q
    BY <1>2, SeqOfFunction
  <2>3. /\ Len(all) = Len(mixed) + Len(g)
        /\ \A i \in 1..Len(mixed) : all[i] = mixed[i]
        /\ \A i \in 1..Len(g) : all[Len(mixed) + i] = g[i]
    BY <1>4, <1>5, <2>1, <2>2
  <2> QED
    BY <2>1, <2>2, <2>3, ConcatIs
<1> QED
  BY <1>6 DEF g, mixed, all, Blocks32

LEMMA RoundAppends32 ==
  ASSUME NEW seed, NEW f \in Nat, NEW k \in Nat, NEW q \in Nat, NEW lane \in Lane32
  PROVE  XXH32_round(LaneOf32(seed, f, k, lane), After32(f, k, q, lane))
           = LaneOf32(seed, f, k + q, lane)
<1>1. Blocks32(f, k, lane) \o After32(f, k, q, lane) = Blocks32(f, k + q, lane)
  BY BlocksFollow32
<1> QED
  BY <1>1 DEF XXH32_round, LaneOf32

\* Consuming memory that holds the input's next bytes mixes the blocks that follow.
LEMMA ConsumeMixes32 ==
  ASSUME NEW seed, NEW f \in Nat, NEW k \in Nat,
         NEW mem, NEW at \in Nat, NEW len \in Nat,
         NEW first \in Nat, first = f + 16 * k, Holds(mem, at, len, first),
         NEW n \in Nat, n = k + (len \div 16)
  PROVE  XXH32_consumeLong(AccOf32(seed, f, k), mem, at, len) = AccOf32(seed, f, n)
<1>1. PICK q \in Nat : q = len \div 16
  OBVIOUS
<1> DEFINE next(lane) == [b \in 1..q |-> Read(mem, at + 16 * (b - 1) + 4 * lane, 4)]
<1>2. ASSUME NEW lane \in Lane32
      PROVE  XXH32_round(LaneOf32(seed, f, k, lane), next(lane)) = LaneOf32(seed, f, k + q, lane)
  <2>1. ASSUME NEW b \in 1..q
        PROVE  Read(mem, at + 16 * (b - 1) + 4 * lane, 4) = Block32(f, k + b, lane)
    <3>1. ASSUME NEW i \in 1..4
          PROVE  mem[at + 16 * (b - 1) + 4 * lane + i]
                   = f + 16 * (k + b - 1) + 4 * lane + i
      <4> DEFINE p == 16 * (b - 1) + 4 * lane + i
      <4>1. p \in 1..len
        BY <1>1 DEF Lane32
      <4>2. at + 16 * (b - 1) + 4 * lane + i = at + p
        BY DEF Lane32
      <4>3. first + p = f + 16 * (k + b - 1) + 4 * lane + i
        BY DEF Lane32
      <4>4. mem[at + p] = first + p
        BY <4>1 DEF Holds
      <4> HIDE DEF p
      <4> QED
        BY <4>2, <4>3, <4>4
    <3> QED
      BY <3>1 DEF Read, Block32
  <2>2. next(lane) = After32(f, k, q, lane)
    BY <2>1 DEF After32
  <2> HIDE DEF next
  <2> QED
    BY <2>2, RoundAppends32
<1>3. XXH32_consumeLong(AccOf32(seed, f, k), mem, at, len)
        = [lane \in Lane32 |-> XXH32_round(LaneOf32(seed, f, k, lane), next(lane))]
  BY <1>1 DEF XXH32_consumeLong, AccOf32
<1> HIDE DEF next
<1>4. XXH32_consumeLong(AccOf32(seed, f, k), mem, at, len) = AccOf32(seed, f, k + q)
  BY <1>2, <1>3 DEF AccOf32
<1> QED
  BY <1>1, <1>4

------------------------------------------------------------------------------
(* A state that has been given the n bytes after position f.                  *)

Memory32 == [1..16 -> Int]

LEMMA CopyHolds32 ==
  ASSUME NEW f \in Nat, NEW mem \in Memory32, NEW at \in Nat, Holds(mem, 0, at, f),
         NEW m \in Nat, at + m <= 16, NEW bytes \in [1..m -> Int],
         NEW first \in Nat, first = f + at, Holds(bytes, 0, m, first)
  PROVE  Copy(mem, at, bytes) \in Memory32 /\ Holds(Copy(mem, at, bytes), 0, at + m, f)
<1>1. PICK N \in Nat : N = 16
  OBVIOUS
<1>2. mem \in [1..N -> Int] /\ at + m <= N
  BY <1>1 DEF Memory32
<1>3. Copy(mem, at, bytes) \in [1..N -> Int] /\ Holds(Copy(mem, at, bytes), 0, at + m, f)
  BY <1>2, CopyHolds
<1> QED
  BY <1>1, <1>3 DEF Memory32

LEMMA SameRest ==
  ASSUME NEW c \in Nat, NEW a \in Nat, NEW b \in Nat,
         NEW x \in 0 .. c - 1, NEW y \in 0 .. c - 1, c * a + x = c * b + y
  PROVE  x = y
<1>1. ASSUME NEW u \in Nat, NEW v \in Nat, u < v PROVE c * u + c <= c * v
  <2>1. PICK d \in Nat : v = u + 1 + d
    <3>1. v - u - 1 \in Nat /\ v = u + 1 + (v - u - 1)
      BY <1>1
    <3> QED
      BY <3>1
  <2>2. c * v = c * u + c + c * d /\ c * d >= 0
    BY <2>1
  <2> QED
    BY <2>2
<1>2. ~ (a < b)
  BY <1>1
<1>3. ~ (b < a)
  BY <1>1
<1> QED
  BY <1>2, <1>3

\* The wrapped length of the whole is that of the parts, and a length below the
\* range does not wrap.
LEMMA Wrapped ==
  ASSUME NEW n \in Nat, NEW m \in Nat
  PROVE  /\ ((n % XXH32_LenRange) + m) % XXH32_LenRange = (n + m) % XXH32_LenRange
         /\ n < XXH32_LenRange => n % XXH32_LenRange = n
         /\ (n % XXH32_LenRange) % XXH32_LenRange = n % XXH32_LenRange
<1>1. PICK c \in Nat \ {0} : c = XXH32_LenRange
  BY XXH32_Assumption
<1>2. PICK q \in Nat, r \in 0 .. c - 1 : r = n % c /\ n = c * q + r
  <2>1. n \div c \in Nat /\ n % c \in 0 .. c - 1 /\ n = c * (n \div c) + (n % c)
    OBVIOUS
  <2> QED
    BY <2>1
<1>3. PICK p \in Nat, x \in 0 .. c - 1 : x = (r + m) % c /\ r + m = c * p + x
  <2>1. (r + m) \div c \in Nat /\ (r + m) % c \in 0 .. c - 1
        /\ r + m = c * ((r + m) \div c) + ((r + m) % c)
    OBVIOUS
  <2> QED
    BY <2>1
<1>4. PICK u \in Nat, y \in 0 .. c - 1 : y = (n + m) % c /\ n + m = c * u + y
  <2>1. (n + m) \div c \in Nat /\ (n + m) % c \in 0 .. c - 1
        /\ n + m = c * ((n + m) \div c) + ((n + m) % c)
    OBVIOUS
  <2> QED
    BY <2>1
<1>5. c * (q + p) + x = c * u + y
  <2>1. PICK cq \in Int, cp \in Int, cu \in Int : cq = c * q /\ cp = c * p /\ cu = c * u
    OBVIOUS
  <2>2. c * (q + p) = cq + cp
    BY <2>1
  <2>3. n = cq + r /\ r + m = cp + x /\ n + m = cu + y
    BY <1>2, <1>3, <1>4, <2>1
  <2>4. cq + cp + x = cu + y
    BY <2>3
  <2> QED
    BY <2>1, <2>2, <2>4
<1>6. x = y
  BY <1>5, SameRest
<1>7. ASSUME NEW k \in 0 .. c - 1 PROVE k % c = k
  <2>1. PICK d \in Nat, z \in 0 .. c - 1 : z = k % c /\ k = c * d + z
    <3>1. k \div c \in Nat /\ k % c \in 0 .. c - 1 /\ k = c * (k \div c) + (k % c)
      OBVIOUS
    <3> QED
      BY <3>1
  <2>2. c * d + z = c * 0 + k
    BY <2>1
  <2>3. z = k
    BY <2>2, SameRest
  <2> QED
    BY <2>1, <2>3
<1>8. r % c = r /\ (n < c => n % c = n)
  BY <1>7
<1> QED
  BY <1>1, <1>2, <1>3, <1>4, <1>6, <1>8

StreamOf32(s, seed, f, n) ==
  /\ s = [total_len_32 |-> n % XXH32_LenRange, large_len |-> n >= 16, acc |-> AccOf32(seed, f, n \div 16),
          buffer |-> s.buffer, bufferedSize |-> n % 16]
  /\ s.buffer \in Memory32
  /\ \E first \in Nat : first = f + 16 * (n \div 16) /\ Holds(s.buffer, 0, n % 16, first)

\* The flag says whether a block was ever reached, also once the length has
\* wrapped.
LEMMA LengthKept ==
  ASSUME NEW s, NEW seed, NEW f \in Nat, NEW n \in Nat, StreamOf32(s, seed, f, n),
         NEW m \in Nat, NEW total \in Nat, total = n + m
  PROVE  /\ Total32(s, m) = total % XXH32_LenRange
         /\ Large(s, m) = (total >= 16)
<1>1. s.total_len_32 = n % XXH32_LenRange /\ s.large_len = (n >= 16)
  BY DEF StreamOf32
<1>2. Total32(s, m) = total % XXH32_LenRange
  BY <1>1, Wrapped DEF Total32
<1>3. (n >= 16 \/ m >= 16 \/ total % XXH32_LenRange >= 16) <=> total >= 16
  <2>1. CASE n >= 16 \/ m >= 16
    BY <2>1
  <2>2. CASE n < 16 /\ m < 16
    <3>1. total < XXH32_LenRange
      BY <2>2, XXH32_Assumption
    <3>2. total % XXH32_LenRange = total
      BY <3>1, Wrapped
    <3> QED
      BY <2>2, <3>2
  <2> QED
    BY <2>1, <2>2
<1>4. Large(s, m) <=> total >= 16
  BY <1>1, <1>2, <1>3, Zenon DEF Large
<1>5. Large(s, m) \in BOOLEAN
  BY Zenon DEF Large
<1>6. (total >= 16) \in BOOLEAN
  OBVIOUS
<1> QED
  BY <1>2, <1>4, <1>5, <1>6

LEMMA ResetIsEmpty32 ==
  ASSUME NEW seed, NEW f \in Nat
  PROVE  StreamOf32(XXH32_reset(seed), seed, f, 0)
<1> DEFINE s == XXH32_reset(seed)
<1>1. s.buffer \in Memory32
  BY DEF XXH32_reset, Zeroed, Memory32
<1>2. Holds(s.buffer, 0, 0, f)
  BY DEF Holds
<1>3. 0 \div 16 = 0 /\ 0 % 16 = 0 /\ 0 % XXH32_LenRange = 0 /\ (0 >= 16) = FALSE
  BY XXH32_Assumption, Wrapped
<1>4. s = [total_len_32 |-> 0, large_len |-> FALSE, acc |-> AccOf32(seed, f, 0),
           buffer |-> s.buffer, bufferedSize |-> 0]
  BY InitAccsIsAccOf32 DEF XXH32_reset
<1> HIDE DEF s
<1>5. s = [total_len_32 |-> 0 % XXH32_LenRange, large_len |-> 0 >= 16,
           acc |-> AccOf32(seed, f, 0 \div 16), buffer |-> s.buffer, bufferedSize |-> 0 % 16]
  BY <1>3, <1>4, Zenon
<1>6. \E first \in Nat : first = f + 16 * (0 \div 16) /\ Holds(s.buffer, 0, 0 % 16, first)
  BY <1>2, <1>3
<1>7. StreamOf32(s, seed, f, 0)
  BY <1>1, <1>5, <1>6, Zenon DEF StreamOf32
<1> QED
  BY <1>7 DEF s

LEMMA BufferKeeps32 ==
  ASSUME NEW s, NEW seed, NEW f \in Nat, NEW n \in Nat, StreamOf32(s, seed, f, n),
         NEW m \in Nat, m < 16 - (n % 16),
         NEW g \in Nat, g = f + n, NEW total \in Nat, total = n + m
  PROVE  StreamOf32(Buffer32(s, Input(g, m)), seed, f, total)
<1> DEFINE piece == Input(g, m)
           t     == Buffer32(s, piece)
<1>1. PICK first \in Nat : first = f + 16 * (n \div 16) /\ Holds(s.buffer, 0, n % 16, first)
  BY DEF StreamOf32
<1>2. n % 16 \in Nat /\ n \div 16 \in Nat /\ g = first + (n % 16)
  BY <1>1
<1>3. /\ total \div 16 = n \div 16
      /\ total % 16 = (n % 16) + m
      /\ (n % 16) + m <= 16
  OBVIOUS
<1>4. piece \in [1..m -> Int] /\ Len(piece) = m /\ Holds(piece, 0, m, g)
  BY InputHolds
<1>5. s.acc = AccOf32(seed, f, n \div 16) /\ s.bufferedSize = n % 16
      /\ s.buffer \in Memory32
  BY DEF StreamOf32
<1> HIDE DEF piece
<1>6. /\ Copy(s.buffer, n % 16, piece) \in Memory32
      /\ Holds(Copy(s.buffer, n % 16, piece), 0, (n % 16) + m, first)
  BY <1>1, <1>2, <1>3, <1>4, <1>5, CopyHolds32
<1>7. t = [total_len_32 |-> total % XXH32_LenRange, large_len |-> total >= 16,
           acc |-> AccOf32(seed, f, n \div 16),
           buffer |-> Copy(s.buffer, n % 16, piece), bufferedSize |-> (n % 16) + m]
  BY <1>4, <1>5, LengthKept DEF Buffer32
<1> HIDE DEF t
<1>8. t.buffer = Copy(s.buffer, n % 16, piece)
  BY <1>7
<1>9. StreamOf32(t, seed, f, total)
  BY <1>1, <1>3, <1>6, <1>7, <1>8 DEF StreamOf32
<1> QED
  BY <1>9 DEF t, piece

\* A block begun in the buffer is completed: K blocks are mixed, and the rest of
\* the piece begins where they end.
Completed32(s, seed, f, n, m, g) ==
  /\ First32(s) \in Nat /\ First32(s) <= m
  /\ Filled32(s, Input(g, m)) \in Memory32
  /\ \E K \in Nat : /\ n + First32(s) = 16 * K
                   /\ Begun32(s, Input(g, m)) = AccOf32(seed, f, K)

LEMMA BlockCompleted32 ==
  ASSUME NEW s, NEW seed, NEW f \in Nat, NEW n \in Nat, StreamOf32(s, seed, f, n),
         NEW m \in Nat, ~ (m < 16 - (n % 16)), NEW g \in Nat, g = f + n
  PROVE  Completed32(s, seed, f, n, m, g)
<1> DEFINE piece  == Input(g, m)
           first  == First32(s)
           filled == Filled32(s, piece)
<1>1. PICK start \in Nat : start = f + 16 * (n \div 16) /\ Holds(s.buffer, 0, n % 16, start)
  BY DEF StreamOf32
<1>2. PICK r \in Nat : r = n % 16
  OBVIOUS
<1>3. s.acc = AccOf32(seed, f, n \div 16) /\ s.bufferedSize = r /\ s.buffer \in Memory32
  BY <1>2 DEF StreamOf32
<1>4. /\ first \in Nat /\ first <= m /\ r + first <= 16 /\ g = start + r
      /\ 0 + first <= m /\ g = g + 0
  BY <1>1, <1>2, <1>3 DEF First32
<1>5. Holds(piece, 0, m, g)
  BY InputHolds
<1>6. filled = Copy(s.buffer, r, Read(piece, 0, first))
  BY <1>3 DEF Filled32
<1> HIDE DEF piece, first, filled
<1>7. /\ Read(piece, 0, first) \in [1..first -> Int]
      /\ Holds(Read(piece, 0, first), 0, first, g)
  BY <1>4, <1>5, ReadHolds
<1>8. filled \in Memory32 /\ Holds(filled, 0, r + first, start)
  BY <1>1, <1>2, <1>3, <1>4, <1>6, <1>7, CopyHolds32
<1>9. CASE r = 0
  <2>1. first = 0 /\ Begun32(s, piece) = AccOf32(seed, f, n \div 16)
    BY <1>3, <1>9 DEF Begun32, First32, first
  <2>2. n + first = 16 * (n \div 16) /\ n \div 16 \in Nat
    BY <1>2, <1>9, <2>1
  <2> QED
    BY <1>4, <1>8, <2>1, <2>2 DEF first, filled, piece, Completed32
<1>10. CASE r > 0
  <2>1. PICK q \in Nat : q = n \div 16
    OBVIOUS
  <2>2. PICK K \in Nat : K = q + (16 \div 16)
    BY <2>1
  <2>3. first = 16 - r
    BY <1>3, <1>10 DEF First32, first
  <2>4. r + first = 16 /\ n + first = 16 * K
    BY <1>2, <2>1, <2>2, <2>3
  <2>5. Begun32(s, piece) = XXH32_consumeLong(AccOf32(seed, f, q), filled, 0, 16)
    BY <1>3, <1>10, <2>1 DEF Begun32, filled
  <2>6. Holds(filled, 0, 16, start) /\ start = f + 16 * q
    BY <1>1, <1>8, <2>1, <2>4
  <2>7. Begun32(s, piece) = AccOf32(seed, f, K)
    BY <2>2, <2>5, <2>6, ConsumeMixes32
  <2> QED
    BY <1>4, <1>8, <2>4, <2>7 DEF first, filled, piece, Completed32
<1> QED
  BY <1>2, <1>9, <1>10

LEMMA ConsumeKeeps32 ==
  ASSUME NEW s, NEW seed, NEW f \in Nat, NEW n \in Nat, StreamOf32(s, seed, f, n),
         NEW m \in Nat, ~ (m < 16 - (n % 16)),
         NEW g \in Nat, g = f + n, NEW total \in Nat, total = n + m
  PROVE  StreamOf32(Consume32(s, Input(g, m)), seed, f, total)
<1> DEFINE piece  == Input(g, m)
           t      == Consume32(s, piece)
           first  == First32(s)
           filled == Filled32(s, piece)
           begun  == Begun32(s, piece)
           whole  == Whole32(s, piece)
           left   == Left32(s, piece)
           acc    == XXH32_consumeLong(begun, piece, first, whole)
           rest   == Read(piece, first + whole, left)
           buffer == Copy(filled, 0, rest)
<1>1. /\ piece \in [1..m -> Int] /\ Len(piece) = m /\ Holds(piece, 0, m, g)
  BY InputHolds
<1>2. /\ Total32(s, m) = total % XXH32_LenRange
      /\ Large(s, m) = (total >= 16)
  BY LengthKept
<1>3. /\ first \in Nat /\ first <= m /\ filled \in Memory32
      /\ \E K \in Nat : n + first = 16 * K /\ begun = AccOf32(seed, f, K)
  <2>1. Completed32(s, seed, f, n, m, g)
    BY BlockCompleted32
  <2> QED
    BY <2>1 DEF Completed32
<1> HIDE DEF piece, first, filled, begun
<1>4. whole = 16 * ((m - first) \div 16) /\ left = m - first - whole
  BY <1>1 DEF Whole32, Left32, first
<1> HIDE DEF whole, left
<1>5. t = [total_len_32 |-> total % XXH32_LenRange, large_len |-> total >= 16,
           acc |-> acc, buffer |-> buffer, bufferedSize |-> left]
  BY <1>1, <1>2 DEF Consume32, first, filled, begun, whole, left
<1>6. PICK K \in Nat : n + first = 16 * K /\ begun = AccOf32(seed, f, K)
  BY <1>3
<1>7. whole \in Nat /\ left \in Nat /\ left < 16 /\ first + whole \in Nat
      /\ first + whole + left = m /\ first + whole <= m
  BY <1>3, <1>4
<1>8. PICK N \in Nat : N = K + (whole \div 16)
  BY <1>7
<1>9. total = 16 * N + left /\ N = total \div 16 /\ left = total % 16
  <2>1. whole \div 16 = (m - first) \div 16
    BY <1>3, <1>4
  <2>2. total = 16 * N + left
    BY <1>3, <1>4, <1>6, <1>8, <2>1
  <2> QED
    BY <1>7, <2>2
<1>10. PICK next \in Nat : next = f + 16 * K
  BY <1>6
<1>11. PICK after \in Nat : after = f + 16 * N
  BY <1>8
<1>12. next = g + first
  BY <1>3, <1>6, <1>10
<1>13. after = g + (first + whole)
  BY <1>3, <1>7, <1>9, <1>11
<1>14. acc = AccOf32(seed, f, N)
  <2>1. Holds(piece, first, whole, next)
    BY <1>1, <1>3, <1>7, <1>12, HoldsOn
  <2> QED
    BY <1>3, <1>6, <1>7, <1>8, <1>10, <2>1, ConsumeMixes32
<1>15. rest \in [1..left -> Int] /\ Holds(rest, 0, left, after)
  <2>1. PICK at \in Nat : at = first + whole
    BY <1>7
  <2>2. Read(piece, at, left) \in [1..left -> Int] /\ Holds(Read(piece, at, left), 0, left, after)
    BY <1>1, <1>7, <1>13, <2>1, ReadHolds
  <2> QED
    BY <2>1, <2>2
<1> HIDE DEF rest
<1>16. buffer \in Memory32 /\ Holds(buffer, 0, left, after)
  <2>1. Holds(filled, 0, 0, after)
    BY DEF Holds
  <2>2. after = after + 0 /\ 0 + left <= 16 /\ 0 + left = left
    BY <1>7, <1>11
  <2>3. Copy(filled, 0, rest) \in Memory32 /\ Holds(Copy(filled, 0, rest), 0, 0 + left, after)
    BY <1>3, <1>7, <1>11, <1>15, <2>1, <2>2, CopyHolds32
  <2> QED
    BY <2>2, <2>3
<1> HIDE DEF acc, buffer, t
<1>17. StreamOf32(t, seed, f, total)
  <2>1. t.buffer = buffer
    BY <1>5
  <2> QED
    BY <1>5, <1>9, <1>11, <1>14, <1>16, <2>1 DEF StreamOf32
<1> QED
  BY <1>17 DEF t, piece

LEMMA UpdateKeeps32 ==
  ASSUME NEW s, NEW seed, NEW f \in Nat, NEW n \in Nat, StreamOf32(s, seed, f, n),
         NEW m \in Nat, NEW g \in Nat, g = f + n, NEW total \in Nat, total = n + m
  PROVE  StreamOf32(XXH32_update(s, Input(g, m)), seed, f, total)
<1>1. Len(Input(g, m)) = m /\ s.bufferedSize = n % 16
  BY InputHolds DEF StreamOf32
<1>2. CASE m < 16 - (n % 16)
  <2>1. XXH32_update(s, Input(g, m)) = Buffer32(s, Input(g, m))
    BY <1>1, <1>2 DEF XXH32_update
  <2>2. StreamOf32(Buffer32(s, Input(g, m)), seed, f, total)
    BY <1>2, BufferKeeps32
  <2> QED
    BY <2>1, <2>2, Zenon
<1>3. CASE ~ (m < 16 - (n % 16))
  <2>1. XXH32_update(s, Input(g, m)) = Consume32(s, Input(g, m))
    BY <1>1, <1>3 DEF XXH32_update
  <2>2. StreamOf32(Consume32(s, Input(g, m)), seed, f, total)
    BY <1>3, ConsumeKeeps32
  <2> QED
    BY <2>1, <2>2, Zenon
<1> QED
  BY <1>2, <1>3

------------------------------------------------------------------------------
(* The digest.                                                                *)

\* The tail is read alike wherever its bytes are.
LEMMA TailsAgree32 ==
  ASSUME NEW m1, NEW a1 \in Nat, NEW m2, NEW a2 \in Nat, NEW len \in Nat, NEW first,
         Holds(m1, a1, len % 16, first), Holds(m2, a2, len % 16, first)
  PROVE  XXH32_finalize(m1, a1, len) = XXH32_finalize(m2, a2, len)
<1>1. PICK rest \in Nat : rest = len % 16 /\ Holds(m1, a1, rest, first) /\ Holds(m2, a2, rest, first)
  OBVIOUS
<1>2. ASSUME NEW i \in 1..(rest \div 4)
      PROVE  Read(m1, a1 + 4 * (i - 1), 4) = Read(m2, a2 + 4 * (i - 1), 4)
  <2>1. PICK from \in Nat, p1 \in Nat, p2 \in Nat :
          from = 4 * (i - 1) /\ p1 = a1 + from /\ p2 = a2 + from
    OBVIOUS
  <2>2. from + 4 <= rest
    BY <2>1
  <2>3. p1 = a1 + from /\ p2 = a2 + from
    BY <2>1
  <2>4. Read(m1, p1, 4) = Read(m2, p2, 4)
    <3>1. ASSUME NEW k \in 1..4 PROVE m1[p1 + k] = m2[p2 + k]
      <4>1. PICK j \in 1..rest : j = from + k
        BY <2>2
      <4>2. p1 + k = a1 + j /\ p2 + k = a2 + j
        BY <2>3, <4>1
      <4> QED
        BY <1>1, <4>2 DEF Holds
    <3> QED
      BY <3>1 DEF Read
  <2> QED
    BY <2>1, <2>4
<1>3. ASSUME NEW i \in 1..(rest % 4)
      PROVE  Read(m1, a1 + 4 * (rest \div 4) + i - 1, 1)
               = Read(m2, a2 + 4 * (rest \div 4) + i - 1, 1)
  <2>1. PICK from \in Nat, p1 \in Nat, p2 \in Nat :
          from = 4 * (rest \div 4) + i - 1 /\ p1 = a1 + from /\ p2 = a2 + from
    OBVIOUS
  <2>2. from + 1 <= rest
    BY <2>1
  <2>3. p1 = a1 + from /\ p2 = a2 + from
    BY <2>1
  <2>4. Read(m1, p1, 1) = Read(m2, p2, 1)
    <3>1. ASSUME NEW k \in 1..1 PROVE m1[p1 + k] = m2[p2 + k]
      <4>1. PICK j \in 1..rest : j = from + k
        BY <2>2
      <4>2. p1 + k = a1 + j /\ p2 + k = a2 + j
        BY <2>3, <4>1
      <4> QED
        BY <1>1, <4>2 DEF Holds
    <3> QED
      BY <3>1 DEF Read
  <2>5. p1 = a1 + 4 * (rest \div 4) + i - 1 /\ p2 = a2 + 4 * (rest \div 4) + i - 1
    BY <2>1
  <2> QED
    BY <2>4, <2>5
<1> DEFINE fours(mem, at) == [i \in 1..(rest \div 4) |-> Read(mem, at + 4 * (i - 1), 4)]
           ones(mem, at)  == [i \in 1..(rest % 4) |-> Read(mem, at + 4 * (rest \div 4) + i - 1, 1)]
<1>4. fours(m1, a1) = fours(m2, a2)
  BY <1>2
<1>5. ones(m1, a1) = ones(m2, a2)
  BY <1>3
<1>6. /\ XXH32_finalize(m1, a1, len) = fours(m1, a1) \o ones(m1, a1)
      /\ XXH32_finalize(m2, a2, len) = fours(m2, a2) \o ones(m2, a2)
  BY <1>1 DEF XXH32_finalize
<1> HIDE DEF fours, ones
<1> QED
  BY <1>4, <1>5, <1>6

LEMMA DigestIsOneShot32 ==
  ASSUME NEW s, NEW seed, NEW f \in Nat, NEW n \in Nat, StreamOf32(s, seed, f, n)
  PROVE  XXH32_digest(s) = XXH32_oneshot(Input(f, n), seed)
<1> DEFINE input == Input(f, n)
           done  == IF n >= 16 THEN 16 * (n \div 16) ELSE 0
           acc   == XXH32_consumeLong(XXH32_initAccs(seed), input, 0, n)
           plain == [seed |-> seed, plus |-> "0", words |-> <<>>]
<1>1. Len(input) = n /\ Holds(input, 0, n, f)
  BY InputHolds
<1>2. PICK first \in Nat : first = f + 16 * (n \div 16) /\ Holds(s.buffer, 0, n % 16, first)
  BY DEF StreamOf32
<1>3. /\ s.total_len_32 = n % XXH32_LenRange /\ s.large_len = (n >= 16)
      /\ s.acc = AccOf32(seed, f, n \div 16) /\ s.bufferedSize = n % 16
  BY DEF StreamOf32
<1>4. done \in Nat /\ done = 16 * (n \div 16) /\ first = f + done /\ done + (n % 16) <= n
  BY <1>2
<1> HIDE DEF input, done
<1>5. XXH32_finalize(s.buffer, 0, n % 16) = XXH32_finalize(input, done, n % 16)
  <2>1. PICK rest \in Nat : rest = n % 16 /\ rest % 16 = rest
    OBVIOUS
  <2>2. Holds(input, done, rest, first)
    BY <1>1, <1>2, <1>4, <2>1, HoldsOn
  <2>3. Holds(s.buffer, 0, rest % 16, first) /\ Holds(input, done, rest % 16, first)
    BY <1>2, <2>1, <2>2
  <2>4. XXH32_finalize(s.buffer, 0, rest) = XXH32_finalize(input, done, rest)
    BY <1>4, <2>3, TailsAgree32
  <2> QED
    BY <2>1, <2>4
<1>6. acc = s.acc
  <2>1. XXH32_initAccs(seed) = AccOf32(seed, f, 0)
    BY InitAccsIsAccOf32
  <2>2. PICK q \in Nat : q = 0 + (n \div 16) /\ q = n \div 16
    OBVIOUS
  <2>3. f = f + 16 * 0
    OBVIOUS
  <2>4. XXH32_consumeLong(AccOf32(seed, f, 0), input, 0, n) = AccOf32(seed, f, q)
    BY <1>1, <2>2, <2>3, ConsumeMixes32
  <2> QED
    BY <1>3, <2>1, <2>2, <2>4
<1> HIDE DEF acc
<1>7. n < 16 => s.acc[2] = plain
  <2>1. SUFFICES ASSUME n < 16 PROVE AccOf32(seed, f, 0)[2] = plain
    <3>1. n < 16 => n \div 16 = 0
      OBVIOUS
    <3> QED
      BY <1>3, <2>1, <3>1
  <2>2. AccOf32(seed, f, 0)[2] = XXH32_initAccs(seed)[2]
    BY InitAccsIsAccOf32
  <2> QED
    BY <2>2 DEF XXH32_initAccs, Lane32, Offset32
<1> DEFINE start == IF n >= 16 THEN XXH32_mergeAccs(s.acc) ELSE Short32(plain)
<1>8. (n % XXH32_LenRange) % XXH32_LenRange = n % XXH32_LenRange
  BY Wrapped
<1>9. XXH32_digest(s) = Hash32(start, n, XXH32_finalize(s.buffer, 0, n % 16))
  <2>1. (IF s.large_len THEN XXH32_mergeAccs(s.acc) ELSE Short32(s.acc[2])) = start
    <3>1. CASE n >= 16
      BY <1>3, <3>1, Zenon
    <3>2. CASE ~ (n >= 16)
      <4>1. s.acc[2] = plain
        BY <1>7, <3>2
      <4> QED
        BY <1>3, <3>2, <4>1, Zenon
    <3> QED
      BY <3>1, <3>2
  <2> HIDE DEF start
  <2>2. XXH32_digest(s) = Hash32(start, s.total_len_32, XXH32_finalize(s.buffer, 0, n % 16))
    BY <1>3, <2>1, Zenon DEF XXH32_digest
  <2> QED
    BY <1>3, <1>8, <2>2, Zenon DEF Hash32
<1>10. XXH32_oneshot(input, seed) = Hash32(start, n, XXH32_finalize(input, done, n % 16))
  BY <1>1, <1>6 DEF XXH32_oneshot, acc, done
<1> QED
  BY <1>5, <1>9, <1>10 DEF input

------------------------------------------------------------------------------
(* The specification.                                                          *)

StreamInv32 ==
  /\ from32 \in Nat /\ given32 \in Nat /\ from32 + given32 <= XXH32_MaxLen
  /\ StreamOf32(s32, seed32, from32, given32)

LEMMA InitStream32 == XXH32_Init => StreamInv32
<1> SUFFICES ASSUME XXH32_Init PROVE StreamInv32
  OBVIOUS
<1>1. s32 = XXH32_reset(0) /\ seed32 = 0 /\ from32 = 0 /\ given32 = 0
  BY DEF XXH32_Init
<1>2. StreamOf32(XXH32_reset(0), 0, 0, 0)
  BY ResetIsEmpty32
<1> QED
  BY <1>1, <1>2, XXH32_Assumption DEF StreamInv32

LEMMA NextStream32 == StreamInv32 /\ [XXH32_Next]_xxh32vars => StreamInv32'
<1> SUFFICES ASSUME StreamInv32, [XXH32_Next]_xxh32vars PROVE StreamInv32'
  OBVIOUS
<1> USE XXH32_Assumption DEF StreamInv32
<1>1. CASE Reset32
  <2>1. PICK seed \in Seeds : /\ from32 + given32 < XXH32_MaxLen
                            /\ s32' = XXH32_reset(seed) /\ seed32' = seed
                            /\ from32' = from32 + given32 /\ given32' = 0
    BY <1>1 DEF Reset32
  <2>2. StreamOf32(XXH32_reset(seed), seed, from32', 0)
    BY <2>1, ResetIsEmpty32
  <2> QED
    BY <2>1, <2>2
<1>2. CASE Update32
  <2>1. PICK m \in XXH32_Pieces(given32) :
          /\ from32 + given32 + m <= XXH32_MaxLen
          /\ s32' = XXH32_update(s32, Input(from32 + given32, m))
          /\ given32' = given32 + m
          /\ seed32' = seed32 /\ from32' = from32
    BY <1>2 DEF Update32
  <2>2. m \in Nat
    BY <2>1
  <2>3. PICK g \in Nat : g = from32 + given32
    OBVIOUS
  <2>4. given32' \in Nat
    BY <2>1, <2>2
  <2>5. StreamOf32(XXH32_update(s32, Input(g, m)), seed32, from32, given32')
    BY <2>1, <2>2, <2>3, <2>4, UpdateKeeps32
  <2> QED
    BY <2>1, <2>2, <2>3, <2>4, <2>5
<1>3. CASE UNCHANGED xxh32vars
  BY <1>3 DEF xxh32vars, StreamOf32
<1> QED
  BY <1>1, <1>2, <1>3 DEF XXH32_Next

(* Whatever the pieces, their number and the length of the input, the digest   *)
(* of XXH32's streaming interface is the hash of one call.                     *)
THEOREM StreamIsOneShot32 == XXH32_Spec => []XXH32_StreamIsOneShot
<1>1. StreamInv32 => XXH32_StreamIsOneShot
  BY DigestIsOneShot32 DEF StreamInv32, XXH32_StreamIsOneShot
<1> QED
  BY <1>1, InitStream32, NextStream32, PTL DEF XXH32_Spec

------------------------------------------------------------------------------
(* XXH3: the accumulator after k stripes of 64 bytes of an input that begins   *)
(* after position f, each block of P stripes closed by a scramble.             *)

StripeOp(data, secret, at) == Op("accumulate", data, secret, at, StripeLen)
StripeFrom(mem, p, secret, w) == StripeOp(Read(mem, p, 64), secret, w)
ScrambleOp(secret, at)     == Op("scramble", <<>>, secret, at, StripeLen)

\* The operations on stripes whose bytes are in X.
Ops(X, secret) == {StripeOp(data, secret, at) : data \in [1..64 -> X], at \in Nat}
                  \cup {ScrambleOp(secret, at) : at \in Nat}

\* One more operation.
Then(acc, op) == Append(acc, op)

\* The k-th stripe mixed in.
WithStripe(acc, f, secret, limit, P, k) ==
  LET mixed == Then(acc, StripeOp(Input(f + 64 * (k - 1), 64), secret, 8 * ((k - 1) % P)))
  IN  IF k % P = 0 THEN XXH3_scrambleAcc(mixed, secret, limit) ELSE mixed

MixedBy(g, f, secret, limit, P) ==
  g = [k \in Nat |-> IF k = 0 THEN <<>> ELSE WithStripe(g[k - 1], f, secret, limit, P, k)]

Mixed(f, secret, limit, P) == CHOOSE g : MixedBy(g, f, secret, limit, P)

Stepwise(g, v, step) == g = [n \in Nat |-> IF n = 0 THEN v ELSE step[<<g[n - 1], n>>]]

\* A function with values in V, each computed from the one before.
LEMMA StepwiseExists ==
  ASSUME NEW V, NEW v \in V, NEW step \in [V \X Nat -> V]
  PROVE  \E g \in [Nat -> V] : Stepwise(g, v, step)
<1>1. PICK g \in [Nat -> V] : AllSteps(g, v, step)
  BY NatRecursion, Zenon
<1>2. Stepwise(g, v, step)
  BY <1>1 DEF AllSteps, Stepwise
<1> QED
  BY <1>2

\* Quotient and remainder.
LEMMA DivIs ==
  ASSUME NEW P \in Nat, P > 0, NEW q \in Nat, NEW r \in Nat, r < P, NEW n, n = P * q + r
  PROVE  n \div P = q /\ n % P = r
<1>1. PICK d \in Nat, m \in Nat : /\ d = n \div P /\ m = n % P
                                  /\ m < P /\ n = P * d + m
  OBVIOUS
<1>2. d = q
  <2>1. PICK a \in Int : a = P * d
    OBVIOUS
  <2>2. PICK b \in Int : b = P * q
    OBVIOUS
  <2>3. ASSUME d < q PROVE FALSE
    <3>1. P * (d + 1) <= P * q
      BY <2>3
    <3>2. P * (d + 1) = a + P
      BY <2>1
    <3> QED
      BY <1>1, <2>1, <2>2, <3>1, <3>2
  <2>4. ASSUME q < d PROVE FALSE
    <3>1. P * (q + 1) <= P * d
      BY <2>4
    <3>2. P * (q + 1) = b + P
      BY <2>2
    <3> QED
      BY <1>1, <2>1, <2>2, <3>1, <3>2
  <2> QED
    BY <2>3, <2>4
<1> QED
  BY <1>1, <1>2

\* Named, so that the provers find the numbers a lemma speaks of.
SumIs(n, k, m) == n = k + m
Residue(r, k, P) == P > 0 /\ r = k % P

\* Stripes counted on from the r-th of a block.
LEMMA StripesOn ==
  ASSUME NEW P \in Nat, NEW k \in Nat, NEW r \in Nat, NEW m \in Nat, NEW n \in Nat,
         Residue(r, k, P), SumIs(n, k, m), r + m <= P
  PROVE  /\ r + m = P => Residue(0, n, P)
         /\ r + m < P => Residue(r + m, n, P)
<1>p. P > 0
  BY DEF Residue
<1>0. r = k % P /\ n = k + m
  BY DEF Residue, SumIs
<1>1. k \div P \in Nat /\ k % P \in 0 .. P - 1 /\ k = P * (k \div P) + (k % P)
  BY <1>p
<1>2. PICK q \in Nat : q = k \div P
  BY <1>1
<1>3. r < P /\ k = P * q + r /\ n = k + m
  BY <1>0, <1>1, <1>2
<1>4. CASE r + m < P
  <2>1. PICK t \in Nat : t = r + m /\ t < P
    BY <1>4
  <2>2. n = P * q + t
    BY <1>3, <2>1
  <2>3. n % P = t
    BY <1>p, <2>1, <2>2, DivIs
  <2> QED
    BY <1>p, <1>4, <2>1, <2>3 DEF Residue
<1>5. CASE r + m = P
  <2>1. PICK t \in Nat : t = q + 1
    OBVIOUS
  <2>2. n = P * t + 0
    BY <1>3, <1>5, <2>1
  <2>3. n % P = 0
    BY <1>p, <2>2, DivIs
  <2> QED
    BY <1>p, <1>5, <2>3 DEF Residue
<1> QED
  BY <1>4, <1>5

LEMMA OpsHave ==
  ASSUME NEW X, NEW secret, NEW at \in Nat
  PROVE  /\ ScrambleOp(secret, at) \in Ops(X, secret)
         /\ \A data \in [1..64 -> X] : StripeOp(data, secret, at) \in Ops(X, secret)
BY DEF Ops

LEMMA ScrambleSeq ==
  ASSUME NEW X, NEW secret, NEW acc \in Seq(Ops(X, secret)), NEW at \in Nat
  PROVE  XXH3_scrambleAcc(acc, secret, at) \in Seq(Ops(X, secret))
<1>1. ScrambleOp(secret, at) \in Ops(X, secret)
  BY OpsHave
<1>2. XXH3_scrambleAcc(acc, secret, at) = Append(acc, ScrambleOp(secret, at))
  BY DEF XXH3_scrambleAcc, ScrambleOp
<1> QED
  BY <1>1, <1>2, AppendProperties

LEMMA WithStripeSeq ==
  ASSUME NEW f \in Nat, NEW secret, NEW limit \in Nat, NEW P \in Nat, P > 0,
         NEW k \in Nat, k > 0, NEW acc \in Seq(Ops(Int, secret))
  PROVE  WithStripe(acc, f, secret, limit, P, k) \in Seq(Ops(Int, secret))
<1> DEFINE op == StripeOp(Input(f + 64 * (k - 1), 64), secret, 8 * ((k - 1) % P))
<1>1. 8 * ((k - 1) % P) \in Nat
  <2>1. (k - 1) % P \in Nat
    OBVIOUS
  <2> QED
    BY <2>1
<1>2. Input(f + 64 * (k - 1), 64) \in [1..64 -> Int]
  BY DEF Input
<1>3. op \in Ops(Int, secret)
  BY <1>1, <1>2, OpsHave
<1>4. WithStripe(acc, f, secret, limit, P, k)
        = IF k % P = 0 THEN XXH3_scrambleAcc(Then(acc, op), secret, limit)
          ELSE Then(acc, op)
  BY DEF WithStripe
<1> HIDE DEF op
<1>5. Then(acc, op) \in Seq(Ops(Int, secret))
  BY <1>3, AppendProperties DEF Then
<1>6. XXH3_scrambleAcc(Then(acc, op), secret, limit) \in Seq(Ops(Int, secret))
  BY <1>5, ScrambleSeq
<1> QED
  BY <1>4, <1>5, <1>6

MixedRun(M, f, secret, limit, P) ==
  /\ M[0] = <<>>
  /\ \A k \in Nat : M[k + 1] = WithStripe(M[k], f, secret, limit, P, k + 1)

LEMMA MixedIs ==
  ASSUME NEW f \in Nat, NEW secret, NEW limit \in Nat, NEW P \in Nat, P > 0
  PROVE  /\ Mixed(f, secret, limit, P) \in [Nat -> Seq(Ops(Int, secret))]
         /\ MixedRun(Mixed(f, secret, limit, P), f, secret, limit, P)
<1> DEFINE V    == Seq(Ops(Int, secret))
           next(a, k) == WithStripe(a, f, secret, limit, P, k)
           step == [x \in V \X Nat |-> IF x[2] = 0 THEN <<>> ELSE next(x[1], x[2])]
           M    == Mixed(f, secret, limit, P)
<1>1. ASSUME NEW a \in V, NEW k \in Nat, k > 0 PROVE next(a, k) \in V
  BY <1>1, WithStripeSeq
<1> HIDE DEF next
<1>2. \A a \in V, k \in Nat : k > 0 => next(a, k) \in V
  BY <1>1
<1>3. << >> \in V
  OBVIOUS
<1> HIDE DEF V
<1>4. step \in [V \X Nat -> V]
  BY <1>2, <1>3
<1>5. ASSUME NEW a \in V, NEW k \in Nat, k > 0 PROVE step[<<a, k>>] = next(a, k)
  <2>1. <<a, k>> \in V \X Nat /\ <<a, k>>[1] = a /\ <<a, k>>[2] = k /\ k # 0
    BY <1>5
  <2> QED
    BY <2>1, Zenon
<1> HIDE DEF step
<1>6. PICK g \in [Nat -> V] : Stepwise(g, <<>>, step)
  BY <1>3, <1>4, StepwiseExists, Zenon
<1>7. ASSUME NEW n \in Nat
      PROVE  (IF n = 0 THEN <<>> ELSE step[<<g[n - 1], n>>])
               = (IF n = 0 THEN <<>> ELSE next(g[n - 1], n))
  <2>1. n # 0 => n - 1 \in Nat /\ n > 0
    OBVIOUS
  <2>2. n # 0 => g[n - 1] \in V
    BY <2>1
  <2> QED
    BY <1>5, <2>1, <2>2
<1>8. g = [n \in Nat |-> IF n = 0 THEN <<>> ELSE next(g[n - 1], n)]
  BY <1>6, <1>7 DEF Stepwise
<1>9. MixedBy(g, f, secret, limit, P)
  BY <1>8 DEF MixedBy, next
<1>10. MixedBy(M, f, secret, limit, P)
  BY <1>9, Zenon DEF Mixed
<1> HIDE DEF M
<1>11. M = [n \in Nat |-> IF n = 0 THEN <<>> ELSE next(M[n - 1], n)]
  BY <1>10 DEF MixedBy, next
<1>12. DOMAIN M = Nat /\ \A n \in Nat : M[n] = IF n = 0 THEN <<>> ELSE next(M[n - 1], n)
  BY <1>11, Zenon
<1>13. M[0] = <<>>
  BY <1>12
<1>14. ASSUME NEW k \in Nat PROVE M[k + 1] = next(M[k], k + 1)
  <2>1. k + 1 \in Nat /\ k + 1 # 0 /\ (k + 1) - 1 = k
    OBVIOUS
  <2> QED
    BY <1>12, <2>1, Zenon
<1>15. \A n \in Nat : M[n] \in V
  <2> DEFINE S == {n \in Nat : M[n] \in V}
  <2>1. 0 \in S
    BY <1>3, <1>13
  <2>2. ASSUME NEW n \in S PROVE n + 1 \in S
    <3>1. M[n] \in V /\ n + 1 \in Nat /\ n + 1 > 0
      OBVIOUS
    <3> QED
      BY <1>2, <1>14, <3>1
  <2>3. S = Nat
    <3> HIDE DEF S
    <3>1. S \in SUBSET Nat
      BY DEF S
    <3> QED
      BY <2>1, <2>2, <3>1, NatSetInduction
  <2> QED
    BY <2>3
<1>16. M \in [Nat -> V]
  BY <1>11, <1>12, <1>15
<1> QED
  BY <1>13, <1>14, <1>16 DEF M, V, next, MixedRun

\* The m stripes of memory from mem + i on, as operations.
Stripes(mem, i, secret, at, m) ==
  [n \in 1..m |-> StripeFrom(mem, i + 64 * (n - 1), secret, at + 8 * (n - 1))]

LEMMA AccumulateIs ==
  ASSUME NEW acc, NEW mem, NEW i, NEW secret, NEW at, NEW m
  PROVE  XXH3_accumulate(acc, mem, i, secret, at, m) = acc \o Stripes(mem, i, secret, at, m)
BY DEF XXH3_accumulate, Stripes, StripeFrom, StripeOp, StripeLen, ConsumeRate

\* len bytes at mem + i are in X.
BytesIn(X, mem, i, len) == \A j \in 1..len : mem[i + j] \in X

LEMMA StripesSeq ==
  ASSUME NEW X, NEW secret, NEW mem, NEW i \in Nat, NEW at \in Nat,
         NEW len \in Nat, BytesIn(X, mem, i, len), NEW m \in Nat, 64 * m <= len
  PROVE  Stripes(mem, i, secret, at, m) \in [1..m -> Ops(X, secret)]
<1>1. ASSUME NEW n \in 1..m
      PROVE  StripeFrom(mem, i + 64 * (n - 1), secret, at + 8 * (n - 1)) \in Ops(X, secret)
  <2>1. ASSUME NEW b \in 1..64 PROVE mem[i + 64 * (n - 1) + b] \in X
    <3>1. 64 * (n - 1) + b \in 1..len
      OBVIOUS
    <3>2. i + (64 * (n - 1) + b) = i + 64 * (n - 1) + b
      OBVIOUS
    <3> QED
      BY <3>1, <3>2 DEF BytesIn
  <2>2. Read(mem, i + 64 * (n - 1), 64) \in [1..64 -> X]
    BY <2>1 DEF Read
  <2>3. at + 8 * (n - 1) \in Nat
    OBVIOUS
  <2> QED
    BY <2>2, <2>3, OpsHave DEF StripeFrom
<1> QED
  BY <1>1 DEF Stripes

\* The stripe after m of them: read at p, mixed with the secret from w on.
StripeAfter(m, i, at, len, n, p, w) ==
  n = m + 1 /\ 64 * n <= len /\ p = i + 64 * m /\ w = at + 8 * m

Joins(d, b, c) == d = b \o c

LEMMA Reassociate ==
  ASSUME NEW S, NEW a \in Seq(S), NEW b \in Seq(S), NEW c \in Seq(S), NEW d, NEW e, NEW f,
         Joins(d, b, c), Joins(e, a, d), Joins(f, a, b)
  PROVE  Joins(e, f, c)
<1>1. (a \o b) \o c = a \o (b \o c)
  BY ConcatAssociative
<1> QED
  BY <1>1, Zenon DEF Joins

\* One more stripe.
LEMMA AccumulateNext ==
  ASSUME NEW X, NEW secret, NEW acc \in Seq(Ops(X, secret)), NEW mem, NEW i \in Nat,
         NEW at \in Nat, NEW len \in Nat, BytesIn(X, mem, i, len),
         NEW m \in Nat, NEW n \in Nat, NEW p \in Nat, NEW w \in Nat,
         StripeAfter(m, i, at, len, n, p, w)
  PROVE  XXH3_accumulate(acc, mem, i, secret, at, n)
           = Then(XXH3_accumulate(acc, mem, i, secret, at, m),
                  StripeFrom(mem, p, secret, w))
<1> DEFINE S   == Ops(X, secret)
           s   == Stripes(mem, i, secret, at, m)
           t   == Stripes(mem, i, secret, at, n)
           op  == StripeFrom(mem, p, secret, w)
<1>1. 64 * m <= len /\ 64 * n <= len /\ n = m + 1 /\ p = i + 64 * m /\ w = at + 8 * m
  BY DEF StripeAfter
<1>2. s \in Seq(S) /\ Len(s) = m
  <2>1. s \in [1..m -> S]
    BY <1>1, StripesSeq
  <2> HIDE DEF s, S
  <2> QED
    BY <1>1, <2>1, SeqOfFunction
<1>3. t \in Seq(S) /\ Len(t) = n
  <2>1. t \in [1..n -> S]
    BY <1>1, StripesSeq
  <2> HIDE DEF t, S
  <2> QED
    BY <1>1, <2>1, SeqOfFunction
<1>4. \A k \in 1..m : t[k] = s[k]
  BY <1>1 DEF Stripes
<1>5. t[m + 1] = op
  <2>1. m + 1 \in 1..n /\ (m + 1) - 1 = m
    BY <1>1
  <2> QED
    BY <1>1, <2>1 DEF Stripes
<1> HIDE DEF s, t, op
<1>6. op \in S
  <2>1. m + 1 \in 1..Len(t)
    BY <1>1, <1>3
  <2> QED
    BY <1>3, <1>5, <2>1, ElementOfSeq
<1> HIDE DEF S
<1>7. <<op>> \in Seq(S) /\ Len(<<op>>) = 1 /\ <<op>>[1] = op
  BY <1>6
<1>8. s \o <<op>> = t
  <2>1. /\ Len(t) = Len(s) + Len(<<op>>)
        /\ \A k \in 1..Len(s) : t[k] = s[k]
        /\ \A k \in 1..Len(<<op>>) : t[Len(s) + k] = <<op>>[k]
    BY <1>1, <1>2, <1>3, <1>4, <1>5, <1>7
  <2> QED
    BY <1>2, <1>3, <1>7, <2>1, ConcatIs
<1>9. acc \o t = (acc \o s) \o <<op>>
  <2>1. acc \in Seq(S)
    BY DEF S
  <2>2. PICK u, e, f : u = <<op>> /\ e = acc \o t /\ f = acc \o s
    OBVIOUS
  <2>3. u \in Seq(S) /\ Joins(t, s, u) /\ Joins(e, acc, t) /\ Joins(f, acc, s)
    BY <1>7, <1>8, <2>2, Zenon DEF Joins
  <2>4. Joins(e, f, u)
    BY <1>2, <2>1, <2>3, Reassociate
  <2> QED
    BY <2>2, <2>4, Zenon DEF Joins
<1>10. (acc \o s) \o <<op>> = Then(acc \o s, op)
  <2>1. acc \o s \in Seq(S)
    <3>1. acc \in Seq(S)
      BY DEF S
    <3> QED
      BY <1>2, <3>1, ConcatProperties
  <2> QED
    BY <1>6, <2>1, AppendIsConcat DEF Then
<1> QED
  BY <1>9, <1>10, AccumulateIs DEF s, t, op

LEMMA AccumulateNone ==
  ASSUME NEW S, NEW acc \in Seq(S), NEW mem, NEW i, NEW secret, NEW at
  PROVE  XXH3_accumulate(acc, mem, i, secret, at, 0) = acc
<1>1. Stripes(mem, i, secret, at, 0) = <<>>
  BY SMT DEF Stripes
<1> QED
  BY <1>1, AccumulateIs, ConcatEmptySeq

\* len bytes at mem + i are the input's, from the (k + 1)-th stripe on; r stripes
\* of its block are mixed, and it meets the secret's bytes from `at` on.
Ahead(f, P, k, r, at, mem, i, len) ==
  Residue(r, k, P) /\ at = 8 * r /\ Holds(mem, i, len, f + 64 * k)

\* The stripe after the j that were mixed from memory, the first of them the
\* r-th of its block.
LEMMA WithStripeFrom ==
  ASSUME NEW f \in Nat, NEW secret, NEW limit \in Nat, NEW P \in Nat,
         NEW k \in Nat, NEW r \in Nat, NEW at \in Nat,
         NEW mem, NEW i \in Nat, NEW len \in Nat, Ahead(f, P, k, r, at, mem, i, len),
         NEW j \in Nat, NEW n \in Nat, NEW p \in Nat, NEW w \in Nat,
         StripeAfter(j, i, at, len, n, p, w), r + j < P, NEW acc,
         NEW t \in Nat, SumIs(t, k, n)
  PROVE  /\ r + n < P => WithStripe(acc, f, secret, limit, P, t)
                            = Then(acc, StripeFrom(mem, p, secret, w))
         /\ r + n = P => WithStripe(acc, f, secret, limit, P, t)
                            = XXH3_scrambleAcc(Then(acc, StripeFrom(mem, p, secret, w)),
                                               secret, limit)
<1>p. Residue(r, k, P)
  BY DEF Ahead
<1>0. at = 8 * r /\ t = k + n
  BY DEF Ahead, SumIs
<1>1. n = j + 1 /\ 64 * n <= len /\ p = i + 64 * j /\ w = 8 * r + 8 * j
  BY <1>0 DEF StripeAfter
<1>2. Read(mem, p, 64) = Input(f + 64 * (k + n - 1), 64)
  <2>1. ASSUME NEW b \in 1..64
        PROVE  mem[p + b] = f + 64 * (k + n - 1) + b
    <3>1. 64 * j + b \in 1..len /\ p + b = i + (64 * j + b)
      BY <1>1
    <3>2. f + 64 * (k + n - 1) + b = (f + 64 * k) + (64 * j + b)
      BY <1>1
    <3>3. mem[i + (64 * j + b)] = (f + 64 * k) + (64 * j + b)
      BY <3>1 DEF Ahead, Holds
    <3> QED
      BY <3>1, <3>2, <3>3
  <2> QED
    BY <2>1 DEF Read, Input
<1>3. PICK u \in Nat : u = k + j
  OBVIOUS
<1>4. u % P = r + j /\ t % P = IF r + n = P THEN 0 ELSE r + n
  <2>1. r + j <= P /\ r + j # P /\ r + n <= P
    BY <1>1
  <2>2. SumIs(u, k, j)
    BY <1>3 DEF SumIs
  <2>3. Residue(r + j, u, P)
    BY <1>p, <2>1, <2>2, StripesOn
  <2>4. (r + n = P => Residue(0, t, P)) /\ (r + n < P => Residue(r + n, t, P))
    BY <1>p, <2>1, StripesOn
  <2> QED
    BY <2>1, <2>3, <2>4 DEF Residue
<1>5. t - 1 = u /\ 8 * (r + j) = w /\ r + n # 0
  BY <1>0, <1>1, <1>3
<1>6. (t % P = 0) = (r + n = P) /\ 8 * ((t - 1) % P) = w
  BY <1>4, <1>5
<1>7. Read(mem, p, 64) = Input(f + 64 * (t - 1), 64)
  BY <1>0, <1>2
<1> QED
  BY <1>6, <1>7 DEF WithStripe, StripeFrom

\* One stripe of a block more, and the scramble if it is the last.
LEMMA MixedNext ==
  ASSUME NEW f \in Nat, NEW secret, NEW limit \in Nat, NEW P \in Nat,
         NEW k \in Nat, NEW r \in Nat, NEW at \in Nat,
         NEW mem, NEW i \in Nat, NEW len \in Nat, Ahead(f, P, k, r, at, mem, i, len),
         NEW j \in Nat, NEW n \in Nat, NEW p \in Nat, NEW w \in Nat,
         StripeAfter(j, i, at, len, n, p, w), r + j < P,
         NEW u \in Nat, SumIs(u, k, j), NEW t \in Nat, SumIs(t, k, n),
         XXH3_accumulate(Mixed(f, secret, limit, P)[k], mem, i, secret, at, j)
           = Mixed(f, secret, limit, P)[u]
  PROVE  /\ r + n < P => XXH3_accumulate(Mixed(f, secret, limit, P)[k], mem, i, secret, at, n)
                           = Mixed(f, secret, limit, P)[t]
         /\ r + n = P => XXH3_scrambleAcc(
                           XXH3_accumulate(Mixed(f, secret, limit, P)[k], mem, i, secret, at, n),
                           secret, limit)
                           = Mixed(f, secret, limit, P)[t]
<1> DEFINE M == Mixed(f, secret, limit, P)
<1>0. P > 0
  BY DEF Ahead, Residue
<1>1. M \in [Nat -> Seq(Ops(Int, secret))] /\ MixedRun(M, f, secret, limit, P)
  BY <1>0, MixedIs
<1>2. BytesIn(Int, mem, i, len)
  BY DEF Ahead, Holds, BytesIn
<1>3. PICK acc \in Seq(Ops(Int, secret)) : acc = M[k]
  BY <1>1
<1>4. PICK op : op = StripeFrom(mem, p, secret, w)
  OBVIOUS
<1>5. PICK old : old = M[u]
  OBVIOUS
<1>6. XXH3_accumulate(acc, mem, i, secret, at, n)
        = Then(XXH3_accumulate(acc, mem, i, secret, at, j), StripeFrom(mem, p, secret, w))
  BY <1>2, AccumulateNext
<1>7. XXH3_accumulate(M[k], mem, i, secret, at, n) = Then(old, op)
  BY <1>3, <1>4, <1>5, <1>6
<1>8. /\ r + n < P => WithStripe(old, f, secret, limit, P, t)
                        = Then(old, StripeFrom(mem, p, secret, w))
      /\ r + n = P => WithStripe(old, f, secret, limit, P, t)
                        = XXH3_scrambleAcc(Then(old, StripeFrom(mem, p, secret, w)), secret, limit)
  BY WithStripeFrom
<1>9. M[t] = WithStripe(old, f, secret, limit, P, t)
  <2>1. t = u + 1
    BY DEF SumIs, StripeAfter
  <2>2. \A q \in Nat : M[q + 1] = WithStripe(M[q], f, secret, limit, P, q + 1)
    BY <1>1 DEF MixedRun
  <2> HIDE DEF M
  <2> QED
    BY <1>5, <2>1, <2>2
<1> HIDE DEF M
<1>10. /\ r + n < P => XXH3_accumulate(M[k], mem, i, secret, at, n) = M[t]
       /\ r + n = P => XXH3_scrambleAcc(XXH3_accumulate(M[k], mem, i, secret, at, n), secret, limit)
                         = M[t]
  BY <1>4, <1>7, <1>8, <1>9, Zenon
<1> QED
  BY <1>10 DEF M

\* Stripes of one block, mixed from memory that holds the input's next bytes.
LEMMA StripesMixed ==
  ASSUME NEW f \in Nat, NEW secret, NEW limit \in Nat, NEW P \in Nat,
         NEW k \in Nat, NEW r \in Nat, NEW at \in Nat,
         NEW mem, NEW i \in Nat, NEW len \in Nat, Ahead(f, P, k, r, at, mem, i, len),
         NEW m \in Nat, r + m < P, 64 * m <= len, NEW t \in Nat, SumIs(t, k, m)
  PROVE  XXH3_accumulate(Mixed(f, secret, limit, P)[k], mem, i, secret, at, m)
           = Mixed(f, secret, limit, P)[t]
<1> DEFINE M == Mixed(f, secret, limit, P)
           S == {j \in Nat : j <= m => XXH3_accumulate(M[k], mem, i, secret, at, j) = M[k + j]}
<1>0. P > 0
  BY DEF Ahead, Residue
<1>1. M \in [Nat -> Seq(Ops(Int, secret))]
  BY <1>0, MixedIs
<1>2. 0 \in S
  <2>1. PICK acc \in Seq(Ops(Int, secret)) : acc = M[k]
    BY <1>1
  <2>2. XXH3_accumulate(acc, mem, i, secret, at, 0) = acc
    BY AccumulateNone
  <2> HIDE DEF M
  <2>3. k + 0 = k
    OBVIOUS
  <2> QED
    BY <2>1, <2>2, <2>3
<1>3. ASSUME NEW j \in Nat, j \in S PROVE j + 1 \in S
  <2> HIDE DEF S
  <2>1. SUFFICES ASSUME j + 1 <= m
                 PROVE  XXH3_accumulate(M[k], mem, i, secret, at, j + 1) = M[k + (j + 1)]
    BY DEF S
  <2>2. PICK u \in Nat, n \in Nat, p \in Nat, v \in Nat :
          u = k + j /\ n = j + 1 /\ p = i + 64 * j /\ v = k + n
    OBVIOUS
  <2>3. PICK w \in Nat : w = at + 8 * j
    OBVIOUS
  <2>4. XXH3_accumulate(M[k], mem, i, secret, at, j) = M[u]
    BY <1>3, <2>1, <2>2 DEF S
  <2>5. StripeAfter(j, i, at, len, n, p, w) /\ SumIs(u, k, j) /\ SumIs(v, k, n)
    BY <2>1, <2>2, <2>3 DEF StripeAfter, SumIs
  <2>6. r + j < P /\ r + n < P
    BY <2>1, <2>2
  <2>7. XXH3_accumulate(M[k], mem, i, secret, at, n) = M[v]
    BY <2>4, <2>5, <2>6, MixedNext
  <2> QED
    BY <2>2, <2>7
<1>6. S = Nat
  <2>1. S \in SUBSET Nat
    OBVIOUS
  <2> HIDE DEF S
  <2>2. \A j \in S : j + 1 \in S
    BY <1>3, <2>1
  <2> QED
    BY <1>2, <2>1, <2>2, NatSetInduction
<1> QED
  BY <1>6 DEF M, SumIs

\* The rest of a block, and its scramble.
LEMMA BlockMixed ==
  ASSUME NEW f \in Nat, NEW secret, NEW limit \in Nat, NEW P \in Nat,
         NEW k \in Nat, NEW r \in Nat, NEW at \in Nat,
         NEW mem, NEW i \in Nat, NEW len \in Nat, Ahead(f, P, k, r, at, mem, i, len),
         NEW m \in Nat, r + m = P, 64 * m <= len, NEW t \in Nat, SumIs(t, k, m)
  PROVE  XXH3_scrambleAcc(
           XXH3_accumulate(Mixed(f, secret, limit, P)[k], mem, i, secret, at, m),
           secret, limit)
             = Mixed(f, secret, limit, P)[t]
<1> DEFINE M == Mixed(f, secret, limit, P)
<1>1. r < P
  <2>1. P > 0 /\ r = k % P
    BY DEF Ahead, Residue
  <2>2. k % P \in 0 .. P - 1
    BY <2>1
  <2> QED
    BY <2>1, <2>2
<1>2. PICK j \in Nat : m = j + 1
  <2>1. m - 1 \in Nat /\ m = (m - 1) + 1
    BY <1>1
  <2> QED
    BY <2>1
<1>3. PICK p \in Nat, u \in Nat : p = i + 64 * j /\ u = k + j
  OBVIOUS
<1>4. PICK w \in Nat : w = at + 8 * j
  OBVIOUS
<1>5. StripeAfter(j, i, at, len, m, p, w)
  BY <1>2, <1>3, <1>4 DEF StripeAfter
<1>6. r + j < P /\ 64 * j <= len /\ SumIs(u, k, j)
  BY <1>2, <1>3 DEF SumIs
<1>7. XXH3_accumulate(M[k], mem, i, secret, at, j) = M[u]
  BY <1>6, StripesMixed
<1> QED
  BY <1>5, <1>6, <1>7, MixedNext

------------------------------------------------------------------------------
(* The operations of one accumulator may be read at any alphabet; XXH3_accumulate
   over whole stripes goes from one Mixed accumulator to a later one. *)

LEMMA OpsMore ==
  ASSUME NEW X, NEW Y, X \subseteq Y, NEW secret
  PROVE  Ops(X, secret) \subseteq Ops(Y, secret)
<1>1. ASSUME NEW op \in Ops(X, secret) PROVE op \in Ops(Y, secret)
  <2>1. CASE \E at \in Nat : op = ScrambleOp(secret, at)
    BY <2>1, OpsHave
  <2>2. CASE \E data \in [1..64 -> X], at \in Nat : op = StripeOp(data, secret, at)
    <3>1. PICK data \in [1..64 -> X], at \in Nat : op = StripeOp(data, secret, at)
      BY <2>2
    <3>2. data \in [1..64 -> Y]
      OBVIOUS
    <3> QED
      BY <3>1, <3>2, OpsHave
  <2> QED
    <3>1. \/ op \in {StripeOp(data, secret, at) : data \in [1..64 -> X], at \in Nat}
          \/ op \in {ScrambleOp(secret, at) : at \in Nat}
      BY SMT DEF Ops
    <3>2. (op \in {ScrambleOp(secret, at) : at \in Nat}) => \E at \in Nat : op = ScrambleOp(secret, at)
      BY Zenon
    <3>3. (op \in {StripeOp(data, secret, at) : data \in [1..64 -> X], at \in Nat})
            => \E data \in [1..64 -> X], at \in Nat : op = StripeOp(data, secret, at)
      BY SMT
    <3> QED
      BY <2>1, <2>2, <3>1, <3>2, <3>3
<1> QED
  BY <1>1

\* The bytes of a memory.
BytesOf(mem) == {mem[q] : q \in Nat}

LEMMA AccumulateSeq ==
  ASSUME NEW X, NEW secret, NEW acc \in Seq(Ops(X, secret)), NEW mem, BytesOf(mem) \subseteq X,
         NEW i \in Nat, NEW at \in Nat, NEW m \in Nat
  PROVE  XXH3_accumulate(acc, mem, i, secret, at, m) \in Seq(Ops(X, secret))
<1>1. PICK len \in Nat : len = 64 * m
  OBVIOUS
<1>2. BytesIn(X, mem, i, len)
  BY DEF BytesIn, BytesOf
<1>3. Stripes(mem, i, secret, at, m) \in [1..m -> Ops(X, secret)]
  <2>1. 64 * m <= len
    BY <1>1
  <2> QED
    BY <1>2, <2>1, StripesSeq
<1>4. Stripes(mem, i, secret, at, m) \in Seq(Ops(X, secret))
  <2>1. PICK s \in [1..m -> Ops(X, secret)] : s = Stripes(mem, i, secret, at, m)
    BY <1>3
  <2>2. s \in Seq(Ops(X, secret))
    BY SeqOfFunction
  <2> QED
    BY <2>1, <2>2
<1>5. PICK s \in Seq(Ops(X, secret)) : s = Stripes(mem, i, secret, at, m)
  BY <1>4
<1>6. acc \o s \in Seq(Ops(X, secret))
  BY ConcatProperties
<1> QED
  BY <1>5, <1>6, AccumulateIs

\* One block, all of it.
WholeBlock(acc, mem, p, secret, limit, P) ==
  XXH3_scrambleAcc(XXH3_accumulate(acc, mem, p, secret, 0, P), secret, limit)

\* g[b] is v after b blocks, the b-th of them at mem + at[b].
BlockRun(g, v, mem, at, secret, limit, P) ==
  g = [b \in Nat |-> IF b = 0 THEN v ELSE WholeBlock(g[b - 1], mem, at[b], secret, limit, P)]

LEMMA BlockRunExists ==
  ASSUME NEW secret, NEW limit \in Nat, NEW P \in Nat, NEW mem, NEW at \in [Nat -> Nat],
         NEW v \in Seq(Ops(Int, secret))
  PROVE  \E g : BlockRun(g, v, mem, at, secret, limit, P)
<1> DEFINE X    == Int \cup BytesOf(mem)
           V    == Seq(Ops(X, secret))
           next(a, b) == WholeBlock(a, mem, at[b], secret, limit, P)
           step == [x \in V \X Nat |-> next(x[1], x[2])]
<1>1. v \in V
  <2>1. Ops(Int, secret) \subseteq Ops(X, secret)
    BY OpsMore
  <2> HIDE DEF X
  <2> QED
    BY <2>1
<1>2. ASSUME NEW a \in V, NEW b \in Nat PROVE next(a, b) \in V
  <2>1. at[b] \in Nat
    OBVIOUS
  <2>2. BytesOf(mem) \subseteq X
    OBVIOUS
  <2> HIDE DEF X
  <2>3. PICK p \in Nat : p = at[b]
    BY <2>1
  <2>4. XXH3_accumulate(a, mem, p, secret, 0, P) \in V
    BY <2>2, AccumulateSeq
  <2>5. XXH3_scrambleAcc(XXH3_accumulate(a, mem, p, secret, 0, P), secret, limit) \in V
    BY <2>4, ScrambleSeq
  <2> QED
    BY <2>3, <2>5 DEF WholeBlock
<1> HIDE DEF next, V
<1>3. step \in [V \X Nat -> V]
  BY <1>2
<1>4. ASSUME NEW a \in V, NEW b \in Nat PROVE step[<<a, b>>] = next(a, b)
  <2>1. <<a, b>> \in V \X Nat /\ <<a, b>>[1] = a /\ <<a, b>>[2] = b
    OBVIOUS
  <2> QED
    BY <2>1, Zenon
<1> HIDE DEF step
<1>5. PICK g \in [Nat -> V] : Stepwise(g, v, step)
  BY <1>1, <1>3, StepwiseExists, Zenon
<1>6. ASSUME NEW n \in Nat
      PROVE  (IF n = 0 THEN v ELSE step[<<g[n - 1], n>>])
               = (IF n = 0 THEN v ELSE next(g[n - 1], n))
  <2>1. n # 0 => n - 1 \in Nat
    OBVIOUS
  <2>2. n # 0 => g[n - 1] \in V
    BY <2>1
  <2> QED
    BY <1>4, <2>2
<1>7. g = [n \in Nat |-> IF n = 0 THEN v ELSE next(g[n - 1], n)]
  BY <1>5, <1>6 DEF Stepwise
<1> QED
  BY <1>7 DEF BlockRun, next

\* How it goes on.
BlocksFrom(g, v, mem, at, secret, limit, P) ==
  /\ g[0] = v
  /\ \A b \in Nat : g[b + 1] = WholeBlock(g[b], mem, at[b + 1], secret, limit, P)

LEMMA BlockRunGoesOn ==
  ASSUME NEW g, NEW v, NEW mem, NEW at, NEW secret, NEW limit, NEW P,
         BlockRun(g, v, mem, at, secret, limit, P)
  PROVE  BlocksFrom(g, v, mem, at, secret, limit, P)
<1> DEFINE next(a, b) == WholeBlock(a, mem, at[b], secret, limit, P)
<1>1. g = [n \in Nat |-> IF n = 0 THEN v ELSE next(g[n - 1], n)]
  BY DEF BlockRun
<1> HIDE DEF next
<1>2. \A n \in Nat : g[n] = IF n = 0 THEN v ELSE next(g[n - 1], n)
  BY <1>1, Zenon
<1>3. g[0] = v
  BY <1>2
<1>4. ASSUME NEW b \in Nat PROVE g[b + 1] = next(g[b], b + 1)
  <2>1. b + 1 \in Nat /\ b + 1 # 0 /\ (b + 1) - 1 = b
    OBVIOUS
  <2> QED
    BY <1>2, <2>1, Zenon
<1> QED
  BY <1>3, <1>4 DEF BlocksFrom, next

\* memory at mem + i holds n stripes of the input, from the (k + 1)-th on.
Holding(f, k, mem, i, n) == Holds(mem, i, 64 * n, f + 64 * k)

StripesAt(p, i, a) == p = i + 64 * a

LEMMA HoldingOn ==
  ASSUME NEW f \in Nat, NEW k \in Nat, NEW mem, NEW i \in Nat, NEW n \in Nat,
         Holding(f, k, mem, i, n),
         NEW a \in Nat, NEW m \in Nat, a + m <= n,
         NEW u \in Nat, SumIs(u, k, a), NEW p \in Nat, StripesAt(p, i, a)
  PROVE  Holding(f, u, mem, p, m)
<1>0. u = k + a /\ p = i + 64 * a
  BY DEF SumIs, StripesAt
<1>1. ASSUME NEW j \in 1..64 * m
      PROVE  mem[p + j] = f + 64 * u + j
  <2>1. 64 * a + j \in 1..64 * n /\ p + j = i + (64 * a + j)
    BY <1>0
  <2>2. mem[i + (64 * a + j)] = f + 64 * k + (64 * a + j)
    BY <2>1 DEF Holding, Holds
  <2>3. f + 64 * u + j = f + 64 * k + (64 * a + j)
    BY <1>0
  <2> QED
    BY <2>1, <2>2, <2>3
<1> QED
  BY <1>1 DEF Holding, Holds

\* Whole blocks, mixed from memory that holds them one after the other: the b-th
\* of them ends when b * P stripes more are mixed.
BlocksAt(at, o, P) == \A b \in Nat : at[b + 1] = o + 64 * (b * P)

LEMMA BlocksMixed ==
  ASSUME NEW f \in Nat, NEW secret, NEW limit \in Nat, NEW P \in Nat,
         NEW k \in Nat, Residue(0, k, P), NEW mem, NEW o \in Nat, NEW n \in Nat,
         Holding(f, k, mem, o, n), NEW at, BlocksAt(at, o, P), NEW g,
         BlocksFrom(g, Mixed(f, secret, limit, P)[k], mem, at, secret, limit, P),
         NEW b \in Nat, b * P <= n
  PROVE  /\ g[b] = Mixed(f, secret, limit, P)[k + b * P]
         /\ Residue(0, k + b * P, P)
<1> DEFINE M == Mixed(f, secret, limit, P)
           Good(c) == g[c] = M[k + c * P] /\ Residue(0, k + c * P, P)
           S == {c \in Nat : c * P <= n => Good(c)}
<1>p. P > 0
  BY DEF Residue
<1> HIDE DEF M
<1>0. g[0] = M[k] /\ \A c \in Nat : g[c + 1] = WholeBlock(g[c], mem, at[c + 1], secret, limit, P)
  BY DEF M, BlocksFrom
<1>1. 0 \in S
  <2>1. k + 0 * P = k
    OBVIOUS
  <2> QED
    BY <1>0, <2>1
<1>2. ASSUME NEW c \in Nat, c \in S PROVE c + 1 \in S
  <2> HIDE DEF S, Good
  <2>1. SUFFICES ASSUME (c + 1) * P <= n PROVE Good(c + 1)
    BY DEF S
  <2>2. PICK d \in Nat : d = c * P
    OBVIOUS
  <2>3. (c + 1) * P = d + P /\ d + P <= n
    BY <2>1, <2>2
  <2>4. PICK u \in Nat, t \in Nat, p \in Nat : u = k + d /\ t = u + P /\ p = o + 64 * d
    OBVIOUS
  <2>5. g[c] = M[u] /\ Residue(0, u, P)
    <3>1. Good(c)
      BY <1>2, <2>2, <2>3 DEF S
    <3> QED
      BY <2>2, <2>4, <3>1 DEF Good
  <2>6. at[c + 1] = p
    BY <2>2, <2>4 DEF BlocksAt
  <2>7. Holding(f, u, mem, p, P)
    <3>1. SumIs(u, k, d) /\ StripesAt(p, o, d) /\ d + P <= n
      BY <2>3, <2>4 DEF SumIs, StripesAt
    <3> QED
      BY <3>1, HoldingOn
  <2>8. WholeBlock(M[u], mem, p, secret, limit, P) = M[t]
    <3>1. PICK len \in Nat : len = 64 * P
      OBVIOUS
    <3>2. Ahead(f, P, u, 0, 0, mem, p, len)
      BY <2>5, <2>7, <3>1 DEF Ahead, Holding
    <3>3. SumIs(t, u, P) /\ 0 + P = P /\ 64 * P <= len
      BY <2>4, <3>1 DEF SumIs
    <3> QED
      BY <3>2, <3>3, BlockMixed DEF M, WholeBlock
  <2>9. Residue(0, t, P)
    <3>1. SumIs(t, u, P) /\ 0 + P = P /\ 0 + P <= P
      BY <2>4 DEF SumIs
    <3> QED
      BY <2>5, <3>1, StripesOn
  <2>10. k + (c + 1) * P = t
    BY <2>3, <2>4
  <2>11. g[c + 1] = M[t]
    BY <1>0, <2>5, <2>6, <2>8
  <2> QED
    BY <2>9, <2>10, <2>11 DEF Good
<1>3. S = Nat
  <2>1. S \in SUBSET Nat
    OBVIOUS
  <2> HIDE DEF S
  <2>2. \A c \in S : c + 1 \in S
    BY <1>2, <2>1
  <2> QED
    BY <1>1, <2>1, <2>2, NatSetInduction
<1>4. Good(b)
  BY <1>3
<1> QED
  BY <1>4 DEF M

------------------------------------------------------------------------------
(* XXH3_consumeStripes: the rest of a block, whole blocks, and what is left over. *)

\* The blocks XXH3_consumeStripes mixes, acc the accumulator of `first` stripes
\* that end one.
ConsumedBy(g, acc, soFar, first, P, mem, i, secret, limit) ==
  g = [b \in Nat |->
         IF b = 0
         THEN XXH3_scrambleAcc(XXH3_accumulate(acc, mem, i + StripeLen * 0, secret,
                                               ConsumeRate * soFar, first), secret, limit)
         ELSE XXH3_scrambleAcc(XXH3_accumulate(g[b - 1], mem,
                                               i + StripeLen * (first + (b - 1) * P),
                                               secret, 0, P), secret, limit)]

Consumed(acc, soFar, first, P, mem, i, secret, limit) ==
  CHOOSE g : ConsumedBy(g, acc, soFar, first, P, mem, i, secret, limit)

\* What XXH3_consumeStripes returns after `more` whole blocks, with `rest` stripes left.
ConsumedWith(g, more, rest, n, mem, i, secret) ==
  [acc   |-> XXH3_accumulate(g[more], mem, i + StripeLen * (n - rest), secret, 0, rest),
   soFar |-> rest]

ConsumedBeyond(acc, soFar, P, mem, i, n, secret, limit) ==
  ConsumedWith(Consumed(acc, soFar, P - soFar, P, mem, i, secret, limit),
               (n - (P - soFar)) \div P,
               n - (P - soFar) - ((n - (P - soFar)) \div P) * P, n, mem, i, secret)

\* The accumulator after k stripes.
IsMixed(acc, f, secret, limit, P, k) == acc = Mixed(f, secret, limit, P)[k]

LEMMA ConsumeStripesIs ==
  ASSUME NEW acc, NEW soFar, NEW P, NEW mem, NEW i, NEW n, NEW secret, NEW limit
  PROVE  /\ n < P - soFar =>
              XXH3_consumeStripes(acc, soFar, P, mem, i, n, secret, limit)
                = [acc   |-> XXH3_accumulate(acc, mem, i, secret, ConsumeRate * soFar, n),
                   soFar |-> soFar + n]
         /\ ~(n < P - soFar) =>
              XXH3_consumeStripes(acc, soFar, P, mem, i, n, secret, limit)
                = ConsumedBeyond(acc, soFar, P, mem, i, n, secret, limit)
BY Zenon DEF XXH3_consumeStripes, Consumed, ConsumedBy, ConsumedWith, ConsumedBeyond

LEMMA ConsumedGoesOn ==
  ASSUME NEW secret, NEW limit \in Nat, NEW P \in Nat, NEW mem, NEW i \in Nat,
         NEW acc, NEW soFar \in Nat, NEW first \in Nat,
         NEW v \in Seq(Ops(Int, secret)),
         v = XXH3_scrambleAcc(XXH3_accumulate(acc, mem, i, secret, 8 * soFar, first), secret, limit),
         NEW o \in Nat, StripesAt(o, i, first)
  PROVE  \E at : BlocksAt(at, o, P)
                 /\ BlocksFrom(Consumed(acc, soFar, first, P, mem, i, secret, limit),
                               v, mem, at, secret, limit, P)
<1> DEFINE where(b) == o + 64 * (b * P)
           at == [b \in Nat |-> IF b = 0 THEN 0 ELSE where(b - 1)]
           C  == Consumed(acc, soFar, first, P, mem, i, secret, limit)
<1>1. \A b \in Nat : b # 0 => b - 1 \in Nat
  OBVIOUS
<1>2. \A b \in Nat : where(b) \in Nat
  <2>1. \A b \in Nat : b * P \in Nat
    OBVIOUS
  <2> QED
    BY <2>1
<1>3. ASSUME NEW b \in Nat, b # 0
      PROVE  at[b] = i + StripeLen * (first + (b - 1) * P)
  <2>1. PICK c \in Int : c = (b - 1) * P
    OBVIOUS
  <2>2. at[b] = o + 64 * c
    BY <1>3, <2>1
  <2>3. i + StripeLen * (first + (b - 1) * P) = o + 64 * c
    BY <2>1 DEF StripesAt, StripeLen
  <2> QED
    BY <2>2, <2>3
<1>4. \A b \in Nat : at[b + 1] = where(b)
  OBVIOUS
<1> HIDE DEF where
<1>5. at \in [Nat -> Nat]
  BY <1>1, <1>2
<1>6. BlocksAt(at, o, P)
  BY <1>4 DEF BlocksAt, where
<1> HIDE DEF at
<1>7. v = XXH3_scrambleAcc(XXH3_accumulate(acc, mem, i + StripeLen * 0, secret,
                                           ConsumeRate * soFar, first), secret, limit)
  <2>1. i + StripeLen * 0 = i /\ ConsumeRate * soFar = 8 * soFar
    BY DEF StripeLen, ConsumeRate
  <2> QED
    BY <2>1
<1>8. ASSUME NEW g
      PROVE  BlockRun(g, v, mem, at, secret, limit, P)
               <=> ConsumedBy(g, acc, soFar, first, P, mem, i, secret, limit)
  <2> DEFINE A(b) == IF b = 0 THEN v ELSE WholeBlock(g[b - 1], mem, at[b], secret, limit, P)
             B(b) == IF b = 0
                     THEN XXH3_scrambleAcc(XXH3_accumulate(acc, mem, i + StripeLen * 0, secret,
                                               ConsumeRate * soFar, first), secret, limit)
                     ELSE XXH3_scrambleAcc(XXH3_accumulate(g[b - 1], mem,
                                               i + StripeLen * (first + (b - 1) * P),
                                               secret, 0, P), secret, limit)
  <2>1. ASSUME NEW b \in Nat PROVE A(b) = B(b)
    <3>1. CASE b = 0
      BY <1>7, <3>1, Zenon
    <3>2. CASE b # 0
      <4>1. PICK p : p = at[b] /\ p = i + StripeLen * (first + (b - 1) * P)
        BY <1>3, <3>2
      <4> QED
        BY <3>2, <4>1, Zenon DEF WholeBlock
    <3> QED
      BY <3>1, <3>2
  <2> HIDE DEF A, B
  <2>2. [b \in Nat |-> A(b)] = [b \in Nat |-> B(b)]
    BY <2>1
  <2>3. BlockRun(g, v, mem, at, secret, limit, P) <=> g = [b \in Nat |-> A(b)]
    BY Zenon DEF BlockRun, A
  <2>4. ConsumedBy(g, acc, soFar, first, P, mem, i, secret, limit) <=> g = [b \in Nat |-> B(b)]
    BY Zenon DEF ConsumedBy, B
  <2> QED
    BY <2>2, <2>3, <2>4, Zenon
<1>9. \E g : BlockRun(g, v, mem, at, secret, limit, P)
  BY <1>5, BlockRunExists
<1>10. ConsumedBy(C, acc, soFar, first, P, mem, i, secret, limit)
  BY <1>8, <1>9, Zenon DEF Consumed
<1> HIDE DEF C
<1>11. BlockRun(C, v, mem, at, secret, limit, P)
  BY <1>8, <1>10, Zenon
<1>12. BlocksFrom(C, v, mem, at, secret, limit, P)
  BY <1>11, BlockRunGoesOn, Zenon
<1> QED
  BY <1>6, <1>12, Zenon DEF C

\* It returns the accumulator after t stripes, and how many of them are the last block's.
ConsumesTo(acc, r, P, mem, i, n, secret, limit, f, t) ==
  \E s \in Nat :
    /\ Residue(s, t, P)
    /\ XXH3_consumeStripes(acc, r, P, mem, i, n, secret, limit)
         = [acc |-> Mixed(f, secret, limit, P)[t], soFar |-> s]

\* XXH3_consumeStripes mixes the n stripes it is given, wherever in a block it begins.
LEMMA StripesConsumed ==
  ASSUME NEW f \in Nat, NEW secret, NEW limit \in Nat, NEW P \in Nat,
         NEW k \in Nat, NEW r \in Nat, Residue(r, k, P), NEW mem, NEW i \in Nat,
         NEW n \in Nat, Holding(f, k, mem, i, n), NEW t \in Nat, SumIs(t, k, n),
         NEW acc, IsMixed(acc, f, secret, limit, P, k)
  PROVE  ConsumesTo(acc, r, P, mem, i, n, secret, limit, f, t)
<1> DEFINE M == Mixed(f, secret, limit, P)
<1>p. P > 0 /\ r < P
  <2>1. P > 0 /\ r = k % P
    BY DEF Residue
  <2>2. k % P \in 0 .. P - 1
    BY <2>1
  <2> QED
    BY <2>1, <2>2
<1>1. PICK first \in Nat : first = P - r /\ r + first = P
  <2>1. P - r \in Nat /\ r + (P - r) = P
    BY <1>p
  <2> QED
    BY <2>1
<1>2. PICK at \in Nat, len \in Nat : at = 8 * r /\ len = 64 * n
  OBVIOUS
<1>3. Ahead(f, P, k, r, at, mem, i, len)
  BY <1>2 DEF Ahead, Holding
<1>4. ConsumeRate * r = at
  BY <1>2 DEF ConsumeRate
<1>5. CASE n < first
  <2>1. r + n < P /\ r + n <= P /\ 64 * n <= len
    BY <1>1, <1>2, <1>5
  <2>2. XXH3_accumulate(M[k], mem, i, secret, at, n) = M[t]
    BY <1>3, <2>1, StripesMixed
  <2>3. Residue(r + n, t, P)
    BY <2>1, StripesOn
  <2>4. XXH3_consumeStripes(acc, r, P, mem, i, n, secret, limit)
          = [acc |-> XXH3_accumulate(acc, mem, i, secret, at, n), soFar |-> r + n]
    <3>1. n < P - r
      BY <1>1, <1>5
    <3> QED
      BY <1>4, <3>1, ConsumeStripesIs
  <2> QED
    BY <2>2, <2>3, <2>4 DEF IsMixed, ConsumesTo
<1>6. CASE ~(n < first)
  <2>1. PICK x \in Nat : x = n - first
    BY <1>6
  <2>2. PICK more \in Nat, rest \in Nat : more = x \div P /\ rest < P /\ x = P * more + rest
    <3>1. x \div P \in Nat /\ x % P \in 0 .. P - 1 /\ x = P * (x \div P) + (x % P)
      BY <1>p
    <3> QED
      BY <3>1
  <2>3. PICK y \in Nat : y = more * P
    OBVIOUS
  <2>4. x = y + rest
    BY <2>2, <2>3
  <2>5. PICK u \in Nat, o \in Nat, t1 \in Nat, p \in Nat :
          u = k + first /\ o = i + 64 * first /\ t1 = u + y /\ p = o + 64 * y
    OBVIOUS
  <2>6. XXH3_scrambleAcc(XXH3_accumulate(M[k], mem, i, secret, at, first), secret, limit) = M[u]
    <3>1. 64 * first <= len /\ SumIs(u, k, first)
      BY <1>2, <1>6, <2>5 DEF SumIs
    <3> QED
      BY <1>1, <1>3, <3>1, BlockMixed
  <2>7. Residue(0, u, P)
    <3>1. r + first <= P /\ SumIs(u, k, first)
      BY <1>1, <2>5 DEF SumIs
    <3> QED
      BY <1>1, <3>1, StripesOn
  <2>8. Holding(f, u, mem, o, x)
    <3>1. SumIs(u, k, first) /\ StripesAt(o, i, first) /\ first + x <= n
      BY <2>1, <2>5 DEF SumIs, StripesAt
    <3> QED
      BY <3>1, HoldingOn
  <2> DEFINE C == Consumed(acc, r, first, P, mem, i, secret, limit)
  <2>9. C[more] = M[t1] /\ Residue(0, t1, P)
    <3>1. M[u] \in Seq(Ops(Int, secret))
      BY <1>p, MixedIs
    <3>2. M[u] = XXH3_scrambleAcc(XXH3_accumulate(acc, mem, i, secret, 8 * r, first), secret, limit)
      BY <1>2, <2>6 DEF IsMixed
    <3>3. StripesAt(o, i, first)
      BY <2>5 DEF StripesAt
    <3> HIDE DEF M
    <3>4. PICK where : BlocksAt(where, o, P) /\ BlocksFrom(C, M[u], mem, where, secret, limit, P)
      BY <3>1, <3>2, <3>3, ConsumedGoesOn
    <3> HIDE DEF C
    <3>5. more * P <= x
      BY <2>3, <2>4
    <3>6. C[more] = M[u + more * P] /\ Residue(0, u + more * P, P)
      BY <2>7, <2>8, <3>4, <3>5, BlocksMixed DEF M
    <3>7. u + more * P = t1
      BY <2>3, <2>5
    <3> QED
      BY <3>6, <3>7
  <2>10. Holding(f, t1, mem, p, rest)
    <3>1. SumIs(t1, u, y) /\ StripesAt(p, o, y) /\ y + rest <= x
      BY <2>4, <2>5 DEF SumIs, StripesAt
    <3> QED
      BY <2>8, <3>1, HoldingOn
  <2>11. SumIs(t, t1, rest)
    BY <2>1, <2>4, <2>5 DEF SumIs
  <2>12. XXH3_accumulate(M[t1], mem, p, secret, 0, rest) = M[t]
    <3>1. PICK size \in Nat : size = 64 * rest
      OBVIOUS
    <3>2. Ahead(f, P, t1, 0, 0, mem, p, size)
      BY <2>9, <2>10, <3>1 DEF Ahead, Holding
    <3>3. 0 + rest < P /\ 64 * rest <= size
      BY <2>2, <3>1
    <3> QED
      BY <2>11, <3>2, <3>3, StripesMixed
  <2>13. Residue(rest, t, P)
    <3>1. 0 + rest < P /\ 0 + rest <= P /\ 0 + rest = rest
      BY <2>2
    <3>2. Residue(0 + rest, t, P)
      BY <2>9, <2>11, <3>1, StripesOn
    <3> QED
      BY <3>1, <3>2
  <2>14. /\ (n - first) \div P = more /\ n - first - more * P = rest
         /\ i + StripeLen * (n - rest) = p
    BY <2>1, <2>2, <2>3, <2>4, <2>5 DEF StripeLen
  <2> HIDE DEF C
  <2>15. XXH3_consumeStripes(acc, r, P, mem, i, n, secret, limit)
           = [acc |-> XXH3_accumulate(C[more], mem, p, secret, 0, rest), soFar |-> rest]
    <3>1. ~(n < P - r)
      BY <1>1, <1>6
    <3>2. XXH3_consumeStripes(acc, r, P, mem, i, n, secret, limit)
            = ConsumedBeyond(acc, r, P, mem, i, n, secret, limit)
      BY <3>1, ConsumeStripesIs
    <3>3. XXH3_consumeStripes(acc, r, P, mem, i, n, secret, limit)
            = ConsumedWith(C, more, rest, n, mem, i, secret)
      <4>1. P - r = first
        BY <1>1
      <4> QED
        BY <2>14, <3>2, <4>1, Zenon DEF C, ConsumedBeyond
    <3> QED
      BY <2>14, <3>3, Zenon DEF ConsumedWith
  <2> QED
    BY <2>9, <2>12, <2>13, <2>15 DEF ConsumesTo
<1> QED
  BY <1>5, <1>6, Zenon

------------------------------------------------------------------------------
(* The loop of the one call does the same blocks. *)

\* The blocks of the one call.
LoopBy(g, in, perBlock, secret, secretSize) ==
  g = [n \in Nat |->
         IF n = 0 THEN XXH3_INIT_ACC
         ELSE XXH3_scrambleAcc(
                XXH3_accumulate(g[n - 1], in, (n - 1) * (StripeLen * perBlock), secret, 0, perBlock),
                secret, secretSize - StripeLen)]

LoopBlocks(in, perBlock, secret, secretSize) == CHOOSE g : LoopBy(g, in, perBlock, secret, secretSize)

\* The loop after `blocks` whole blocks, with `stripes` left before the last.
LoopWith(g, blocks, blockLen, stripes, in, secret, secretSize) ==
  XXH3_accumulate_512(
    XXH3_accumulate(g[blocks], in, blocks * blockLen, secret, 0, stripes),
    in, Len(in) - StripeLen, secret, secretSize - StripeLen - LastAcc)

LoopOf(in, perBlock, blockLen, secret, secretSize) ==
  LoopWith(LoopBlocks(in, perBlock, secret, secretSize), (Len(in) - 1) \div blockLen, blockLen,
           ((Len(in) - 1) - blockLen * ((Len(in) - 1) \div blockLen)) \div StripeLen,
           in, secret, secretSize)

LEMMA LoopIs ==
  ASSUME NEW in, NEW secret, NEW secretSize
  PROVE  XXH3_hashLong_internal_loop(in, secret, secretSize)
           = LoopOf(in, (secretSize - StripeLen) \div ConsumeRate,
                    StripeLen * ((secretSize - StripeLen) \div ConsumeRate), secret, secretSize)
BY Zenon DEF XXH3_hashLong_internal_loop, LoopOf, LoopWith, LoopBlocks, LoopBy

LEMMA LoopGoesOn ==
  ASSUME NEW secret, NEW limit \in Nat, NEW P \in Nat, NEW in, NEW size \in Nat,
         SumIs(size, limit, 64)
  PROVE  \E at : BlocksAt(at, 0, P)
                 /\ BlocksFrom(LoopBlocks(in, P, secret, size), <<>>, in, at, secret, limit, P)
<1> DEFINE where(b) == 0 + 64 * (b * P)
           at == [b \in Nat |-> IF b = 0 THEN 0 ELSE where(b - 1)]
           C  == LoopBlocks(in, P, secret, size)
<1>1. \A b \in Nat : b # 0 => b - 1 \in Nat
  OBVIOUS
<1>2. \A b \in Nat : where(b) \in Nat
  <2>1. \A b \in Nat : b * P \in Nat
    OBVIOUS
  <2> QED
    BY <2>1
<1>3. ASSUME NEW b \in Nat, b # 0
      PROVE  at[b] = (b - 1) * (StripeLen * P)
  <2>1. PICK d \in Nat : d = b - 1
    BY <1>3
  <2>2. PICK c \in Nat : c = d * P
    <3>1. d * P \in Nat
      OBVIOUS
    <3> QED
      BY <3>1
  <2>3. at[b] = 64 * c
    BY <1>3, <2>1, <2>2
  <2>4. d * (64 * P) = 64 * c
    BY <2>2
  <2> QED
    BY <2>1, <2>3, <2>4 DEF StripeLen
<1>4. \A b \in Nat : at[b + 1] = where(b)
  OBVIOUS
<1> HIDE DEF where
<1>5. at \in [Nat -> Nat]
  BY <1>1, <1>2
<1>6. BlocksAt(at, 0, P)
  BY <1>4 DEF BlocksAt, where
<1> HIDE DEF at
<1>7. size - StripeLen = limit
  BY DEF SumIs, StripeLen
<1>8. ASSUME NEW g
      PROVE  BlockRun(g, <<>>, in, at, secret, limit, P) <=> LoopBy(g, in, P, secret, size)
  <2> DEFINE A(b) == IF b = 0 THEN <<>> ELSE WholeBlock(g[b - 1], in, at[b], secret, limit, P)
             B(b) == IF b = 0 THEN XXH3_INIT_ACC
                     ELSE XXH3_scrambleAcc(
                            XXH3_accumulate(g[b - 1], in, (b - 1) * (StripeLen * P), secret, 0, P),
                            secret, size - StripeLen)
  <2>1. ASSUME NEW b \in Nat PROVE A(b) = B(b)
    <3>1. CASE b = 0
      BY <3>1, Zenon DEF XXH3_INIT_ACC
    <3>2. CASE b # 0
      <4>1. PICK p : p = at[b] /\ p = (b - 1) * (StripeLen * P)
        BY <1>3, <3>2
      <4> QED
        BY <1>7, <3>2, <4>1, Zenon DEF WholeBlock
    <3> QED
      BY <3>1, <3>2
  <2> HIDE DEF A, B
  <2>2. [b \in Nat |-> A(b)] = [b \in Nat |-> B(b)]
    BY <2>1
  <2>3. BlockRun(g, <<>>, in, at, secret, limit, P) <=> g = [b \in Nat |-> A(b)]
    BY Zenon DEF BlockRun, A
  <2>4. LoopBy(g, in, P, secret, size) <=> g = [b \in Nat |-> B(b)]
    BY Zenon DEF LoopBy, B
  <2> QED
    BY <2>2, <2>3, <2>4, Zenon
<1>9. \E g : BlockRun(g, <<>>, in, at, secret, limit, P)
  <2>1. <<>> \in Seq(Ops(Int, secret))
    OBVIOUS
  <2> QED
    BY <1>5, <2>1, BlockRunExists
<1>10. LoopBy(C, in, P, secret, size)
  BY <1>8, <1>9, Zenon DEF LoopBlocks
<1> HIDE DEF C
<1>11. BlockRun(C, <<>>, in, at, secret, limit, P)
  BY <1>8, <1>10, Zenon
<1>12. BlocksFrom(C, <<>>, in, at, secret, limit, P)
  BY <1>11, BlockRunGoesOn, Zenon
<1> QED
  BY <1>6, <1>12, Zenon DEF C

\* The limit of a secret and the stripes of a block.
Block3(P, limit) == limit >= 72 /\ P = limit \div 8

\* The one call mixes every whole stripe but the last byte's, then the 64 bytes that
\* end the input.
LEMMA LoopMixes ==
  ASSUME NEW f \in Nat, NEW n \in Nat, n > 64, NEW secret,
         NEW limit \in Nat, NEW P \in Nat, Block3(P, limit),
         NEW size \in Nat, SumIs(size, limit, 64)
  PROVE  XXH3_hashLong_internal_loop(Input(f, n), secret, size)
           = XXH3_accumulate_512(Mixed(f, secret, limit, P)[(n - 1) \div 64],
                                 Input(f, n), n - 64, secret, limit - LastAcc)
<1> DEFINE M  == Mixed(f, secret, limit, P)
           in == Input(f, n)
           C  == LoopBlocks(in, P, secret, size)
<1>p. P > 0 /\ (size - StripeLen) \div ConsumeRate = P /\ size - StripeLen = limit
  BY DEF Block3, SumIs, StripeLen, ConsumeRate
<1>1. Len(in) = n /\ Holds(in, 0, n, f)
  BY InputHolds
<1>2. PICK k \in Nat, c \in Nat : k = (n - 1) \div 64 /\ n - 1 = 64 * k + c /\ c < 64
  OBVIOUS
<1>3. PICK q \in Nat, s \in Nat : s < P /\ k = P * q + s
  <2>1. k \div P \in Nat /\ k % P \in 0 .. P - 1 /\ k = P * (k \div P) + (k % P)
    BY <1>p
  <2> QED
    BY <2>1
<1>4. PICK y \in Nat : y = q * P /\ k = y + s
  <2>1. q * P \in Nat /\ q * P = P * q
    OBVIOUS
  <2> QED
    BY <1>3, <2>1
<1>5. PICK blockLen \in Nat : blockLen = 64 * P /\ blockLen > 0
  BY <1>p
<1>6. blockLen * q = 64 * y /\ q * blockLen = 64 * y
  BY <1>4, <1>5
<1>7. (n - 1) \div blockLen = q
  <2>1. PICK e \in Nat, d \in Nat : e = 64 * s + c /\ d = n - 1
    BY <1>2
  <2>2. e < blockLen
    BY <1>2, <1>3, <1>5, <2>1
  <2>3. d = blockLen * q + e
    BY <1>2, <1>4, <1>6, <2>1
  <2>4. d \div blockLen = q
    BY <1>5, <2>2, <2>3, DivIs
  <2> QED
    BY <2>1, <2>4
<1>8. ((n - 1) - blockLen * q) \div 64 = s
  <2>1. (n - 1) - blockLen * q = 64 * s + c
    BY <1>2, <1>4, <1>6
  <2>2. (64 * s + c) \div 64 = s
    BY <1>2
  <2> QED
    BY <2>1, <2>2
<1>9. Holding(f, 0, in, 0, k)
  <2> HIDE DEF in
  <2>1. ASSUME NEW j \in 1..64 * k PROVE in[0 + j] = f + 64 * 0 + j
    <3>1. j \in 1..n /\ f + 64 * 0 + j = f + j
      BY <1>2
    <3>2. in[0 + j] = f + j
      BY <1>1, <3>1 DEF Holds
    <3> QED
      BY <3>1, <3>2
  <2> QED
    BY <2>1 DEF Holding, Holds
<1>10. M[0] = <<>>
  <2>1. MixedRun(M, f, secret, limit, P)
    BY <1>p, MixedIs
  <2> HIDE DEF M
  <2> QED
    BY <2>1 DEF MixedRun
<1>11. Residue(0, 0, P)
  BY <1>p DEF Residue
<1>12. C[q] = M[y] /\ Residue(0, y, P)
  <2> HIDE DEF C
  <2>1. PICK at : BlocksAt(at, 0, P) /\ BlocksFrom(C, <<>>, in, at, secret, limit, P)
    BY LoopGoesOn DEF C
  <2> HIDE DEF in
  <2>2. BlocksFrom(C, M[0], in, at, secret, limit, P)
    BY <1>10, <2>1
  <2>3. q * P <= k
    BY <1>4
  <2>4. C[q] = M[0 + q * P] /\ Residue(0, 0 + q * P, P)
    BY <1>9, <1>11, <2>1, <2>2, <2>3, BlocksMixed
  <2>5. 0 + q * P = y
    BY <1>4
  <2> QED
    BY <2>4, <2>5
<1>13. PICK p \in Nat, len \in Nat : p = 64 * y /\ len = 64 * s
  OBVIOUS
<1>14. Holding(f, y, in, p, s)
  <2>1. SumIs(y, 0, y) /\ StripesAt(p, 0, y) /\ y + s <= k
    BY <1>4, <1>13 DEF SumIs, StripesAt
  <2> HIDE DEF in
  <2> QED
    BY <1>9, <2>1, HoldingOn
<1>15. XXH3_accumulate(M[y], in, p, secret, 0, s) = M[k]
  <2> HIDE DEF in
  <2>1. Ahead(f, P, y, 0, 0, in, p, len)
    BY <1>12, <1>13, <1>14 DEF Ahead, Holding
  <2>2. 0 + s < P /\ 64 * s <= len /\ SumIs(k, y, s)
    BY <1>3, <1>4, <1>13 DEF SumIs
  <2> QED
    BY <2>1, <2>2, StripesMixed
<1> HIDE DEF in, M, C
<1>16. XXH3_hashLong_internal_loop(in, secret, size) = LoopOf(in, P, blockLen, secret, size)
  <2>1. StripeLen * P = blockLen
    BY <1>5 DEF StripeLen
  <2>2. XXH3_hashLong_internal_loop(in, secret, size)
           = LoopOf(in, (size - StripeLen) \div ConsumeRate,
                    StripeLen * ((size - StripeLen) \div ConsumeRate), secret, size)
    BY LoopIs, Zenon
  <2> QED
    BY <1>p, <2>1, <2>2, Zenon
<1>17. LoopOf(in, P, blockLen, secret, size) = LoopWith(C, q, blockLen, s, in, secret, size)
  <2>1. ((n - 1) - blockLen * ((n - 1) \div blockLen)) \div StripeLen = s
    BY <1>7, <1>8 DEF StripeLen
  <2> QED
    BY <1>1, <1>7, <2>1, Zenon DEF LoopOf, C
<1>18. LoopWith(C, q, blockLen, s, in, secret, size)
         = XXH3_accumulate_512(M[k], in, n - 64, secret, limit - LastAcc)
  <2>1. q * blockLen = p
    BY <1>6, <1>13
  <2>2. Len(in) - StripeLen = n - 64
    BY <1>1 DEF StripeLen
  <2> QED
    BY <1>p, <1>12, <1>15, <2>1, <2>2, Zenon DEF LoopWith
<1> QED
  BY <1>2, <1>16, <1>17, <1>18 DEF M, in

------------------------------------------------------------------------------
(* The state: which fields a step leaves alone, and what its buffer holds. *)

\* s has the fields of an XXH3_state_t.
IsState(s) ==
  s = [acc |-> s.acc, customSecret |-> s.customSecret, buffer |-> s.buffer,
       bufferedSize |-> s.bufferedSize, useSeed |-> s.useSeed,
       nbStripesSoFar |-> s.nbStripesSoFar, totalLen |-> s.totalLen,
       nbStripesPerBlock |-> s.nbStripesPerBlock, secretLimit |-> s.secretLimit,
       seed |-> s.seed, extSecret |-> s.extSecret]

\* t hashes as s does.
SameKey(s, t) ==
  /\ t.customSecret = s.customSecret /\ t.useSeed = s.useSeed /\ t.seed = s.seed
  /\ t.extSecret = s.extSecret /\ t.secretLimit = s.secretLimit
  /\ t.nbStripesPerBlock = s.nbStripesPerBlock

\* The last of k stripes mixed is at the buffer's end, what b bytes have not overwritten.
KeptAt(mem, b, f, k) ==
  k > 0 => \A i \in 1..64 : 192 + i > b => mem[192 + i] = f + 64 * (k - 1) + i

Buffer3 == [1..256 -> Int]

\* k stripes of the input are mixed and b bytes more are buffered.
Filled(s, f, k, b, secret, limit, P) ==
  /\ IsMixed(s.acc, f, secret, limit, P, k)
  /\ s.nbStripesSoFar \in Nat /\ Residue(s.nbStripesSoFar, k, P)
  /\ s.buffer \in Buffer3 /\ s.bufferedSize = b /\ b <= 256
  /\ Holds(s.buffer, 0, b, f + 64 * k) /\ KeptAt(s.buffer, b, f, k)

CopiedInto(mem, at, bytes, end, N, m) ==
  /\ Copy(mem, at, bytes) \in [1..N -> Int]
  /\ \A i \in 1..N : i > end \/ i <= at => Copy(mem, at, bytes)[i] = mem[i]
  /\ \A i \in 1..m : Copy(mem, at, bytes)[at + i] = bytes[i]

LEMMA CopyKeeps ==
  ASSUME NEW N \in Nat, NEW mem \in [1..N -> Int], NEW at \in Nat, NEW m \in Nat,
         NEW end \in Nat, SumIs(end, at, m), end <= N, NEW bytes \in [1..m -> Int]
  PROVE  CopiedInto(mem, at, bytes, end, N, m)
<1>0. end = at + m
  BY DEF SumIs
<1>1. Len(bytes) = m /\ Len(mem) = N
  BY SeqOfFunction
<1> DEFINE copy == [i \in 1..N |-> IF i \in at + 1 .. at + m THEN bytes[i - at] ELSE mem[i]]
<1>2. Copy(mem, at, bytes) = copy
  BY <1>1 DEF Copy
<1>3. ASSUME NEW i \in 1..N PROVE copy[i] \in Int
  <2>1. i \in at + 1 .. at + m => i - at \in 1..m
    OBVIOUS
  <2> QED
    BY <1>0, <2>1
<1>4. \A i \in 1..N : i > end \/ i <= at => copy[i] = mem[i]
  BY <1>0
<1>5. ASSUME NEW i \in 1..m PROVE copy[at + i] = bytes[i]
  <2>1. at + i \in 1..N /\ at + i \in at + 1 .. at + m /\ (at + i) - at = i
    BY <1>0
  <2> QED
    BY <2>1
<1>6. copy \in [1..N -> Int]
  BY <1>3
<1> HIDE DEF copy
<1> QED
  BY <1>2, <1>4, <1>5, <1>6 DEF CopiedInto

BufferCopied(mem, at, bytes, end, m) ==
  /\ Copy(mem, at, bytes) \in Buffer3
  /\ \A i \in 1..256 : i > end \/ i <= at => Copy(mem, at, bytes)[i] = mem[i]
  /\ \A i \in 1..m : Copy(mem, at, bytes)[at + i] = bytes[i]

LEMMA BufferCopy ==
  ASSUME NEW mem \in Buffer3, NEW at \in Nat, NEW m \in Nat,
         NEW end \in Nat, SumIs(end, at, m), end <= 256, NEW bytes \in [1..m -> Int]
  PROVE  BufferCopied(mem, at, bytes, end, m)
<1>1. PICK N \in Nat : N = 256
  OBVIOUS
<1>2. mem \in [1..N -> Int] /\ end <= N
  BY <1>1 DEF Buffer3
<1>3. CopiedInto(mem, at, bytes, end, N, m)
  BY <1>2, CopyKeeps
<1> QED
  BY <1>1, <1>3 DEF CopiedInto, BufferCopied, Buffer3

\* The fields Buffered changes.
BufferedInto(s, t, piece, m) ==
  /\ IsState(t) /\ SameKey(s, t) /\ t.totalLen = s.totalLen
  /\ t.acc = s.acc /\ t.nbStripesSoFar = s.nbStripesSoFar
  /\ t.buffer = Copy(s.buffer, s.bufferedSize, piece)
  /\ t.bufferedSize = s.bufferedSize + m

LEMMA BufferedIs ==
  ASSUME NEW s, IsState(s), NEW piece
  PROVE  BufferedInto(s, Buffered(s, piece), piece, Len(piece))
<1>1. PICK v, w, t : /\ v = Copy(s.buffer, s.bufferedSize, piece)
                     /\ w = s.bufferedSize + Len(piece)
                     /\ t = [s EXCEPT !.buffer = v, !.bufferedSize = w]
  OBVIOUS
<1>2. t = Buffered(s, piece)
  BY <1>1, Zenon DEF Buffered
<1>3. /\ IsState(t) /\ SameKey(s, t) /\ t.totalLen = s.totalLen
      /\ t.acc = s.acc /\ t.nbStripesSoFar = s.nbStripesSoFar
      /\ t.buffer = v /\ t.bufferedSize = w
  <2>1. t = [s EXCEPT !.buffer = v, !.bufferedSize = w]
    BY <1>1
  <2> QED
    BY <2>1 DEF IsState, SameKey
<1> QED
  BY <1>1, <1>2, <1>3, Zenon DEF BufferedInto

\* The byte that follows k stripes and b bytes.
NextByte(first, f, k, b) == first = f + 64 * k + b

LEMMA BufferedFills ==
  ASSUME NEW s, NEW f \in Nat, NEW k \in Nat, NEW b \in Nat, NEW secret, NEW limit, NEW P,
         IsState(s), Filled(s, f, k, b, secret, limit, P),
         NEW m \in Nat, NEW piece \in [1..m -> Int], NEW first \in Nat, NextByte(first, f, k, b),
         Holds(piece, 0, m, first), NEW c \in Nat, SumIs(c, b, m), c <= 256
  PROVE  /\ IsState(Buffered(s, piece)) /\ SameKey(s, Buffered(s, piece))
         /\ Buffered(s, piece).totalLen = s.totalLen
         /\ Filled(Buffered(s, piece), f, k, c, secret, limit, P)
<1>0. Len(piece) = m /\ c = b + m
  BY SeqOfFunction DEF SumIs
<1>1. PICK t : t = Buffered(s, piece)
  OBVIOUS
<1>2. BufferedInto(s, t, piece, m)
  <2>1. BufferedInto(s, Buffered(s, piece), piece, Len(piece))
    BY BufferedIs
  <2> QED
    BY <1>0, <1>1, <2>1
<1>3. PICK mem \in Buffer3 : mem = s.buffer
  BY DEF Filled
<1>4. s.bufferedSize = b /\ Holds(mem, 0, b, f + 64 * k) /\ KeptAt(mem, b, f, k)
  BY <1>3 DEF Filled
<1>5. BufferCopied(mem, b, piece, c, m)
  BY BufferCopy
<1>6. PICK new \in Buffer3 :
        /\ new = Copy(mem, b, piece)
        /\ \A i \in 1..256 : i > c \/ i <= b => new[i] = mem[i]
        /\ \A i \in 1..m : new[b + i] = piece[i]
  BY <1>5 DEF BufferCopied
<1>7. Holds(new, 0, c, f + 64 * k)
  <2>1. ASSUME NEW i \in 1..c PROVE new[0 + i] = f + 64 * k + i
    <3>1. CASE i <= b
      <4>1. i \in 1..b /\ 0 + i = i /\ i \in 1..256
        BY <1>0, <3>1
      <4>2. mem[i] = f + 64 * k + i
        BY <1>4, <4>1 DEF Holds
      <4> QED
        BY <1>6, <3>1, <4>1, <4>2
    <3>2. CASE i > b
      <4>1. i - b \in 1..m /\ 0 + (i - b) = i - b /\ b + (i - b) = i /\ 0 + i = i
        BY <1>0, <3>2
      <4>2. piece[i - b] = first + (i - b)
        BY <4>1 DEF Holds
      <4>3. new[i] = piece[i - b]
        BY <1>6, <4>1
      <4> QED
        BY <4>1, <4>2, <4>3 DEF NextByte
    <3> QED
      BY <3>1, <3>2
  <2> QED
    BY <2>1 DEF Holds
<1>8. KeptAt(new, c, f, k)
  <2>1. ASSUME k > 0, NEW i \in 1..64, 192 + i > c
        PROVE  new[192 + i] = f + 64 * (k - 1) + i
    <3>1. 192 + i \in 1..256 /\ 192 + i > b
      BY <1>0, <2>1
    <3>2. mem[192 + i] = f + 64 * (k - 1) + i
      BY <1>4, <2>1, <3>1 DEF KeptAt
    <3> QED
      BY <1>6, <2>1, <3>1, <3>2
  <2> QED
    BY <2>1 DEF KeptAt
<1> QED
  BY <1>0, <1>1, <1>2, <1>3, <1>4, <1>6, <1>7, <1>8 DEF Filled, BufferedInto

------------------------------------------------------------------------------
(* The parts of XXH3_update: fill the buffer, consume it, consume the input,
   keep the tail. *)

\* How s mixes.
Setup(s, secret, limit, P) ==
  SecretOf(s) = secret /\ s.secretLimit = limit /\ s.nbStripesPerBlock = P

\* t is s with other bytes mixed and buffered.
Advanced(s, t, acc, soFar, buffer, b) ==
  /\ IsState(t) /\ SameKey(s, t) /\ t.totalLen = s.totalLen
  /\ t.acc = acc /\ t.nbStripesSoFar = soFar /\ t.buffer = buffer /\ t.bufferedSize = b

LEMMA FlushedIs ==
  ASSUME NEW s, IsState(s), NEW full, NEW secret, NEW limit, NEW P, Setup(s, secret, limit, P),
         NEW c, c = XXH3_consumeStripes(s.acc, s.nbStripesSoFar, P, full, 0, 4, secret, limit)
  PROVE  Advanced(s, Flushed(s, full), c.acc, c.soFar, full, 0)
<1>1. BufferSize \div StripeLen = 4
  BY DEF BufferSize, StripeLen
<1>2. PICK v, w, t : /\ v = c.acc /\ w = c.soFar
                     /\ t = [s EXCEPT !.acc = v, !.nbStripesSoFar = w, !.buffer = full,
                                      !.bufferedSize = 0]
  OBVIOUS
<1>3. t = Flushed(s, full)
  BY <1>1, <1>2, Zenon DEF Flushed, Setup
<1>4. Advanced(s, t, v, w, full, 0)
  <2>1. t = [s EXCEPT !.acc = v, !.nbStripesSoFar = w, !.buffer = full, !.bufferedSize = 0]
    BY <1>2
  <2> QED
    BY <2>1 DEF Advanced, IsState, SameKey
<1> QED
  BY <1>2, <1>3, <1>4, Zenon

LEMMA DirectIs ==
  ASSUME NEW s, IsState(s), NEW input, NEW n, n = (Len(input) - 1) \div StripeLen,
         NEW secret, NEW limit, NEW P, Setup(s, secret, limit, P),
         NEW c, c = XXH3_consumeStripes(s.acc, s.nbStripesSoFar, P, input, 0, n, secret, limit)
  PROVE  Advanced(s, Direct(s, input), c.acc, c.soFar,
                  KeptStripe(s, Read(input, 0, StripeLen * n)), s.bufferedSize)
<1>1. PICK v, w, new, t :
        /\ v = c.acc /\ w = c.soFar /\ new = KeptStripe(s, Read(input, 0, StripeLen * n))
        /\ t = [s EXCEPT !.acc = v, !.nbStripesSoFar = w, !.buffer = new]
  OBVIOUS
<1>2. t = Direct(s, input)
  BY <1>1, Zenon DEF Direct, Setup
<1>3. Advanced(s, t, v, w, new, s.bufferedSize)
  <2>1. t = [s EXCEPT !.acc = v, !.nbStripesSoFar = w, !.buffer = new]
    BY <1>1
  <2> QED
    BY <2>1 DEF Advanced, IsState, SameKey
<1> QED
  BY <1>1, <1>2, <1>3, Zenon

\* t goes on from s.
GoesOn(s, t) == IsState(t) /\ SameKey(s, t) /\ t.totalLen = s.totalLen

LEMMA HoldingAll ==
  ASSUME NEW f \in Nat, NEW k \in Nat, NEW mem, NEW len \in Nat, Holds(mem, 0, len, f + 64 * k),
         NEW n \in Nat, 64 * n <= len
  PROVE  Holding(f, k, mem, 0, n)
<1>1. \A j \in 1..64 * n : j \in 1..len
  OBVIOUS
<1> QED
  BY <1>1 DEF Holding, Holds

LEMMA FlushedFills ==
  ASSUME NEW s, NEW f \in Nat, NEW k \in Nat, NEW b, NEW secret, NEW limit \in Nat, NEW P \in Nat,
         IsState(s), Setup(s, secret, limit, P), Filled(s, f, k, b, secret, limit, P),
         NEW full \in Buffer3, Holds(full, 0, 256, f + 64 * k),
         NEW t \in Nat, SumIs(t, k, 4)
  PROVE  GoesOn(s, Flushed(s, full)) /\ Filled(Flushed(s, full), f, t, 0, secret, limit, P)
<1>0. PICK acc : acc = s.acc
  OBVIOUS
<1>1. PICK r \in Nat : acc = s.acc /\ r = s.nbStripesSoFar
  BY <1>0 DEF Filled
<1>2. IsMixed(acc, f, secret, limit, P, k) /\ Residue(r, k, P)
  BY <1>1 DEF Filled
<1>3. Holding(f, k, full, 0, 4)
  BY HoldingAll
<1>4. PICK x \in Nat :
        /\ Residue(x, t, P)
        /\ XXH3_consumeStripes(acc, r, P, full, 0, 4, secret, limit)
             = [acc |-> Mixed(f, secret, limit, P)[t], soFar |-> x]
  <2>1. ConsumesTo(acc, r, P, full, 0, 4, secret, limit, f, t)
    BY <1>2, <1>3, StripesConsumed
  <2> QED
    BY <2>1 DEF ConsumesTo
<1>5. PICK M : M = Mixed(f, secret, limit, P)[t]
  OBVIOUS
<1>6. Advanced(s, Flushed(s, full), M, x, full, 0)
  <2>1. PICK c : /\ c = XXH3_consumeStripes(s.acc, s.nbStripesSoFar, P, full, 0, 4, secret, limit)
                 /\ c = [acc |-> M, soFar |-> x]
    BY <1>1, <1>4, <1>5
  <2>2. Advanced(s, Flushed(s, full), c.acc, c.soFar, full, 0)
    <3>1. c = XXH3_consumeStripes(s.acc, s.nbStripesSoFar, P, full, 0, 4, secret, limit)
      BY <2>1
    <3> QED
      BY <3>1, FlushedIs, Zenon
  <2>3. c.acc = M /\ c.soFar = x
    BY <2>1
  <2> QED
    BY <2>2, <2>3, Zenon
<1>7. Holds(full, 0, 0, f + 64 * t)
  BY DEF Holds
<1>8. KeptAt(full, 0, f, t)
  <2>1. ASSUME NEW i \in 1..64 PROVE full[192 + i] = f + 64 * (t - 1) + i
    <3>1. 192 + i \in 1..256 /\ 0 + (192 + i) = 192 + i
      OBVIOUS
    <3>2. full[192 + i] = f + 64 * k + (192 + i)
      BY <3>1 DEF Holds
    <3>3. f + 64 * k + (192 + i) = f + 64 * (t - 1) + i
      BY DEF SumIs
    <3> QED
      BY <3>2, <3>3
  <2> QED
    BY <2>1 DEF KeptAt
<1>9. IsMixed(M, f, secret, limit, P, t)
  BY <1>5 DEF IsMixed
<1> QED
  BY <1>4, <1>6, <1>7, <1>8, <1>9 DEF GoesOn, Advanced, Filled

LEMMA DirectFills ==
  ASSUME NEW s, NEW f \in Nat, NEW k \in Nat, NEW secret, NEW limit \in Nat, NEW P \in Nat,
         IsState(s), Setup(s, secret, limit, P), Filled(s, f, k, 0, secret, limit, P),
         NEW m \in Nat, m > 256, NEW input \in [1..m -> Int], Holds(input, 0, m, f + 64 * k),
         NEW n \in Nat, n = (m - 1) \div 64, NEW t \in Nat, SumIs(t, k, n)
  PROVE  GoesOn(s, Direct(s, input)) /\ Filled(Direct(s, input), f, t, 0, secret, limit, P)
<1>0. Len(input) = m
  BY SeqOfFunction
<1>a. PICK acc : acc = s.acc
  OBVIOUS
<1>1. PICK r \in Nat, mem \in Buffer3 :
        acc = s.acc /\ r = s.nbStripesSoFar /\ mem = s.buffer
  BY <1>a DEF Filled
<1>2. IsMixed(acc, f, secret, limit, P, k) /\ Residue(r, k, P) /\ s.bufferedSize = 0
  BY <1>1 DEF Filled
<1>3. 64 * n <= m - 1 /\ n > 0
  OBVIOUS
<1>4. Holding(f, k, input, 0, n)
  BY <1>3, HoldingAll
<1>5. PICK x \in Nat :
        /\ Residue(x, t, P)
        /\ XXH3_consumeStripes(acc, r, P, input, 0, n, secret, limit)
             = [acc |-> Mixed(f, secret, limit, P)[t], soFar |-> x]
  <2>1. ConsumesTo(acc, r, P, input, 0, n, secret, limit, f, t)
    BY <1>2, <1>4, StripesConsumed
  <2> QED
    BY <2>1 DEF ConsumesTo
<1>6. PICK M, new : /\ M = Mixed(f, secret, limit, P)[t]
                    /\ new = KeptStripe(s, Read(input, 0, StripeLen * n))
  OBVIOUS
<1>7. Advanced(s, Direct(s, input), M, x, new, 0)
  <2>1. PICK c : /\ c = XXH3_consumeStripes(s.acc, s.nbStripesSoFar, P, input, 0, n, secret, limit)
                 /\ c = [acc |-> M, soFar |-> x]
    BY <1>1, <1>5, <1>6
  <2>2. Advanced(s, Direct(s, input), c.acc, c.soFar,
                 KeptStripe(s, Read(input, 0, StripeLen * n)), s.bufferedSize)
    <3>1. c = XXH3_consumeStripes(s.acc, s.nbStripesSoFar, P, input, 0, n, secret, limit)
      BY <2>1
    <3>2. n = (Len(input) - 1) \div StripeLen
      BY <1>0 DEF StripeLen
    <3> QED
      BY <3>1, <3>2, DirectIs, Zenon
  <2>3. c.acc = M /\ c.soFar = x
    BY <2>1
  <2> QED
    BY <1>2, <1>6, <2>2, <2>3, Zenon
<1>8. PICK q \in Nat, g \in Nat : q = 64 * n - 64 /\ g = f + 64 * k
  BY <1>3
<1> DEFINE whole == Read(input, 0, 64 * n)
           last  == Read(whole, q, 64)
<1>9. last \in [1..64 -> Int] /\ \A i \in 1..64 : last[i] = f + 64 * (t - 1) + i
  <2>1. whole = [i \in 1..64 * n |-> input[0 + i]]
    BY DEF Read
  <2>2. ASSUME NEW i \in 1..64 PROVE whole[q + i] = f + 64 * (t - 1) + i
    <3>1. q + i \in 1..64 * n /\ q + i \in 1..m /\ 0 + (q + i) = q + i
      BY <1>3, <1>8
    <3>2. whole[q + i] = input[q + i]
      <4> HIDE DEF whole
      <4> QED
        BY <2>1, <3>1
    <3>3. input[q + i] = f + 64 * k + (q + i)
      BY <3>1 DEF Holds
    <3>4. f + 64 * k + (q + i) = f + 64 * (t - 1) + i
      BY <1>8 DEF SumIs
    <3> QED
      BY <3>2, <3>3, <3>4
  <2> HIDE DEF whole
  <2>3. last = [i \in 1..64 |-> whole[q + i]]
    BY DEF Read
  <2>4. \A i \in 1..64 : f + 64 * (t - 1) + i \in Int
    OBVIOUS
  <2> HIDE DEF last
  <2> QED
    BY <2>2, <2>3, <2>4
<1>10. new = Copy(mem, 192, last)
  <2>1. Len(whole) = 64 * n
    <3>1. whole \in [1..64 * n -> Int]
      <4>1. \A i \in 1..64 * n : i \in 1..m /\ 0 + i = i
        BY <1>3
      <4> QED
        BY <4>1 DEF Read
    <3>2. 64 * n \in Nat
      OBVIOUS
    <3> HIDE DEF whole
    <3> QED
      BY <3>1, <3>2, SeqOfFunction
  <2> HIDE DEF whole
  <2>2. Len(whole) - StripeLen = q /\ BufferSize - StripeLen = 192
    BY <1>8, <2>1 DEF StripeLen, BufferSize
  <2>3. new = KeptStripe(s, whole)
    BY <1>6 DEF whole, StripeLen
  <2>4. StripeLen = 64
    BY DEF StripeLen
  <2> QED
    BY <1>1, <2>2, <2>3, <2>4, Zenon DEF KeptStripe
<1> HIDE DEF last
<1>11. /\ new \in Buffer3
       /\ \A i \in 1..64 : new[192 + i] = f + 64 * (t - 1) + i
  <2>1. BufferCopied(mem, 192, last, 256, 64)
    <3>1. PICK at \in Nat, size \in Nat, end \in Nat : at = 192 /\ size = 64 /\ end = 256
      OBVIOUS
    <3>2. SumIs(end, at, size) /\ end <= 256 /\ last \in [1..size -> Int]
      BY <1>9, <3>1 DEF SumIs
    <3>3. BufferCopied(mem, at, last, end, size)
      BY <3>2, BufferCopy
    <3> QED
      BY <3>1, <3>3
  <2> QED
    BY <1>9, <1>10, <2>1 DEF BufferCopied
<1>12. Holds(new, 0, 0, f + 64 * t)
  BY DEF Holds
<1>13. KeptAt(new, 0, f, t)
  BY <1>11 DEF KeptAt
<1>14. IsMixed(M, f, secret, limit, P, t)
  BY <1>6 DEF IsMixed
<1> QED
  BY <1>5, <1>7, <1>11, <1>12, <1>13, <1>14 DEF GoesOn, Advanced, Filled

------------------------------------------------------------------------------
(* XXH3_update, whole. *)

\* n bytes are k stripes and b bytes, as the state divides them.
Cut(n, k, b) == n = 64 * k + b /\ (n > 0 => b > 0) /\ (k > 0 => n > 256)

\* s has been given the n bytes after position f.
Streamed(s, f, n, secret, limit, P) ==
  s.totalLen = n /\ \E k, b \in Nat : Cut(n, k, b) /\ Filled(s, f, k, b, secret, limit, P)

LEMMA SameSetup ==
  ASSUME NEW s, NEW t, SameKey(s, t), NEW secret, NEW limit, NEW P, Setup(s, secret, limit, P)
  PROVE  Setup(t, secret, limit, P)
BY DEF SameKey, Setup, SecretOf

LEMMA SameKeyOn ==
  ASSUME NEW s, NEW t, NEW u, SameKey(s, t), SameKey(t, u)
  PROVE  SameKey(s, u)
BY DEF SameKey

\* What is left of a piece once the buffer is full, and what of it is mixed at once.
LeftOf(s, piece) ==
  LET first == IF s.bufferedSize > 0 THEN BufferSize - s.bufferedSize ELSE 0
  IN  Read(piece, first, Len(piece) - first)
BegunOf(s, piece) ==
  IF s.bufferedSize > 0
  THEN Flushed(s, Copy(s.buffer, s.bufferedSize, Read(piece, 0, BufferSize - s.bufferedSize)))
  ELSE s
DoneOf(input) ==
  IF Len(input) > BufferSize THEN StripeLen * ((Len(input) - 1) \div StripeLen) ELSE 0
EndedBy(begun, input) ==
  Buffered(IF Len(input) > BufferSize THEN Direct(begun, input) ELSE begun,
           Read(input, DoneOf(input), Len(input) - DoneOf(input)))

Longer(state, piece) == [state EXCEPT !.totalLen = @ + Len(piece)]

LEMMA UpdateIs ==
  ASSUME NEW state, NEW piece
  PROVE  XXH3_update(state, piece)
           = IF Len(piece) <= BufferSize - Longer(state, piece).bufferedSize
             THEN Buffered(Longer(state, piece), piece)
             ELSE EndedBy(BegunOf(Longer(state, piece), piece), LeftOf(Longer(state, piece), piece))
BY Zenon DEF XXH3_update, EndedBy, BegunOf, LeftOf, DoneOf, Longer

LEMMA GoesOnOn ==
  ASSUME NEW s, NEW t, NEW u, GoesOn(s, t), GoesOn(t, u)
  PROVE  GoesOn(s, u)
BY SameKeyOn DEF GoesOn

\* What is left of a piece once the buffer is full and mixed.
Spilled(s, begun, f, k, b, m, input, secret, limit, P) ==
  \E j, l \in Nat :
    /\ 64 * k + b + m = 64 * j + l /\ l > 0
    /\ GoesOn(s, begun) /\ Filled(begun, f, j, 0, secret, limit, P)
    /\ input \in [1..l -> Int] /\ Holds(input, 0, l, f + 64 * j)

LEMMA BegunFills ==
  ASSUME NEW s, NEW f \in Nat, NEW k \in Nat, NEW b \in Nat, NEW secret,
         NEW limit \in Nat, NEW P \in Nat,
         IsState(s), Setup(s, secret, limit, P), Filled(s, f, k, b, secret, limit, P),
         NEW m \in Nat, NEW piece \in [1..m -> Int], NEW first \in Nat, NextByte(first, f, k, b),
         Holds(piece, 0, m, first), m > 256 - b
  PROVE  Spilled(s, BegunOf(s, piece), f, k, b, m, LeftOf(s, piece), secret, limit, P)
<1>0. b <= 256 /\ s.bufferedSize = b /\ Len(piece) = m /\ first = f + 64 * k + b
  BY SeqOfFunction DEF Filled, NextByte
<1>1. CASE b = 0
  <2>1. BegunOf(s, piece) = s /\ LeftOf(s, piece) = Read(piece, 0, m)
    BY <1>0, <1>1 DEF BegunOf, LeftOf
  <2>2. PICK g \in Nat : g = first + 0 /\ g = f + 64 * k
    BY <1>0, <1>1
  <2>3. Read(piece, 0, m) \in [1..m -> Int] /\ Holds(Read(piece, 0, m), 0, m, g)
    <3>1. 0 + m <= m /\ g = first + 0
      BY <2>2
    <3> QED
      BY <3>1, ReadHolds
  <2>4. GoesOn(s, s)
    BY DEF GoesOn, SameKey
  <2>5. Filled(s, f, k, 0, secret, limit, P)
    BY <1>1
  <2>6. 64 * k + b + m = 64 * k + m /\ m > 0
    BY <1>1
  <2> QED
    BY <2>1, <2>2, <2>3, <2>4, <2>5, <2>6 DEF Spilled
<1>2. CASE b > 0
  <2>1. PICK room \in Nat, l \in Nat : room = 256 - b /\ l = m - room /\ l > 0
    BY <1>0
  <2>2. PICK j \in Nat : j = k + 4
    OBVIOUS
  <2>3. PICK mem \in Buffer3 : mem = s.buffer /\ Holds(mem, 0, b, f + 64 * k)
    BY <1>0 DEF Filled
  <2> DEFINE head == Read(piece, 0, room)
             full == Copy(mem, b, head)
             input == Read(piece, room, l)
  <2>4. head \in [1..room -> Int] /\ Holds(head, 0, room, first)
    <3>1. 0 + room <= m /\ first = first + 0
      BY <2>1
    <3> QED
      BY <3>1, ReadHolds
  <2>5. PICK g \in Nat : g = first + room /\ g = f + 64 * j
    BY <1>0, <2>1, <2>2
  <2>6. input \in [1..l -> Int] /\ Holds(input, 0, l, g)
    <3>1. room + l <= m
      BY <2>1
    <3> QED
      BY <2>5, <3>1, ReadHolds
  <2> HIDE DEF head, input
  <2>7. full \in Buffer3 /\ Holds(full, 0, 256, f + 64 * k)
    <3>1. PICK N \in Nat, at \in Nat : N = 256 /\ at = f + 64 * k
      OBVIOUS
    <3>2. mem \in [1..N -> Int] /\ b + room <= N /\ b + room = 256 /\ first = at + b
      BY <1>0, <2>1, <3>1 DEF Buffer3
    <3>3. Holds(mem, 0, b, at)
      BY <2>3, <3>1
    <3>4. full \in [1..N -> Int] /\ Holds(full, 0, b + room, at)
      BY <2>4, <3>2, <3>3, CopyHolds
    <3> HIDE DEF full
    <3> QED
      BY <3>1, <3>2, <3>4 DEF Buffer3
  <2>8. BegunOf(s, piece) = Flushed(s, full) /\ LeftOf(s, piece) = input
    <3>1. BufferSize - s.bufferedSize = room /\ Len(piece) - room = l /\ s.bufferedSize = b
      BY <1>0, <2>1 DEF BufferSize
    <3> QED
      BY <1>2, <2>3, <3>1, Zenon DEF BegunOf, LeftOf, head, input
  <2> HIDE DEF full
  <2>9. GoesOn(s, Flushed(s, full)) /\ Filled(Flushed(s, full), f, j, 0, secret, limit, P)
    <3>1. SumIs(j, k, 4)
      BY <2>2 DEF SumIs
    <3> QED
      BY <2>7, <3>1, FlushedFills
  <2>10. 64 * k + b + m = 64 * j + l
    BY <2>1, <2>2
  <2> QED
    <3>1. GoesOn(s, BegunOf(s, piece)) /\ Filled(BegunOf(s, piece), f, j, 0, secret, limit, P)
      BY <2>8, <2>9
    <3>2. Holds(LeftOf(s, piece), 0, l, f + 64 * j) /\ LeftOf(s, piece) \in [1..l -> Int]
      BY <2>5, <2>6, <2>8
    <3>3. l > 0
      BY <2>1
    <3> QED
      BY <2>10, <3>1, <3>2, <3>3, Zenon DEF Spilled
<1> QED
  BY <1>1, <1>2

\* The state after the rest of the piece.
Ends(s, t, f, n, secret, limit, P) ==
  \E k, b \in Nat : n = 64 * k + b /\ b > 0 /\ GoesOn(s, t) /\ Filled(t, f, k, b, secret, limit, P)

LEMMA EndedFills ==
  ASSUME NEW s, NEW f \in Nat, NEW k \in Nat, NEW secret, NEW limit \in Nat, NEW P \in Nat,
         IsState(s), Setup(s, secret, limit, P), Filled(s, f, k, 0, secret, limit, P),
         NEW l \in Nat, l > 0, NEW input \in [1..l -> Int], Holds(input, 0, l, f + 64 * k)
  PROVE  Ends(s, EndedBy(s, input), f, 64 * k + l, secret, limit, P)
<1>0. Len(input) = l
  BY SeqOfFunction
<1>1. CASE l > 256
  <2>1. PICK n \in Nat, t \in Nat : n = (l - 1) \div 64 /\ t = k + n
    BY <1>1
  <2>2. PICK c \in Nat, done \in Nat : done = 64 * n /\ l = done + c /\ c > 0 /\ c <= 64
    BY <2>1
  <2>3. PICK s2 : s2 = Direct(s, input)
    OBVIOUS
  <2>4. GoesOn(s, s2) /\ Filled(s2, f, t, 0, secret, limit, P)
    <3>1. SumIs(t, k, n)
      BY <2>1 DEF SumIs
    <3>2. n = (l - 1) \div 64
      BY <2>1
    <3> QED
      BY <1>1, <2>3, <3>1, <3>2, DirectFills
  <2>5. PICK g \in Nat, h \in Nat : g = f + 64 * k /\ h = g + done /\ h = f + 64 * t
    BY <2>1, <2>2
  <2> DEFINE rest == Read(input, done, c)
  <2>6. rest \in [1..c -> Int] /\ Holds(rest, 0, c, h)
    <3>1. Holds(input, 0, l, g) /\ done + c <= l
      BY <2>2, <2>5
    <3> QED
      BY <2>5, <3>1, ReadHolds
  <2>7. EndedBy(s, input) = Buffered(s2, rest)
    <3>1. Len(input) > BufferSize /\ DoneOf(input) = done /\ Len(input) - done = c
      BY <1>0, <1>1, <2>1, <2>2 DEF BufferSize, DoneOf, StripeLen
    <3> QED
      BY <2>3, <3>1, Zenon DEF EndedBy
  <2> HIDE DEF rest
  <2>8. GoesOn(s2, Buffered(s2, rest)) /\ Filled(Buffered(s2, rest), f, t, c, secret, limit, P)
    <3>1. IsState(s2)
      BY <2>4 DEF GoesOn
    <3>2. NextByte(h, f, t, 0) /\ SumIs(c, 0, c) /\ c <= 256
      BY <2>2, <2>5 DEF NextByte, SumIs
    <3>3. Filled(s2, f, t, 0, secret, limit, P)
      BY <2>4
    <3>4. /\ IsState(Buffered(s2, rest)) /\ SameKey(s2, Buffered(s2, rest))
          /\ Buffered(s2, rest).totalLen = s2.totalLen
          /\ Filled(Buffered(s2, rest), f, t, c, secret, limit, P)
      BY <2>6, <3>1, <3>2, <3>3, BufferedFills
    <3> QED
      BY <3>4 DEF GoesOn
  <2>9. GoesOn(s, Buffered(s2, rest))
    BY <2>4, <2>8, GoesOnOn
  <2>10. 64 * k + l = 64 * t + c
    BY <2>1, <2>2
  <2> QED
    BY <2>2, <2>7, <2>8, <2>9, <2>10 DEF Ends
<1>2. CASE l <= 256
  <2> DEFINE rest == Read(input, 0, l)
  <2>1. PICK g \in Nat : g = f + 64 * k
    OBVIOUS
  <2>2. rest \in [1..l -> Int] /\ Holds(rest, 0, l, g)
    <3>1. Holds(input, 0, l, g) /\ 0 + l <= l /\ g = g + 0
      BY <2>1
    <3> QED
      BY <3>1, ReadHolds
  <2>3. EndedBy(s, input) = Buffered(s, rest)
    <3>1. ~(Len(input) > BufferSize) /\ DoneOf(input) = 0 /\ Len(input) - 0 = l
      BY <1>0, <1>2 DEF BufferSize, DoneOf
    <3> QED
      BY <3>1, Zenon DEF EndedBy
  <2> HIDE DEF rest
  <2>4. GoesOn(s, Buffered(s, rest)) /\ Filled(Buffered(s, rest), f, k, l, secret, limit, P)
    <3>1. NextByte(g, f, k, 0) /\ SumIs(l, 0, l)
      BY <2>1 DEF NextByte, SumIs
    <3> QED
      BY <1>2, <2>2, <3>1, BufferedFills DEF GoesOn
  <2> QED
    BY <2>3, <2>4 DEF Ends
<1> QED
  BY <1>1, <1>2

\* An update brings the next m bytes.
LEMMA UpdateStreams ==
  ASSUME NEW s, NEW f \in Nat, NEW n \in Nat, NEW secret, NEW limit \in Nat, NEW P \in Nat,
         IsState(s), Setup(s, secret, limit, P), Streamed(s, f, n, secret, limit, P),
         NEW m \in Nat, NEW total \in Nat, SumIs(total, n, m)
  PROVE  /\ IsState(XXH3_update(s, Input(f + n, m))) /\ SameKey(s, XXH3_update(s, Input(f + n, m)))
         /\ Streamed(XXH3_update(s, Input(f + n, m)), f, total, secret, limit, P)
<1>0. total = n + m
  BY DEF SumIs
<1>1. PICK first \in Nat : first = f + n
  OBVIOUS
<1>2. PICK piece : piece = Input(f + n, m)
  OBVIOUS
<1>3. piece \in [1..m -> Int] /\ Len(piece) = m /\ Holds(piece, 0, m, first)
  BY <1>1, <1>2, InputHolds
<1>4. PICK k \in Nat, b \in Nat : Cut(n, k, b) /\ Filled(s, f, k, b, secret, limit, P)
  BY DEF Streamed
<1>5. n = 64 * k + b /\ (n > 0 => b > 0) /\ (k > 0 => n > 256) /\ b <= 256
  BY <1>4 DEF Cut, Filled
<1>6. PICK s1 : s1 = Longer(s, piece)
  OBVIOUS
<1>7. /\ IsState(s1) /\ SameKey(s, s1) /\ s1.totalLen = total
      /\ s1.bufferedSize = b /\ Filled(s1, f, k, b, secret, limit, P)
  <2>1. PICK w : w = s.totalLen + m /\ w = total
    BY <1>0 DEF Streamed
  <2>2. s1 = [s EXCEPT !.totalLen = w]
    BY <1>3, <1>6, <2>1, Zenon DEF Longer
  <2>3. /\ IsState(s1) /\ SameKey(s, s1) /\ s1.totalLen = w
        /\ s1.acc = s.acc /\ s1.nbStripesSoFar = s.nbStripesSoFar /\ s1.buffer = s.buffer
        /\ s1.bufferedSize = s.bufferedSize
    BY <2>2 DEF IsState, SameKey
  <2> QED
    BY <1>4, <2>1, <2>3 DEF Filled
<1>8. Setup(s1, secret, limit, P)
  BY <1>7, SameSetup
<1>9. NextByte(first, f, k, b)
  BY <1>1, <1>5 DEF NextByte
<1>10. CASE m <= 256 - b
  <2>1. XXH3_update(s, piece) = Buffered(s1, piece)
    <3>1. Len(piece) <= BufferSize - Longer(s, piece).bufferedSize
      BY <1>3, <1>6, <1>7, <1>10 DEF BufferSize
    <3> QED
      BY <1>6, <3>1, UpdateIs, Zenon
  <2>2. PICK c \in Nat : c = b + m /\ c <= 256
    BY <1>5, <1>10
  <2>3. SumIs(c, b, m)
    BY <2>2 DEF SumIs
  <2>4. PICK t : t = Buffered(s1, piece)
    OBVIOUS
  <2>5. /\ IsState(t) /\ SameKey(s1, t) /\ t.totalLen = s1.totalLen
        /\ Filled(t, f, k, c, secret, limit, P)
    BY <1>3, <1>7, <1>9, <2>2, <2>3, <2>4, BufferedFills
  <2>6. Cut(total, k, c)
    BY <1>0, <1>5, <2>2 DEF Cut
  <2>7. Streamed(t, f, total, secret, limit, P)
    BY <1>7, <2>5, <2>6 DEF Streamed
  <2>8. SameKey(s, t)
    BY <1>7, <2>5, SameKeyOn
  <2> QED
    BY <1>2, <2>1, <2>4, <2>5, <2>7, <2>8
<1>11. CASE ~(m <= 256 - b)
  <2>1. PICK begun, input : begun = BegunOf(s1, piece) /\ input = LeftOf(s1, piece)
    OBVIOUS
  <2>2. XXH3_update(s, piece) = EndedBy(begun, input)
    <3>1. ~(Len(piece) <= BufferSize - Longer(s, piece).bufferedSize)
      BY <1>3, <1>6, <1>7, <1>11 DEF BufferSize
    <3> QED
      BY <1>6, <2>1, <3>1, UpdateIs, Zenon
  <2>3. Spilled(s1, begun, f, k, b, m, input, secret, limit, P)
    <3>1. m > 256 - b
      BY <1>5, <1>11
    <3> QED
      BY <1>3, <1>7, <1>8, <1>9, <2>1, <3>1, BegunFills
  <2>4. PICK j \in Nat, l \in Nat :
          /\ 64 * k + b + m = 64 * j + l /\ l > 0
          /\ GoesOn(s1, begun) /\ Filled(begun, f, j, 0, secret, limit, P)
          /\ input \in [1..l -> Int] /\ Holds(input, 0, l, f + 64 * j)
    BY <2>3 DEF Spilled
  <2>5. PICK t : t = EndedBy(begun, input)
    OBVIOUS
  <2>6. Ends(begun, t, f, 64 * j + l, secret, limit, P)
    <3>1. IsState(begun) /\ Setup(begun, secret, limit, P)
      BY <1>8, <2>4, SameSetup DEF GoesOn
    <3>2. Filled(begun, f, j, 0, secret, limit, P) /\ l > 0 /\ input \in [1..l -> Int]
          /\ Holds(input, 0, l, f + 64 * j)
      BY <2>4
    <3> QED
      BY <2>5, <3>1, <3>2, EndedFills
  <2>7. PICK q \in Nat, c \in Nat :
          64 * j + l = 64 * q + c /\ c > 0 /\ GoesOn(begun, t) /\ Filled(t, f, q, c, secret, limit, P)
    BY <2>6 DEF Ends
  <2>8. GoesOn(s1, t)
    BY <2>4, <2>7, GoesOnOn
  <2>9. Cut(total, q, c)
    <3>1. total = 64 * q + c /\ total > 256
      BY <1>0, <1>5, <1>11, <2>4, <2>7
    <3> QED
      BY <2>7, <3>1 DEF Cut
  <2>10. Streamed(t, f, total, secret, limit, P)
    BY <1>7, <2>7, <2>8, <2>9 DEF Streamed, GoesOn
  <2>11. IsState(t) /\ SameKey(s, t)
    BY <1>7, <2>8, SameKeyOn DEF GoesOn
  <2> QED
    BY <1>2, <2>2, <2>5, <2>10, <2>11
<1> QED
  BY <1>10, <1>11

------------------------------------------------------------------------------
(* XXH3_digest_long: the stripes still buffered and the last one. *)

\* The last stripe of the input, wherever the state keeps it.
LEMMA LastStripeIs ==
  ASSUME NEW s, NEW f \in Nat, NEW n \in Nat, n > 64, NEW k \in Nat, NEW b \in Nat,
         NEW secret, NEW limit, NEW P, Cut(n, k, b), Filled(s, f, k, b, secret, limit, P)
  PROVE  Read(LastStripe(s), 0, 64) = Read(Input(f, n), n - 64, 64)
<1>0. n = 64 * k + b /\ s.bufferedSize = b /\ b > 0 /\ b <= 256
  BY DEF Cut, Filled
<1>1. PICK mem \in Buffer3 : mem = s.buffer /\ Holds(mem, 0, b, f + 64 * k) /\ KeptAt(mem, b, f, k)
  BY DEF Filled
<1>2. PICK last : last = LastStripe(s)
  OBVIOUS
<1>3. ASSUME NEW i \in 1..64 PROVE last[i] = f + (n - 64) + i
  <2>1. CASE b >= 64
    <3>1. PICK at \in Nat : at = b - 64
      BY <2>1
    <3>2. last = Read(mem, at, 64)
      BY <1>0, <1>1, <1>2, <2>1, <3>1 DEF LastStripe, StripeLen
    <3>3. last[i] = mem[at + i]
      BY <3>2 DEF Read
    <3>4. at + i \in 1..b /\ 0 + (at + i) = at + i
      BY <3>1
    <3>5. mem[at + i] = f + 64 * k + (at + i)
      BY <1>1, <3>4 DEF Holds
    <3> QED
      BY <1>0, <3>1, <3>3, <3>5
  <2>2. CASE b < 64
    <3>1. PICK c \in Nat, at \in Nat : c = 64 - b /\ at = 192 + b /\ k > 0
      BY <1>0, <2>2
    <3> DEFINE old == Read(mem, at, c)
               new == Read(mem, 0, b)
    <3>2. last = old \o new
      <4>1. /\ StripeLen - s.bufferedSize = c /\ BufferSize - c = at
            /\ ~(s.bufferedSize >= StripeLen)
        BY <1>0, <2>2, <3>1 DEF StripeLen, BufferSize
      <4> QED
        BY <1>0, <1>1, <1>2, <4>1, Zenon DEF LastStripe
    <3>3. old \in Seq(Int) /\ Len(old) = c /\ \A j \in 1..c : old[j] = mem[at + j]
      <4>1. \A j \in 1..c : at + j \in 1..256
        BY <3>1
      <4>2. old \in [1..c -> Int]
        BY <4>1 DEF Read, Buffer3
      <4>3. \A j \in 1..c : old[j] = mem[at + j]
        BY DEF Read
      <4> HIDE DEF old
      <4> QED
        BY <4>2, <4>3, SeqOfFunction
    <3>4. new \in Seq(Int) /\ Len(new) = b /\ \A j \in 1..b : new[j] = mem[j]
      <4>1. \A j \in 1..b : j \in 1..256 /\ 0 + j = j
        BY <1>0
      <4>2. new \in [1..b -> Int]
        BY <4>1 DEF Read, Buffer3
      <4>3. \A j \in 1..b : new[j] = mem[j]
        BY <4>1 DEF Read
      <4> HIDE DEF new
      <4> QED
        BY <4>2, <4>3, SeqOfFunction
    <3> HIDE DEF old, new
    <3>5. CASE i <= c
      <4>1. last[i] = old[i]
        BY <3>2, <3>3, <3>4, <3>5, ConcatProperties
      <4>2. i \in 1..c /\ b + i \in 1..64 /\ 192 + (b + i) = at + i /\ 192 + (b + i) > b
        BY <3>1, <3>5
      <4>3. mem[192 + (b + i)] = f + 64 * (k - 1) + (b + i)
        BY <1>1, <3>1, <4>2 DEF KeptAt
      <4>4. last[i] = mem[192 + (b + i)]
        BY <3>3, <4>1, <4>2
      <4> QED
        BY <1>0, <4>3, <4>4
    <3>6. CASE i > c
      <4>1. PICK j \in 1..b : j = i - c
        BY <3>1, <3>6
      <4>2. last[i] = new[j]
        <5>1. i \in 1..Len(old) + Len(new) /\ ~(i <= Len(old)) /\ i - Len(old) = j
          BY <3>1, <3>3, <3>4, <3>6, <4>1
        <5>2. (old \o new)[i] = new[i - Len(old)]
          BY <3>3, <3>4, <5>1, ConcatProperties
        <5> QED
          BY <3>2, <5>1, <5>2
      <4>3. mem[0 + j] = f + 64 * k + j
        BY <1>1 DEF Holds
      <4>4. 0 + j = j
        OBVIOUS
      <4> QED
        BY <1>0, <3>1, <3>4, <4>1, <4>2, <4>3, <4>4
    <3> QED
      BY <3>5, <3>6
  <2> QED
    BY <2>1, <2>2
<1>4. ASSUME NEW i \in 1..64 PROVE last[0 + i] = Input(f, n)[n - 64 + i]
  <2>1. n - 64 + i \in 1..n /\ 0 + i = i
    OBVIOUS
  <2>2. Input(f, n)[n - 64 + i] = f + (n - 64 + i)
    BY <2>1 DEF Input
  <2> QED
    BY <1>3, <2>1, <2>2
<1>5. Read(last, 0, 64) = Read(Input(f, n), n - 64, 64)
  BY <1>4 DEF Read
<1> QED
  BY <1>2, <1>5

\* What XXH3_digest_long computes of the bytes given.
LEMMA DigestLongIs ==
  ASSUME NEW s, NEW f \in Nat, NEW n \in Nat, n > 64,
         NEW secret, NEW limit \in Nat, NEW P \in Nat,
         Setup(s, secret, limit, P), Streamed(s, f, n, secret, limit, P)
  PROVE  XXH3_digest_long(s, secret)
           = XXH3_accumulate_512(Mixed(f, secret, limit, P)[(n - 1) \div 64],
                                 Input(f, n), n - 64, secret, limit - LastAcc)
<1>1. PICK k \in Nat, b \in Nat : Cut(n, k, b) /\ Filled(s, f, k, b, secret, limit, P)
  BY DEF Streamed
<1>2. n = 64 * k + b /\ s.bufferedSize = b /\ b > 0
  BY <1>1 DEF Cut, Filled
<1>3. PICK acc, mem : acc = s.acc /\ mem = s.buffer
  OBVIOUS
<1>4. PICK r \in Nat : r = s.nbStripesSoFar
  BY <1>1 DEF Filled
<1>5. /\ IsMixed(acc, f, secret, limit, P, k) /\ Residue(r, k, P)
      /\ Holds(mem, 0, b, f + 64 * k)
  BY <1>1, <1>3, <1>4 DEF Filled
<1>6. PICK m \in Nat, t \in Nat :
        /\ m = IF b >= 64 THEN (b - 1) \div 64 ELSE 0
        /\ t = k + m /\ t = (n - 1) \div 64 /\ 64 * m <= b
  <2>1. CASE b >= 64
    BY <1>2, <2>1
  <2>2. CASE b < 64
    BY <1>2, <2>2
  <2> QED
    BY <2>1, <2>2
<1>7. ConsumesTo(acc, r, P, mem, 0, m, secret, limit, f, t)
  <2>1. Holding(f, k, mem, 0, m)
    BY <1>5, <1>6, HoldingAll
  <2>2. SumIs(t, k, m)
    BY <1>6 DEF SumIs
  <2> QED
    BY <1>5, <2>1, <2>2, StripesConsumed
<1>8. PICK M : M = Mixed(f, secret, limit, P)[t]
  OBVIOUS
<1>9. PICK c : /\ c = XXH3_consumeStripes(acc, r, P, mem, 0, m, secret, limit)
               /\ c.acc = M
  BY <1>7, <1>8 DEF ConsumesTo
<1>10. XXH3_digest_long(s, secret) = XXH3_accumulate_512(c.acc, LastStripe(s), 0, secret, limit - LastAcc)
  <2>1. m = IF s.bufferedSize >= StripeLen THEN (s.bufferedSize - 1) \div StripeLen ELSE 0
    BY <1>2, <1>6 DEF StripeLen
  <2>2. s.nbStripesPerBlock = P /\ s.secretLimit = limit
    BY DEF Setup
  <2>3. c = XXH3_consumeStripes(s.acc, s.nbStripesSoFar, s.nbStripesPerBlock, s.buffer, 0,
                               m, secret, s.secretLimit)
    BY <1>3, <1>4, <1>9, <2>2, Zenon
  <2> QED
    BY <2>1, <2>2, <2>3, Zenon DEF XXH3_digest_long
<1>11. Read(LastStripe(s), 0, 64) = Read(Input(f, n), n - 64, 64)
  BY <1>1, LastStripeIs
<1>12. XXH3_accumulate_512(M, LastStripe(s), 0, secret, limit - LastAcc)
         = XXH3_accumulate_512(M, Input(f, n), n - 64, secret, limit - LastAcc)
  <2>1. StripeLen = 64
    BY DEF StripeLen
  <2> QED
    BY <1>11, <2>1, Zenon DEF XXH3_accumulate_512
<1> QED
  BY <1>6, <1>8, <1>9, <1>10, <1>12

------------------------------------------------------------------------------
(* XXH3_digest and the one call under the same key. *)

\* The digest is a hash in one call, keyed as the state is.
OneCall(bits, in, useSeed, seed, secret, size) ==
  IF Len(in) > MidSizeMax THEN XXH3_hashLong(bits, in, secret, size)
  ELSE IF useSeed THEN XXH3_withSeed(bits, in, seed)
  ELSE XXH3_withSecret(bits, in, secret, size)

LEMMA DigestIs ==
  ASSUME NEW s, NEW f \in Nat, NEW n \in Nat,
         NEW secret, NEW limit \in Nat, NEW P \in Nat, Block3(P, limit),
         Setup(s, secret, limit, P), Streamed(s, f, n, secret, limit, P),
         NEW size \in Nat, SumIs(size, limit, 64), NEW bits
  PROVE  XXH3_digest(bits, s) = OneCall(bits, Input(f, n), s.useSeed, s.seed, secret, size)
<1>1. PICK in : in = Input(f, n)
  OBVIOUS
<1>2. Len(in) = n
  BY <1>1, InputHolds
<1>3. SecretOf(s) = secret /\ s.secretLimit = limit /\ s.totalLen = n /\ limit + StripeLen = size
  BY DEF Setup, Streamed, SumIs, StripeLen
<1>4. MidSizeMax = 240
  BY DEF MidSizeMax
<1>5. CASE n > 240
  <2>1. PICK acc : acc = XXH3_digest_long(s, secret)
    OBVIOUS
  <2>2. acc = XXH3_hashLong_internal_loop(in, secret, size)
    <3>1. n > 64
      BY <1>5
    <3>2. XXH3_digest_long(s, secret)
            = XXH3_accumulate_512(Mixed(f, secret, limit, P)[(n - 1) \div 64],
                                  Input(f, n), n - 64, secret, limit - LastAcc)
      BY <3>1, DigestLongIs
    <3>3. XXH3_hashLong_internal_loop(Input(f, n), secret, size)
            = XXH3_accumulate_512(Mixed(f, secret, limit, P)[(n - 1) \div 64],
                                  Input(f, n), n - 64, secret, limit - LastAcc)
      BY <3>1, LoopMixes
    <3> QED
      BY <1>1, <2>1, <3>2, <3>3, Zenon
  <2>3. XXH3_digest(bits, s) = XXH3_finalizeLong(bits, acc, secret, size, n)
    <3>1. s.totalLen > MidSizeMax
      BY <1>3, <1>4, <1>5
    <3> QED
      BY <1>3, <2>1, <3>1, Zenon DEF XXH3_digest
  <2>4. XXH3_hashLong(bits, in, secret, size) = XXH3_finalizeLong(bits, acc, secret, size, n)
    BY <1>2, <2>2, Zenon DEF XXH3_hashLong
  <2>5. Len(in) > MidSizeMax
    BY <1>2, <1>4, <1>5
  <2> QED
    BY <1>1, <2>3, <2>4, <2>5, Zenon DEF OneCall
<1>6. CASE ~(n > 240)
  <2>1. Read(s.buffer, 0, n) = in
    <3>1. PICK k \in Nat, b \in Nat : Cut(n, k, b) /\ Filled(s, f, k, b, secret, limit, P)
      BY DEF Streamed
    <3>2. k = 0 /\ b = n
      BY <1>6, <3>1 DEF Cut
    <3>3. Holds(s.buffer, 0, n, f + 64 * k)
      BY <3>1, <3>2 DEF Filled
    <3>4. ASSUME NEW i \in 1..n PROVE s.buffer[0 + i] = f + i
      <4>1. s.buffer[0 + i] = f + 64 * k + i
        BY <3>3 DEF Holds
      <4>2. f + 64 * k + i = f + i
        BY <3>2
      <4> QED
        BY <4>1, <4>2
    <3> QED
      BY <1>1, <3>4 DEF Read, Input
  <2>2. ~(s.totalLen > MidSizeMax) /\ ~(Len(in) > MidSizeMax)
    BY <1>2, <1>3, <1>4, <1>6
  <2>3. XXH3_digest(bits, s) = IF s.useSeed THEN XXH3_withSeed(bits, in, s.seed)
                               ELSE XXH3_withSecret(bits, in, secret, size)
    BY <1>3, <2>1, <2>2, Zenon DEF XXH3_digest
  <2> QED
    BY <1>1, <2>2, <2>3, Zenon DEF OneCall
<1> QED
  BY <1>5, <1>6

\* s is keyed by key.
KeyedBy(s, key) ==
  \/ /\ key.variant = "plain"
     /\ s.useSeed = FALSE /\ SecretOf(s) = kSecret /\ s.secretLimit = 128
  \/ /\ key.variant = "secret"
     /\ s.useSeed = FALSE /\ SecretOf(s) = key.secret /\ s.secretLimit = SizeOf(key.secret) - 64
  \/ /\ key.variant = "seed" /\ s.secretLimit = 128
     /\ IF key.seed = 0 THEN s.useSeed = FALSE /\ SecretOf(s) = kSecret
        ELSE s.useSeed = TRUE /\ s.seed = key.seed /\ SecretOf(s) = XXH3_initCustomSecret(key.seed)
  \/ /\ key.variant = "secretandseed"
     /\ s.useSeed = TRUE /\ s.seed = key.seed /\ SecretOf(s) = key.secret
     /\ s.secretLimit = SizeOf(key.secret) - 64

\* The blocks are as long as the secret makes them.
Blocked(s) == s.secretLimit \in Nat /\ Block3(s.nbStripesPerBlock, s.secretLimit)

\* The secret an earlier seed left is that seed's.
Memo(s) ==
  s.extSecret = NoSecret => s.seed = 0 \/ s.customSecret = XXH3_initCustomSecret(s.seed)

LEMMA SameKeyKeeps ==
  ASSUME NEW s, NEW t, SameKey(s, t), NEW key
  PROVE  /\ KeyedBy(s, key) => KeyedBy(t, key)
         /\ Blocked(s) => Blocked(t)
         /\ Memo(s) => Memo(t)
<1>1. SecretOf(t) = SecretOf(s)
  BY DEF SameKey, SecretOf
<1> QED
  BY <1>1 DEF SameKey, KeyedBy, Blocked, Memo

\* The hash in one call of input keyed by key.
KeyedCall(bits, in, key) ==
  CASE key.variant = "plain"  -> XXH3_bits(bits, in)
    [] key.variant = "secret" ->
         XXH3_withSecret(bits, in, key.secret, SizeOf(key.secret))
    [] key.variant = "seed"   -> XXH3_withSeed(bits, in, key.seed)
    [] key.variant = "secretandseed" ->
         XXH3_withSecretandSeed(bits, in, key.secret, SizeOf(key.secret), key.seed)

LEMMA OneCallIsKeyed ==
  ASSUME NEW s, NEW key, KeyedBy(s, key), NEW limit \in Nat, limit = s.secretLimit,
         SizeOf(key.secret) \in Nat,
         NEW size \in Nat, SumIs(size, limit, 64), NEW bits, NEW in, Len(in) \in Nat
  PROVE  OneCall(bits, in, s.useSeed, s.seed, SecretOf(s), size) = KeyedCall(bits, in, key)
<1>0. size = limit + 64 /\ SecretSize0 = 192
  BY DEF SumIs, SecretSize0
<1>1. ~(Len(in) > MidSizeMax) <=> Len(in) <= MidSizeMax
  BY DEF MidSizeMax
<1>2. CASE /\ key.variant = "plain"
           /\ s.useSeed = FALSE /\ SecretOf(s) = kSecret /\ s.secretLimit = 128
  <2>1. KeyedCall(bits, in, key) = XXH3_bits(bits, in)
    BY <1>2 DEF KeyedCall
  <2>2. size = SecretSize0
    BY <1>0, <1>2
  <2> QED
    BY <1>1, <1>2, <2>1, <2>2, Zenon DEF OneCall, XXH3_bits, XXH3_withSecret
<1>3. CASE /\ key.variant = "secret"
           /\ s.useSeed = FALSE /\ SecretOf(s) = key.secret /\ s.secretLimit = SizeOf(key.secret) - 64
  <2>1. KeyedCall(bits, in, key) = XXH3_withSecret(bits, in, key.secret, SizeOf(key.secret))
    BY <1>3 DEF KeyedCall
  <2>2. size = SizeOf(key.secret)
    BY <1>0, <1>3
  <2> QED
    BY <1>1, <1>3, <2>1, <2>2, Zenon DEF OneCall, XXH3_withSecret
<1>4. CASE /\ key.variant = "seed" /\ s.secretLimit = 128
           /\ IF key.seed = 0 THEN s.useSeed = FALSE /\ SecretOf(s) = kSecret
              ELSE s.useSeed = TRUE /\ s.seed = key.seed
                   /\ SecretOf(s) = XXH3_initCustomSecret(key.seed)
  <2>1. KeyedCall(bits, in, key) = XXH3_withSeed(bits, in, key.seed)
    BY <1>4 DEF KeyedCall
  <2>2. size = SecretSize0
    BY <1>0, <1>4
  <2>3. CASE key.seed = 0
    BY <1>1, <1>4, <2>1, <2>2, <2>3, Zenon DEF OneCall, XXH3_withSeed, XXH3_withSecret
  <2>4. CASE key.seed # 0
    BY <1>1, <1>4, <2>1, <2>2, <2>4, Zenon DEF OneCall, XXH3_withSeed
  <2> QED
    BY <2>3, <2>4
<1>5. CASE /\ key.variant = "secretandseed"
           /\ s.useSeed = TRUE /\ s.seed = key.seed /\ SecretOf(s) = key.secret
           /\ s.secretLimit = SizeOf(key.secret) - 64
  <2>1. KeyedCall(bits, in, key)
          = XXH3_withSecretandSeed(bits, in, key.secret, SizeOf(key.secret), key.seed)
    BY <1>5 DEF KeyedCall
  <2>2. size = SizeOf(key.secret)
    BY <1>0, <1>5
  <2> QED
    BY <1>1, <1>5, <2>1, <2>2, Zenon DEF OneCall, XXH3_withSecretandSeed, XXH3_withSeed
<1> QED
  BY <1>2, <1>3, <1>4, <1>5 DEF KeyedBy

------------------------------------------------------------------------------
(* The resets. *)

\* t is s after a reset.
Fresh(s, t) ==
  /\ IsState(t) /\ t.acc = << >> /\ t.bufferedSize = 0 /\ t.nbStripesSoFar = 0
  /\ t.totalLen = 0 /\ t.buffer = s.buffer

KeyReset(s, t, seed, secret, size) ==
  /\ t.customSecret = s.customSecret /\ t.seed = seed /\ t.useSeed = (seed # 0)
  /\ t.extSecret = secret /\ t.secretLimit = size - 64
  /\ t.nbStripesPerBlock = (size - 64) \div 8

LEMMA ResetInternalIs ==
  ASSUME NEW s, IsState(s), NEW seed, NEW secret, NEW size
  PROVE  /\ Fresh(s, XXH3_reset_internal(s, seed, secret, size))
         /\ KeyReset(s, XXH3_reset_internal(s, seed, secret, size), seed, secret, size)
<1>1. PICK use, limit, per, t :
        /\ use = (seed # 0) /\ limit = size - StripeLen /\ per = (size - StripeLen) \div ConsumeRate
        /\ t = [s EXCEPT !.acc = XXH3_INIT_ACC, !.bufferedSize = 0, !.nbStripesSoFar = 0,
                         !.totalLen = 0, !.seed = seed, !.useSeed = use,
                         !.extSecret = secret, !.secretLimit = limit,
                         !.nbStripesPerBlock = per]
  OBVIOUS
<1>2. t = XXH3_reset_internal(s, seed, secret, size)
  BY <1>1, Zenon DEF XXH3_reset_internal
<1>3. /\ Fresh(s, t)
      /\ t.customSecret = s.customSecret /\ t.seed = seed /\ t.useSeed = use
      /\ t.extSecret = secret /\ t.secretLimit = limit /\ t.nbStripesPerBlock = per
  <2>1. t = [s EXCEPT !.acc = XXH3_INIT_ACC, !.bufferedSize = 0, !.nbStripesSoFar = 0,
                      !.totalLen = 0, !.seed = seed, !.useSeed = use,
                      !.extSecret = secret, !.secretLimit = limit,
                      !.nbStripesPerBlock = per]
    BY <1>1
  <2> QED
    BY <2>1 DEF Fresh, IsState, XXH3_INIT_ACC
<1>4. limit = size - 64 /\ per = (size - 64) \div 8
  BY <1>1 DEF StripeLen, ConsumeRate
<1> QED
  BY <1>1, <1>2, <1>3, <1>4, Zenon DEF KeyReset

\* A reset keyed by key.
ResetWell(s, t, key) == Fresh(s, t) /\ KeyedBy(t, key) /\ Blocked(t) /\ Memo(t)

LEMMA SizeIsBlocked ==
  ASSUME NEW t, NEW size \in Nat, size >= 136, t.secretLimit = size - 64,
         t.nbStripesPerBlock = (size - 64) \div 8
  PROVE  Blocked(t)
<1>1. PICK limit \in Nat, P \in Nat : /\ limit = size - 64 /\ limit >= 72 /\ P = limit \div 8
                                      /\ t.secretLimit = limit /\ t.nbStripesPerBlock = P
  <2>1. size - 64 \in Nat /\ (size - 64) \div 8 \in Nat
    OBVIOUS
  <2> QED
    BY <2>1
<1> QED
  BY <1>1 DEF Blocked, Block3

LEMMA UserSecret ==
  ASSUME NEW u \in UserSecrets
  PROVE  u # NoSecret /\ SizeOf(u) \in Nat /\ SizeOf(u) >= 136
<1>1. PICK n \in UserSizes : u = <<"user", n>>
  BY DEF UserSecrets
<1>2. n \in Nat /\ n >= 136
  BY XXH3_Assumption DEF SecretMin
<1>3. u[1] = "user" /\ u[2] = n
  BY <1>1
<1> QED
  BY <1>1, <1>2, <1>3 DEF NoSecret, SizeOf

LEMMA PlainReset ==
  ASSUME NEW s, IsState(s), NEW key, key.variant = "plain" \/ (key.variant = "seed" /\ key.seed = 0)
  PROVE  ResetWell(s, XXH3_reset(s), key)
<1>1. PICK t : t = XXH3_reset(s)
  OBVIOUS
<1>2. Fresh(s, t) /\ KeyReset(s, t, 0, kSecret, 192)
  <2>1. t = XXH3_reset_internal(s, 0, kSecret, 192)
    BY <1>1, Zenon DEF XXH3_reset, SecretSize0
  <2> QED
    BY <2>1, ResetInternalIs, Zenon
<1>3. kSecret # NoSecret
  BY DEF kSecret, NoSecret
<1>4. t.extSecret = kSecret /\ t.secretLimit = 128
  BY <1>2 DEF KeyReset
<1>5. t.useSeed = FALSE
  BY <1>2, Zenon DEF KeyReset
<1>6. SecretOf(t) = kSecret
  BY <1>3, <1>4 DEF SecretOf
<1>7. Blocked(t)
  <2>1. t.secretLimit = 192 - 64 /\ t.nbStripesPerBlock = (192 - 64) \div 8
    BY <1>2, Zenon DEF KeyReset
  <2>2. PICK size \in Nat : size = 192
    OBVIOUS
  <2> QED
    BY <2>1, <2>2, SizeIsBlocked
<1>8. Memo(t)
  BY <1>3, <1>4 DEF Memo
<1>9. KeyedBy(t, key)
  BY <1>4, <1>5, <1>6, Zenon DEF KeyedBy
<1> QED
  BY <1>1, <1>2, <1>7, <1>8, <1>9 DEF ResetWell

LEMMA SeedReset ==
  ASSUME NEW s, IsState(s), Memo(s), NEW key, key.variant = "seed", key.seed # 0
  PROVE  ResetWell(s, XXH3_reset_withSeed(s, key.seed), key)
<1>1. PICK t, seed : t = XXH3_reset_withSeed(s, seed) /\ seed = key.seed /\ seed # 0
  OBVIOUS
<1>2. PICK d, s1 : d = Derived(s, seed) /\ s1 = [s EXCEPT !.customSecret = d]
  OBVIOUS
<1>3. d = XXH3_initCustomSecret(seed)
  BY <1>1, <1>2 DEF Derived, Memo
<1>4. IsState(s1) /\ s1.customSecret = d /\ s1.buffer = s.buffer
  BY <1>2 DEF IsState
<1>5. t = XXH3_reset_internal(s1, seed, NoSecret, 192)
  BY <1>1, <1>2, Zenon DEF XXH3_reset_withSeed, SecretSize0
<1>6. Fresh(s1, t) /\ KeyReset(s1, t, seed, NoSecret, 192)
  BY <1>4, <1>5, ResetInternalIs, Zenon
<1>7. Fresh(s, t)
  BY <1>4, <1>6 DEF Fresh
<1>8. /\ t.customSecret = d /\ t.seed = seed /\ t.extSecret = NoSecret /\ t.secretLimit = 128
  BY <1>4, <1>6 DEF KeyReset
<1>9. t.useSeed = TRUE
  BY <1>1, <1>6, Zenon DEF KeyReset
<1>10. SecretOf(t) = XXH3_initCustomSecret(seed)
  BY <1>3, <1>8 DEF SecretOf
<1>11. Blocked(t)
  <2>1. t.secretLimit = 192 - 64 /\ t.nbStripesPerBlock = (192 - 64) \div 8
    BY <1>6, Zenon DEF KeyReset
  <2>2. PICK size \in Nat : size = 192
    OBVIOUS
  <2> QED
    BY <2>1, <2>2, SizeIsBlocked
<1>12. Memo(t)
  BY <1>3, <1>8 DEF Memo
<1>13. KeyedBy(t, key)
  BY <1>1, <1>8, <1>9, <1>10, Zenon DEF KeyedBy
<1> QED
  BY <1>1, <1>7, <1>11, <1>12, <1>13, Zenon DEF ResetWell

LEMMA SecretReset ==
  ASSUME NEW s, IsState(s), NEW key, key.variant = "secret", key.secret \in UserSecrets
  PROVE  ResetWell(s, XXH3_reset_withSecret(s, key.secret), key)
<1>1. PICK t, u, size : t = XXH3_reset_withSecret(s, u) /\ u = key.secret /\ size = SizeOf(u)
  OBVIOUS
<1>2. u # NoSecret /\ size \in Nat /\ size >= 136
  BY <1>1, UserSecret
<1>3. Fresh(s, t) /\ KeyReset(s, t, 0, u, size)
  <2>1. t = XXH3_reset_internal(s, 0, u, size)
    BY <1>1, Zenon DEF XXH3_reset_withSecret
  <2> QED
    BY <2>1, ResetInternalIs, Zenon
<1>4. t.extSecret = u /\ t.secretLimit = size - 64 /\ t.nbStripesPerBlock = (size - 64) \div 8
  BY <1>3 DEF KeyReset
<1>5. t.useSeed = FALSE
  BY <1>3, Zenon DEF KeyReset
<1>6. SecretOf(t) = u
  BY <1>2, <1>4 DEF SecretOf
<1>7. Blocked(t)
  BY <1>2, <1>4, SizeIsBlocked
<1>8. Memo(t)
  BY <1>2, <1>4 DEF Memo
<1>9. KeyedBy(t, key)
  BY <1>1, <1>4, <1>5, <1>6, Zenon DEF KeyedBy
<1> QED
  BY <1>1, <1>3, <1>7, <1>8, <1>9, Zenon DEF ResetWell

LEMMA SecretSeedReset ==
  ASSUME NEW s, IsState(s), NEW key, key.variant = "secretandseed", key.secret \in UserSecrets
  PROVE  ResetWell(s, XXH3_reset_withSecretandSeed(s, key.secret, key.seed), key)
<1>1. PICK t, u, size, seed :
        /\ t = XXH3_reset_withSecretandSeed(s, u, seed) /\ u = key.secret
        /\ size = SizeOf(u) /\ seed = key.seed
  OBVIOUS
<1>2. u # NoSecret /\ size \in Nat /\ size >= 136
  BY <1>1, UserSecret
<1>3. PICK t1 : t1 = XXH3_reset_internal(s, seed, u, size) /\ t = [t1 EXCEPT !.useSeed = TRUE]
  BY <1>1, Zenon DEF XXH3_reset_withSecretandSeed
<1>4. Fresh(s, t1) /\ KeyReset(s, t1, seed, u, size)
  BY <1>3, ResetInternalIs, Zenon
<1>5. /\ t1.seed = seed /\ t1.extSecret = u
      /\ t1.secretLimit = size - 64 /\ t1.nbStripesPerBlock = (size - 64) \div 8
  BY <1>4 DEF KeyReset
<1>6. /\ Fresh(s, t) /\ t.seed = t1.seed /\ t.extSecret = t1.extSecret /\ t.useSeed = TRUE
      /\ t.secretLimit = t1.secretLimit /\ t.nbStripesPerBlock = t1.nbStripesPerBlock
  <2>1. t = [t1 EXCEPT !.useSeed = TRUE]
    BY <1>3
  <2> QED
    BY <1>4, <2>1 DEF Fresh, IsState
<1>7. SecretOf(t) = u
  BY <1>2, <1>5, <1>6 DEF SecretOf
<1>8. Blocked(t)
  BY <1>2, <1>5, <1>6, SizeIsBlocked
<1>9. Memo(t)
  BY <1>2, <1>5, <1>6 DEF Memo
<1>10. KeyedBy(t, key)
  BY <1>1, <1>5, <1>6, <1>7, Zenon DEF KeyedBy
<1> QED
  BY <1>1, <1>6, <1>8, <1>9, <1>10, Zenon DEF ResetWell

\* What a key is.
LEMMA KeyingsAre ==
  ASSUME NEW key \in Keyings
  PROVE  /\ key.variant \in {"plain", "secret", "seed", "secretandseed"}
         /\ key.variant \in {"secret", "secretandseed"} => key.secret \in UserSecrets
         /\ SizeOf(key.secret) \in Nat
<1>1. CASE key = Key3("plain", kSecret, 0)
  BY <1>1 DEF Key3, SizeOf, kSecret, SecretSize0
<1>2. CASE \E u \in UserSecrets : key = Key3("secret", u, 0)
  <2>1. PICK u \in UserSecrets : key = Key3("secret", u, 0)
    BY <1>2
  <2> QED
    BY <2>1, UserSecret DEF Key3
<1>3. CASE \E seed \in Seeds : key = Key3("seed", NoSecret, seed)
  BY <1>3 DEF Key3, SizeOf, NoSecret, SecretSize0
<1>4. CASE \E u \in UserSecrets, seed \in Seeds : key = Key3("secretandseed", u, seed)
  <2>1. PICK u \in UserSecrets, seed \in Seeds : key = Key3("secretandseed", u, seed)
    BY <1>4
  <2> QED
    BY <2>1, UserSecret DEF Key3
<1> QED
  BY <1>1, <1>2, <1>3, <1>4 DEF Keyings

LEMMA ResetKeys ==
  ASSUME NEW s, IsState(s), Memo(s), NEW key \in Keyings
  PROVE  ResetWell(s, ResetBy(s, key), key)
<1>1. CASE key.variant = "plain"
  <2>1. ResetBy(s, key) = XXH3_reset(s)
    BY <1>1 DEF ResetBy
  <2> QED
    BY <1>1, <2>1, PlainReset
<1>2. CASE key.variant = "secret"
  <2>1. ResetBy(s, key) = XXH3_reset_withSecret(s, key.secret)
    BY <1>2 DEF ResetBy
  <2> QED
    BY <1>2, <2>1, KeyingsAre, SecretReset
<1>3. CASE key.variant = "seed"
  <2>1. ResetBy(s, key) = XXH3_reset_withSeed(s, key.seed)
    BY <1>3 DEF ResetBy
  <2>2. CASE key.seed = 0
    <3>1. ResetBy(s, key) = XXH3_reset(s)
      BY <2>1, <2>2, Zenon DEF XXH3_reset_withSeed
    <3> QED
      BY <1>3, <2>2, <3>1, PlainReset
  <2>3. CASE key.seed # 0
    BY <1>3, <2>1, <2>3, SeedReset
  <2> QED
    BY <2>2, <2>3
<1>4. CASE key.variant = "secretandseed"
  <2>1. ResetBy(s, key) = XXH3_reset_withSecretandSeed(s, key.secret, key.seed)
    BY <1>4 DEF ResetBy
  <2> QED
    BY <1>4, <2>1, KeyingsAre, SecretSeedReset
<1> QED
  BY <1>1, <1>2, <1>3, <1>4, KeyingsAre

------------------------------------------------------------------------------
(* Counting the stripes that are mixed. *)

\* The stripes an accumulator has mixed.
StripesOf(acc) == {j \in DOMAIN acc : acc[j].op = "accumulate"}

Counted(acc, k) == IsFiniteSet(StripesOf(acc)) /\ Cardinality(StripesOf(acc)) = k

LEMMA CountedThen ==
  ASSUME NEW S, NEW acc \in Seq(S), NEW op \in S, NEW k \in Nat, Counted(acc, k)
  PROVE  /\ op.op = "accumulate" => Counted(Then(acc, op), k + 1)
         /\ op.op # "accumulate" => Counted(Then(acc, op), k)
<1>1. PICK n \in Nat : n = Len(acc) /\ DOMAIN acc = 1..n
  BY LenProperties
<1>2. PICK new : new = Then(acc, op)
  OBVIOUS
<1>3. DOMAIN new = 1..n + 1 /\ (\A j \in 1..n : new[j] = acc[j]) /\ new[n + 1] = op
  <2>1. new = Append(acc, op)
    BY <1>2 DEF Then
  <2> QED
    BY <1>1, <2>1, AppendProperties
<1>4. IsFiniteSet(StripesOf(acc)) /\ Cardinality(StripesOf(acc)) = k
  BY DEF Counted
<1>5. CASE op.op = "accumulate"
  <2>1. StripesOf(new) = StripesOf(acc) \cup {n + 1}
    BY <1>1, <1>3, <1>5 DEF StripesOf
  <2>2. n + 1 \notin StripesOf(acc)
    BY <1>1 DEF StripesOf
  <2>3. IsFiniteSet(StripesOf(acc) \cup {n + 1})
        /\ Cardinality(StripesOf(acc) \cup {n + 1}) = k + 1
    BY <1>4, <2>2, FS_AddElement
  <2> QED
    BY <1>2, <1>5, <2>1, <2>3 DEF Counted
<1>6. CASE op.op # "accumulate"
  <2>1. StripesOf(new) = StripesOf(acc)
    BY <1>1, <1>3, <1>6 DEF StripesOf
  <2> QED
    BY <1>2, <1>4, <1>6, <2>1 DEF Counted
<1> QED
  BY <1>5, <1>6

\* After k stripes k are counted.
LEMMA MixedCount ==
  ASSUME NEW f \in Nat, NEW secret, NEW limit \in Nat, NEW P \in Nat, P > 0, NEW k \in Nat
  PROVE  Counted(Mixed(f, secret, limit, P)[k], k)
<1> DEFINE M == Mixed(f, secret, limit, P)
           V == Ops(Int, secret)
           S == {j \in Nat : Counted(M[j], j)}
<1>1. M \in [Nat -> Seq(V)] /\ MixedRun(M, f, secret, limit, P)
  BY MixedIs
<1> HIDE DEF M
<1>2. 0 \in S
  <2>1. M[0] = << >>
    BY <1>1 DEF MixedRun
  <2>2. StripesOf(<< >>) = {}
    BY DEF StripesOf
  <2> QED
    BY <2>1, <2>2, FS_EmptySet DEF Counted
<1>3. ASSUME NEW j \in Nat, j \in S PROVE j + 1 \in S
  <2>1. PICK acc \in Seq(V) : acc = M[j]
    BY <1>1
  <2>2. PICK n \in Nat, at \in Nat, data \in [1..64 -> Int] :
          /\ n = j + 1 /\ data = Input(f + 64 * (n - 1), 64) /\ at = 8 * ((n - 1) % P)
    <3>1. 8 * (((j + 1) - 1) % P) \in Nat
      <4>1. ((j + 1) - 1) % P \in Nat
        OBVIOUS
      <4> QED
        BY <4>1
    <3>2. Input(f + 64 * ((j + 1) - 1), 64) \in [1..64 -> Int]
      BY DEF Input
    <3> QED
      BY <3>1, <3>2
  <2>3. PICK op \in V, close \in V : op = StripeOp(data, secret, at) /\ close = ScrambleOp(secret, limit)
    BY OpsHave
  <2>4. op.op = "accumulate" /\ close.op # "accumulate"
    BY <2>3 DEF StripeOp, ScrambleOp, Op
  <2> HIDE DEF V
  <2>5. PICK old \in Seq(V) : old = Then(acc, op)
    BY AppendProperties DEF Then
  <2>6. Counted(old, n)
    <3>1. Counted(acc, j)
      BY <1>3, <2>1
    <3> QED
      BY <2>2, <2>4, <2>5, <3>1, CountedThen
  <2>7. Counted(Then(old, close), n)
    BY <2>4, <2>6, CountedThen
  <2>8. WithStripe(acc, f, secret, limit, P, n) = IF n % P = 0 THEN Then(old, close) ELSE old
    <3>1. WithStripe(acc, f, secret, limit, P, n)
            = IF n % P = 0 THEN XXH3_scrambleAcc(old, secret, limit) ELSE old
      BY <2>2, <2>3, <2>5, Zenon DEF WithStripe
    <3>2. XXH3_scrambleAcc(old, secret, limit) = Then(old, close)
      BY <2>3, Zenon DEF XXH3_scrambleAcc, Then, ScrambleOp
    <3> QED
      BY <3>1, <3>2, Zenon
  <2>9. M[n] = WithStripe(acc, f, secret, limit, P, n)
    BY <1>1, <2>1, <2>2 DEF MixedRun
  <2>10. Counted(M[n], n)
    BY <2>6, <2>7, <2>8, <2>9
  <2> QED
    BY <2>2, <2>10
<1>4. S = Nat
  <2>1. S \in SUBSET Nat
    OBVIOUS
  <2> HIDE DEF S
  <2>2. \A j \in S : j + 1 \in S
    BY <1>3, <2>1
  <2> QED
    BY <1>2, <2>1, <2>2, NatSetInduction
<1> QED
  BY <1>4 DEF M

------------------------------------------------------------------------------
(* The invariant of the streaming interface: what has been given since the    *)
(* last reset is mixed, stripe by stripe, or buffered.                        *)
Given3 ==
  Streamed(s3, from3, given3, SecretOf(s3), s3.secretLimit, s3.nbStripesPerBlock)

Unused3 == given3 = 0 /\ s3.acc = << >> /\ s3.bufferedSize = 0 /\ s3.totalLen = 0

Inv3 ==
  /\ from3 \in Nat /\ given3 \in 0..XXH3_MaxLen
  /\ IsState(s3) /\ s3.buffer \in Buffer3 /\ Memo(s3)
  /\ \/ keyed.variant = "none" /\ Unused3
     \/ /\ keyed.variant # "none" /\ keyed \in Keyings /\ KeyedBy(s3, keyed)
        /\ Blocked(s3) /\ Given3

\* A fresh state has been given nothing, mixes nothing and buffers nothing.
LEMMA FreshStreams ==
  ASSUME NEW s, NEW t, Fresh(s, t), s.buffer \in Buffer3, Blocked(t), NEW f \in Nat
  PROVE  Streamed(t, f, 0, SecretOf(t), t.secretLimit, t.nbStripesPerBlock)
<1>1. PICK secret : secret = SecretOf(t)
  OBVIOUS
<1>2. PICK limit \in Nat, P \in Nat : limit = t.secretLimit /\ P = t.nbStripesPerBlock /\ P > 0
  BY DEF Blocked, Block3
<1>3. Mixed(f, secret, limit, P)[0] = << >>
  <2> DEFINE M == Mixed(f, secret, limit, P)
  <2>1. MixedRun(M, f, secret, limit, P)
    BY <1>2, MixedIs
  <2> HIDE DEF M
  <2>2. M[0] = << >>
    BY <2>1 DEF MixedRun
  <2> QED
    BY <2>2 DEF M
<1>4. PICK k \in Nat : k = 0
  OBVIOUS
<1>5. IsMixed(t.acc, f, secret, limit, P, k)
  BY <1>3, <1>4 DEF IsMixed, Fresh
<1>6. Residue(t.nbStripesSoFar, k, P) /\ t.nbStripesSoFar \in Nat
  BY <1>2, <1>4 DEF Residue, Fresh
<1>7. Holds(t.buffer, 0, k, f + 64 * k) /\ KeptAt(t.buffer, k, f, k)
  BY <1>4 DEF Holds, KeptAt
<1>8. Filled(t, f, k, k, secret, limit, P)
  BY <1>4, <1>5, <1>6, <1>7 DEF Filled, Fresh
<1>9. Cut(0, k, k)
  BY <1>4 DEF Cut
<1>10. Streamed(t, f, 0, secret, limit, P)
  BY <1>8, <1>9 DEF Streamed, Fresh
<1> QED
  BY <1>1, <1>2, <1>10

LEMMA InitInv3 == XXH3_Init => Inv3
<1> SUFFICES ASSUME XXH3_Init PROVE Inv3
  OBVIOUS
<1>1. s3 = XXH3_createState /\ keyed = Key3("none", NoSecret, 0) /\ from3 = 0 /\ given3 = 0
  BY DEF XXH3_Init
<1>2. IsState(s3) /\ Memo(s3) /\ Unused3
  BY <1>1 DEF XXH3_createState, XXH3_INIT_ACC, IsState, Memo, Unused3
<1>3. s3.buffer \in Buffer3
  <2>1. s3.buffer = [i \in 1..256 |-> 0]
    BY <1>1 DEF XXH3_createState, Zeroed, BufferSize
  <2> QED
    BY <2>1 DEF Buffer3
<1>4. keyed.variant = "none"
  BY <1>1 DEF Key3
<1>5. given3 \in 0..XXH3_MaxLen
  BY <1>1, XXH3_Assumption
<1> QED
  BY <1>1, <1>2, <1>3, <1>4, <1>5 DEF Inv3

LEMMA NextInv3 == Inv3 /\ [XXH3_Next]_xxh3vars => Inv3'
<1> SUFFICES ASSUME Inv3, [XXH3_Next]_xxh3vars PROVE Inv3'
  OBVIOUS
<1>0. /\ from3 \in Nat /\ given3 \in 0..XXH3_MaxLen /\ given3 \in Nat
      /\ IsState(s3) /\ s3.buffer \in Buffer3 /\ Memo(s3)
  BY XXH3_Assumption DEF Inv3
<1>1. CASE UNCHANGED xxh3vars
  BY <1>1 DEF xxh3vars, Inv3, Given3, Unused3
<1>2. CASE Reset3
  <2>1. PICK key \in Keyings : /\ s3' = ResetBy(s3, key) /\ keyed' = key
                               /\ from3' = from3 + given3 /\ given3' = 0
    BY <1>2 DEF Reset3
  <2>2. PICK s, t : s = s3 /\ t = ResetBy(s, key)
    OBVIOUS
  <2>3. ResetWell(s, t, key)
    BY <1>0, <2>2, ResetKeys
  <2>4. Fresh(s, t) /\ KeyedBy(t, key) /\ Blocked(t) /\ Memo(t)
    BY <2>3 DEF ResetWell
  <2>5. PICK f \in Nat : f = from3'
    BY <1>0, <2>1
  <2>6. Streamed(t, f, 0, SecretOf(t), t.secretLimit, t.nbStripesPerBlock)
    BY <1>0, <2>2, <2>4, FreshStreams
  <2>7. IsState(t) /\ t.buffer \in Buffer3
    BY <1>0, <2>2, <2>4 DEF Fresh
  <2>8. s3' = t /\ keyed' = key /\ given3' = 0 /\ from3' = f
    BY <2>1, <2>2, <2>5
  <2>9. key.variant # "none"
    BY KeyingsAre
  <2>10. 0 \in 0..XXH3_MaxLen
    BY XXH3_Assumption
  <2> QED
    BY <2>4, <2>6, <2>7, <2>8, <2>9, <2>10 DEF Inv3, Given3
<1>3. CASE Update3
  <2>1. PICK m \in XXH3_Pieces(given3) :
          /\ keyed.variant # "none" /\ given3 + m <= XXH3_MaxLen
          /\ s3' = XXH3_update(s3, Input(from3 + given3, m))
          /\ given3' = given3 + m /\ keyed' = keyed /\ from3' = from3
    BY <1>3 DEF Update3
  <2>2. m \in Nat
    BY <1>0, XXH3_Assumption
  <2>3. keyed \in Keyings /\ KeyedBy(s3, keyed) /\ Blocked(s3) /\ Given3
    BY <2>1 DEF Inv3
  <2>0. PICK s, key : s = s3 /\ key = keyed
    OBVIOUS
  <2>4. PICK f \in Nat, n \in Nat : s = s3 /\ key = keyed /\ f = from3 /\ n = given3
    BY <1>0, <2>0
  <2>5. PICK t : t = XXH3_update(s, Input(f + n, m))
    OBVIOUS
  <2>6. PICK limit \in Nat, P \in Nat : limit = s.secretLimit /\ P = s.nbStripesPerBlock
    BY <2>3, <2>4 DEF Blocked, Block3
  <2>7. PICK secret : secret = SecretOf(s)
    OBVIOUS
  <2>8. PICK total \in Nat : total = n + m
    BY <2>2
  <2>9. IsState(s) /\ Setup(s, secret, limit, P) /\ Streamed(s, f, n, secret, limit, P)
    BY <1>0, <2>3, <2>4, <2>6, <2>7 DEF Setup, Given3
  <2>10. IsState(t) /\ SameKey(s, t) /\ Streamed(t, f, total, secret, limit, P)
    <3>1. SumIs(total, n, m)
      BY <2>8 DEF SumIs
    <3> QED
      BY <2>2, <2>5, <2>9, <3>1, UpdateStreams
  <2>11. KeyedBy(t, key) /\ Blocked(t) /\ Memo(t)
    BY <1>0, <2>3, <2>4, <2>10, SameKeyKeeps
  <2>12. Setup(t, secret, limit, P)
    BY <2>9, <2>10, SameSetup
  <2>13. Streamed(t, f, total, SecretOf(t), t.secretLimit, t.nbStripesPerBlock)
    BY <2>10, <2>12 DEF Setup
  <2>14. t.buffer \in Buffer3
    BY <2>10 DEF Streamed, Filled
  <2>15. s3' = t /\ keyed' = key /\ given3' = total /\ from3' = f /\ key \in Keyings
         /\ key.variant # "none"
    BY <2>1, <2>3, <2>4, <2>5, <2>8
  <2>16. total \in 0..XXH3_MaxLen
    BY <2>1, <2>4, <2>8, XXH3_Assumption
  <2> QED
    BY <2>10, <2>11, <2>13, <2>14, <2>15, <2>16 DEF Inv3, Given3
<1> QED
  BY <1>1, <1>2, <1>3 DEF XXH3_Next

LEMMA Inv3IsOneShot == Inv3 => XXH3_StreamIsOneShot
<1> SUFFICES ASSUME Inv3, keyed.variant # "none", NEW bits \in {64, 128}
             PROVE  XXH3_digest(bits, s3) = Expected(bits)
  BY DEF XXH3_StreamIsOneShot
<1>0. from3 \in Nat /\ given3 \in Nat /\ keyed \in Keyings /\ KeyedBy(s3, keyed) /\ Blocked(s3)
      /\ Given3
  BY XXH3_Assumption DEF Inv3
<1>1. PICK s, key : s = s3 /\ key = keyed
  OBVIOUS
<1>2. PICK f \in Nat, n \in Nat : s = s3 /\ key = keyed /\ f = from3 /\ n = given3
  BY <1>1, <1>0
<1>3. PICK limit \in Nat, P \in Nat : /\ limit = s.secretLimit /\ P = s.nbStripesPerBlock
                                      /\ Block3(P, limit)
  BY <1>0, <1>2 DEF Blocked, Block3
<1>4. PICK size \in Nat : size = limit + 64
  OBVIOUS
<1>5. PICK in : in = Input(f, n)
  OBVIOUS
<1>6. size = limit + 64 /\ in = Input(f, n)
  BY <1>4, <1>5
<1>7. SumIs(size, limit, 64)
  BY <1>6 DEF SumIs
<1>8. PICK secret : secret = SecretOf(s)
  OBVIOUS
<1>9. Setup(s, secret, limit, P) /\ Streamed(s, f, n, secret, limit, P)
  BY <1>0, <1>2, <1>3, <1>8 DEF Setup, Given3
<1>10. XXH3_digest(bits, s) = OneCall(bits, in, s.useSeed, s.seed, secret, size)
  BY <1>3, <1>6, <1>7, <1>9, DigestIs
<1>11. OneCall(bits, in, s.useSeed, s.seed, SecretOf(s), size) = KeyedCall(bits, in, key)
  <2>1. Len(in) \in Nat
    BY <1>6, InputHolds
  <2>2. SizeOf(key.secret) \in Nat /\ KeyedBy(s, key)
    BY <1>0, <1>2, KeyingsAre
  <2> QED
    BY <1>3, <1>7, <2>1, <2>2, OneCallIsKeyed
<1>12. KeyedCall(bits, in, key) = Expected(bits)
  BY <1>2, <1>6, Zenon DEF KeyedCall, Expected
<1> QED
  BY <1>2, <1>8, <1>10, <1>11, <1>12, Zenon

LEMMA Inv3SomeBuffered == Inv3 => XXH3_SomeBuffered
<1> SUFFICES ASSUME Inv3 PROVE XXH3_SomeBuffered
  OBVIOUS
<1>1. CASE keyed.variant = "none"
  <2>1. given3 = 0 /\ s3.acc = << >> /\ s3.bufferedSize = 0 /\ s3.totalLen = 0
    BY <1>1 DEF Inv3, Unused3
  <2>2. {j \in DOMAIN << >> : << >>[j].op = "accumulate"} = {}
    OBVIOUS
  <2>3. Cardinality({j \in DOMAIN s3.acc : s3.acc[j].op = "accumulate"}) = 0
    BY <2>1, <2>2, FS_EmptySet
  <2> QED
    BY <2>1, <2>3 DEF XXH3_SomeBuffered, StripeLen
<1>2. CASE keyed.variant # "none"
  <2>1. from3 \in Nat /\ given3 \in Nat /\ Blocked(s3) /\ Given3
    BY <1>2, XXH3_Assumption DEF Inv3
  <2>0. PICK s : s = s3
    OBVIOUS
  <2>2. PICK f \in Nat, n \in Nat : s = s3 /\ f = from3 /\ n = given3
    BY <2>0, <2>1
  <2>3. PICK limit \in Nat, P \in Nat : limit = s.secretLimit /\ P = s.nbStripesPerBlock /\ P > 0
    BY <2>1, <2>2 DEF Blocked, Block3
  <2>4. PICK secret : secret = SecretOf(s)
    OBVIOUS
  <2>5. Streamed(s, f, n, secret, limit, P)
    BY <2>1, <2>2, <2>3, <2>4 DEF Given3
  <2>6. PICK k \in Nat, b \in Nat : Cut(n, k, b) /\ Filled(s, f, k, b, secret, limit, P)
    BY <2>5 DEF Streamed
  <2>7. s.acc = Mixed(f, secret, limit, P)[k] /\ s.bufferedSize = b /\ b <= 256
    BY <2>6 DEF Filled, IsMixed
  <2>8. Cardinality({j \in DOMAIN s.acc : s.acc[j].op = "accumulate"}) = k
    <3>1. Counted(Mixed(f, secret, limit, P)[k], k)
      BY <2>3, MixedCount
    <3>2. PICK acc : acc = s.acc
      OBVIOUS
    <3>3. Counted(acc, k)
      BY <2>7, <3>1, <3>2
    <3>4. Cardinality(StripesOf(acc)) = k
      BY <3>3 DEF Counted
    <3> QED
      BY <3>2, <3>4, Zenon DEF StripesOf
  <2>9. n = 64 * k + b /\ (n > 0 => b > 0) /\ s.totalLen = n
    BY <2>5, <2>6 DEF Cut, Streamed
  <2> QED
    BY <2>2, <2>7, <2>8, <2>9 DEF XXH3_SomeBuffered, StripeLen, BufferSize
<1> QED
  BY <1>1, <1>2

(* However the input is cut, whatever the state hashed before and however the *)
(* hash is keyed, the digest of XXH3's and XXH128's streaming interface, taken *)
(* at any time, is the hash of one call: for secrets of every size a caller   *)
(* may bring and inputs of every length.                                      *)
THEOREM StreamIsOneShot3 == XXH3_Spec => []XXH3_StreamIsOneShot
BY InitInv3, NextInv3, Inv3IsOneShot, PTL DEF XXH3_Spec

(* Some input is kept back once there is any, and what is buffered and what is *)
(* mixed make up the input, as XXH3_digest_long asserts.                       *)
THEOREM SomeBufferedCorrect == XXH3_Spec => []XXH3_SomeBuffered
BY InitInv3, NextInv3, Inv3SomeBuffered, PTL DEF XXH3_Spec

------------------------------------------------------------------------------
(* Which bytes the operations of a hash read, and where in the secret. *)

\* The bytes one operation reads.
DataOf(op) == {op.data[i] : i \in DOMAIN op.data}

\* An operation on a secret reads inside it.
InsideOp(op) == op.at >= 0 /\ op.at + op.size <= SizeOf(op.secret)

\* All bytes are read, none else, inside the secret.
Counts(ops, f, n) == BytesMixed(ops) = f + 1 .. f + n /\ Inside(ops)

LEMMA MixedBytes ==
  ASSUME NEW ops, NEW x
  PROVE  x \in BytesMixed(ops) <=> \E j \in DOMAIN ops : x \in DataOf(ops[j])
BY DEF BytesMixed, DataOf

LEMMA InsideEach ==
  ASSUME NEW ops
  PROVE  Inside(ops) <=> \A j \in DOMAIN ops : InsideOp(ops[j])
BY DEF Inside, InsideOp

LEMMA OpenBytes ==
  ASSUME NEW ops, NEW S, \A x : x \in S <=> \E j \in DOMAIN ops : x \in DataOf(ops[j])
  PROVE  BytesMixed(ops) = S
BY MixedBytes

LEMMA JoinBytes ==
  ASSUME NEW S, NEW a \in Seq(S), NEW b \in Seq(S)
  PROVE  /\ BytesMixed(a \o b) = BytesMixed(a) \cup BytesMixed(b)
         /\ Inside(a \o b) <=> Inside(a) /\ Inside(b)
<1>1. PICK k \in Nat, m \in Nat : k = Len(a) /\ m = Len(b) /\ DOMAIN a = 1..k /\ DOMAIN b = 1..m
  BY LenProperties
<1>2. PICK c : c = a \o b
  OBVIOUS
<1>3. /\ DOMAIN c = 1..k + m
      /\ \A j \in 1..k : c[j] = a[j]
      /\ \A j \in 1..m : c[k + j] = b[j]
  <2>1. c \in Seq(S) /\ Len(c) = k + m
        /\ \A j \in 1..k + m : c[j] = IF j <= k THEN a[j] ELSE b[j - k]
    BY <1>1, <1>2, ConcatProperties
  <2>2. DOMAIN c = 1..k + m
    BY <2>1, LenProperties
  <2>3. ASSUME NEW j \in 1..m PROVE c[k + j] = b[j]
    <3>1. k + j \in 1..k + m /\ ~(k + j <= k) /\ (k + j) - k = j
      OBVIOUS
    <3> QED
      BY <2>1, <3>1
  <2> QED
    BY <2>1, <2>2, <2>3
<1>4. ASSUME NEW j \in 1..k + m
      PROVE  j \in 1..k \/ \E i \in 1..m : j = k + i
  <2>1. CASE j > k
    <3>1. j - k \in 1..m /\ j = k + (j - k)
      BY <2>1
    <3> QED
      BY <3>1
  <2> QED
    BY <2>1
<1>5. (\A j \in 1..k : j \in 1..k + m) /\ (\A i \in 1..m : k + i \in 1..k + m)
  OBVIOUS
<1>6. ASSUME NEW x
      PROVE  x \in BytesMixed(a) \cup BytesMixed(b) <=> \E j \in DOMAIN c : x \in DataOf(c[j])
  <2>1. x \in BytesMixed(a) <=> \E j \in 1..k : x \in DataOf(a[j])
    BY <1>1, MixedBytes
  <2>2. x \in BytesMixed(b) <=> \E j \in 1..m : x \in DataOf(b[j])
    BY <1>1, MixedBytes
  <2>3. ASSUME NEW j \in DOMAIN c, x \in DataOf(c[j])
        PROVE  (\E i \in 1..k : x \in DataOf(a[i])) \/ (\E i \in 1..m : x \in DataOf(b[i]))
    <3>1. j \in 1..k + m
      BY <1>3, <2>3
    <3>2. CASE j \in 1..k
      BY <1>3, <2>3, <3>2
    <3>3. CASE \E i \in 1..m : j = k + i
      BY <1>3, <2>3, <3>3
    <3> QED
      BY <1>4, <3>1, <3>2, <3>3
  <2>4. ASSUME NEW i \in 1..k, x \in DataOf(a[i]) PROVE \E j \in DOMAIN c : x \in DataOf(c[j])
    <3>1. i \in DOMAIN c /\ c[i] = a[i]
      BY <1>3, <1>5
    <3> QED
      BY <2>4, <3>1
  <2>5. ASSUME NEW i \in 1..m, x \in DataOf(b[i]) PROVE \E j \in DOMAIN c : x \in DataOf(c[j])
    <3>1. k + i \in DOMAIN c /\ c[k + i] = b[i]
      BY <1>3, <1>5
    <3> QED
      BY <2>5, <3>1
  <2> QED
    BY <2>1, <2>2, <2>3, <2>4, <2>5
<1>7. BytesMixed(c) = BytesMixed(a) \cup BytesMixed(b)
  BY <1>6, OpenBytes
<1>8. Inside(c) <=> Inside(a) /\ Inside(b)
  <2>1. /\ Inside(a) <=> \A j \in 1..k : InsideOp(a[j])
        /\ Inside(b) <=> \A j \in 1..m : InsideOp(b[j])
        /\ Inside(c) <=> \A j \in 1..k + m : InsideOp(c[j])
    BY <1>1, <1>3, InsideEach
  <2>2. ASSUME Inside(c) PROVE Inside(a) /\ Inside(b)
    <3>1. ASSUME NEW j \in 1..k PROVE InsideOp(a[j])
      BY <1>3, <1>5, <2>1, <2>2
    <3>2. ASSUME NEW j \in 1..m PROVE InsideOp(b[j])
      <4>1. k + j \in 1..k + m /\ c[k + j] = b[j]
        BY <1>3, <1>5
      <4> QED
        BY <2>1, <2>2, <4>1
    <3> QED
      BY <2>1, <3>1, <3>2
  <2>3. ASSUME Inside(a), Inside(b) PROVE Inside(c)
    <3>1. ASSUME NEW j \in 1..k + m PROVE InsideOp(c[j])
      <4>1. CASE j \in 1..k
        BY <1>3, <2>1, <2>3, <4>1
      <4>2. CASE \E i \in 1..m : j = k + i
        BY <1>3, <2>1, <2>3, <4>2
      <4> QED
        BY <1>4, <4>1, <4>2
    <3> QED
      BY <2>1, <3>1
  <2> QED
    BY <2>2, <2>3
<1> QED
  BY <1>2, <1>7, <1>8

LEMMA OneOp ==
  ASSUME NEW op
  PROVE  /\ BytesMixed(<<op>>) = DataOf(op)
         /\ Inside(<<op>>) <=> InsideOp(op)
<1>1. PICK s : s = <<op>>
  OBVIOUS
<1>2. DOMAIN s = {1} /\ s[1] = op
  BY <1>1
<1>3. BytesMixed(s) = DataOf(op)
  <2>1. \A x : x \in DataOf(op) <=> \E j \in DOMAIN s : x \in DataOf(s[j])
    BY <1>2
  <2> QED
    BY <2>1, OpenBytes
<1>4. Inside(s) <=> InsideOp(op)
  BY <1>2, InsideEach
<1> QED
  BY <1>1, <1>3, <1>4

LEMMA TwoOps ==
  ASSUME NEW op1, NEW op2
  PROVE  /\ BytesMixed(<<op1, op2>>) = DataOf(op1) \cup DataOf(op2)
         /\ Inside(<<op1, op2>>) <=> InsideOp(op1) /\ InsideOp(op2)
<1>1. PICK s : s = <<op1, op2>>
  OBVIOUS
<1>2. DOMAIN s = {1, 2} /\ s[1] = op1 /\ s[2] = op2
  BY <1>1
<1>3. BytesMixed(s) = DataOf(op1) \cup DataOf(op2)
  <2>1. \A x : x \in DataOf(op1) \cup DataOf(op2) <=> \E j \in DOMAIN s : x \in DataOf(s[j])
    BY <1>2
  <2> QED
    BY <2>1, OpenBytes
<1>4. Inside(s) <=> InsideOp(op1) /\ InsideOp(op2)
  BY <1>2, InsideEach
<1> QED
  BY <1>1, <1>3, <1>4

LEMMA NoOps == BytesMixed(<< >>) = {} /\ Inside(<< >>)
BY DEF BytesMixed, Inside

LEMMA ThenBytes ==
  ASSUME NEW S, NEW acc \in Seq(S), NEW op \in S
  PROVE  /\ BytesMixed(Then(acc, op)) = BytesMixed(acc) \cup DataOf(op)
         /\ Inside(Then(acc, op)) <=> Inside(acc) /\ InsideOp(op)
<1>1. PICK one : one = <<op>>
  OBVIOUS
<1>2. one \in Seq(S) /\ Then(acc, op) = acc \o one
  BY <1>1 DEF Then
<1>3. BytesMixed(one) = DataOf(op) /\ (Inside(one) <=> InsideOp(op))
  BY <1>1, OneOp, Zenon
<1>4. /\ BytesMixed(acc \o one) = BytesMixed(acc) \cup BytesMixed(one)
      /\ Inside(acc \o one) <=> Inside(acc) /\ Inside(one)
  BY <1>2, JoinBytes
<1> QED
  BY <1>2, <1>3, <1>4, Zenon

\* A word of the input, and two of them.
LEMMA WordData ==
  ASSUME NEW f \in Nat, NEW n \in Nat, NEW p \in Nat, NEW m \in Nat, p + m <= n,
         NEW name, NEW secret, NEW at, NEW size
  PROVE  DataOf(Op(name, Read(Input(f, n), p, m), secret, at, size)) = f + p + 1 .. f + p + m
<1>1. PICK data : data = Read(Input(f, n), p, m)
  OBVIOUS
<1>2. DOMAIN data = 1..m /\ \A i \in 1..m : data[i] = f + p + i
  <2>1. ASSUME NEW i \in 1..m PROVE Input(f, n)[p + i] = f + p + i
    BY DEF Input
  <2> QED
    BY <1>1, <2>1 DEF Read
<1>3. {data[i] : i \in DOMAIN data} = f + p + 1 .. f + p + m
  <2>1. ASSUME NEW x \in f + p + 1 .. f + p + m PROVE \E i \in 1..m : x = f + p + i
    <3>1. x - f - p \in 1..m /\ x = f + p + (x - f - p)
      OBVIOUS
    <3> QED
      BY <3>1
  <2>2. \A i \in 1..m : f + p + i \in f + p + 1 .. f + p + m
    OBVIOUS
  <2>3. {data[i] : i \in DOMAIN data} = {f + p + i : i \in 1..m}
    BY <1>2
  <2> QED
    BY <2>1, <2>2, <2>3
<1>4. DataOf(Op(name, data, secret, at, size)) = {data[i] : i \in DOMAIN data}
  BY Zenon DEF DataOf, Op
<1> QED
  BY <1>1, <1>3, <1>4

Both(f, n, p, m, q, l) == Read(Input(f, n), p, m) \o Read(Input(f, n), q, l)

LEMMA TwoWordsData ==
  ASSUME NEW f \in Nat, NEW n \in Nat, NEW p \in Nat, NEW m \in Nat, p + m <= n,
         NEW q \in Nat, NEW l \in Nat, q + l <= n,
         NEW name, NEW secret, NEW at, NEW size
  PROVE  DataOf(Op(name, Both(f, n, p, m, q, l), secret, at, size))
           = (f + p + 1 .. f + p + m) \cup (f + q + 1 .. f + q + l)
<1>1. PICK a, b : a = Read(Input(f, n), p, m) /\ b = Read(Input(f, n), q, l)
  OBVIOUS
<1>2. DataOf(Op(name, a, secret, at, size)) = f + p + 1 .. f + p + m
      /\ DataOf(Op(name, b, secret, at, size)) = f + q + 1 .. f + q + l
  BY <1>1, WordData
<1>3. \A d : DataOf(Op(name, d, secret, at, size)) = {d[i] : i \in DOMAIN d}
  BY Zenon DEF DataOf, Op
<1>4. a \in [1..m -> Int] /\ b \in [1..l -> Int]
  <2>1. \A i \in 1..m : Input(f, n)[p + i] \in Int
    BY DEF Input
  <2>2. \A i \in 1..l : Input(f, n)[q + i] \in Int
    BY DEF Input
  <2> QED
    BY <1>1, <2>1, <2>2 DEF Read
<1>5. a \in Seq(Int) /\ b \in Seq(Int) /\ Len(a) = m /\ Len(b) = l /\ DOMAIN a = 1..m /\ DOMAIN b = 1..l
  BY <1>4, SeqOfFunction
<1>6. PICK c : c = a \o b
  OBVIOUS
<1>7. c \in Seq(Int) /\ Len(c) = m + l
      /\ \A j \in 1..m + l : c[j] = IF j <= m THEN a[j] ELSE b[j - m]
  BY <1>5, <1>6, ConcatProperties
<1>8. DOMAIN c = 1..m + l
  BY <1>7, LenProperties
<1>9. ASSUME NEW x PROVE (\E j \in 1..m + l : x = c[j]) <=> (\E i \in 1..m : x = a[i]) \/ (\E i \in 1..l : x = b[i])
  <2>1. ASSUME NEW j \in 1..m + l, x = c[j]
        PROVE (\E i \in 1..m : x = a[i]) \/ (\E i \in 1..l : x = b[i])
    <3>1. CASE j <= m
      <4>1. j \in 1..m /\ x = a[j]
        BY <1>7, <2>1, <3>1
      <4> QED
        BY <4>1
    <3>2. CASE ~(j <= m)
      <4>1. j - m \in 1..l /\ x = b[j - m]
        BY <1>7, <2>1, <3>2
      <4> QED
        BY <4>1
    <3> QED
      BY <3>1, <3>2
  <2>2. ASSUME NEW i \in 1..m PROVE i \in 1..m + l /\ c[i] = a[i]
    BY <1>7
  <2>3. ASSUME NEW i \in 1..l PROVE m + i \in 1..m + l /\ c[m + i] = b[i]
    <3>1. m + i \in 1..m + l /\ ~(m + i <= m) /\ (m + i) - m = i
      OBVIOUS
    <3> QED
      BY <1>7, <3>1
  <2> QED
    BY <2>1, <2>2, <2>3
<1>10. {c[i] : i \in DOMAIN c} = {a[i] : i \in DOMAIN a} \cup {b[i] : i \in DOMAIN b}
  BY <1>5, <1>8, <1>9
<1>11. /\ {a[i] : i \in DOMAIN a} = f + p + 1 .. f + p + m
       /\ {b[i] : i \in DOMAIN b} = f + q + 1 .. f + q + l
  BY <1>2, <1>3
<1>12. DataOf(Op(name, c, secret, at, size)) = {a[i] : i \in DOMAIN a} \cup {b[i] : i \in DOMAIN b}
  BY <1>3, <1>10
<1> QED
  BY <1>1, <1>6, <1>11, <1>12, Zenon DEF Both

\* The same, under one name.
TwoRead(f, n, p, m, q, l, op) ==
  DataOf(op) = (f + p + 1 .. f + p + m) \cup (f + q + 1 .. f + q + l)

LEMMA TwoWordsRead ==
  ASSUME NEW f \in Nat, NEW n \in Nat, NEW p \in Nat, NEW m \in Nat, p + m <= n,
         NEW q \in Nat, NEW l \in Nat, q + l <= n,
         NEW name, NEW secret, NEW at, NEW size
  PROVE  TwoRead(f, n, p, m, q, l, Op(name, Both(f, n, p, m, q, l), secret, at, size))
  BY TwoWordsData DEF TwoRead

LEMMA Overlap ==
  ASSUME NEW a \in Int, NEW b \in Int, NEW c \in Int, NEW d \in Int, NEW e \in Int, NEW g \in Int,
         a = e, d = g, e <= c, c <= b + 1, b <= g
  PROVE  (a .. b) \cup (c .. d) = e .. g
OBVIOUS

\* The short and middle lengths, for a secret of the smallest size or more.
LEMMA To16Counts64 ==
  ASSUME NEW f \in Nat, NEW n \in Nat, n <= 16, NEW secret, SizeOf(secret) \in Nat, SizeOf(secret) >= 136
  PROVE  Counts(XXH3_len_0to16_64b(Input(f, n), secret), f, n)
<1> DEFINE in == Input(f, n)
<1>1. Len(in) = n
  BY InputHolds
<1>2. \A i \in 1..n : in[i] = f + i
  BY DEF Input
<1> HIDE DEF in
<1>3. CASE n = 0
  <2> DEFINE op == Op("empty", <<>>, secret, 56, 16)
  <2>0. n = 0 /\ n \notin 1..3 /\ n \notin 4..8 /\ n \notin 9..16
    BY <1>3
  <2>1. XXH3_len_0to16_64b(in, secret) = <<op>>
    BY <1>1, <2>0, Zenon DEF XXH3_len_0to16_64b
  <2>2. DataOf(op) = {}
    BY DEF DataOf, Op
  <2>3. InsideOp(op)
    BY DEF InsideOp, Op
  <2> HIDE DEF op
  <2>4. f + 1 .. f + n = {}
    BY <1>3
  <2> QED
    BY <2>1, <2>2, <2>3, <2>4, OneOp DEF Counts, in
<1>4. CASE n \in 1..3
  <2> DEFINE data == <<in[1], in[n \div 2 + 1], in[n]>>
             op   == Op("1to3", data, secret, 0, 8)
  <2>0. n # 0 /\ n \in 1..3 /\ n \notin 4..8 /\ n \notin 9..16
    BY <1>4
  <2>1. XXH3_len_0to16_64b(in, secret) = <<op>>
    BY <1>1, <2>0, Zenon DEF XXH3_len_0to16_64b
  <2>2. DataOf(op) = f + 1 .. f + n
    <3>1. DataOf(op) = {in[1], in[n \div 2 + 1], in[n]}
      BY DEF DataOf, Op
    <3>2. n \div 2 + 1 \in 1..n
      BY <1>4
    <3>3. in[1] = f + 1 /\ in[n \div 2 + 1] = f + (n \div 2 + 1) /\ in[n] = f + n
      BY <1>2, <1>4, <3>2
    <3>4. n = 1 \/ (n = 2 /\ n \div 2 = 1) \/ (n = 3 /\ n \div 2 = 1)
      BY <1>4
    <3>5. {in[1], in[n \div 2 + 1], in[n]} = f + 1 .. f + n
      BY <3>3, <3>4
    <3> QED
      BY <3>1, <3>5, Zenon
  <2>3. InsideOp(op)
    BY DEF InsideOp, Op
  <2> HIDE DEF op
  <2> QED
    BY <2>1, <2>2, <2>3, OneOp DEF Counts, in
<1>5. CASE n \in 4..8
  <2> DEFINE op == Op("4to8", Read(in, 0, 4) \o Read(in, n - 4, 4), secret, 8, 16)
  <2>0. n # 0 /\ n \in 4..8 /\ n \notin 1..3 /\ n \notin 9..16
    BY <1>5
  <2>1. XXH3_len_0to16_64b(in, secret) = <<op>>
    BY <1>1, <2>0, Zenon DEF XXH3_len_0to16_64b
  <2>2. DataOf(op) = f + 1 .. f + n
    <3>1. n - 4 \in Nat /\ n - 4 + 4 <= n /\ 0 + 4 <= n
      BY <1>5
    <3>2. DataOf(op) = (f + 0 + 1 .. f + 0 + 4) \cup (f + (n - 4) + 1 .. f + (n - 4) + 4)
      <4>1. PICK q \in Nat : q = n - 4
        BY <3>1
      <4>2. 0 \in Nat /\ 4 \in Nat /\ q + 4 <= n /\ 0 + 4 <= n
        BY <3>1, <4>1
      <4>3. DataOf(Op("4to8", Both(f, n, 0, 4, q, 4), secret, 8, 16))
              = (f + 0 + 1 .. f + 0 + 4) \cup (f + q + 1 .. f + q + 4)
        <5>1. TwoRead(f, n, 0, 4, q, 4, Op("4to8", Both(f, n, 0, 4, q, 4), secret, 8, 16))
          BY <4>2, TwoWordsRead
        <5> QED
          BY <5>1, Zenon DEF TwoRead
      <4>4. op = Op("4to8", Both(f, n, 0, 4, q, 4), secret, 8, 16)
        BY <4>1, Zenon DEF in, Both
      <4> HIDE DEF op
      <4> QED
        BY <4>1, <4>3, <4>4, Zenon
    <3>3. (f + 0 + 1 .. f + 0 + 4) \cup (f + (n - 4) + 1 .. f + (n - 4) + 4) = f + 1 .. f + n
      BY <1>5, Overlap
    <3> QED
      BY <3>2, <3>3, Zenon
  <2>3. InsideOp(op)
    BY DEF InsideOp, Op
  <2> HIDE DEF op
  <2> QED
    BY <2>1, <2>2, <2>3, OneOp DEF Counts, in
<1>6. CASE n \in 9..16
  <2> DEFINE op1 == Op("9to16", Read(in, 0, 8), secret, 24, 16)
             op2 == Op("9to16", Read(in, n - 8, 8), secret, 40, 16)
  <2>0. n # 0 /\ n \in 9..16 /\ n \notin 1..3 /\ n \notin 4..8
    BY <1>6
  <2>1. XXH3_len_0to16_64b(in, secret) = <<op1, op2>>
    BY <1>1, <2>0, Zenon DEF XXH3_len_0to16_64b
  <2>2. DataOf(op1) \cup DataOf(op2) = f + 1 .. f + n
    <3>1. n - 8 \in Nat /\ n - 8 + 8 <= n /\ 0 + 8 <= n
      BY <1>6
    <3>2. DataOf(op1) = f + 0 + 1 .. f + 0 + 8 /\ DataOf(op2) = f + (n - 8) + 1 .. f + (n - 8) + 8
      BY <3>1, WordData DEF in
    <3>3. (f + 0 + 1 .. f + 0 + 8) \cup (f + (n - 8) + 1 .. f + (n - 8) + 8) = f + 1 .. f + n
      BY <1>6, Overlap
    <3> QED
      BY <3>2, <3>3, Zenon
  <2>3. InsideOp(op1) /\ InsideOp(op2)
    BY DEF InsideOp, Op
  <2> HIDE DEF op1, op2
  <2> QED
    BY <2>1, <2>2, <2>3, TwoOps DEF Counts, in
<1> QED
  BY <1>3, <1>4, <1>5, <1>6

LEMMA To16Counts128 ==
  ASSUME NEW f \in Nat, NEW n \in Nat, n <= 16, NEW secret, SizeOf(secret) \in Nat, SizeOf(secret) >= 136
  PROVE  Counts(XXH3_len_0to16_128b(Input(f, n), secret), f, n)
<1> DEFINE in == Input(f, n)
<1>1. Len(in) = n
  BY InputHolds
<1>2. \A i \in 1..n : in[i] = f + i
  BY DEF Input
<1> HIDE DEF in
<1>3. CASE n = 0
  <2> DEFINE op == Op("empty", <<>>, secret, 64, 32)
  <2>0. n = 0 /\ n \notin 1..3 /\ n \notin 4..8 /\ n \notin 9..16
    BY <1>3
  <2>1. XXH3_len_0to16_128b(in, secret) = <<op>>
    BY <1>1, <2>0, Zenon DEF XXH3_len_0to16_128b
  <2>2. DataOf(op) = {}
    BY DEF DataOf, Op
  <2>3. InsideOp(op)
    BY DEF InsideOp, Op
  <2> HIDE DEF op
  <2>4. f + 1 .. f + n = {}
    BY <1>3
  <2> QED
    BY <2>1, <2>2, <2>3, <2>4, OneOp DEF Counts, in
<1>4. CASE n \in 1..3
  <2> DEFINE data == <<in[1], in[n \div 2 + 1], in[n]>>
             op   == Op("1to3", data, secret, 0, 16)
  <2>0. n # 0 /\ n \in 1..3 /\ n \notin 4..8 /\ n \notin 9..16
    BY <1>4
  <2>1. XXH3_len_0to16_128b(in, secret) = <<op>>
    BY <1>1, <2>0, Zenon DEF XXH3_len_0to16_128b
  <2>2. DataOf(op) = f + 1 .. f + n
    <3>1. DataOf(op) = {in[1], in[n \div 2 + 1], in[n]}
      BY DEF DataOf, Op
    <3>2. n \div 2 + 1 \in 1..n
      BY <1>4
    <3>3. in[1] = f + 1 /\ in[n \div 2 + 1] = f + (n \div 2 + 1) /\ in[n] = f + n
      BY <1>2, <1>4, <3>2
    <3>4. n = 1 \/ (n = 2 /\ n \div 2 = 1) \/ (n = 3 /\ n \div 2 = 1)
      BY <1>4
    <3>5. {in[1], in[n \div 2 + 1], in[n]} = f + 1 .. f + n
      BY <3>3, <3>4
    <3> QED
      BY <3>1, <3>5, Zenon
  <2>3. InsideOp(op)
    BY DEF InsideOp, Op
  <2> HIDE DEF op
  <2> QED
    BY <2>1, <2>2, <2>3, OneOp DEF Counts, in
<1>5. CASE n \in 4..8
  <2> DEFINE op == Op("4to8", Read(in, 0, 4) \o Read(in, n - 4, 4), secret, 16, 16)
  <2>0. n # 0 /\ n \notin 1..3 /\ n \in 4..8 /\ n \notin 9..16
    BY <1>5
  <2>1. XXH3_len_0to16_128b(in, secret) = <<op>>
    BY <1>1, <2>0, Zenon DEF XXH3_len_0to16_128b
  <2>2. DataOf(op) = f + 1 .. f + n
    <3>1. PICK q \in Nat : q = n - 4
      BY <1>5
    <3>2. 0 \in Nat /\ 4 \in Nat /\ q + 4 <= n /\ 0 + 4 <= n
      BY <1>5, <3>1
    <3>3. DataOf(Op("4to8", Both(f, n, 0, 4, q, 4), secret, 16, 16))
            = (f + 0 + 1 .. f + 0 + 4) \cup (f + q + 1 .. f + q + 4)
      <4>1. TwoRead(f, n, 0, 4, q, 4, Op("4to8", Both(f, n, 0, 4, q, 4), secret, 16, 16))
        BY <3>2, TwoWordsRead
      <4> QED
        BY <4>1, Zenon DEF TwoRead
    <3>4. (f + 0 + 1 .. f + 0 + 4) \cup (f + q + 1 .. f + q + 4) = f + 1 .. f + n
      BY <1>5, <3>1, Overlap
    <3> QED
      BY <3>1, <3>3, <3>4, Zenon DEF in, Both
  <2>3. InsideOp(op)
    BY DEF InsideOp, Op
  <2> HIDE DEF op
  <2> QED
    BY <2>1, <2>2, <2>3, OneOp DEF Counts, in
<1>6. CASE n \in 9..16
  <2> DEFINE op1 == Op("9to16", Read(in, 0, 8) \o Read(in, n - 8, 8), secret, 32, 16)
             op2 == Op("9to16", Read(in, n - 8, 8), secret, 48, 16)
  <2>0. n # 0 /\ n \notin 1..3 /\ n \notin 4..8 /\ n \in 9..16
    BY <1>6
  <2>1. XXH3_len_0to16_128b(in, secret) = <<op1, op2>>
    BY <1>1, <2>0, Zenon DEF XXH3_len_0to16_128b
  <2>2. DataOf(op1) \cup DataOf(op2) = f + 1 .. f + n
    <3>1. PICK q \in Nat : q = n - 8
      BY <1>6
    <3>2. 0 \in Nat /\ 8 \in Nat /\ q + 8 <= n /\ 0 + 8 <= n
      BY <1>6, <3>1
    <3>3. DataOf(Op("9to16", Both(f, n, 0, 8, q, 8), secret, 32, 16))
            = (f + 0 + 1 .. f + 0 + 8) \cup (f + q + 1 .. f + q + 8)
      <4>1. TwoRead(f, n, 0, 8, q, 8, Op("9to16", Both(f, n, 0, 8, q, 8), secret, 32, 16))
        BY <3>2, TwoWordsRead
      <4> QED
        BY <4>1, Zenon DEF TwoRead
    <3>4. DataOf(Op("9to16", Read(Input(f, n), q, 8), secret, 48, 16)) = f + q + 1 .. f + q + 8
      BY <3>2, WordData
    <3>5. (f + 0 + 1 .. f + 0 + 8) \cup (f + q + 1 .. f + q + 8) = f + 1 .. f + n
      BY <1>6, <3>1, Overlap
    <3>6. DataOf(op1) = (f + 0 + 1 .. f + 0 + 8) \cup (f + q + 1 .. f + q + 8)
      BY <3>1, <3>3, Zenon DEF in, Both
    <3>7. DataOf(op2) = f + q + 1 .. f + q + 8
      BY <3>1, <3>4, Zenon DEF in
    <3> HIDE DEF op1, op2
    <3>8. DataOf(op1) \cup DataOf(op2) = DataOf(op1)
      BY <3>6, <3>7
    <3> QED
      BY <3>5, <3>6, <3>8, Zenon
  <2>3. InsideOp(op1) /\ InsideOp(op2)
    BY DEF InsideOp, Op
  <2> HIDE DEF op1, op2
  <2> QED
    BY <2>1, <2>2, <2>3, TwoOps DEF Counts, in
<1> QED
  BY <1>3, <1>4, <1>5, <1>6

\* A mix of 16 bytes, and of two words of 16.
LEMMA Mix16 ==
  ASSUME NEW f \in Nat, NEW n \in Nat, NEW p \in Nat, p + 16 <= n,
         NEW secret, SizeOf(secret) \in Nat, NEW at \in Nat, at + 16 <= SizeOf(secret)
  PROVE  /\ DataOf(XXH3_mix16B(Input(f, n), p, secret, at)) = f + p + 1 .. f + p + 16
         /\ InsideOp(XXH3_mix16B(Input(f, n), p, secret, at))
<1>1. DataOf(XXH3_mix16B(Input(f, n), p, secret, at)) = f + p + 1 .. f + p + 16
  <2>1. 16 \in Nat
    OBVIOUS
  <2>2. DataOf(Op("mix16B", Read(Input(f, n), p, 16), secret, at, 16)) = f + p + 1 .. f + p + 16
    BY <2>1, WordData
  <2> QED
    BY <2>2 DEF XXH3_mix16B
<1>2. InsideOp(XXH3_mix16B(Input(f, n), p, secret, at))
  BY DEF InsideOp, Op, XXH3_mix16B
<1> QED
  BY <1>1, <1>2

LEMMA Mix32 ==
  ASSUME NEW f \in Nat, NEW n \in Nat, NEW p \in Nat, p + 16 <= n, NEW q \in Nat, q + 16 <= n,
         NEW secret, SizeOf(secret) \in Nat, NEW at \in Nat, at + 32 <= SizeOf(secret)
  PROVE  /\ DataOf(XXH128_mix32B(Input(f, n), p, q, secret, at))
              = (f + p + 1 .. f + p + 16) \cup (f + q + 1 .. f + q + 16)
         /\ InsideOp(XXH128_mix32B(Input(f, n), p, q, secret, at))
<1>1. XXH128_mix32B(Input(f, n), p, q, secret, at) = Op("mix32B", Both(f, n, p, 16, q, 16), secret, at, 32)
  BY Zenon DEF XXH128_mix32B, Both
<1>2. DataOf(Op("mix32B", Both(f, n, p, 16, q, 16), secret, at, 32))
        = (f + p + 1 .. f + p + 16) \cup (f + q + 1 .. f + q + 16)
  <2>1. 16 \in Nat
    OBVIOUS
  <2>2. TwoRead(f, n, p, 16, q, 16, Op("mix32B", Both(f, n, p, 16, q, 16), secret, at, 32))
    BY <2>1, TwoWordsRead
  <2> QED
    BY <2>2, Zenon DEF TwoRead
<1>3. InsideOp(Op("mix32B", Both(f, n, p, 16, q, 16), secret, at, 32))
  BY DEF InsideOp, Op
<1> QED
  BY <1>1, <1>2, <1>3, Zenon

\* Which rounds there are, and which of them reads a byte.
LEMMA PairsAre ==
  ASSUME NEW n \in 17..128
  PROVE  /\ Pairs(n) \in 0..3 /\ 16 * (Pairs(n) + 1) <= n /\ n <= 32 * (Pairs(n) + 1)
BY DEF Pairs

LEMMA PairReads ==
  ASSUME NEW n \in 17..128, NEW r \in 0..3, 16 * (r + 1) <= n, n <= 32 * (r + 1), NEW y \in 1..n
  PROVE  \E i \in 0..r : y \in 16 * i + 1 .. 16 * i + 16
                         \/ y \in n - 16 * (i + 1) + 1 .. n - 16 * (i + 1) + 16
<1>1. CASE y <= 16 * (r + 1)
  <2>1. (y - 1) \div 16 \in 0..r /\ y \in 16 * ((y - 1) \div 16) + 1 .. 16 * ((y - 1) \div 16) + 16
    BY <1>1
  <2> QED
    BY <2>1
<1>2. CASE y > 16 * (r + 1)
  <2>1. PICK i \in Int : i = (n - y) \div 16
    OBVIOUS
  <2>2. i \in 0..r /\ y \in n - 16 * (i + 1) + 1 .. n - 16 * (i + 1) + 16
    BY <1>2, <2>1
  <2> QED
    BY <2>2
<1> QED
  BY <1>1, <1>2

\* The operations of rounds 1..m, each of which reads the bytes after f that are in
\* reads[k], all inside the input, are inside the secret and read what rounds read.
LEMMA RoundsCount ==
  ASSUME NEW f \in Nat, NEW n \in Nat, NEW m \in Nat, NEW ops, DOMAIN ops = 1..m,
         NEW S, \A j \in 1..m : InsideOp(ops[j]),
         \A j \in 1..m : DataOf(ops[j]) \subseteq S,
         \A x \in S : \E j \in 1..m : x \in DataOf(ops[j])
  PROVE  BytesMixed(ops) = S /\ Inside(ops)
<1>1. Inside(ops)
  BY InsideEach
<1>2. ASSUME NEW x PROVE x \in S <=> \E j \in DOMAIN ops : x \in DataOf(ops[j])
  OBVIOUS
<1>3. BytesMixed(ops) = S
  BY <1>2, OpenBytes
<1> QED
  BY <1>1, <1>3

LEMMA To128Counts64 ==
  ASSUME NEW f \in Nat, NEW n \in 17..128, NEW secret, SizeOf(secret) \in Nat, SizeOf(secret) >= 136
  PROVE  Counts(XXH3_len_17to128_64b(Input(f, n), secret), f, n)
<1> DEFINE in == Input(f, n)
<1>0. n \in Nat
  OBVIOUS
<1>1. Len(in) = n
  BY <1>0, InputHolds
<1>2. PICK r \in 0..3 : r = Pairs(n) /\ 16 * (r + 1) <= n /\ n <= 32 * (r + 1)
  BY PairsAre
<1>3. PICK ops : ops = XXH3_len_17to128_64b(in, secret)
  OBVIOUS
<1>4. /\ DOMAIN ops = 1..2 * (r + 1)
      /\ \A j \in 1..2 * (r + 1) :
           ops[j] = LET i == r - (j - 1) \div 2
                    IN  IF j % 2 = 1 THEN XXH3_mix16B(in, 16 * i, secret, 32 * i)
                        ELSE XXH3_mix16B(in, n - 16 * (i + 1), secret, 32 * i + 16)
  BY <1>1, <1>2, <1>3, Zenon DEF XXH3_len_17to128_64b
<1>5. ASSUME NEW i \in 0..r
      PROVE  /\ DataOf(XXH3_mix16B(in, 16 * i, secret, 32 * i)) = f + 16 * i + 1 .. f + 16 * i + 16
             /\ InsideOp(XXH3_mix16B(in, 16 * i, secret, 32 * i))
             /\ DataOf(XXH3_mix16B(in, n - 16 * (i + 1), secret, 32 * i + 16))
                  = f + (n - 16 * (i + 1)) + 1 .. f + (n - 16 * (i + 1)) + 16
             /\ InsideOp(XXH3_mix16B(in, n - 16 * (i + 1), secret, 32 * i + 16))
  <2>1. PICK p \in Nat, at \in Nat : p = 16 * i /\ at = 32 * i /\ p + 16 <= n /\ at + 32 <= 136
    BY <1>2
  <2>2. PICK q \in Nat : q = n - 16 * (i + 1) /\ q + 16 <= n
    BY <1>2
  <2>3. at + 16 <= SizeOf(secret) /\ at + 16 + 16 <= SizeOf(secret) /\ at + 16 \in Nat
        /\ p + 16 <= n /\ q + 16 <= n
    BY <2>1, <2>2
  <2>4. PICK at2 \in Nat : at2 = at + 16 /\ at2 + 16 <= SizeOf(secret)
    BY <2>3
  <2>5. DataOf(XXH3_mix16B(in, p, secret, at)) = f + p + 1 .. f + p + 16
        /\ InsideOp(XXH3_mix16B(in, p, secret, at))
    BY <1>0, <2>3, Mix16
  <2>6. DataOf(XXH3_mix16B(in, q, secret, at2)) = f + q + 1 .. f + q + 16
        /\ InsideOp(XXH3_mix16B(in, q, secret, at2))
    <3>1. q + 16 <= n /\ at2 + 16 <= SizeOf(secret)
      BY <2>2, <2>4
    <3> QED
      BY <1>0, <3>1, Mix16
  <2> QED
    BY <2>1, <2>2, <2>4, <2>5, <2>6
<1> HIDE DEF in
<1>6. PICK S : S = f + 1 .. f + n
  OBVIOUS
<1>7. ASSUME NEW j \in 1..2 * (r + 1)
      PROVE  InsideOp(ops[j]) /\ DataOf(ops[j]) \subseteq S
  <2>1. PICK i \in 0..r : i = r - (j - 1) \div 2
    <3>1. r - (j - 1) \div 2 \in 0..r
      BY <1>2
    <3> QED
      BY <3>1
  <2>2. CASE j % 2 = 1
    <3>1. ops[j] = XXH3_mix16B(in, 16 * i, secret, 32 * i)
      BY <1>4, <2>1, <2>2, Zenon
    <3>2. (f + 16 * i + 1 .. f + 16 * i + 16) \subseteq S
      BY <1>2, <1>6
    <3> QED
      BY <1>5, <3>1, <3>2, Zenon
  <2>3. CASE j % 2 # 1
    <3>1. ops[j] = XXH3_mix16B(in, n - 16 * (i + 1), secret, 32 * i + 16)
      BY <1>4, <2>1, <2>3, Zenon
    <3>2. (f + (n - 16 * (i + 1)) + 1 .. f + (n - 16 * (i + 1)) + 16) \subseteq S
      BY <1>2, <1>6
    <3> QED
      BY <1>5, <3>1, <3>2, Zenon
  <2> QED
    BY <2>2, <2>3
<1>8. ASSUME NEW x \in S PROVE \E j \in 1..2 * (r + 1) : x \in DataOf(ops[j])
  <2>1. PICK y \in 1..n : x = f + y
    <3>1. x - f \in 1..n /\ x = f + (x - f)
      BY <1>6
    <3> QED
      BY <3>1
  <2>2. PICK i \in 0..r : \/ y \in 16 * i + 1 .. 16 * i + 16
                          \/ y \in n - 16 * (i + 1) + 1 .. n - 16 * (i + 1) + 16
    BY <1>2, PairReads
  <2>3. CASE y \in 16 * i + 1 .. 16 * i + 16
    <3>1. PICK j \in 1..2 * (r + 1) : j = 2 * (r - i) + 1
      BY <1>2
    <3>2. j % 2 = 1 /\ i = r - (j - 1) \div 2
      BY <3>1
    <3>3. ops[j] = XXH3_mix16B(in, 16 * i, secret, 32 * i)
      BY <1>4, <3>2, Zenon
    <3>4. x \in f + 16 * i + 1 .. f + 16 * i + 16
      BY <2>1, <2>3
    <3> QED
      BY <1>5, <3>3, <3>4, Zenon
  <2>4. CASE y \in n - 16 * (i + 1) + 1 .. n - 16 * (i + 1) + 16
    <3>1. PICK j \in 1..2 * (r + 1) : j = 2 * (r - i) + 2
      BY <1>2
    <3>2. j % 2 # 1 /\ i = r - (j - 1) \div 2
      BY <3>1
    <3>3. ops[j] = XXH3_mix16B(in, n - 16 * (i + 1), secret, 32 * i + 16)
      BY <1>4, <3>2, Zenon
    <3>4. x \in f + (n - 16 * (i + 1)) + 1 .. f + (n - 16 * (i + 1)) + 16
      BY <2>1, <2>4
    <3> QED
      BY <1>5, <3>3, <3>4, Zenon
  <2> QED
    BY <2>2, <2>3, <2>4
<1>9. BytesMixed(ops) = S /\ Inside(ops)
  <2>1. PICK m \in Nat : m = 2 * (r + 1)
    OBVIOUS
  <2> QED
    BY <1>4, <1>7, <1>8, <2>1, RoundsCount
<1> QED
  BY <1>3, <1>6, <1>9 DEF Counts, in

LEMMA To128Counts128 ==
  ASSUME NEW f \in Nat, NEW n \in 17..128, NEW secret, SizeOf(secret) \in Nat, SizeOf(secret) >= 136
  PROVE  Counts(XXH3_len_17to128_128b(Input(f, n), secret), f, n)
<1> DEFINE in == Input(f, n)
<1>0. n \in Nat
  OBVIOUS
<1>1. Len(in) = n
  BY <1>0, InputHolds
<1>2. PICK r \in 0..3 : r = Pairs(n) /\ 16 * (r + 1) <= n /\ n <= 32 * (r + 1)
  BY PairsAre
<1>3. PICK ops : ops = XXH3_len_17to128_128b(in, secret)
  OBVIOUS
<1>4. /\ DOMAIN ops = 1..r + 1
      /\ \A j \in 1..r + 1 :
           ops[j] = LET i == r + 1 - j
                    IN  XXH128_mix32B(in, 16 * i, n - 16 * (i + 1), secret, 32 * i)
  BY <1>1, <1>2, <1>3, Zenon DEF XXH3_len_17to128_128b
<1>5. ASSUME NEW i \in 0..r
      PROVE  /\ DataOf(XXH128_mix32B(in, 16 * i, n - 16 * (i + 1), secret, 32 * i))
                  = (f + 16 * i + 1 .. f + 16 * i + 16)
                    \cup (f + (n - 16 * (i + 1)) + 1 .. f + (n - 16 * (i + 1)) + 16)
             /\ InsideOp(XXH128_mix32B(in, 16 * i, n - 16 * (i + 1), secret, 32 * i))
  <2>1. PICK p \in Nat, at \in Nat : p = 16 * i /\ at = 32 * i /\ p + 16 <= n /\ at + 32 <= 136
    BY <1>2
  <2>2. PICK q \in Nat : q = n - 16 * (i + 1) /\ q + 16 <= n
    BY <1>2
  <2>3. at + 32 <= SizeOf(secret) /\ p + 16 <= n /\ q + 16 <= n
    BY <2>1, <2>2
  <2>4. /\ DataOf(XXH128_mix32B(in, p, q, secret, at))
             = (f + p + 1 .. f + p + 16) \cup (f + q + 1 .. f + q + 16)
        /\ InsideOp(XXH128_mix32B(in, p, q, secret, at))
    BY <1>0, <2>3, Mix32
  <2> QED
    BY <2>1, <2>2, <2>4
<1> HIDE DEF in
<1>6. PICK S : S = f + 1 .. f + n
  OBVIOUS
<1>7. ASSUME NEW j \in 1..r + 1
      PROVE  InsideOp(ops[j]) /\ DataOf(ops[j]) \subseteq S
  <2>1. PICK i \in 0..r : i = r + 1 - j
    <3>1. r + 1 - j \in 0..r
      BY <1>2
    <3> QED
      BY <3>1
  <2>2. ops[j] = XXH128_mix32B(in, 16 * i, n - 16 * (i + 1), secret, 32 * i)
    BY <1>4, <2>1, Zenon
  <2>3. (f + 16 * i + 1 .. f + 16 * i + 16)
          \cup (f + (n - 16 * (i + 1)) + 1 .. f + (n - 16 * (i + 1)) + 16) \subseteq S
    BY <1>2, <1>6
  <2> QED
    BY <1>5, <2>2, <2>3, Zenon
<1>8. ASSUME NEW x \in S PROVE \E j \in 1..r + 1 : x \in DataOf(ops[j])
  <2>1. PICK y \in 1..n : x = f + y
    <3>1. x - f \in 1..n /\ x = f + (x - f)
      BY <1>6
    <3> QED
      BY <3>1
  <2>2. PICK i \in 0..r : \/ y \in 16 * i + 1 .. 16 * i + 16
                          \/ y \in n - 16 * (i + 1) + 1 .. n - 16 * (i + 1) + 16
    BY <1>2, PairReads
  <2>3. PICK j \in 1..r + 1 : j = r + 1 - i
    BY <1>2
  <2>4. i = r + 1 - j
    BY <2>3
  <2>5. ops[j] = XXH128_mix32B(in, 16 * i, n - 16 * (i + 1), secret, 32 * i)
    BY <1>4, <2>4, Zenon
  <2>6. x \in (f + 16 * i + 1 .. f + 16 * i + 16)
              \cup (f + (n - 16 * (i + 1)) + 1 .. f + (n - 16 * (i + 1)) + 16)
    BY <2>1, <2>2
  <2> QED
    BY <1>5, <2>5, <2>6, Zenon
<1>9. BytesMixed(ops) = S /\ Inside(ops)
  <2>1. PICK m \in Nat : m = r + 1
    OBVIOUS
  <2> QED
    BY <1>4, <1>7, <1>8, <2>1, RoundsCount
<1> QED
  BY <1>3, <1>6, <1>9 DEF Counts, in

\* Two rows of operations and one operation between them, or after them.
Around(a, op, c) == a \o <<op>> \o c
Ending(a, c, op) == a \o c \o <<op>>

LEMMA AroundBytes ==
  ASSUME NEW S, NEW k \in Nat, NEW a \in [1..k -> S], NEW op \in S,
         NEW l \in Nat, NEW c \in [1..l -> S]
  PROVE  /\ BytesMixed(Around(a, op, c)) = BytesMixed(a) \cup DataOf(op) \cup BytesMixed(c)
         /\ Inside(Around(a, op, c)) <=> Inside(a) /\ InsideOp(op) /\ Inside(c)
<1>1. a \in Seq(S) /\ c \in Seq(S)
  BY SeqOfFunction
<1>2. PICK one : one = <<op>>
  OBVIOUS
<1>3. one \in Seq(S) /\ BytesMixed(one) = DataOf(op) /\ (Inside(one) <=> InsideOp(op))
  <2>1. one \in Seq(S)
    BY <1>2
  <2> QED
    BY <1>2, <2>1, OneOp, Zenon
<1>4. PICK ab : ab = a \o one
  OBVIOUS
<1>5. ab \in Seq(S)
  BY <1>1, <1>3, <1>4
<1>6. BytesMixed(ab) = BytesMixed(a) \cup BytesMixed(one) /\ (Inside(ab) <=> Inside(a) /\ Inside(one))
  BY <1>1, <1>3, <1>4, JoinBytes
<1>7. BytesMixed(ab \o c) = BytesMixed(ab) \cup BytesMixed(c) /\ (Inside(ab \o c) <=> Inside(ab) /\ Inside(c))
  BY <1>1, <1>5, JoinBytes
<1>8. Around(a, op, c) = ab \o c
  BY <1>2, <1>4, Zenon DEF Around
<1> QED
  BY <1>3, <1>6, <1>7, <1>8, Zenon

LEMMA EndingBytes ==
  ASSUME NEW S, NEW k \in Nat, NEW a \in [1..k -> S], NEW op \in S,
         NEW l \in Nat, NEW c \in [1..l -> S]
  PROVE  /\ BytesMixed(Ending(a, c, op)) = BytesMixed(a) \cup BytesMixed(c) \cup DataOf(op)
         /\ Inside(Ending(a, c, op)) <=> Inside(a) /\ Inside(c) /\ InsideOp(op)
<1>1. a \in Seq(S) /\ c \in Seq(S)
  BY SeqOfFunction
<1>2. PICK one : one = <<op>>
  OBVIOUS
<1>3. one \in Seq(S) /\ BytesMixed(one) = DataOf(op) /\ (Inside(one) <=> InsideOp(op))
  <2>1. one \in Seq(S)
    BY <1>2
  <2> QED
    BY <1>2, <2>1, OneOp, Zenon
<1>4. PICK ac : ac = a \o c
  OBVIOUS
<1>5. ac \in Seq(S)
  BY <1>1, <1>4
<1>6. BytesMixed(ac) = BytesMixed(a) \cup BytesMixed(c) /\ (Inside(ac) <=> Inside(a) /\ Inside(c))
  BY <1>1, <1>4, JoinBytes
<1>7. BytesMixed(ac \o one) = BytesMixed(ac) \cup BytesMixed(one) /\ (Inside(ac \o one) <=> Inside(ac) /\ Inside(one))
  BY <1>3, <1>5, JoinBytes
<1>8. Ending(a, c, op) = ac \o one
  BY <1>2, <1>4, Zenon DEF Ending
<1> QED
  BY <1>3, <1>6, <1>7, <1>8, Zenon

\* Words of w bytes, one after another, from the byte after g.
WordSizes == {16, 32, 64}
RowOf(ops, g, w, k) ==
  \A j \in 1..k : InsideOp(ops[j]) /\ DataOf(ops[j]) = g + w * (j - 1) + 1 .. g + w * j

LEMMA RowPlace ==
  ASSUME NEW w \in WordSizes, NEW k \in Nat, NEW j \in 1..k
  PROVE  w * (j - 1) \in Nat /\ w * j \in Nat /\ w * j <= w * k
<1>1. CASE w = 16
  BY <1>1
<1>2. CASE w = 32
  BY <1>2
<1>3. CASE w = 64
  BY <1>3
<1> QED
  BY <1>1, <1>2, <1>3 DEF WordSizes

LEMMA RowReads ==
  ASSUME NEW w \in WordSizes, NEW k \in Nat, NEW y \in Nat, y < w * k
  PROVE  \E j \in 1..k : w * (j - 1) <= y /\ y < w * j
<1> DEFINE j == y \div w + 1
<1>1. j \in 1..k /\ w * (j - 1) <= y /\ y < w * j
  <2>1. CASE w = 16
    BY <2>1
  <2>2. CASE w = 32
    BY <2>2
  <2>3. CASE w = 64
    BY <2>3
  <2> QED
    BY <2>1, <2>2, <2>3 DEF WordSizes
<1> QED
  BY <1>1

LEMMA RowCounts ==
  ASSUME NEW g \in Nat, NEW w \in WordSizes, NEW k \in Nat, NEW ops, DOMAIN ops = 1..k,
         RowOf(ops, g, w, k)
  PROVE  BytesMixed(ops) = g + 1 .. g + w * k /\ Inside(ops)
<1>0. \A j \in 1..k : InsideOp(ops[j]) /\ DataOf(ops[j]) = g + w * (j - 1) + 1 .. g + w * j
  BY DEF RowOf
<1>00. \A t \in WordSizes : t \in Nat
  BY DEF WordSizes
<1>1. PICK S : S = g + 1 .. g + w * k
  OBVIOUS
<1>2. \A j \in 1..k : InsideOp(ops[j])
  BY <1>0
<1>3. ASSUME NEW j \in 1..k PROVE DataOf(ops[j]) \subseteq S
  <2>1. DataOf(ops[j]) = g + w * (j - 1) + 1 .. g + w * j
    BY <1>0
  <2>2. w * (j - 1) \in Nat /\ w * j \in Nat /\ w * j <= w * k
    BY RowPlace
  <2>3. PICK u, v, t : u = w * (j - 1) /\ v = w * j /\ t = w * k
    OBVIOUS
  <2>4. u \in Nat /\ v \in Nat /\ v <= t
    BY <2>2, <2>3, Zenon
  <2>5. t \in Int
    BY <1>00, <2>3
  <2>6. (g + u + 1 .. g + v) \subseteq (g + 1 .. g + t)
    BY <2>4, <2>5
  <2> QED
    BY <1>1, <2>1, <2>3, <2>6, Zenon
<1>4. ASSUME NEW x \in S PROVE \E j \in 1..k : x \in DataOf(ops[j])
  <2>1. PICK y \in Nat : x = g + 1 + y /\ y < w * k
    <3>1. PICK t \in Int : t = w * k
      BY <1>00
    <3>2. x - g - 1 \in Nat /\ x = g + 1 + (x - g - 1) /\ x - g - 1 < t
      BY <1>1, <3>1
    <3> QED
      BY <3>1, <3>2
  <2>2. PICK j \in 1..k : w * (j - 1) <= y /\ y < w * j
    BY <2>1, RowReads
  <2>3. DataOf(ops[j]) = g + w * (j - 1) + 1 .. g + w * j
    BY <1>0
  <2>4. PICK u \in Int, v \in Int : u = w * (j - 1) /\ v = w * j
    BY <1>00
  <2>5. x \in g + u + 1 .. g + v
    BY <2>1, <2>2, <2>4
  <2> QED
    BY <2>3, <2>4, <2>5
<1>5. BytesMixed(ops) = S /\ Inside(ops)
  BY <1>2, <1>3, <1>4, RoundsCount
<1> QED
  BY <1>1, <1>5

LEMMA To240Counts64 ==
  ASSUME NEW f \in Nat, NEW n \in 129..240, NEW secret, SizeOf(secret) \in Nat, SizeOf(secret) >= 136
  PROVE  Counts(XXH3_len_129to240_64b(Input(f, n), secret), f, n)
<1> DEFINE in == Input(f, n)
           op == XXH3_mix16B(in, n - 16, secret, 119)
           a  == [i \in 1..8 |-> XXH3_mix16B(in, 16 * (i - 1), secret, 16 * (i - 1))]
<1>0. n \in Nat
  OBVIOUS
<1>1. Len(in) = n
  BY <1>0, InputHolds
<1>2. PICK l \in Nat : l = n \div 16 - 8 /\ l <= 7 /\ 16 * l + 128 <= n /\ n < 16 * l + 144
  <2>1. n \div 16 - 8 \in Nat /\ n \div 16 - 8 <= 7
        /\ 16 * (n \div 16 - 8) + 128 <= n /\ n < 16 * (n \div 16 - 8) + 144
    OBVIOUS
  <2> QED
    BY <2>1
<1> DEFINE c == [i \in 1..l |-> XXH3_mix16B(in, 16 * (i + 7), secret, 16 * (i - 1) + MidStart)]
<1>3. XXH3_len_129to240_64b(in, secret) = Around(a, op, c)
  <2>1. SecretMin - MidLast = 119
    BY DEF SecretMin, MidLast
  <2> QED
    BY <1>1, <1>2, <2>1, Zenon DEF XXH3_len_129to240_64b, Around
<1>4. BytesMixed(a) = f + 1 .. f + 128 /\ Inside(a)
  <2>1. ASSUME NEW j \in 1..8
        PROVE InsideOp(a[j]) /\ DataOf(a[j]) = f + 16 * (j - 1) + 1 .. f + 16 * j
    <3>1. PICK p \in Nat : p = 16 * (j - 1) /\ p + 16 <= 128
      OBVIOUS
    <3>2. p + 16 <= n /\ p + 16 <= SizeOf(secret)
      BY <3>1
    <3>3. /\ DataOf(XXH3_mix16B(in, p, secret, p)) = f + p + 1 .. f + p + 16
          /\ InsideOp(XXH3_mix16B(in, p, secret, p))
      BY <1>0, <3>2, Mix16
    <3>4. a[j] = XXH3_mix16B(in, p, secret, p)
      BY <3>1
    <3>5. f + p + 1 = f + 16 * (j - 1) + 1 /\ f + p + 16 = f + 16 * j
      BY <3>1
    <3> QED
      BY <3>3, <3>4, <3>5, Zenon
  <2>2. DOMAIN a = 1..8
    OBVIOUS
  <2> HIDE DEF a, in
  <2>3. PICK w \in WordSizes, k \in Nat : w = 16 /\ k = 8
    BY DEF WordSizes
  <2>4. BytesMixed(a) = f + 1 .. f + w * k /\ Inside(a)
    <3>1. DOMAIN a = 1..k
      BY <2>2, <2>3
    <3>2. RowOf(a, f, w, k)
      BY <2>1, <2>3 DEF RowOf
    <3> QED
      BY <3>1, <3>2, RowCounts
  <2>5. w * k = 128
    BY <2>3
  <2> QED
    BY <2>4, <2>5, Zenon
<1>5. BytesMixed(c) = f + 128 + 1 .. f + 128 + 16 * l /\ Inside(c)
  <2>1. ASSUME NEW j \in 1..l
        PROVE InsideOp(c[j]) /\ DataOf(c[j]) = f + 128 + 16 * (j - 1) + 1 .. f + 128 + 16 * j
    <3>1. PICK p \in Nat, at \in Nat : p = 16 * (j + 7) /\ at = 16 * (j - 1) + MidStart
                                       /\ p + 16 <= n /\ at + 16 <= 136
      BY <1>2 DEF MidStart
    <3>2. p + 16 <= n /\ at + 16 <= SizeOf(secret)
      BY <3>1
    <3>3. /\ DataOf(XXH3_mix16B(in, p, secret, at)) = f + p + 1 .. f + p + 16
          /\ InsideOp(XXH3_mix16B(in, p, secret, at))
      BY <1>0, <3>2, Mix16
    <3>4. c[j] = XXH3_mix16B(in, p, secret, at)
      BY <3>1
    <3>5. f + p + 1 = f + 128 + 16 * (j - 1) + 1 /\ f + p + 16 = f + 128 + 16 * j
      BY <3>1
    <3> QED
      BY <3>3, <3>4, <3>5, Zenon
  <2>2. DOMAIN c = 1..l
    OBVIOUS
  <2> HIDE DEF c, in
  <2>3. PICK w \in WordSizes, g \in Nat : w = 16 /\ g = f + 128
    BY DEF WordSizes
  <2>4. BytesMixed(c) = g + 1 .. g + w * l /\ Inside(c)
    <3>2. RowOf(c, g, w, l)
      BY <2>1, <2>3 DEF RowOf
    <3> QED
      BY <2>2, <3>2, RowCounts
  <2> QED
    BY <2>3, <2>4, Zenon
<1>6. DataOf(op) = f + n - 16 + 1 .. f + n /\ InsideOp(op)
  <2>1. PICK p \in Nat, at \in Nat : p = n - 16 /\ at = 119
    OBVIOUS
  <2>2. p + 16 <= n /\ at + 16 <= SizeOf(secret)
    BY <2>1
  <2>3. /\ DataOf(XXH3_mix16B(in, p, secret, at)) = f + p + 1 .. f + p + 16
        /\ InsideOp(XXH3_mix16B(in, p, secret, at))
    BY <1>0, <2>2, Mix16
  <2>4. f + p + 1 = f + n - 16 + 1 /\ f + p + 16 = f + n
    BY <2>1
  <2> QED
    BY <2>1, <2>3, <2>4, Zenon
<1>7. /\ BytesMixed(Around(a, op, c)) = BytesMixed(a) \cup DataOf(op) \cup BytesMixed(c)
      /\ Inside(Around(a, op, c)) <=> Inside(a) /\ InsideOp(op) /\ Inside(c)
  <2> DEFINE S == {a[i] : i \in 1..8} \cup {op} \cup {c[i] : i \in 1..l}
  <2>1. a \in [1..8 -> S]
    OBVIOUS
  <2>2. c \in [1..l -> S]
    OBVIOUS
  <2>3. op \in S
    OBVIOUS
  <2> HIDE DEF S, a, c, op, in
  <2>4. PICK k \in Nat : k = 8
    OBVIOUS
  <2> QED
    <3>1. a \in [1..k -> S]
      BY <2>1, <2>4
    <3> QED
      BY <2>2, <2>3, <3>1, AroundBytes
<1> HIDE DEF a, c, op, in
<1>8. (f + 1 .. f + 128) \cup (f + n - 16 + 1 .. f + n) \cup (f + 128 + 1 .. f + 128 + 16 * l)
        = f + 1 .. f + n
  BY <1>2
<1>9. BytesMixed(Around(a, op, c)) = f + 1 .. f + n
  BY <1>4, <1>5, <1>6, <1>7, <1>8, Zenon
<1> QED
  BY <1>3, <1>4, <1>5, <1>6, <1>7, <1>9, Zenon DEF Counts, in

\* m bytes are there after the first p of n.
Fits(p, m, n) == p + m <= n

\* The operation reads the m bytes after f + p, within its secret.
Mixes(op, f, p, m) == DataOf(op) = f + p + 1 .. f + p + m /\ InsideOp(op)

\* Two words that touch are 32 bytes.
LEMMA Mix32Row ==
  ASSUME NEW f \in Nat, NEW n \in Nat, NEW p \in Nat, Fits(p, 32, n),
         NEW q \in Nat, SumIs(q, p, 16),
         NEW secret, SizeOf(secret) \in Nat, NEW at \in Nat, Fits(at, 32, SizeOf(secret))
  PROVE  /\ Mixes(XXH128_mix32B(Input(f, n), p, q, secret, at), f, p, 32)
         /\ Mixes(XXH128_mix32B(Input(f, n), q, p, secret, at), f, p, 32)
<1>1. q = p + 16 /\ p + 32 <= n /\ at + 32 <= SizeOf(secret)
  BY DEF SumIs, Fits
<1>2. p + 16 <= n /\ q + 16 <= n /\ at + 32 <= SizeOf(secret)
  BY <1>1
<1>3. /\ DataOf(XXH128_mix32B(Input(f, n), p, q, secret, at))
           = (f + p + 1 .. f + p + 16) \cup (f + q + 1 .. f + q + 16)
      /\ InsideOp(XXH128_mix32B(Input(f, n), p, q, secret, at))
      /\ DataOf(XXH128_mix32B(Input(f, n), q, p, secret, at))
           = (f + q + 1 .. f + q + 16) \cup (f + p + 1 .. f + p + 16)
      /\ InsideOp(XXH128_mix32B(Input(f, n), q, p, secret, at))
  BY <1>2, Mix32
<1>4. (f + p + 1 .. f + p + 16) \cup (f + q + 1 .. f + q + 16) = f + p + 1 .. f + p + 32
  BY <1>1
<1>5. (f + q + 1 .. f + q + 16) \cup (f + p + 1 .. f + p + 16) = f + p + 1 .. f + p + 32
  BY <1>1
<1> QED
  BY <1>3, <1>4, <1>5, Zenon DEF Mixes

LEMMA To240Counts128 ==
  ASSUME NEW f \in Nat, NEW n \in 129..240, NEW secret, SizeOf(secret) \in Nat, SizeOf(secret) >= 136
  PROVE  Counts(XXH3_len_129to240_128b(Input(f, n), secret), f, n)
<1> DEFINE in == Input(f, n)
           op == XXH128_mix32B(in, n - 16, n - 32, secret, 103)
           a  == [i \in 1..4 |-> XXH128_mix32B(in, 32 * (i - 1), 32 * (i - 1) + 16, secret, 32 * (i - 1))]
<1>0. n \in Nat
  OBVIOUS
<1>1. Len(in) = n
  BY <1>0, InputHolds
<1>2. PICK l \in Nat : l = (n - 128) \div 32 /\ l <= 3 /\ 32 * l + 128 <= n /\ n < 32 * l + 160
  <2>1. (n - 128) \div 32 \in Nat /\ (n - 128) \div 32 <= 3
        /\ 32 * ((n - 128) \div 32) + 128 <= n /\ n < 32 * ((n - 128) \div 32) + 160
    OBVIOUS
  <2> QED
    BY <2>1
<1> DEFINE c == [i \in 1..l |-> XXH128_mix32B(in, 96 + 32 * i, 112 + 32 * i, secret, MidStart + 32 * (i - 1))]
<1>3. XXH3_len_129to240_128b(in, secret) = Ending(a, c, op)
  <2>1. SecretMin - MidLast - 16 = 103
    BY DEF SecretMin, MidLast
  <2> QED
    BY <1>1, <1>2, <2>1, Zenon DEF XXH3_len_129to240_128b, Ending
<1>4. BytesMixed(a) = f + 1 .. f + 128 /\ Inside(a)
  <2>1. ASSUME NEW j \in 1..4
        PROVE InsideOp(a[j]) /\ DataOf(a[j]) = f + 32 * (j - 1) + 1 .. f + 32 * j
    <3>1. PICK p \in Nat, q \in Nat : p = 32 * (j - 1) /\ q = 32 * (j - 1) + 16 /\ p + 32 <= 128
      OBVIOUS
    <3>2. Fits(p, 32, n) /\ Fits(p, 32, SizeOf(secret)) /\ SumIs(q, p, 16)
      BY <3>1 DEF SumIs, Fits
    <3>3. Mixes(XXH128_mix32B(in, p, q, secret, p), f, p, 32)
      BY <1>0, <3>2, Mix32Row
    <3>4. a[j] = XXH128_mix32B(in, p, q, secret, p)
      BY <3>1, Zenon
    <3>5. f + p + 1 = f + 32 * (j - 1) + 1 /\ f + p + 32 = f + 32 * j
      BY <3>1
    <3> QED
      BY <3>3, <3>4, <3>5, Zenon DEF Mixes
  <2>2. DOMAIN a = 1..4
    OBVIOUS
  <2> HIDE DEF a, in
  <2>3. PICK w \in WordSizes, k \in Nat : w = 32 /\ k = 4
    BY DEF WordSizes
  <2>4. BytesMixed(a) = f + 1 .. f + w * k /\ Inside(a)
    <3>1. DOMAIN a = 1..k
      BY <2>2, <2>3
    <3>2. RowOf(a, f, w, k)
      BY <2>1, <2>3 DEF RowOf
    <3> QED
      BY <3>1, <3>2, RowCounts
  <2>5. w * k = 128
    BY <2>3
  <2> QED
    BY <2>4, <2>5, Zenon
<1>5. BytesMixed(c) = f + 128 + 1 .. f + 128 + 32 * l /\ Inside(c)
  <2>1. ASSUME NEW j \in 1..l
        PROVE InsideOp(c[j]) /\ DataOf(c[j]) = f + 128 + 32 * (j - 1) + 1 .. f + 128 + 32 * j
    <3>1. PICK p \in Nat, q \in Nat, at \in Nat :
                                       p = 96 + 32 * j /\ q = 112 + 32 * j /\ at = MidStart + 32 * (j - 1)
                                       /\ p + 32 <= n /\ at + 32 <= 136
      BY <1>2 DEF MidStart
    <3>2. Fits(p, 32, n) /\ Fits(at, 32, SizeOf(secret)) /\ SumIs(q, p, 16)
      BY <3>1 DEF SumIs, Fits
    <3>3. Mixes(XXH128_mix32B(in, p, q, secret, at), f, p, 32)
      BY <1>0, <3>2, Mix32Row
    <3>4. c[j] = XXH128_mix32B(in, p, q, secret, at)
      BY <3>1, Zenon
    <3>5. f + p + 1 = f + 128 + 32 * (j - 1) + 1 /\ f + p + 32 = f + 128 + 32 * j
      BY <3>1
    <3> QED
      BY <3>3, <3>4, <3>5, Zenon DEF Mixes
  <2>2. DOMAIN c = 1..l
    OBVIOUS
  <2> HIDE DEF c, in
  <2>3. PICK w \in WordSizes, g \in Nat : w = 32 /\ g = f + 128
    BY DEF WordSizes
  <2>4. BytesMixed(c) = g + 1 .. g + w * l /\ Inside(c)
    <3>2. RowOf(c, g, w, l)
      BY <2>1, <2>3 DEF RowOf
    <3> QED
      BY <2>2, <3>2, RowCounts
  <2> QED
    BY <2>3, <2>4, Zenon
<1>6. DataOf(op) = f + n - 32 + 1 .. f + n /\ InsideOp(op)
  <2>1. PICK p \in Nat, q \in Nat, at \in Nat : p = n - 32 /\ q = n - 16 /\ at = 103
    OBVIOUS
  <2>2. Fits(p, 32, n) /\ Fits(at, 32, SizeOf(secret)) /\ SumIs(q, p, 16)
    BY <2>1 DEF SumIs, Fits
  <2>3. Mixes(XXH128_mix32B(in, q, p, secret, at), f, p, 32)
    BY <1>0, <2>2, Mix32Row
  <2>4. f + p + 1 = f + n - 32 + 1 /\ f + p + 32 = f + n
    BY <2>1
  <2> QED
    BY <2>1, <2>3, <2>4, Zenon DEF Mixes
<1>7. /\ BytesMixed(Ending(a, c, op)) = BytesMixed(a) \cup BytesMixed(c) \cup DataOf(op)
      /\ Inside(Ending(a, c, op)) <=> Inside(a) /\ Inside(c) /\ InsideOp(op)
  <2> DEFINE S == {a[i] : i \in 1..4} \cup {op} \cup {c[i] : i \in 1..l}
  <2>1. a \in [1..4 -> S]
    OBVIOUS
  <2>2. c \in [1..l -> S]
    OBVIOUS
  <2>3. op \in S
    OBVIOUS
  <2> HIDE DEF S, a, c, op, in
  <2>4. PICK k \in Nat : k = 4
    OBVIOUS
  <2> QED
    <3>1. a \in [1..k -> S]
      BY <2>1, <2>4
    <3> QED
      BY <2>2, <2>3, <3>1, EndingBytes
<1> HIDE DEF a, c, op, in
<1>8. (f + 1 .. f + 128) \cup (f + 128 + 1 .. f + 128 + 32 * l) \cup (f + n - 32 + 1 .. f + n)
        = f + 1 .. f + n
  BY <1>2
<1>9. BytesMixed(Ending(a, c, op)) = f + 1 .. f + n
  BY <1>4, <1>5, <1>6, <1>7, <1>8, Zenon
<1> QED
  BY <1>3, <1>4, <1>5, <1>6, <1>7, <1>9, Zenon DEF Counts, in

\* What one hash of n bytes after the first f has to do with them.
LEMMA ShortCounts ==
  ASSUME NEW f \in Nat, NEW n \in Nat, n <= 240, NEW bits \in {64, 128}, NEW seed,
         NEW secret, SizeOf(secret) \in Nat, SizeOf(secret) >= 136
  PROVE  Counts(XXH3_short(bits, Input(f, n), seed, secret).ops, f, n)
<1> DEFINE in  == Input(f, n)
           ops == XXH3_short(bits, in, seed, secret).ops
<1>1. Len(in) = n
  BY InputHolds
<1>2. ops = CASE bits = 64  /\ n <= 16  -> XXH3_len_0to16_64b(in, secret)
              [] bits = 128 /\ n <= 16  -> XXH3_len_0to16_128b(in, secret)
              [] bits = 64  /\ n \in 17..128 -> XXH3_len_17to128_64b(in, secret)
              [] bits = 128 /\ n \in 17..128 -> XXH3_len_17to128_128b(in, secret)
              [] bits = 64  /\ n > 128 -> XXH3_len_129to240_64b(in, secret)
              [] bits = 128 /\ n > 128 -> XXH3_len_129to240_128b(in, secret)
  <2> HIDE DEF in
  <2> QED
    BY <1>1 DEF XXH3_short, Hash3
<1> HIDE DEF ops, in
<1>3. CASE n <= 16
  <2>1. n \notin 17..128 /\ ~(n > 128)
    BY <1>3
  <2>2. CASE bits = 64
    <3>1. bits # 128
      BY <2>2
    <3>2. ops = XXH3_len_0to16_64b(in, secret)
      BY <1>2, <1>3, <2>1, <2>2, <3>1, Zenon
    <3> QED
      BY <1>3, <3>2, To16Counts64 DEF in, ops
  <2>3. CASE bits = 128
    <3>1. bits # 64
      BY <2>3
    <3>2. ops = XXH3_len_0to16_128b(in, secret)
      BY <1>2, <1>3, <2>1, <2>3, <3>1, Zenon
    <3> QED
      BY <1>3, <3>2, To16Counts128 DEF in, ops
  <2> QED
    BY <2>2, <2>3
<1>4. CASE n \in 17..128
  <2>1. ~(n <= 16) /\ ~(n > 128)
    BY <1>4
  <2>2. CASE bits = 64
    <3>1. bits # 128
      BY <2>2
    <3>2. ops = XXH3_len_17to128_64b(in, secret)
      BY <1>2, <1>4, <2>1, <2>2, <3>1, Zenon
    <3> QED
      BY <1>4, <3>2, To128Counts64 DEF in, ops
  <2>3. CASE bits = 128
    <3>1. bits # 64
      BY <2>3
    <3>2. ops = XXH3_len_17to128_128b(in, secret)
      BY <1>2, <1>4, <2>1, <2>3, <3>1, Zenon
    <3> QED
      BY <1>4, <3>2, To128Counts128 DEF in, ops
  <2> QED
    BY <2>2, <2>3
<1>5. CASE n \in 129..240
  <2>1. ~(n <= 16) /\ n > 128 /\ n \notin 17..128
    BY <1>5
  <2>2. CASE bits = 64
    <3>1. bits # 128
      BY <2>2
    <3>2. ops = XXH3_len_129to240_64b(in, secret)
      BY <1>2, <2>1, <2>2, <3>1, Zenon
    <3> QED
      BY <1>5, <3>2, To240Counts64 DEF in, ops
  <2>3. CASE bits = 128
    <3>1. bits # 64
      BY <2>3
    <3>2. ops = XXH3_len_129to240_128b(in, secret)
      BY <1>2, <2>1, <2>3, <3>1, Zenon
    <3> QED
      BY <1>5, <3>2, To240Counts128 DEF in, ops
  <2> QED
    BY <2>2, <2>3
<1> QED
  <2>1. n <= 16 \/ n \in 17..128 \/ n \in 129..240
    OBVIOUS
  <2> QED
    BY <1>3, <1>4, <1>5, <2>1 DEF in, ops

------------------------------------------------------------------------------
(* The long lengths: stripe after stripe, the last one and the merges. *)

\* The input's stripes are mixed in order, none of its bytes left out.
LEMMA StripeCounts ==
  ASSUME NEW f \in Nat, NEW j \in Nat, NEW ops, Counts(ops, f, 64 * j),
         NEW more, NEW op, InsideOp(op), DataOf(op) = f + 64 * j + 1 .. f + 64 * j + 64,
         BytesMixed(more) = BytesMixed(ops) \cup DataOf(op),
         Inside(more) <=> Inside(ops) /\ InsideOp(op)
  PROVE  Counts(more, f, 64 * (j + 1))
<1>1. (f + 1 .. f + 64 * j) \cup (f + 64 * j + 1 .. f + 64 * j + 64) = f + 1 .. f + 64 * (j + 1)
  OBVIOUS
<1>2. BytesMixed(more) = f + 1 .. f + 64 * (j + 1)
  BY <1>1, Zenon DEF Counts
<1>3. Inside(more)
  BY DEF Counts
<1> QED
  BY <1>2, <1>3, Zenon DEF Counts

LEMMA Shifted64 ==
  ASSUME NEW g \in Nat
  PROVE  {g + i : i \in 1..64} = g + 1 .. g + 64
<1>1. ASSUME NEW x \in g + 1 .. g + 64 PROVE \E i \in 1..64 : x = g + i
  <2>1. x - g \in 1..64 /\ x = g + (x - g)
    OBVIOUS
  <2> QED
    BY <2>1
<1>2. \A i \in 1..64 : g + i \in g + 1 .. g + 64
  OBVIOUS
<1> QED
  BY <1>1, <1>2

LEMMA MixedCovers ==
  ASSUME NEW f \in Nat, NEW secret, NEW limit \in Nat, NEW P \in Nat, Block3(P, limit),
         SumIs(SizeOf(secret), limit, 64), NEW k \in Nat
  PROVE  Counts(Mixed(f, secret, limit, P)[k], f, 64 * k)
<1> DEFINE M == Mixed(f, secret, limit, P)
           V == Ops(Int, secret)
           S == {j \in Nat : Counts(M[j], f, 64 * j)}
<1>p. P > 0 /\ 8 * P <= limit /\ SizeOf(secret) = limit + 64
  BY DEF Block3, SumIs
<1>1. M \in [Nat -> Seq(V)] /\ MixedRun(M, f, secret, limit, P)
  BY <1>p, MixedIs
<1> HIDE DEF M
<1>2. 0 \in S
  <2>1. M[0] = << >>
    BY <1>1 DEF MixedRun
  <2>2. f + 1 .. f + 64 * 0 = {}
    OBVIOUS
  <2>3. Counts(M[0], f, 64 * 0)
    BY <2>1, <2>2, NoOps, Zenon DEF Counts
  <2> QED
    BY <2>3
<1>3. ASSUME NEW j \in Nat, j \in S PROVE j + 1 \in S
  <2>1. PICK acc \in Seq(V) : acc = M[j]
    BY <1>1
  <2>21. PICK n \in Nat, g \in Nat : n = j + 1 /\ g = f + 64 * j
    OBVIOUS
  <2>22. PICK at \in Nat : at = 8 * ((n - 1) % P) /\ at <= limit
    <3>1. PICK r \in Nat : r = (n - 1) % P /\ r < P
      BY <1>p, <2>21
    <3>2. 8 * r \in Nat /\ 8 * r <= limit
      BY <1>p, <3>1
    <3> QED
      BY <3>1, <3>2
  <2>23. PICK data \in [1..64 -> Int] : data = Input(g, 64)
    <3>1. Input(g, 64) \in [1..64 -> Int]
      BY DEF Input
    <3> QED
      BY <3>1
  <2>2. data = Input(f + 64 * (n - 1), 64)
    <3>1. f + 64 * (n - 1) = g
      BY <2>21
    <3> QED
      BY <2>23, <3>1, Zenon
  <2>3. PICK op \in V, close \in V : op = StripeOp(data, secret, at) /\ close = ScrambleOp(secret, limit)
    BY OpsHave
  <2>4. DataOf(op) = g + 1 .. g + 64
    <3>1. \A i \in 1..64 : data[i] = g + i
      BY <2>23 DEF Input
    <3>2. DataOf(op) = {data[i] : i \in DOMAIN data}
      BY <2>3, Zenon DEF DataOf, StripeOp, Op
    <3>3. {data[i] : i \in DOMAIN data} = {g + i : i \in 1..64}
      BY <3>1
    <3>4. {g + i : i \in 1..64} = g + 1 .. g + 64
      BY Shifted64
    <3> QED
      BY <3>2, <3>3, <3>4, Zenon
  <2>5. InsideOp(op)
    BY <1>p, <2>22, <2>3 DEF InsideOp, StripeOp, Op, StripeLen
  <2>6. DataOf(close) = {} /\ InsideOp(close)
    BY <1>p, <2>3 DEF DataOf, InsideOp, ScrambleOp, Op, StripeLen
  <2> HIDE DEF V
  <2>7. PICK old \in Seq(V) : old = Then(acc, op)
    BY AppendProperties DEF Then
  <2>8. Counts(old, f, 64 * (j + 1))
    <3>1. Counts(acc, f, 64 * j)
      BY <1>3, <2>1
    <3>2. BytesMixed(old) = BytesMixed(acc) \cup DataOf(op)
          /\ (Inside(old) <=> Inside(acc) /\ InsideOp(op))
      BY <2>7, ThenBytes
    <3>3. DataOf(op) = f + 64 * j + 1 .. f + 64 * j + 64
      BY <2>21, <2>4
    <3> QED
      BY <2>5, <3>1, <3>2, <3>3, StripeCounts
  <2>9. Counts(Then(old, close), f, 64 * (j + 1))
    <3>1. BytesMixed(Then(old, close)) = BytesMixed(old) \cup DataOf(close)
          /\ (Inside(Then(old, close)) <=> Inside(old) /\ InsideOp(close))
      BY ThenBytes
    <3>2. BytesMixed(Then(old, close)) = BytesMixed(old)
      BY <2>6, <3>1
    <3> QED
      BY <2>6, <2>8, <3>1, <3>2, Zenon DEF Counts
  <2>10. WithStripe(acc, f, secret, limit, P, n) = IF n % P = 0 THEN Then(old, close) ELSE old
    <3>1. WithStripe(acc, f, secret, limit, P, n)
            = IF n % P = 0 THEN XXH3_scrambleAcc(old, secret, limit) ELSE old
      BY <2>2, <2>22, <2>3, <2>7, Zenon DEF WithStripe
    <3>2. XXH3_scrambleAcc(old, secret, limit) = Then(old, close)
      BY <2>3, Zenon DEF XXH3_scrambleAcc, Then, ScrambleOp
    <3> QED
      BY <3>1, <3>2, Zenon
  <2>11. M[n] = WithStripe(acc, f, secret, limit, P, n)
    BY <1>1, <2>1, <2>21 DEF MixedRun
  <2>12. Counts(M[n], f, 64 * (j + 1))
    BY <2>8, <2>9, <2>10, <2>11, Zenon
  <2> QED
    BY <2>21, <2>12
<1>4. S = Nat
  <2>1. S \in SUBSET Nat
    OBVIOUS
  <2> HIDE DEF S
  <2>2. \A j \in S : j + 1 \in S
    BY <1>3, <2>1
  <2> QED
    BY <1>2, <2>1, <2>2, NatSetInduction
<1> QED
  BY <1>4 DEF M

\* The last stripe and the merges that end a long hash.
LEMMA LongCounts ==
  ASSUME NEW f \in Nat, NEW n \in Nat, n > 64, NEW bits, NEW secret,
         NEW limit \in Nat, NEW P \in Nat, Block3(P, limit),
         NEW size \in Nat, SumIs(size, limit, 64), SizeOf(secret) = size
  PROVE  Counts(XXH3_hashLong(bits, Input(f, n), secret, size).ops, f, n)
<1> DEFINE in == Input(f, n)
           W  == Ops(Int, secret) \cup {Op("accumulate", data, secret, limit - LastAcc, StripeLen) : data \in [1..64 -> Int]}
                 \cup {Op("merge", <<>>, secret, at, 64) : at \in Nat}
<1>p. limit >= 72 /\ P > 0 /\ size = limit + 64 /\ SizeOf(secret) = limit + 64
  BY DEF Block3, SumIs
<1>1. Len(in) = n
  BY InputHolds
<1>2. PICK k \in Nat : k = (n - 1) \div 64 /\ 64 * k < n /\ n <= 64 * k + 64
  <2>1. (n - 1) \div 64 \in Nat /\ 64 * ((n - 1) \div 64) < n /\ n <= 64 * ((n - 1) \div 64) + 64
    OBVIOUS
  <2> QED
    BY <2>1
<1>3. PICK acc : acc = Mixed(f, secret, limit, P)[k]
  OBVIOUS
<1>4. acc \in Seq(Ops(Int, secret)) /\ Counts(acc, f, 64 * k)
  <2>1. SumIs(SizeOf(secret), limit, 64)
    OBVIOUS
  <2>2. Counts(acc, f, 64 * k)
    BY <1>3, <2>1, MixedCovers
  <2>3. Mixed(f, secret, limit, P) \in [Nat -> Seq(Ops(Int, secret))]
    BY <1>p, MixedIs
  <2> QED
    BY <1>3, <2>2, <2>3
<1>5. acc \in Seq(W)
  <2>1. Ops(Int, secret) \subseteq W
    OBVIOUS
  <2> HIDE DEF W
  <2> QED
    BY <1>4, <2>1
<1>6. PICK last, low, high :
        /\ last = Op("accumulate", Read(in, n - 64, 64), secret, limit - 7, 64)
        /\ low = Op("merge", <<>>, secret, 11, 64)
        /\ high = Op("merge", <<>>, secret, limit - 11, 64)
  OBVIOUS
<1>7. last \in W /\ low \in W /\ high \in W
  <2>1. Read(in, n - 64, 64) \in [1..64 -> Int]
    <3>1. \A i \in 1..64 : Input(f, n)[n - 64 + i] \in Int
      <4>1. \A i \in 1..64 : n - 64 + i \in 1..n
        OBVIOUS
      <4>2. \A i \in 1..n : Input(f, n)[i] \in Int
        BY DEF Input
      <4> QED
        BY <4>1, <4>2
    <3> QED
      BY <3>1 DEF Read
  <2>2. last \in W
    <3> HIDE DEF in
    <3> QED
      BY <1>6, <2>1 DEF LastAcc, StripeLen
  <2>3. limit - 11 \in Nat /\ 11 \in Nat
    BY <1>p
  <2>4. low \in W
    BY <1>6, <2>3
  <2>5. high \in W
    BY <1>6, <2>3
  <2> QED
    BY <2>2, <2>4, <2>5
<1>8. /\ DataOf(last) = f + (n - 64) + 1 .. f + (n - 64) + 64 /\ InsideOp(last)
      /\ DataOf(low) = {} /\ InsideOp(low)
      /\ DataOf(high) = {} /\ InsideOp(high)
  <2>1. PICK q \in Nat, m \in Nat : q = n - 64 /\ m = 64 /\ q + m <= n
    OBVIOUS
  <2>2. q + m <= n
    BY <2>1
  <2>3. DataOf(Op("accumulate", Read(Input(f, n), q, m), secret, limit - 7, 64)) = f + q + 1 .. f + q + m
    BY <2>2, WordData
  <2>4. DataOf(last) = f + (n - 64) + 1 .. f + (n - 64) + 64
    BY <1>6, <2>1, <2>3
  <2>5. InsideOp(last) /\ InsideOp(low) /\ InsideOp(high)
    <3> HIDE DEF in
    <3>1. InsideOp(last)
      BY <1>p, <1>6 DEF InsideOp, Op
    <3>2. InsideOp(low)
      BY <1>p, <1>6 DEF InsideOp, Op
    <3>3. InsideOp(high)
      BY <1>p, <1>6 DEF InsideOp, Op
    <3> QED
      BY <3>1, <3>2, <3>3
  <2>6. DataOf(low) = {} /\ DataOf(high) = {}
    BY <1>6 DEF DataOf, Op
  <2> QED
    BY <2>4, <2>5, <2>6
<1> HIDE DEF W
<1>9. PICK a1 \in Seq(W) : a1 = Then(acc, last)
  BY <1>5, <1>7, AppendProperties DEF Then
<1>10. PICK a2 \in Seq(W) : a2 = Then(a1, low)
  BY <1>7, <1>9, AppendProperties DEF Then
<1>11. PICK a3 \in Seq(W) : a3 = Then(a2, high)
  BY <1>7, <1>10, AppendProperties DEF Then
<1>12. Counts(a1, f, n)
  <2>1. BytesMixed(a1) = BytesMixed(acc) \cup DataOf(last) /\ (Inside(a1) <=> Inside(acc) /\ InsideOp(last))
    BY <1>5, <1>7, <1>9, ThenBytes
  <2>2. (f + 1 .. f + 64 * k) \cup (f + (n - 64) + 1 .. f + (n - 64) + 64) = f + 1 .. f + n
    BY <1>2
  <2>3. BytesMixed(acc) = f + 1 .. f + 64 * k /\ Inside(acc)
    BY <1>4 DEF Counts
  <2>4. BytesMixed(a1) = f + 1 .. f + n
    BY <1>8, <2>1, <2>2, <2>3, Zenon
  <2> QED
    BY <1>8, <2>1, <2>3, <2>4, Zenon DEF Counts
<1>13. Counts(a2, f, n)
  <2>1. BytesMixed(a2) = BytesMixed(a1) \cup DataOf(low) /\ (Inside(a2) <=> Inside(a1) /\ InsideOp(low))
    BY <1>7, <1>10, ThenBytes
  <2>2. BytesMixed(a2) = BytesMixed(a1)
    BY <1>8, <2>1
  <2> QED
    BY <1>8, <1>12, <2>1, <2>2, Zenon DEF Counts
<1>14. Counts(a3, f, n)
  <2>1. BytesMixed(a3) = BytesMixed(a2) \cup DataOf(high) /\ (Inside(a3) <=> Inside(a2) /\ InsideOp(high))
    BY <1>7, <1>11, ThenBytes
  <2>2. BytesMixed(a3) = BytesMixed(a2)
    BY <1>8, <2>1
  <2> QED
    BY <1>8, <1>13, <2>1, <2>2, Zenon DEF Counts
<1>15. XXH3_hashLong_internal_loop(in, secret, size) = a1
  <2>1. XXH3_hashLong_internal_loop(in, secret, size)
          = XXH3_accumulate_512(acc, in, n - 64, secret, limit - LastAcc)
    BY <1>2, <1>3, LoopMixes
  <2>2. StripeLen = 64 /\ LastAcc = 7
    BY DEF StripeLen, LastAcc
  <2>3. XXH3_accumulate_512(acc, in, n - 64, secret, limit - LastAcc) = Then(acc, last)
    BY <1>6, <2>2, Zenon DEF XXH3_accumulate_512, Then
  <2> QED
    BY <1>9, <2>1, <2>3, Zenon
<1> HIDE DEF in
<1>16. XXH3_hashLong(bits, in, secret, size).ops = IF bits = 64 THEN a2 ELSE a3
  <2>1. MergeAccs = 11 /\ size - StripeLen - MergeAccs = limit - 11
    BY <1>p DEF MergeAccs, StripeLen
  <2>2. XXH3_mergeAccs(a1, secret, MergeAccs) = a2
    BY <1>6, <1>10, <2>1, Zenon DEF XXH3_mergeAccs, Then
  <2>3. XXH3_mergeAccs(a2, secret, size - StripeLen - MergeAccs) = a3
    BY <1>6, <1>11, <2>1, Zenon DEF XXH3_mergeAccs, Then
  <2>4. XXH3_hashLong(bits, in, secret, size) = XXH3_finalizeLong(bits, a1, secret, size, Len(in))
    BY <1>15, Zenon DEF XXH3_hashLong
  <2>5. PICK len : len = Len(in)
    OBVIOUS
  <2>6. XXH3_finalizeLong(bits, a1, secret, size, len)
          = Hash3(bits, len, 0, IF bits = 64 THEN a2 ELSE a3)
    BY <2>2, <2>3, Zenon DEF XXH3_finalizeLong
  <2>7. Hash3(bits, len, 0, IF bits = 64 THEN a2 ELSE a3).ops = IF bits = 64 THEN a2 ELSE a3
    BY Zenon DEF Hash3
  <2> QED
    BY <2>4, <2>5, <2>6, <2>7, Zenon
<1> QED
  BY <1>13, <1>14, <1>16, Zenon DEF in

------------------------------------------------------------------------------
(* Every keyed hash. *)

\* Any hash in one call, with a secret of an allowed size.
LEMMA AllowedCounts ==
  ASSUME NEW f \in Nat, NEW n \in Nat, n > 240, NEW bits, NEW secret,
         SizeOf(secret) \in Nat, SizeOf(secret) >= 136
  PROVE  Counts(XXH3_hashLong(bits, Input(f, n), secret, SizeOf(secret)).ops, f, n)
<1>1. PICK size \in Nat, limit \in Nat, P \in Nat :
        size = SizeOf(secret) /\ limit = size - 64 /\ P = limit \div 8
  <2>1. SizeOf(secret) - 64 \in Nat /\ (SizeOf(secret) - 64) \div 8 \in Nat
    OBVIOUS
  <2> QED
    BY <2>1
<1>2. limit >= 72
  BY <1>1
<1>3. Block3(P, limit) /\ SumIs(size, limit, 64) /\ SizeOf(secret) = size /\ n > 64
  BY <1>1, <1>2 DEF Block3, SumIs
<1>4. Counts(XXH3_hashLong(bits, Input(f, n), secret, size).ops, f, n)
  BY <1>3, LongCounts
<1> QED
  BY <1>1, <1>4, Zenon

LEMMA KeyedCounts ==
  ASSUME NEW f \in Nat, NEW n \in Nat, NEW bits \in {64, 128}, NEW key \in Keyings
  PROVE  Counts(KeyedCall(bits, Input(f, n), key).ops, f, n)
<1> DEFINE in == Input(f, n)
<1> SUFFICES Counts(KeyedCall(bits, in, key).ops, f, n)
  OBVIOUS
<1>0. /\ SizeOf(kSecret) = 192 /\ SecretSize0 = 192
      /\ \A seed : SizeOf(XXH3_initCustomSecret(seed)) = 192
  BY DEF SizeOf, kSecret, XXH3_initCustomSecret, SecretSize0
<1>1. Len(in) = n /\ MidSizeMax = 240
  BY InputHolds DEF MidSizeMax
<1>2. ASSUME NEW secret, SizeOf(secret) \in Nat, SizeOf(secret) >= 136
      PROVE  /\ n <= 240 => \A seed : Counts(XXH3_short(bits, in, seed, secret).ops, f, n)
             /\ ~(n <= 240) => Counts(XXH3_hashLong(bits, in, secret, SizeOf(secret)).ops, f, n)
  <2>1. ASSUME n <= 240, NEW seed PROVE Counts(XXH3_short(bits, in, seed, secret).ops, f, n)
    BY <1>2, <2>1, ShortCounts
  <2>2. ASSUME ~(n <= 240) PROVE Counts(XXH3_hashLong(bits, in, secret, SizeOf(secret)).ops, f, n)
    <3>1. n > 240
      BY <2>2
    <3> QED
      BY <1>2, <3>1, AllowedCounts
  <2> QED
    BY <2>1, <2>2
<1> HIDE DEF in
<1>3. /\ n <= 240 => \A seed : Counts(XXH3_short(bits, in, seed, kSecret).ops, f, n)
      /\ ~(n <= 240) => Counts(XXH3_hashLong(bits, in, kSecret, SecretSize0).ops, f, n)
  <2>1. SizeOf(kSecret) \in Nat /\ SizeOf(kSecret) >= 136
    BY <1>0
  <2> QED
    BY <1>0, <1>2, <2>1
<1>4. key.variant \in {"plain", "secret", "seed", "secretandseed"}
      /\ (key.variant \in {"secret", "secretandseed"} => key.secret \in UserSecrets)
  BY KeyingsAre
<1>5. CASE key.variant = "plain"
  <2>1. KeyedCall(bits, in, key) = XXH3_bits(bits, in)
    BY <1>5 DEF KeyedCall
  <2>2. XXH3_bits(bits, in) = IF n <= 240 THEN XXH3_short(bits, in, 0, kSecret)
                              ELSE XXH3_hashLong(bits, in, kSecret, SecretSize0)
    BY <1>1, Zenon DEF XXH3_bits
  <2>3. CASE n <= 240
    <3>1. KeyedCall(bits, in, key) = XXH3_short(bits, in, 0, kSecret)
      BY <2>1, <2>2, <2>3, Zenon
    <3>2. Counts(XXH3_short(bits, in, 0, kSecret).ops, f, n)
      BY <1>3, <2>3, Zenon
    <3> QED
      BY <3>1, <3>2, Zenon
  <2>4. CASE ~(n <= 240)
    <3>1. KeyedCall(bits, in, key)
            = XXH3_hashLong(bits, in, kSecret, SecretSize0)
      BY <2>1, <2>2, <2>4, Zenon
    <3>2. Counts(XXH3_hashLong(bits, in, kSecret, SecretSize0).ops, f, n)
      BY <1>3, <2>4, Zenon
    <3> QED
      BY <3>1, <3>2, Zenon
  <2> QED
    BY <2>3, <2>4
<1>6. CASE key.variant = "secret"
  <2>1. KeyedCall(bits, in, key) = XXH3_withSecret(bits, in, key.secret, SizeOf(key.secret))
    BY <1>6 DEF KeyedCall
  <2>2. SizeOf(key.secret) \in Nat /\ SizeOf(key.secret) >= 136
    BY <1>4, <1>6, UserSecret
  <2>3. /\ n <= 240 => \A seed : Counts(XXH3_short(bits, in, seed, key.secret).ops, f, n)
        /\ ~(n <= 240) => Counts(XXH3_hashLong(bits, in, key.secret, SizeOf(key.secret)).ops, f, n)
    BY <1>2, <2>2
  <2>4. XXH3_withSecret(bits, in, key.secret, SizeOf(key.secret))
          = IF n <= 240 THEN XXH3_short(bits, in, 0, key.secret)
            ELSE XXH3_hashLong(bits, in, key.secret, SizeOf(key.secret))
    BY <1>1, Zenon DEF XXH3_withSecret
  <2>5. CASE n <= 240
    <3>1. KeyedCall(bits, in, key) = XXH3_short(bits, in, 0, key.secret)
      BY <2>1, <2>4, <2>5, Zenon
    <3>2. Counts(XXH3_short(bits, in, 0, key.secret).ops, f, n)
      BY <2>3, <2>5, Zenon
    <3> QED
      BY <3>1, <3>2, Zenon
  <2>6. CASE ~(n <= 240)
    <3>1. KeyedCall(bits, in, key)
            = XXH3_hashLong(bits, in, key.secret, SizeOf(key.secret))
      BY <2>1, <2>4, <2>6, Zenon
    <3>2. Counts(XXH3_hashLong(bits, in, key.secret, SizeOf(key.secret)).ops, f, n)
      BY <2>3, <2>6, Zenon
    <3> QED
      BY <3>1, <3>2, Zenon
  <2> QED
    BY <2>5, <2>6
<1>7. CASE key.variant = "seed"
  <2>1. KeyedCall(bits, in, key) = XXH3_withSeed(bits, in, key.seed)
    BY <1>7 DEF KeyedCall
  <2>2. XXH3_withSeed(bits, in, key.seed)
          = IF n <= 240 THEN XXH3_short(bits, in, key.seed, kSecret)
            ELSE XXH3_hashLong(bits, in, IF key.seed = 0 THEN kSecret
                                         ELSE XXH3_initCustomSecret(key.seed), SecretSize0)
    BY <1>1, Zenon DEF XXH3_withSeed
  <2>3. PICK secret : secret = IF key.seed = 0 THEN kSecret ELSE XXH3_initCustomSecret(key.seed)
    OBVIOUS
  <2>4. ~(n <= 240) => Counts(XXH3_hashLong(bits, in, secret, SecretSize0).ops, f, n)
    <3>1. SizeOf(secret) = SecretSize0 /\ SizeOf(secret) \in Nat /\ SizeOf(secret) >= 136
      BY <1>0, <2>3
    <3> QED
      BY <1>2, <3>1
  <2>5. XXH3_withSeed(bits, in, key.seed)
          = IF n <= 240 THEN XXH3_short(bits, in, key.seed, kSecret)
            ELSE XXH3_hashLong(bits, in, secret, SecretSize0)
    BY <2>2, <2>3, Zenon
  <2>6. CASE n <= 240
    <3>1. KeyedCall(bits, in, key) = XXH3_short(bits, in, key.seed, kSecret)
      BY <2>1, <2>5, <2>6, Zenon
    <3>2. Counts(XXH3_short(bits, in, key.seed, kSecret).ops, f, n)
      BY <1>3, <2>4, <2>6, Zenon
    <3> QED
      BY <3>1, <3>2, Zenon
  <2>7. CASE ~(n <= 240)
    <3>1. KeyedCall(bits, in, key)
            = XXH3_hashLong(bits, in, secret, SecretSize0)
      BY <2>1, <2>5, <2>7, Zenon
    <3>2. Counts(XXH3_hashLong(bits, in, secret, SecretSize0).ops, f, n)
      BY <1>3, <2>4, <2>7, Zenon
    <3> QED
      BY <3>1, <3>2, Zenon
  <2> QED
    BY <2>6, <2>7
<1>8. CASE key.variant = "secretandseed"
  <2>1. KeyedCall(bits, in, key)
          = XXH3_withSecretandSeed(bits, in, key.secret, SizeOf(key.secret), key.seed)
    BY <1>8 DEF KeyedCall
  <2>2. SizeOf(key.secret) \in Nat /\ SizeOf(key.secret) >= 136
    BY <1>4, <1>8, UserSecret
  <2>3. ~(n <= 240) => Counts(XXH3_hashLong(bits, in, key.secret, SizeOf(key.secret)).ops, f, n)
    BY <1>2, <2>2
  <2>4. XXH3_withSecretandSeed(bits, in, key.secret, SizeOf(key.secret), key.seed)
          = IF n <= 240 THEN XXH3_short(bits, in, key.seed, kSecret)
            ELSE XXH3_hashLong(bits, in, key.secret, SizeOf(key.secret))
    BY <1>1, Zenon DEF XXH3_withSecretandSeed
  <2>5. CASE n <= 240
    <3>1. KeyedCall(bits, in, key) = XXH3_short(bits, in, key.seed, kSecret)
      BY <2>1, <2>4, <2>5, Zenon
    <3>2. Counts(XXH3_short(bits, in, key.seed, kSecret).ops, f, n)
      BY <1>3, <2>3, <2>5, Zenon
    <3> QED
      BY <3>1, <3>2, Zenon
  <2>6. CASE ~(n <= 240)
    <3>1. KeyedCall(bits, in, key)
            = XXH3_hashLong(bits, in, key.secret, SizeOf(key.secret))
      BY <2>1, <2>4, <2>6, Zenon
    <3>2. Counts(XXH3_hashLong(bits, in, key.secret, SizeOf(key.secret)).ops, f, n)
      BY <1>3, <2>3, <2>6, Zenon
    <3> QED
      BY <3>1, <3>2, Zenon
  <2> QED
    BY <2>5, <2>6
<1> QED
  BY <1>4, <1>5, <1>6, <1>7, <1>8

LEMMA Inv3Counts == Inv3 => XXH3_EveryByteCounts /\ XXH3_SecretInside
<1> SUFFICES ASSUME Inv3, keyed.variant # "none", NEW h \in Digests
             PROVE  BytesMixed(h.ops) = from3 + 1 .. from3 + given3 /\ Inside(h.ops)
  BY DEF XXH3_EveryByteCounts, XXH3_SecretInside
<1>1. PICK bits \in {64, 128} : h = XXH3_digest(bits, s3)
  BY DEF Digests
<1>2. h = Expected(bits)
  BY <1>1, Inv3IsOneShot DEF XXH3_StreamIsOneShot
<1>3. from3 \in Nat /\ given3 \in Nat /\ keyed \in Keyings
  BY XXH3_Assumption DEF Inv3
<1>4. PICK f \in Nat, n \in Nat : f = from3 /\ n = given3
  BY <1>3
<1>5. Expected(bits) = KeyedCall(bits, Input(f, n), keyed)
  BY <1>4, Zenon DEF KeyedCall, Expected
<1>6. Counts(KeyedCall(bits, Input(f, n), keyed).ops, f, n)
  BY <1>3, KeyedCounts
<1> QED
  BY <1>2, <1>4, <1>5, <1>6, Zenon DEF Counts

(* Every byte of the input given since the reset is mixed into the digest, and *)
(* none besides, for inputs of every length: the overlapping reads of the      *)
(* short and middle lengths (xxhash.h:4671-4885, 6868-7130), the stripes of    *)
(* the blocks and the last stripe leave no gap.                                *)
THEOREM EveryByteCountsCorrect == XXH3_Spec => []XXH3_EveryByteCounts
BY InitInv3, NextInv3, Inv3Counts, PTL DEF XXH3_Spec

(* No operation of a digest reads before or beyond its secret, for secrets of  *)
(* every size from XXH3_SECRET_SIZE_MIN on.                                    *)
THEOREM SecretInsideCorrect == XXH3_Spec => []XXH3_SecretInside
BY InitInv3, NextInv3, Inv3Counts, PTL DEF XXH3_Spec
====
