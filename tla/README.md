# Verification of ssw

ssw is a small in-memory key-value server in C: an open-addressing hash table
with four commands on top of it, a zero-copy RESP2 parser, a single-threaded
epoll server, and a copy of xxHash. This directory models its logic in TLA+,
checks the models with TLC on small instances, and proves with TLAPS, for every
value of the constants, the safety properties of the hash table, the commands,
the parser and its framing, a connection, the server and the streaming hashes
XXH32 and XXH64, and the refinements between them.

Line numbers below and in `PROJECT.json` are those of the repository's files;
`PROJECT.json` maps every definition to the lines it stands for.

## 1. Inventory

| component | source | state | operations |
|---|---|---|---|
| hash table | `src/storage/ohashtable.c`, `include/ohashtable.h` | `ohashtabl`, `cap`, `size` | `initohash`, `oinsert`, `oget`, `otake`, `oexpired`, `expand_capacity` |
| commands | `include/cmd_.h` | heap blocks: key copies and `osv` values | `SET4dup`/`SET4dup_`, `GET`, `DEL`, `EXPIRED` |
| RESP2 framing | `include/resp2parser.h`, `protocol/resp2parser.c` | `parser_context`: `state`, `prog`, `outframe`; the connection's `rb_offset` | `zerocopy_proceed`, `bindctx`, `create_ctx` |
| segment aggregation | `include/resp2parser.h` | `simple_segment_context` | `segment_proceed` |
| event loop | `server_/noblock_sserver.c` | the batch of events; per connection the read and write buffers; epoll's interest and ready list | `epollrun`, `writere` |
| connection pool | `server_/noblock_sserver.c` | `connections`, `size`, `active_count` | `create_pool`, `create_connection`, `get_connection`, `take_connection`, `destroy_connection` |
| socket setup | `server_/noblock_sserver.c` | none | `createsfd`, `setnonblocking`, `acceptcfd` |
| connection and its parser | `server_/noblock_sserver.c`, `protocol/resp2parser.c` | one connection's read buffer and `use_data`, with the parser's and the aggregator's contexts | the EPOLLIN loop of `epollrun`, `on_read`, `bindctx` |
| xxHash | `include/xxhash.h`, `storage/xxhash.c` | the streaming states | `XXH32`, `XXH64`, `XXH3_*bits*`: one call, `reset`, `update`, `digest`; the loops for each vector unit |

**Interactions.** The commands call the hash table and own the allocation of
what it stores: `oinsert` takes the two blocks over, `otake` hands them back,
`oinsert` hands back the pair it replaces, `expand_capacity` frees the pairs of
expired slots through the caller's `free_func`. The event loop calls the
application's `on_read` when a socket is drained and `on_writer` before it
writes; the parser is meant to be driven from `on_read`, frame by frame, and
hands each frame to the aggregator. `main` is empty: parser, server and commands
are not linked to each other in the repository yet, only by the tests.

**Hard behaviours.** Nothing here is multi-threaded. What is hard is
- *long sequences of legal calls*: tombstones, lazy expiry, reuse of slots and
  migration interact, and the load counter is maintained by four operations;
- *partial failure*: each allocation of SET, the expansion in the middle of it,
  each system call of the accept path;
- *fragmentation*: a frame may be cut anywhere, and the parser must resume;
- *a buffer that moves* under the pointers the parser took into it;
- *edge-triggered events* that race with the clients: an edge lost is never
  reported again;
- *inputs hashed in pieces*, with bytes kept back, blocks begun in one call and
  ended in another, and states used again; and inner loops written eleven times.

**What makes each component correct.** The table: a live key is always reached
by its probe, the counter never undercounts, migration loses nothing. The
commands: one map from keys to values; every heap block has one owner; only lack
of memory makes SET fail; every command returns. The parser: frames and commands
come out exactly as they went in, whatever the cuts, as soon as they are whole,
and nothing outside the buffer is consumed. A connection: to parser and
aggregator the growing of the buffer, the splitting of reads and a context bound
late are nothing. The server: the pool describes exactly the open sockets; input,
clients and output are served in the end. xxHash: a hash depends on the input,
the seed and the secret alone, not on the pieces, on what the state held before,
or on the machine; and it depends on every byte.

The hazards, each at its line, are listed in `PROJECT.json` under `hazards`.

## 2. Modules

| module | models | corresponds to the code |
|---|---|---|
| `OHashTable` | the hash table | one operator per operation; `expand_capacity` is `ExpandBegin` (calloc), one `ExpandSlot` per slot of the old array, `ExpandEnd` (swap); `initohash` rounds by `getnext2power`, shift by shift |
| `KVStore` | what the commands promise | abstract: a map with lazily evicted entries |
| `Cmd` | the commands over `OHashTable`, with the heap | SET is one action per allocation, insertion, expansion step and failure path; the others are one action |
| `FrameChannel` | what framing promises | abstract: items are received in order |
| `Resp2Parser` | `zerocopy_proceed` | one disjunct per way out of the function; a byte is a model value; `Receive` is a read of any length |
| `Segment` | `segment_proceed` behind the parser, and the driver loop | composes `Resp2Parser` |
| `Epoll` | kernel and clients (external) | backlog, sockets, interest, edge-triggered ready list |
| `EventLoop` | `epollrun`, `writere`, the pool | composes `Epoll`; one action per system call, so clients act between any two |
| `Connection` | one connection's reads with `on_read` and the parser behind it | composes `Segment` with the read loop: `ReadSome` (grow, read), `OnRead` (EAGAIN, `bindctx`), `CloseConnection`; `source` names the buffer each element points into |
| `XXHInput` | memory, as the hashes read and copy it | a byte is its position in all the caller ever gave |
| `XXH32`, `XXH64` | one-call and streaming hash | `reset`, `update`, `digest` as operators on the state struct; `update` in the parts its code has |
| `XXH3` | XXH3 and XXH128 in one call | for each length the operations done, and the words of input and secret they read |
| `XXH3Stream` | their streaming state | the four resets, `XXH3_update`, `XXH3_consumeStripes`, `XXH3_digest_long` |
| `XXH3Vectors` | accumulate, scramble and secret for scalar, SSE2, AVX2, AVX512, NEON, VSX, SVE, LSX, LASX and RVV code | the instructions as operators on vectors of words of two half-words, kept in their width; what exclusive or does to bits is a constant; all variants run side by side |
| `OHashTable_proofs`, `Cmd_proofs`, `Framing_proofs`, `Connection_proofs`, `EventLoop_proofs`, `XXH_proofs`, `XXH3Vectors_proofs` | | theorems and proofs |
| `NatLemmas` | | least numbers, induction and recursive functions on Nat, for sets and functions instead of operators |
| `MC*` | | instances for TLC |

Choices that hold everywhere:

- *Probing.* `Walks(stop, h, n)` says that a search for hash h passes exactly n
  slots before it meets a slot of the set `stop`, or all `cap` of them. Each
  operation has its own stop set, taken from its own tests in the source. n is
  determined by the state, and quantified in the actions.
- *Hashes* are an arbitrary function; the instances choose functions that clash.
  `NonZeroHash` (no key hashes to 0) is not assumed by the table's invariant, only
  where it is needed: see section 5.
- *Words.* A `uint64_t` that is shifted or masked is the set of its bits: `i |= i >> n`
  is `Smeared`, `x & (c - 1)` is `Masked`, and the addition after the shifts wraps.
  `WordBits` is its width; the theorems hold for every width to 64. Probes are
  written with `%` (`At`), which `MaskExact` compares with the masks.
- *Pointers.* The pair (key copy, value) of one SET has one name, since the code
  never separates the two; whether each block is allocated is kept apart.
- *Time* moves forward between any two steps, and stands still inside GET, DEL
  and EXPIRED, which read it once.
- *Parser.* The buffer's bytes at and past `rb_size` read as zero. This is what
  `epollrun` guarantees when it calls `on_read`: half of the calloc'ed buffer is
  free then. The COMPLETE and WAITING halves of `zerocopy_proceed` are one
  operator: a saved `parser_process` that is all zero makes the second behave as
  the first (`ParserTypeOK` checks that COMPLETE implies it is).
- *Reading.* A read buffer is named by its size, since every replacement doubles
  it. `CloseConnection` is the end of the connection in any of its ways; called
  with flag -ENOMEM, `on_read` is assumed not to parse (external: no `on_read` is
  in the repository).
- *Hashing.* Outside `XXH3Vectors` a round, a merge and an avalanche are symbols
  that remember their operands: two hashes are equal when the code computes them
  by the same operations on the same bytes, whatever the arithmetic does. In
  `XXH3Vectors` the arithmetic is there, on words of any width, kept to it; only
  `xor` is a constant, to which the run gives the exclusive or of bits (words of 8
  bits there), and `SoFar` the places in a block where an update may come. Secrets are
  addressed by whole words there, so the reads 7 and 11 bytes into the secret are
  `XXH3`'s only.
- *Server.* `on_writer` is installed (without it `epollrun` never writes);
  `on_read` leaves the buffer alone, `on_writer` adds any number of bytes.
  `EINTR` retries and `send` returning 0 leave the state as it is and are not
  steps of their own. `dropped` is a history variable: the sockets whose event was
  in the part of a batch the loop gave up, until their next event.

## 3. Runs

| run | instance | what it shows |
|---|---|---|
| `clash` | 2 keys, 1 to 4 slots (two expansions), 3 pairs; every allocation may fail | live keys are reached and GET finds them, the counter covers the slots in use, the load stays at what the check at 7/10 admits, migration keeps what it passed; each block has one owner, only memory makes SET fail, every command returns |
| `map` | 2 keys with one hash, set and read; a third with all commands and expiry; 3, 9 and 33 slots asked for, 4 to 8, 16 and 64 given | the commands refine `KVStore`; no key has two slots; no tombstone comes to lie ahead of an entry (`Undisturbed`, on which both rest); every probe visits the slots that the code's masks give (`MaskExact`): the shifts leave no bit out, and an expansion keeps `cap - 1` a row of ones |
| `commands` | two or three commands, of all frame types, in every fragmentation | `FramesExact`, `CommandsExact` (refinements of `FrameChannel`), and nothing is held back |
| `noise` | all strings of 6 over `$ 0 CR LF`, of 5 over `+ * 1 CR LF` and `$ 1 CR LF`, all sequences of 4 frames, bulk strings behind stray bytes, numbers around `LLONG_MAX`; a buffer of 2 bytes that grows; `bindctx` may fail | the offset never passes the bytes received, nothing beyond the buffer is looked at, numbers are exact or refused, `elements[]` never overflows; the whole refines `Segment` |
| `pool` | 3 connections on descriptors 1 and 4, a pool of 1, no failing calls | pool, sockets and interest agree; no connection is closed without a reason; whenever the thread sleeps every byte read has been shown to `on_read` |
| `served` | 2 connections, failing calls | input, clients and output are served in the end, and no open socket is served through another's pool entry |
| `xxh` | XXH32 to 80 bytes with lengths that wrap at 64, XXH64 to 100, XXH3 to 2000 in at most 4 calls, vectors of 8-bit words over 4 steps | streaming is one call (`XXH*_StreamIsOneShot`), every byte counts, secrets are read inside, some input is always kept back, all vector units agree |
| `delforgets`, `lent`, `headlen`, `resume`, `stale` | small | each finds a state in which the code departs from what the repository says of it (section 4) |

**Bounds.** Two slots are the smallest array on which a probe wraps around, two
keys of one home the smallest chain, three keys fill four slots to the load
limit; one expansion separates and joins chains, two show that the retry after
an expansion works on a table that was expanded before. The clock needs one value
before and one after an expiry time. For the parser the frames are short because
what matters is where they are cut, and every cut is explored; lengths of one and
two digits, empty data, data that looks like protocol are among them. For the
pool, descriptor 4 on a pool of size 1 needs three doublings, and a boundary
(4 slots do not hold index 4); three connections on two descriptors force reuse.
A send buffer of one byte and responses of two make `send` block in the middle.
The table's runs have words of 8 bits, and the capacities asked for need the shifts by
1, 2 and 4; those by 8, 16 and 32 do their part in the proof. `MaxCap`, `MaxTime`, `MaxConns`, `MaxIn`, `MaxRoom` and `WbMax` bound the
instances only. `BUFFER_SIZE_MAX`, `BUFFER_SIZE_DEFAULT` and
`MAX_ARRAY_ELEMENTS` are constants, scaled down, and so is `LLONG_MAX`, with the
digit from which the number parser tests for overflow (`LLMax`, `CheckFrom`).

The first piece of a hash takes every length up to two blocks and a byte, later
ones every length up to one block and the limits of two, so that a block is
completed from every fill of the buffer; the secret of 136 bytes is the smallest
allowed, with 9 stripes to a block, and 2000 bytes pass three of its blocks.
XXH3's pieces are the limits of each length class, of a stripe, of the buffer and
of a block. Half-words of 4 bits keep every carry, shift and cut of the vector
loops; the words given are far from regular. `MaxCalls` and `MaxMixes` bound the
length of a behaviour, `XXH*_MaxLen` the input.

**Where deadlock is not checked.** The parser stops when the client's bytes are
used up, the server when all clients are done: both are ends of the instance, not
of the program. The hash run stops when the input is used up. The command runs do check it.

**Fairness.** `Cmd!LiveSpec` assumes that a command that was called keeps
running (it is straight code in one thread), nothing of client or clock.
`EventLoop!LiveSpec` assumes that the server's thread keeps running and that a
client takes, in the end, bytes that lie in its socket's send buffer; it does not
assume that clients send, connect, close or reset, nor that system calls succeed.

**Mutants.** Each property of a passing run has a mutant in `PROJECT.json`: an
operator, commented `Mutant`, next to the definition it replaces, with a
plausible bug under which the run finds the property violated. They are used by
nothing else.

## 4. Where code and documents disagree

- **DEL may leave the key in the table** (`delforgets`). `oinsert` reuses the
  first tombstone it meets without looking for the key further along
  (`ohashtable.c:85`). SET a, SET b (same home), DEL a, SET b, DEL b: GET b still
  finds the first value. For the same reason `IsMap` is checked only where a
  removed or expiring key shares no slots.
- **A lent value is freed by SET or by an expansion** (`lent`), while
  `ohashtable.h:98` promises it until the next `otake`. `MCLent` adds a history
  variable, the pointers GET has returned since a DEL last ran `otake`; after SET,
  GET and SET of one key, the first value is lent and no longer allocated.
- **Stray bytes before a frame shift its data** (`headlen`): `head_len` contains
  the bytes skipped before the prefix. The same bytes, in front of a frame whose
  line is cut, make the parser resume at the wrong offset (`resp2parser.h:390`).
- **Closing a connection drops the rest of the batch** (`resume`): the `break` at
  `noblock_sserver.c:378` leaves the loop over the events, which an edge-triggered
  epoll does not report again.
- **Elements point into a freed buffer** (`stale`). `resp2parser.h:91` and a test
  say that frames point into `read_buffer`; `epollrun` replaces and frees that
  buffer between the reads of one command (`noblock_sserver.c:331`), and the
  elements taken before keep pointing into the old one.

A failed EPOLL_CTL_ADD closes the descriptor but leaves its entry in the pool; the
next connection on that descriptor overwrites it, and its two buffers leak
(`noblock_sserver.c:51` leaves the detection to the caller, and there is none).
`PoolServes` checks that this is all that happens.

Two more need 64-bit hashes that random input does not produce, and appear as
hazards and assumptions only: a key that hashes to 0 is lost by an expansion
(`ohashtable.c:47`; `MigrationKeeps` needs `NonZeroHash`), and an expired key hides
another with the same hash and length (`ohashtable.c:135`; `GetFinds` assumes
`DistinctTags`).

## 5. Proofs

The assumptions on the constants are the named ASSUMEs of the modules; TLC
evaluates them in every run. A theorem that needs more of the constants says so in
its own ASSUME, given below. Each property below is one that a run of section 3
checks; TLC also checked each inductive invariant before it was proved (of `Inv3`, with `Mixed` written as a
loop).

**The table.** `OHashTable_proofs` proves `TableSpec => []TableInv` for every set
of keys, every hash function and every capacity, of the table under a caller that
may do anything. The table's properties in run `clash` are not inductive by
themselves:

- that searches reach every live key (`LiveKeysReached`) needs that no slot
  between a live entry's home and its slot is empty (`Chains`). Every operation
  keeps it because a slot that has been used never becomes empty again
  (`BuryAges`, `SearchAges`), and an insertion ends at the first usable slot;
- for a table after an expansion it needs the same of the array being filled
  (`Chains(n_ohash, 2 * cap)`, `FillKeepsChains`);
- that `size` covers the slots in use needs, during a migration, that what the
  new array holds and what is still to come is covered (`MigrationCounted`, with
  `NewArrayFilled`), and cardinality lemmas for one slot changing (`SlotCount`,
  `OneMoved`);
- the load bound follows from the check and `LoadMonotone`.

From it follow `SizeCorrect`, `LoadCorrect`, `LookupsCorrect`, `GetsCorrect`, and,
assuming `NonZeroHash`, `MigrationCorrect`.

`MaskCorrect` and `CapacityRounds` are about the code's shifts and masks. A number is
2^n times what is left of it after n shifts, and what its bits below n make (`Split`).
So a word has a first bit, at t say, and is at least 2^t and less than 2^(t+1)
(`TopBit`). If the last w bits up to t are set, one smear by w makes it 2w
(`SmearDoubles`), so that six smears fill a word of 64 bits (`FilledIs`) and the sum is
2^(t+1), or wraps to 0 (`NextPower`). What has no bit in common with its predecessor is
a power of two already, and conversely (`NoCommonBit`, `PowerBits`). The invariant is
`CapInv`: the capacity is a power of two that a word holds (`CapIsPower`), and still is
when an expansion that calloc has granted doubles it (`DoublesInWord`). Then the mask
keeps the bits below n, which are the remainder by 2^n (`MaskIsRemainder`), and
stepping with it goes round (`PowerMasks`). `CapAssumption` asks of the callers that
the capacity is a word which the shifts do not wrap to 0.

**The commands.** `Cmd_proofs` shows that every step of a command is a step of the
table or leaves it alone (`CmdUsesTable`), so the table's theorems hold of the
commands. It proves the control invariant `CmdInv`, and from it
`OnlyMemoryFailsCorrect`: a table that passes the load check has a slot to give
(`InsertSucceeds`, through `SizeCountsAll`), and after an expansion the check passes
(`RetryHasRoom`). It then proves `HeapInv`, assuming `NonZeroHash`: the allocated
blocks are those the table or the running SET owns, and no block has two owners
(`OwnershipCorrect`, `OneOwnerCorrect`). Inductively this needs that a slot with a
key has its value (`SlotsHoldPairs`), that the new array holds each pair once
(`CopiesDistinct`) and that migration keeps what it passed (`MigrationKeeps`). The
assumption is necessary: with a key that hashes to 0 the expansion overwrites, and
leaks, a pair.

**The commands as a map.** `IsMapCorrect` is the step simulation of `KVStore`,
under the condition that the table stays `Undisturbed`. Section 4 shows why there
must be one: a tombstone ahead of an entry lets a key in twice, and an expired entry
answers for a key of the same hash and length. The invariant beside `CmdInv` and
`HeapInv` is `LiveOnce`, one live slot per key, which is inductive only with
`Undisturbed` (`InsertFinds`: with nothing but live slots ahead of it, the entry is
where oinsert's search ends) and, at the swap, with `CopiesDistinct`. Under it the map can be
read off the live slots (`EntryIs`, which needs `LiveKeysReached`), and each command
is compared on slots: `GetStep`, `DelStep` and `ExpireStep` evict late entries only
(`DropsLate`, `Evicted`), `SetStep` puts in a value that was in no slot (from
`OneOwner`), and a whole migration changes nothing (`SwapStep`).

For callers that keep what disturbs apart, the condition is a theorem. Call a key
loose if some call removes it or gives it an expiry time, and fixed otherwise.
`LooseApart` asks that in a table of any size it can have, no two loose keys have one
home slot, and that on the way from a fixed key's home to a loose one there are as
many slots as there are fixed keys. Under it `ApartInv` is inductive: a tombstone, an
entry that expires and a loose key are found in the homes of loose keys only, and a
fixed key lies before the first of them on its probe (`Settled`, of both arrays while
the table grows). What has to be shown is that an insertion keeps it: a fixed key
ends before it reaches a loose home, since each slot it passes holds another fixed
key, and there are not enough of them (`PathClear`, `ProbeOnce`); a loose key finds
its home free or its own (`HomeHolds`). From `ApartInv` follow `UndisturbedCorrect`,
`NoDuplicatesCorrect` and `ApartMapCorrect`, with no condition on the table left.
Callers that neither remove a key nor let one expire satisfy `LooseApart` whatever
the hashes (`NoneLoose`); those of run `map`, whose third key is removed and expires,
satisfy it too (`KeepAssumption` of `MCCmd` has TLC check that).

**The parser.** `Framing_proofs` proves `SSpec => [](ParserInv /\ SegmentInv)` for
every byte stream, however it is cut into reads. `OffsetInBuffer` is inductive with
the type invariant: a line that ends in the buffer has been received as a whole
(`LineInBuffer`), and every way out of `zerocopy_proceed` consumes at most that,
or that and a bulk string which `Short` has compared with what remains
(`ProceedKeeps`). `SlotFree` needs the parser's part: an array header fits
`elements[]` because the parser has refused a longer one. The proof assumes
`LimitAssumption`: a bulk string of length 0 is allowed (`MaxBulk > 0`), and
`MAX_ARRAY_ELEMENTS` fits the counters' `uint8_t`.

**Framing.** The same module proves what the parser promises to a peer that keeps to
the protocol: `FramesExactCorrect` and `NoFrameHeldBackCorrect` for every stream of
well-formed frames (`FramesOnly`), `CommandsExactCorrect` and
`NoCommandHeldBackCorrect` for every stream of flat arrays and single frames
(`CommandsOnly`; `FlatAssumption` has TLC check that the streams of run `commands`
are such). The argument:

- the digits of a length, written and read back, give the length (`DecRead`: the
  writing and the reading loop are compared digit by digit, `ValueAppend`);
- where each frame lies in the stream (`BytesGrow`, `Placed`), and that the first
  CRLF at or behind a frame's start is its own line's end (`LineFound`);
- so a call of the parser that stands at a frame, from the start or from what an
  earlier call has saved, hands that frame on if it is whole and otherwise saves
  where it stands (`ParseFrame`);
- hence `FramingInv`: the parser always stands between two frames, each found frame
  says what was sent, and none that is whole is left when the parser waits;
- `CommandInv` adds where the aggregator stands: in an array, behind its header and
  the elements taken so far (`InArray`), otherwise where a command starts
  (`Between`). The commands are numbered by counting the starts (`Count`, `NextStart`).

A step of either refinement delivers one item more or none (`OneMore`).

**Numbers.** `NumExactCorrect` says of every stream of bytes, cut anyhow, that
`try_parser_positive_num_str_64` accepts the digits that lie on the line if and only if
their value, the sum of digit times power of ten, fits in a `long long`, and then gives that value.
The loop is compared with the sum digit by digit. That the overflow test may begin
only at the 18th digit needs that the digits before have room (`RoomAssumption`: 10^18
is no more than `LLONG_MAX` + 1, or the same with the smaller numbers of the runs);
that it divides instead of multiplying, that the test by quotient and remainder is
the comparison of the sums. `NumbersCorrect` carries it over to a connection.

**A connection.** `ConnInvariant` keeps `ParserInv` and `SegmentInv` behind a buffer
that grows while it is read into; `RoomInv` says that half of it is free whenever the
parser runs, which is what the parser's reads past `rb_size` rest on (`ReadsCorrect`).
`ConnectionParses` is the simulation of `Segment`: a read, a growth, or a context
bound late is a `Receive` or nothing, and the parser's step is the same step, since
it sees of the buffer only what both have (the lemmas `Same*`).

**The server.** `EventLoop_proofs` proves `LoopInv` for any number of descriptors and
connections and clients that act between any two system calls. Its parts need each other: an open
socket has its connection (`OpenServed`) because only open sockets are in the batch
(`BatchInv`); this holds because closing one gives up the rest of the batch, the
same `break` that drops events, and because a closed socket is no longer watched
(`KernelInv`); the pool's array, its count and the growth on a high descriptor are
`PoolInv` with `NewCapHolds`; that a read connection has been shown to `on_read`
before the thread goes on is `SeenInv`. From it follow `LoopTypeCorrect`,
`PoolServesCorrect` and `NothingUnseenCorrect`, and, where no system call fails
(`~Faults`), `PoolExactCorrect` and `ClosedForReasonCorrect`: with failures the pool
keeps entries of closed descriptors, and connections are closed for them, as section
4 describes.

**xxHash.** `XXH_proofs` proves `XXH64_Spec => []XXH64_StreamIsOneShot`, for every
seed, every sequence of updates and resets and every length. The invariant
(`StreamOf`) says of a state that was given n bytes: each accumulator has mixed
its words of blocks 1 to n div 32 (`AccOf`), and the buffer begins with the
n mod 32 bytes that follow them (`Holds`). `BufferKeeps` and `ConsumeKeeps` take
it through the two ways of `XXH64_update`; the second rests on `BlockCompleted`
(the block begun in the buffer) and `ConsumeMixes` (blocks mixed from memory that
holds the input are the blocks that follow). `DigestIsOneShot` compares with one
call: the tails read alike because both memories hold the same bytes
(`TailsAgree`). `StreamIsOneShot32` is the same for XXH32, whose state keeps the
length modulo 2^32: `large_len` remembers that 16 bytes or more were given when the
length no longer shows it, and the wrapped length still gives the fill of the buffer
(`LengthKept`, `Wrapped`, `SameRest`).

`XXH3_Spec => []XXH3_StreamIsOneShot` is proved for both widths, all four resets,
every admitted size of a caller's secret and every length, with the invariant
`Inv3`. `Mixed[k]` is the accumulator after the first k stripes of the input, with a
scramble wherever a block of stripes ends. The invariant says that some k stripes are
mixed (`IsMixed`), that the state counts k modulo the block, that the b bytes after
them begin the buffer, and that the buffer's last 64 bytes, where no new input has
come to lie on them, are still stripe k (`Filled`, `KeptAt`); and that b > 0 once
anything was given (`Cut`). `KeptAt` is needed because the digest of a buffer with
fewer than 64 bytes takes the missing ones from its end: `XXH3_update` copies a
stripe there for that. `b > 0` is needed because the last stripe is mixed apart
and must never have been consumed; it is also `SomeBufferedCorrect`. `KeyedBy` and
`Memo` hold the key: a reset with the seed that is already there reuses the secret
derived from it, which is sound only while no external secret came between
(`ResetKeys`). The two sides are compared with `Mixed`: `StripesConsumed` for
`XXH3_consumeStripes`, which may begin within a block and end within another,
`LoopMixes` for the loop of one call; `UpdateStreams` takes the state through
`XXH3_update` and `DigestLongIs` through the digest.

`EveryByteCountsCorrect` and `SecretInsideCorrect` are about what a digest reads. Since
the digest is that of one call, they follow from what one call does with n bytes
(`KeyedCounts`): `BytesMixed` and `Inside` are taken apart by the operations of each length
(`OneOp`, `TwoOps`, `ThenBytes`), and for each length it is shown that the words read
meet or overlap: up to 16 bytes (`To16Counts64`, `To16Counts128`), up to 128 by pairs from both ends
(`PairReads`, `To128Counts64`), up to 240 by rows and the last 16 or 32 bytes (`RowCounts`,
`EndingBytes`), and above by stripes, of which the last ends where the input ends
(`MixedCovers`, `LongCounts`). Stripe k reads the secret at 8 * ((k - 1) % P), where P stripes
make a block, which together with the scramble's and the last stripe's reads lies
inside every secret of `XXH3_SECRET_SIZE_MIN` bytes or more.

**The vector units.** `XXH3Vectors_proofs` proves `Vectors_Spec => []XXH3_VariantsAgree`:
after any steps the accumulators and the secret are the same for all units. It holds
for words of two half-words of any width, every secret, seed and input, and any
exclusive or that gives words, so also for that of bits on 64-bit words. `VecInv` says
that all units have the same words, and each step is shown to give every unit what
`MixedLane` and `AllScrambled` say of one lane:

- a round of any unit is, in each lane of its vector, the product of the halves of
  that lane's key plus the accumulator and the neighbour's data (one lemma `...Mixes`
  for each form of the code: by shuffles, by multiplying evens and odds, by wide and
  narrow registers), and a vector's lanes are taken from, and put back to, words
  `i` to `i + w - 1` (`LaneLies`, `LaneGiven`);
- the scalar code goes word by word and writes the neighbour's accumulator first; pair
  by pair it ends at the same words (`ScalarFromIs`), also from the lane where NEON's
  vector code hands over to it;
- SVE keeps its registers over the stripes and the others store them after each: both
  are compared with one loop (`RunLoop`);
- a scramble multiplies a word by a half-word in halves, of which the high product
  wraps (`HalvesTimes`);
- a secret from a seed adds the seed to the even words and takes it from the odd ones
  however wide the vector is (`SeededIs`);
- the product of two words from four products of halves loses nothing: no sum on the
  way reaches the width of a word (`MultExact`).

**Recursion.** The models write recursion as recursive functions. Their defining
equations are facts only where such a function exists; `NatLemmas` proves that from the
well-foundedness of Nat, in a form that takes sets and functions instead of
operators, and the loops of `NewCap`, of the number parser, of `Pow2`, and of shifting and adding up
bits are shown to end with it.

**Only model-checked:**
liveness (`Returns`, `InputServed`, `BacklogServed`, `OutputFlushed`), since the prover
has no rule for fairness. What `XXH3_VariantsAgree` needs of exclusive or is that it
gives words; that it is exclusive or of bits is checked in run `xxh` only.


## 6. Not modelled

- `createsfd`, `setnonblocking` (straight code before the loop), `main` (empty),
  the CRLF scanner at `resp2parser.h:218` (no caller).
- `initohash` a second time: the program calls it once.
- The wrap of `cap * sizeof(ohash_t)` before `calloc`: `MaxCap`, the largest array
  granted, stands for what memory there is.
- In the loop, `accept`, `create_connection` and `EPOLL_CTL_ADD` of one client are one
  step, since adding a descriptor reports whatever has come by then; `setnonblocking`
  of the new descriptor, whose failure the code ignores, is taken to succeed; and
  `epoll_wait` has no limit of 1024 events, beyond which the next call would report.
- The error paths of the hashes for an input that is `NULL`.
- Lengths: `keylen:30`, the NUL byte at which `strndup` stops. `element.len` has
  its width (`LenRange`), but no document states what a longer string should be.
- The debug-only checks (`NDEBUG`) of arguments that callers never pass.
- The release of `use_data`; the contents of requests and responses.
- Of xxHash: what its constants do to a value, so nothing about the quality of a
  hash; byte order, alignment and the compiler's workarounds; the canonical
  forms, `XXH3_generateSecret`, and the functions that only allocate or copy a
  state.

## 7. Plan

Done: the hash table and the commands with their proofs, as a map too; the parser
and the aggregator, with what they promise proved; the server, and its read path
composed with the parser, with the safety of both proved; xxHash, with the
streaming of XXH32, XXH64, XXH3 and XXH128 and the equality of its vector units
proved.

1. Keys as bytes for `strndup`; `initohash` as an operation.
2. The write path composed with a responder behind `on_writer`.
