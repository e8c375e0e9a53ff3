----------------------------- MODULE OHashTable -----------------------------
(***************************************************************************)
(* The open-addressing hash table of src/storage/ohashtable.c: linear      *)
(* probing, lazy expiry by tombstones, removal that keeps the slot in the  *)
(* probe chain, and an expansion that migrates the live slots one by one   *)
(* into an array of twice the capacity.                                    *)
(*                                                                         *)
(* A key is its bytes; a slot's `key` is the content of the block its C    *)
(* pointer names.  The two blocks a caller hands over (key copy and value) *)
(* are named by one member of Ptr, kept in the slot's `v`: both pointers   *)
(* of a slot always come from one call of oinsert.  XXH64 is the constant  *)
(* function Hash; `hash & (cap - 1)` is written `hash % cap` (MaskExact    *)
(* says why).  time(NULL) is the variable now, which only moves forward.   *)
(***************************************************************************)
EXTENDS Integers, FiniteSets

CONSTANTS Key,      \* the keys (byte strings)
          Hash,     \* XXH64 of each key
          KeyLen,   \* the length of each key
          Ptr,      \* names of the (key copy, value) pairs of blocks
          NULL,     \* the null pointer
          Expira,   \* the expiry times callers pass; 0, "never", is one
          Asked,    \* the capacities callers ask initohash for
          WordBits, \* the bits of a uint64_t: 64
          MaxCap,   \* the largest array calloc grants
          MaxTime   \* bound on the clock (TLC)

ASSUME HashAssumption   == Hash \in [Key -> Nat] /\ KeyLen \in [Key -> Nat]
ASSUME NullAssumption   == NULL \notin Key /\ NULL \notin Ptr
ASSUME ExpiraAssumption == Expira \subseteq Nat /\ 0 \in Expira

ASSUME WordAssumption   == WordBits \in 1 .. 64

-----------------------------------------------------------------------------
(* Words, as the sets of their bits.                                       *)

\* What the bits stand for.
Pow2[n \in Nat] == IF n = 0 THEN 1 ELSE 2 * Pow2[n - 1]

\* x >> n for every n, and the bits of x that a word has room for.
Shifts(x) == LET Shr[n \in Nat] == IF n = 0 THEN x ELSE Shr[n - 1] \div 2 IN Shr
Bits(x)   == {b \in 0 .. WordBits - 1 : Shifts(x)[b] % 2 = 1}

\* The number with bits B, from those below n.
Sums(B)   == LET Sum[n \in Nat] ==
                   IF n = 0 THEN 0
                   ELSE Sum[n - 1] + (IF n - 1 \in B THEN Pow2[n - 1] ELSE 0)
             IN  Sum
Number(B) == Sums(B)[WordBits]

\* x fits in a uint64_t.
IsWord(x) == x \in Nat /\ Shifts(x)[WordBits] = 0

\* i |= i >> n
Smeared(B, n) == B \cup {b \in 0 .. WordBits - 1 : b + n \in B}

\* Mutant: the shift by 2 is left out.
FilledGap(c) == Smeared(Smeared(Smeared(Smeared(Smeared(Bits(c), 1), 4), 8), 16), 32)

\* The bits of i once getnext2power has filled it up below its first one.
Filled(c) ==
  Smeared(Smeared(Smeared(Smeared(Smeared(Smeared(Bits(c), 1), 2), 4), 8), 16), 32)

\* The number with these bits, plus 1, which wraps.
getnext2power(c) ==
  IF Filled(c) = 0 .. WordBits - 1 THEN 0 ELSE Number(Filled(c)) + 1

\* initohash rounds up what has a bit in common with its predecessor.
Capacity(c) == IF Bits(c) \cap Bits(c - 1) # {} THEN getnext2power(c) ELSE c

\* Callers ask for one slot or more, and not for so many that rounding wraps to 0.
ASSUME CapAssumption == /\ \A c \in Asked : IsWord(c) /\ Capacity(c) # 0
                        /\ IsWord(MaxCap) /\ MaxTime \in Nat

VARIABLES ohashtabl,  \* the slots, indexed from 0
          cap,        \* the number of slots
          size,       \* the entry counter the load check reads
          now,        \* what time(NULL) returns
          expanding,  \* expand_capacity is between its calloc and its swap
          n_ohash,    \* the array being filled while expanding
          i           \* the next slot of ohashtabl to migrate

tvars == <<ohashtabl, cap, size, now, expanding, n_ohash, i>>

Slot == [hash : Nat, key : Key \cup {NULL}, keylen : Nat, v : Ptr \cup {NULL},
         tb : BOOLEAN, rm : BOOLEAN, expiratime : Nat]

NullSlot == [hash |-> 0, key |-> NULL, keylen |-> 0, v |-> NULL,
             tb |-> FALSE, rm |-> FALSE, expiratime |-> 0]

\* The array calloc returns, and no array at all.
Calloc(c) == [j \in 0 .. c - 1 |-> NullSlot]
NoArray   == Calloc(0)

-----------------------------------------------------------------------------
(* Probing.                                                                *)

\* The slot n steps after the home slot of hash h in an array of c slots.
At(h, n, c) == LET s == (h % c) + n IN IF s < c THEN s ELSE s - c

\* x & (c - 1)
Masked(x, c) == Number(Bits(x) \cap Bits(c - 1))

\* Mutant: the probe loop has no bound on the slots it visits.
WalksUnbounded(stop, h, n) ==
  /\ \A m \in 0 .. n - 1 : At(h, m, cap) \notin stop
  /\ n < cap /\ At(h, n, cap) \in stop

\* A search for hash h passes n slots outside the set stop and ends: at a
\* slot of stop, or (n = cap) because icap ran out.
Walks(stop, h, n) ==
  /\ \A m \in 0 .. n - 1 : At(h, m, cap) \notin stop
  /\ n = cap \/ At(h, n, cap) \in stop

Passed(h, n) == {At(h, m, cap) : m \in 0 .. n - 1}
Hit(h, n)    == IF n = cap THEN {} ELSE {At(h, n, cap)}

Empty(s)     == s.key = NULL /\ ~s.tb
Live(s)      == ~s.tb /\ s.key # NULL
Late(s)      == s.expiratime > 0 /\ now >= s.expiratime

\* Mutant: only the lengths are compared.
TaggedByLen(s, k) == s.keylen = KeyLen[k]

Tagged(s, k) == s.hash = Hash[k] /\ s.keylen = KeyLen[k]
Match(s, k)  == Tagged(s, k) /\ s.key = k

\* Mutant: a removed slot goes back to empty.
VacatedEmpty(s) == [s EXCEPT !.key = NULL, !.v = NULL]

\* What an expired slot becomes (its pair stays in it), a slot whose entry is
\* taken, and a slot whose entry gets a new expiry time.
Tombstone(s)   == [s EXCEPT !.tb = TRUE]
Vacated(s)     == [s EXCEPT !.rm = TRUE, !.tb = TRUE, !.key = NULL, !.v = NULL]
Renewed(s, e)  == [s EXCEPT !.expiratime = e]

\* Mutant: the expiry time is not looked at.
BuryAll(S) == [j \in 0 .. cap - 1 |->
                 IF j \in S /\ ~ohashtabl[j].tb THEN Tombstone(ohashtabl[j]) ELSE ohashtabl[j]]

\* Tombstones every slot of S whose time is over.
Bury(S) == [j \in 0 .. cap - 1 |->
              IF j \in S /\ ~ohashtabl[j].tb /\ Late(ohashtabl[j])
                THEN Tombstone(ohashtabl[j])
                ELSE ohashtabl[j]]

\* Mutant: oinsert does not look for its own key.
InsertStopBlind(k) == {j \in 0 .. cap - 1 : LET s == ohashtabl[j] IN
                         s.key = NULL \/ s.rm \/ s.tb}

\* Where each operation's search for key k ends.
InsertStop(k) == {j \in 0 .. cap - 1 : LET s == ohashtabl[j] IN
                    s.key = NULL \/ s.rm \/ s.tb \/ Match(s, k)}
GetStop(k)    == {j \in 0 .. cap - 1 : LET s == ohashtabl[j] IN
                    \/ Empty(s)
                    \/ ~s.tb /\ Tagged(s, k) /\ (Late(s) \/ s.key = k)}
TakeStop(k)   == {j \in 0 .. cap - 1 : LET s == ohashtabl[j] IN
                    Empty(s) \/ (~s.tb /\ Match(s, k))}

-----------------------------------------------------------------------------
(* The operations.  Each takes the number n of slots its search passes,    *)
(* which the state determines.                                             *)

\* Mutants: the check does not look at the capacity; it lets the table fill up.
FullFixed   == size * 10 >= 7
FullNoSlack == size >= cap

Full == size * 10 >= cap * 7

\* What oinsert answers; the last two leave the pair with the caller.
InsertRet(k, n) ==
  LET s == ohashtabl[At(Hash[k], n, cap)] IN
    IF Full               THEN "FULL"
    ELSE IF n = cap       THEN "UNKNOWN_ERROR"
    ELSE IF s.rm          THEN "REMOVED"
    ELSE IF s.key = NULL  THEN "OK"
    ELSE IF s.tb          THEN "EXPIRED_"
    ELSE "REPLACED"

Refused == {"FULL", "UNKNOWN_ERROR"}

\* Mutant: the reuse of a removed slot is not counted again.
CountedFresh(r) == r = "OK"

\* The answers after which there is one entry more.
Counted(r) == r \in {"OK", "REMOVED"}

oinsert(k, p, e, n) ==
  /\ IF Full THEN n = 0 ELSE Walks(InsertStop(k), Hash[k], n)
  /\ IF InsertRet(k, n) \in Refused
       THEN UNCHANGED <<ohashtabl, size>>
       ELSE /\ ohashtabl' = [ohashtabl EXCEPT ![At(Hash[k], n, cap)] =
                               [hash |-> Hash[k], key |-> k, keylen |-> KeyLen[k], v |-> p,
                                tb |-> FALSE, rm |-> FALSE, expiratime |-> e]]
            /\ size' = IF Counted(InsertRet(k, n)) THEN size + 1 ELSE size
  /\ UNCHANGED <<cap, now, expanding, n_ohash, i>>

oget(k, n) ==
  /\ Walks(GetStop(k), Hash[k], n)
  /\ ohashtabl' = Bury(Passed(Hash[k], n) \cup Hit(Hash[k], n))
  /\ UNCHANGED <<cap, size, now, expanding, n_ohash, i>>

\* Mutant: oget does not look at the expiry time of the slot it returns.
GetResultStale(k, n) ==
  LET s == ohashtabl[At(Hash[k], n, cap)] IN IF n = cap \/ Empty(s) THEN NULL ELSE s.v

\* The pointer oget returns.
GetResult(k, n) ==
  LET s == ohashtabl[At(Hash[k], n, cap)] IN
    IF n = cap \/ Empty(s) \/ Late(s) THEN NULL ELSE s.v

\* Whether the search of otake or oexpired ends at an entry of its key.
Found(k, n) == n # cap /\ ~Empty(ohashtabl[At(Hash[k], n, cap)])

otake(k, n) ==
  /\ Walks(TakeStop(k), Hash[k], n)
  /\ LET buried == Bury(Passed(Hash[k], n)) IN
       IF Found(k, n)
         THEN /\ ohashtabl' = [buried EXCEPT ![At(Hash[k], n, cap)] = Vacated(@)]
              /\ size' = size - 1
         ELSE ohashtabl' = buried /\ size' = size
  /\ UNCHANGED <<cap, now, expanding, n_ohash, i>>

oexpired(k, e, n) ==
  /\ Walks(TakeStop(k), Hash[k], n)
  /\ LET buried == Bury(Passed(Hash[k], n)) IN
       ohashtabl' = IF Found(k, n)
                      THEN [buried EXCEPT ![At(Hash[k], n, cap)] = Renewed(@, e)]
                      ELSE buried
  /\ UNCHANGED <<cap, size, now, expanding, n_ohash, i>>

-----------------------------------------------------------------------------
(* expand_capacity: calloc, one step for each slot of the old array, swap. *)
(* The caller is blocked in it, so nothing else runs in between.           *)

ExpandBegin ==
  /\ 2 * cap <= MaxCap
  /\ expanding' = TRUE
  /\ n_ohash' = Calloc(2 * cap)
  /\ i' = 0
  /\ UNCHANGED <<ohashtabl, cap, size, now>>

\* Mutant: the live slot goes to its home slot whatever is there.
FirstFreeHome(h, n) == n = 0

\* The inner while(1): the first slot of the new array whose hash is 0.
FirstFree(h, n) ==
  /\ \A m \in 0 .. n - 1 : n_ohash[At(h, m, 2 * cap)].hash # 0
  /\ n_ohash[At(h, n, 2 * cap)].hash = 0

\* The slots expand_capacity hands to free_func instead of copying.
Discarded(s) == s.key # NULL /\ s.tb /\ ~s.rm

ExpandSlot ==
  /\ expanding /\ i < cap
  /\ LET s == ohashtabl[i] IN
       IF Live(s) /\ ~s.rm
         THEN \E n \in 0 .. 2 * cap - 1 :
                /\ FirstFree(s.hash, n)
                /\ n_ohash' = [n_ohash EXCEPT ![At(s.hash, n, 2 * cap)] = s]
         ELSE n_ohash' = n_ohash
  /\ i' = i + 1
  /\ UNCHANGED <<ohashtabl, cap, size, now, expanding>>

ExpandEnd ==
  /\ expanding /\ i = cap
  /\ ohashtabl' = n_ohash
  /\ cap' = 2 * cap
  /\ expanding' = FALSE
  /\ n_ohash' = NoArray
  /\ i' = 0
  /\ UNCHANGED <<size, now>>

Tick == now < MaxTime /\ now' = now + 1
        /\ UNCHANGED <<ohashtabl, cap, size, expanding, n_ohash, i>>

-----------------------------------------------------------------------------
\* No key hashes to 0.
NonZeroHash == \A k \in Key : Hash[k] # 0

\* initohash on a fresh process.
TableInit ==
  /\ cap \in {Capacity(c) : c \in Asked}
  /\ ohashtabl = Calloc(cap)
  /\ size = 0
  /\ now = 1
  /\ expanding = FALSE
  /\ n_ohash = NoArray
  /\ i = 0

\* Any caller: it may insert whatever pointers it likes and expand at will.
Operate ==
  /\ ~expanding
  /\ \E k \in Key, n \in 0 .. cap :
       \/ \E p \in Ptr, e \in Expira : oinsert(k, p, e, n)
       \/ oget(k, n)
       \/ otake(k, n)
       \/ \E e \in Expira : oexpired(k, e, n)

TableNext ==
  \/ Operate
  \/ ~expanding /\ ExpandBegin
  \/ ExpandSlot
  \/ ExpandEnd
  \/ Tick

TableSpec == TableInit /\ [][TableNext]_tvars

-----------------------------------------------------------------------------
(* Properties.                                                             *)

\* The slots of an array that hold a key.
Occ(tab, c) == {j \in 0 .. c - 1 : tab[j].key # NULL}
Occupied    == Occ(ohashtabl, cap)

\* Every variable has its type: the arrays are as long as cap and 2 * cap say.
TableTypeOK ==
  /\ cap \in Nat \ {0} /\ size \in Nat /\ now \in Nat /\ expanding \in BOOLEAN
  /\ ohashtabl \in [0 .. cap - 1 -> Slot]
  /\ i \in 0 .. cap
  /\ IF expanding THEN n_ohash \in [0 .. 2 * cap - 1 -> Slot]
                  ELSE n_ohash = NoArray /\ i = 0

\* size is at least the number of slots that hold a key, through replacement,
\* lazy expiry, reuse of tombstones, removal and expansion: otake's `size--`
\* never wraps, and a table that passes oinsert's load check has a slot to give.
SizeCountsAll == Cardinality(Occupied) <= size

\* No sequence of calls takes the load past the one insertion that oinsert's
\* check at the load factor 7/10 still admits.
LoadBounded == size * 10 < cap * 7 + 10

\* A search for a key that has a live slot ends at an entry of that key, never
\* at an empty slot or with every slot probed, whatever was removed, expired,
\* overwritten or migrated since: the early `return` of otake and oexpired at
\* an empty slot hides no live key.
LiveKeysReached ==
  \A j \in 0 .. cap - 1, n \in 0 .. cap :
    LET k == ohashtabl[j].key IN
      Live(ohashtabl[j]) /\ Walks(TakeStop(k), Hash[k], n) => Found(k, n)

\* A key's entry is what GET returns for it until its time comes, whatever other
\* entries around it expire.  oget tests the expiry time of a slot before it
\* compares the key, and answers "not there" for whichever key it looks for:
\* hash and length must have told them apart, hence DistinctTags.
DistinctTags == \A k, l \in Key : Hash[k] = Hash[l] /\ KeyLen[k] = KeyLen[l] => k = l
Only(j)      == \A m \in 0 .. cap - 1 :
                  Live(ohashtabl[m]) /\ ohashtabl[m].key = ohashtabl[j].key => m = j
GetFinds ==
  DistinctTags =>
    \A j \in 0 .. cap - 1, n \in 0 .. cap :
      LET s == ohashtabl[j] IN
        Live(s) /\ ~Late(s) /\ Only(j) /\ Walks(GetStop(s.key), Hash[s.key], n)
          => GetResult(s.key, n) = s.v

\* A probe visits the slots that the code's masks give, `hash & (cap - 1)` and then
\* `(idx + 1) & (cap - 1)` again and again, and they are all the slots in a circle:
\* getnext2power has filled every bit, whatever capacity was asked for, and every
\* expansion leaves cap - 1 a row of ones.
MaskExact ==
  \A k \in Key :
    /\ At(Hash[k], 0, cap) = Masked(Hash[k], cap)
    /\ \A n \in 0 .. cap - 1 : At(Hash[k], n + 1, cap) = Masked(At(Hash[k], n, cap) + 1, cap)

\* While expand_capacity runs, every live slot it has passed is in the new
\* array, expiry time included (test_cmd_functional.c: "All keys should survive
\* expansion").  Needs NonZeroHash: the loop takes a slot whose hash is 0 for a
\* free one.
MigrationKeeps ==
  expanding => \A j \in 0 .. i - 1 : Live(ohashtabl[j]) =>
                 \E m \in 0 .. 2 * cap - 1 : n_ohash[m] = ohashtabl[j]

(* The inductive invariant: the properties above and what they rest on.    *)

\* A removed slot is a tombstone without a key, and a live slot carries the
\* hash and the length of its key.
SlotsConsistent ==
  \A j \in 0 .. cap - 1 : /\ ohashtabl[j].rm => ohashtabl[j].tb /\ ohashtabl[j].key = NULL
                          /\ Live(ohashtabl[j]) => Match(ohashtabl[j], ohashtabl[j].key)

\* Between a live entry's home and its slot, no slot is empty.
Chains(tab, c) ==
  \A j \in 0 .. c - 1 : Live(tab[j]) =>
    \E n \in 0 .. c - 1 : /\ At(tab[j].hash, n, c) = j
                          /\ \A m \in 0 .. n - 1 : ~Empty(tab[At(tab[j].hash, m, c)])

\* The array being filled holds copies of migrated slots and nothing else.
NewArrayFilled ==
  expanding => \A m \in 0 .. 2 * cap - 1 :
                 \/ n_ohash[m] = NullSlot
                 \/ \E j \in 0 .. i - 1 : n_ohash[m] = ohashtabl[j] /\ Live(n_ohash[m])

\* size also covers what the new array holds and what is still to come.
MigrationCounted ==
  expanding => Cardinality(Occ(n_ohash, 2 * cap))
                 + Cardinality({j \in Occupied : j >= i}) <= size

\* The capacity is a power of two that a word holds.
CapIsPower == \E n \in 0 .. WordBits - 1 : cap = Pow2[n]
CapInv     == CapIsPower /\ (expanding => 2 * cap <= MaxCap)

TableInv ==
  /\ TableTypeOK
  /\ SizeCountsAll
  /\ LoadBounded
  /\ SlotsConsistent
  /\ Chains(ohashtabl, cap)
  /\ NewArrayFilled
  /\ MigrationCounted
  /\ expanding => Chains(n_ohash, 2 * cap)

=============================================================================
