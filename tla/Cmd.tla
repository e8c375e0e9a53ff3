-------------------------------- MODULE Cmd --------------------------------
(***************************************************************************)
(* The four commands of include/cmd_.h on top of the hash table: SET       *)
(* (SET4dup and SET4dup_), GET, DEL and EXPIRED, with the heap blocks they *)
(* allocate and free.                                                      *)
(*                                                                         *)
(* One client calls one command at a time.  GET, DEL and EXPIRED run in    *)
(* one step.  SET is a sequence of steps: allocate, insert, on FULL expand *)
(* slot by slot and insert again, on failure free.  A pair p of Ptr names  *)
(* the two blocks of one SET: its key copy (in kheap while allocated) and  *)
(* its osv (in vheap while allocated).                                     *)
(***************************************************************************)
EXTENDS OHashTable

Op == {"SET", "GET", "DEL", "EXPIRED"}

CONSTANTS Calls  \* the calls the client may make

ASSUME CallsAssumption == Calls \subseteq [op : Op, key : Key, expired : Expira]

VARIABLES call,   \* the command being executed: op, key, expired, pair p
          pc,     \* where SET stands
          ret,    \* the result of the last command
          kheap,  \* pairs whose key copy is allocated
          vheap   \* pairs whose osv is allocated

cvars == <<call, pc, ret, kheap, vheap>>
vars  == <<ohashtabl, cap, size, now, expanding, n_ohash, i, call, pc, ret, kheap, vheap>>

NoCall == [op |-> "none", key |-> NULL, expired |-> 0, p |-> NULL]

\* The command returns r to the client.
Return(r) == /\ call' = NoCall
             /\ pc' = "idle"
             /\ ret' = r

CmdInit ==
  /\ TableInit
  /\ call = NoCall
  /\ pc = "idle"
  /\ ret = "none"
  /\ kheap = {}
  /\ vheap = {}

-----------------------------------------------------------------------------
\* The client calls a command.
Call ==
  /\ pc = "idle"
  /\ \E c \in Calls :
       call' = [op |-> c.op, key |-> c.key, expired |-> c.expired, p |-> NULL]
  /\ pc' = "start"
  /\ ret' = "none"
  /\ UNCHANGED <<tvars, kheap, vheap>>

GET ==
  /\ pc = "start" /\ call.op = "GET"
  /\ \E n \in 0 .. cap :
       /\ oget(call.key, n)
       /\ Return(GetResult(call.key, n))
  /\ UNCHANGED <<kheap, vheap>>

\* The pair otake hands back is freed at once.
DEL ==
  /\ pc = "start" /\ call.op = "DEL"
  /\ \E n \in 0 .. cap :
       /\ otake(call.key, n)
       /\ LET taken == IF Found(call.key, n)
                         THEN {ohashtabl[At(Hash[call.key], n, cap)].v} ELSE {} IN
            /\ kheap' = kheap \ taken
            /\ vheap' = vheap \ taken
  /\ Return("OK")

EXPIRED ==
  /\ pc = "start" /\ call.op = "EXPIRED"
  /\ \E n \in 0 .. cap : oexpired(call.key, call.expired, n)
  /\ Return("OK")
  /\ UNCHANGED <<kheap, vheap>>

-----------------------------------------------------------------------------
(* SET.                                                                    *)

\* The key copy and the osv; either allocation may fail.
SetAlloc ==
  /\ pc = "start" /\ call.op = "SET"
  /\ \/ Return("ENOMEM") /\ UNCHANGED <<kheap, vheap>>
     \/ \E p \in Ptr \ (kheap \cup vheap) :
          /\ call' = [call EXCEPT !.p = p]
          /\ kheap' = kheap \cup {p}
          /\ \/ vheap' = vheap \cup {p} /\ pc' = "insert" /\ ret' = ret
             \/ vheap' = vheap /\ pc' = "failure" /\ ret' = "ENOMEM"
  /\ UNCHANGED tvars

\* Mutants: every ret but OK counts as an error; a pair found expired is
\* forgotten.
AcceptedOK(r)         == r = "OK"
SupersededReplaced(r) == r = "REPLACED"

\* `ret >= 0`, and the answers that hand an old pair back.
Accepted(r)   == r \notin Refused
Superseded(r) == r \in {"REPLACED", "EXPIRED_"}

\* oinsert, the first time or again after an expansion.  An accepted pair
\* belongs to the table, and the pair it replaced or found expired is freed;
\* the first FULL leads to expand_capacity, any other refusal to failure.
SetInsert ==
  /\ pc \in {"insert", "retry"}
  /\ \E n \in 0 .. cap :
       /\ oinsert(call.key, call.p, call.expired, n)
       /\ LET r   == InsertRet(call.key, n)
              old == IF Superseded(r)
                       THEN {ohashtabl[At(Hash[call.key], n, cap)].v} ELSE {} IN
            /\ kheap' = kheap \ old
            /\ vheap' = vheap \ old
            /\ IF Accepted(r)
                 THEN Return(r)
                 ELSE /\ pc' = IF pc = "insert" /\ r = "FULL" THEN "expand" ELSE "failure"
                      /\ ret' = r
                      /\ call' = call

\* Mutant: the result of expand_capacity is not looked at.
SetExpandUnchecked ==
  /\ pc = "expand"
  /\ \/ ExpandBegin /\ pc' = "migrate" /\ ret' = "none"
     \/ UNCHANGED tvars /\ pc' = "migrate" /\ ret' = "ENOMEM"
  /\ UNCHANGED <<call, kheap, vheap>>

\* expand_capacity gets its array, or calloc fails.
SetExpand ==
  /\ pc = "expand"
  /\ \/ ExpandBegin /\ pc' = "migrate" /\ ret' = "none"
     \/ UNCHANGED tvars /\ pc' = "failure" /\ ret' = "ENOMEM"
  /\ UNCHANGED <<call, kheap, vheap>>

SetMigrate ==
  /\ pc = "migrate"
  /\ ExpandSlot
  /\ LET dead == IF Discarded(ohashtabl[i]) THEN {ohashtabl[i].v} ELSE {} IN
       /\ kheap' = kheap \ dead
       /\ vheap' = vheap \ dead
  /\ UNCHANGED <<call, pc, ret>>

SetExpanded ==
  /\ pc = "migrate"
  /\ ExpandEnd
  /\ pc' = "retry"
  /\ UNCHANGED <<call, ret, kheap, vheap>>

\* failure: free(key_dup), free(osv_) - the latter NULL if never allocated.
SetFailure ==
  /\ pc = "failure"
  /\ kheap' = kheap \ {call.p}
  /\ vheap' = vheap \ {call.p}
  /\ Return(ret)
  /\ UNCHANGED tvars

-----------------------------------------------------------------------------
Step == \/ GET \/ DEL \/ EXPIRED
        \/ SetAlloc \/ SetInsert \/ SetExpand \/ SetMigrate \/ SetExpanded
        \/ SetFailure

CmdNext == Call \/ Step \/ (Tick /\ UNCHANGED cvars)

CmdSpec == CmdInit /\ [][CmdNext]_vars

\* A called command keeps running; the client and the clock promise nothing.
LiveSpec == CmdSpec /\ WF_vars(Step)

-----------------------------------------------------------------------------
(* Properties.                                                             *)

\* The slots whose pair the table still owns; expand_capacity gives up a
\* tombstone of the old array when it passes it.
OwnedSlots == {j \in Occupied : ~(expanding /\ j < i /\ ohashtabl[j].tb)}
Owned      == {ohashtabl[j].v : j \in OwnedSlots}
InFlight   == {call.p} \ {NULL}

\* Every variable of the commands has its type, and SET's steps run only for SET.
CmdTypeOK ==
  /\ TableTypeOK
  /\ pc \in {"idle", "start", "insert", "expand", "migrate", "retry", "failure"}
  /\ call \in [op : Op \cup {"none"}, key : Key \cup {NULL}, expired : Expira,
               p : Ptr \cup {NULL}]
  /\ ret \in {"none", "OK", "REMOVED", "EXPIRED_", "REPLACED", "ENOMEM"}
             \cup Refused \cup Ptr \cup {NULL}
  /\ kheap \subseteq Ptr /\ vheap \subseteq Ptr
  /\ pc = "idle" <=> call = NoCall
  /\ pc = "idle" \/ call.key \in Key
  /\ pc \in {"idle", "start"} <=> call.p = NULL
  /\ pc \in {"idle", "start"} \/ call.op = "SET"
  /\ pc = "migrate" <=> expanding

\* Both blocks of a pair are allocated exactly as long as the table or the
\* running SET owns them: nothing leaks and nothing freed is still referenced,
\* across replacement, expiry, DEL, expansion and each failure path.
Ownership ==
  /\ kheap = Owned \cup InFlight
  /\ vheap = kheap \/ (pc = "failure" /\ vheap = kheap \ InFlight)

\* A pair has one owner, so no two paths can free it twice: two slots never
\* hold the same pair, nor a slot the pair the running SET still holds.
OneOwner ==
  /\ \A j, m \in OwnedSlots : ohashtabl[j].v = ohashtabl[m].v => j = m
  /\ InFlight \cap Owned = {}

\* SET fails for lack of memory only: after a successful expansion the second
\* oinsert is not FULL, and oinsert never comes back with UNKNOWN_ERROR.
OnlyMemoryFails == pc = "failure" => ret = "ENOMEM"

\* Every command called returns: the probe loops end, and so does the inner
\* while(1) of expand_capacity for every slot it moves.
Returns == pc = "start" ~> pc = "idle"

\* A key that has been SET without ever being removed or expired sits in one
\* slot: oinsert's search meets the old copy before any slot it would rather use.
NoDuplicates ==
  \A j, m \in Occupied : ohashtabl[j].key = ohashtabl[m].key => j = m

(* The inductive invariants: of the control, and of the heap.              *)

\* After an expansion the load check lets the second oinsert through.
RetryHasRoom == pc = "retry" => ~Full

CmdInv == CmdTypeOK /\ TableInv /\ RetryHasRoom /\ OnlyMemoryFails

\* A slot with a key has its value too, and no two slots of the new array are
\* copies of one slot.
SlotsHoldPairs == \A j \in Occupied : ohashtabl[j].v \in Ptr
CopiesDistinct ==
  expanding => \A l, m \in Occ(n_ohash, 2 * cap) : n_ohash[l].v = n_ohash[m].v => l = m

HeapInv == Ownership /\ OneOwner /\ SlotsHoldPairs /\ CopiesDistinct /\ MigrationKeeps

-----------------------------------------------------------------------------
(* What GET(k) would answer, and the entry otake and oexpired would find.  *)

EndOf(stop, k) == CHOOSE n \in 0 .. cap : Walks(stop, Hash[k], n)
Value(k)       == GetResult(k, EndOf(GetStop(k), k))

\* test/test_cmd_functional.c: "Key should not exist after deletion".
DelForgets ==
  [][\A k \in Key : call.op = "DEL" /\ call.key = k /\ pc' = "idle" => Value(k)' = NULL]_vars

-----------------------------------------------------------------------------
(* The map the commands implement: a key's entry is the first slot on its  *)
(* probe path that otake would take.                                       *)

\* NULL stands for no entry.
ASSUME EntryAssumption == NULL \notin [v : Ptr, expired : Nat]

Entry(k) ==
  LET n == EndOf(TakeStop(k), k)
      s == ohashtabl[At(Hash[k], n, cap)]
  IN  IF Found(k, n) THEN [v |-> s.v, expired |-> s.expiratime] ELSE NULL

Map == INSTANCE KVStore WITH
         db   <- [k \in Key |-> Entry(k)],
         call <- [op |-> call.op, key |-> call.key, expired |-> call.expired],
         ret  <- IF pc = "idle" THEN ret ELSE "none",
         Absent <- NULL, None <- NULL

\* SET, GET, DEL and EXPIRED behave as the operations of one map from keys to
\* entries, each taking effect once between its call and its return.  Holds
\* while the table is Undisturbed.
IsMap == Map!Spec

\* No tombstone lies ahead of an entry on its probe path, where oinsert would
\* store its key a second time, and an entry whose time is over has hash and
\* length of no other key, which oget would take it for.  So it is where a key
\* that is removed or expires shares no slot with another key.
Undisturbed ==
  \A j \in 0 .. cap - 1 : LET s == ohashtabl[j] IN
    Live(s) => /\ \E n \in 0 .. cap - 1 :
                    /\ At(s.hash, n, cap) = j
                    /\ \A m \in 0 .. n - 1 : Live(ohashtabl[At(s.hash, m, cap)])
               /\ Late(s) => \A k \in Key : Tagged(s, k) => k = s.key

\* A key has one entry at most.
LiveOnce == \A j \in 0 .. cap - 1 : Live(ohashtabl[j]) => Only(j)

(* Where the table stays Undisturbed.                                      *)

\* The keys that calls may remove or let expire, and the others.
Loose == {k \in Key : \E c \in Calls : c.key = k /\ (c.op = "DEL" \/ c.expired # 0)}
Fixed == Key \ Loose

\* The capacities a table may have, and the home slots of the loose keys.
Sizes == {Capacity(a) : a \in Asked}
         \cup {c \in 1 .. MaxCap : /\ \E n \in 0 .. WordBits - 1 : c = Pow2[n]
                                  /\ \E a \in Asked : Capacity(a) <= c}
Home(k, c) == At(Hash[k], 0, c)
Homes(c)   == {Home(l, c) : l \in Loose}

\* In a table of any size the home of a loose key is no other loose key's, and
\* lies as many slots behind the home of each fixed key as there are fixed keys.
LooseApart ==
  \A c \in Sizes :
    /\ \A k, l \in Loose : Home(k, c) = Home(l, c) => k = l
    /\ \A k \in Fixed, n \in 0 .. c - 1 :
         At(Hash[k], n, c) \in Homes(c) => IsFiniteSet(Fixed) /\ Cardinality(Fixed) <= n

\* Tombstones, entries that expire and loose keys are found in the homes of loose
\* keys only, and fixed keys neither there nor behind them.
Clear(k, j, c)  == \A n \in 0 .. c - 1 : At(Hash[k], n, c) = j =>
                     \A m \in 0 .. n : At(Hash[k], m, c) \notin Homes(c)
Settled(tab, c) ==
  \A j \in 0 .. c - 1 : LET s == tab[j] IN
    /\ s.tb \/ s.expiratime # 0 => j \in Homes(c)
    /\ s.key \in Loose => j = Home(s.key, c)
    /\ s.key \in Fixed => Clear(s.key, j, c)

ApartInv ==
  /\ cap \in Sizes /\ Settled(ohashtabl, cap)
  /\ expanding => 2 * cap \in Sizes /\ Settled(n_ohash, 2 * cap)
  /\ call.key \in Fixed => call.op # "DEL" /\ call.expired = 0

=============================================================================
