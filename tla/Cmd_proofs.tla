------------------------------ MODULE Cmd_proofs ------------------------------
(***************************************************************************)
(* Proofs about the commands: they use the table as OHashTable allows, so  *)
(* that its theorems hold of them; SET fails for lack of memory only;      *)
(* every heap block has one owner as long as it is allocated; and, where   *)
(* no tombstone gets ahead of an entry, they implement one map.            *)
(***************************************************************************)
EXTENDS Cmd, OHashTable_proofs

-----------------------------------------------------------------------------
(* The commands as steps of the table.                                     *)

\* Every step of a command is a step of the table or leaves the table alone.
LEMMA CmdIsTableStep ==
  ASSUME CmdTypeOK, [CmdNext]_vars
  PROVE  [TableNext]_tvars
<1>1. /\ pc = "migrate" <=> expanding
      /\ pc = "idle" \/ call.key \in Key
      /\ pc \in {"idle", "start"} <=> call.p = NULL
      /\ call.p \in Ptr \cup {NULL} /\ call.expired \in Expira
  BY DEF CmdTypeOK
<1>2. CASE Call \/ SetAlloc \/ SetFailure \/ UNCHANGED vars
  BY <1>2 DEF Call, SetAlloc, SetFailure, tvars, vars
<1>3. CASE GET
  BY <1>1, <1>3 DEF GET, TableNext, Operate
<1>4. CASE DEL
  BY <1>1, <1>4 DEF DEL, TableNext, Operate
<1>5. CASE EXPIRED
  BY <1>1, <1>5 DEF EXPIRED, TableNext, Operate
<1>6. CASE SetInsert
  <2>1. call.p \in Ptr /\ call.key \in Key /\ ~expanding
    BY <1>1, <1>6 DEF SetInsert
  <2>2. \E n \in 0 .. cap : oinsert(call.key, call.p, call.expired, n)
    BY <1>6 DEF SetInsert
  <2>3. QED
    BY <1>1, <2>1, <2>2 DEF TableNext, Operate
<1>7. CASE SetExpand
  BY <1>1, <1>7 DEF SetExpand, TableNext
<1>8. CASE SetMigrate
  BY <1>8 DEF SetMigrate, TableNext
<1>9. CASE SetExpanded
  BY <1>9 DEF SetExpanded, TableNext
<1>10. CASE Tick /\ UNCHANGED cvars
  BY <1>10 DEF TableNext
<1>11. QED
  BY <1>2, <1>3, <1>4, <1>5, <1>6, <1>7, <1>8, <1>9, <1>10 DEF CmdNext, Step

-----------------------------------------------------------------------------
(* Control.                                                                *)

\* The control variables have their types, whatever the table holds.
LEMMA CmdTypeStep ==
  ASSUME CmdTypeOK, TableInv, TableInv', CmdNext
  PROVE  CmdTypeOK'
<1> USE ExpiraAssumption, NullAssumption
<1> DEFINE CallType == call \in [op : Op \cup {"none"}, key : Key \cup {NULL},
                                 expired : Expira, p : Ptr \cup {NULL}]
           RetType  == ret \in {"none", "OK", "REMOVED", "EXPIRED_", "REPLACED", "ENOMEM"}
                               \cup Refused \cup Ptr \cup {NULL}
           PcType   == pc \in {"idle", "start", "insert", "expand", "migrate", "retry",
                               "failure"}
           Links    == /\ pc = "idle" <=> call = NoCall
                       /\ pc = "idle" \/ call.key \in Key
                       /\ pc \in {"idle", "start"} <=> call.p = NULL
                       /\ pc \in {"idle", "start"} \/ call.op = "SET"
                       /\ pc = "migrate" <=> expanding
           Rest     == CallType /\ RetType /\ PcType /\ Links
                       /\ kheap \subseteq Ptr /\ vheap \subseteq Ptr
<1>1. TableTypeOK /\ TableTypeOK' /\ Rest
  BY DEF CmdTypeOK, TableInv
<1>2. SUFFICES Rest'
  BY <1>1 DEF CmdTypeOK
<1>3. NoCall \in [op : Op \cup {"none"}, key : Key \cup {NULL},
                  expired : Expira, p : Ptr \cup {NULL}] /\ NoCall.p = NULL
  BY DEF NoCall
<1>4. CASE Call
  <2>1. PICK c \in Calls :
          call' = [op |-> c.op, key |-> c.key, expired |-> c.expired, p |-> NULL]
    BY <1>4 DEF Call
  <2>2. c.op \in Op /\ c.op # "none" /\ c.key \in Key /\ c.expired \in Expira
    BY <2>1, CallsAssumption DEF Op
  <2>3. CallType' /\ call'.key \in Key /\ call'.p = NULL /\ call' # NoCall
    BY <2>1, <2>2 DEF NoCall
  <2>4. QED
    BY <1>1, <1>4, <2>3 DEF Call, tvars
<1>5. CASE GET
  <2>1. PICK n \in 0 .. cap : oget(call.key, n) /\ Return(GetResult(call.key, n))
    BY <1>5 DEF GET
  <2>2. GetResult(call.key, n) \in Ptr \cup {NULL}
    <3>1. Hash[call.key] \in Nat
      BY <1>1, <1>5, HashAssumption DEF GET
    <3>2. CASE n = cap
      BY <3>2 DEF GetResult
    <3>3. CASE n # cap
      <4>1. n \in 0 .. cap - 1 /\ cap \in Nat \ {0}
        BY <1>1, <3>3 DEF TableTypeOK
      <4>2. At(Hash[call.key], n, cap) \in 0 .. cap - 1
        BY <3>1, <4>1, AtIsSlot
      <4>3. ohashtabl[At(Hash[call.key], n, cap)].v \in Ptr \cup {NULL}
        BY <1>1, <4>2 DEF TableTypeOK, Slot
      <4>4. QED
        BY <4>3 DEF GetResult
    <3>4. QED
      BY <3>2, <3>3
  <2>3. ret' \in Ptr \cup {NULL} /\ pc' = "idle" /\ call' = NoCall
    BY <2>1, <2>2 DEF Return
  <2>4. expanding' = expanding /\ kheap' = kheap /\ vheap' = vheap
    BY <1>5 DEF GET, oget
  <2>5. QED
    BY <1>1, <1>3, <1>5, <2>3, <2>4 DEF GET
<1>6. CASE DEL
  <2>1. expanding' = expanding /\ kheap' \subseteq kheap /\ vheap' \subseteq vheap
    BY <1>6 DEF DEL, otake
  <2>2. QED
    BY <1>1, <1>3, <1>6, <2>1 DEF DEL, Return
<1>7. CASE EXPIRED
  <2>1. expanding' = expanding
    BY <1>7 DEF EXPIRED, oexpired
  <2>2. QED
    BY <1>1, <1>3, <1>7, <2>1 DEF EXPIRED, Return
<1>8. CASE SetAlloc
  <2>1. CASE Return("ENOMEM") /\ UNCHANGED <<kheap, vheap>>
    BY <1>1, <1>3, <1>8, <2>1 DEF SetAlloc, Return, tvars
  <2>2. CASE \E p \in Ptr \ (kheap \cup vheap) :
               /\ call' = [call EXCEPT !.p = p]
               /\ kheap' = kheap \cup {p}
               /\ \/ vheap' = vheap \cup {p} /\ pc' = "insert" /\ ret' = ret
                  \/ vheap' = vheap /\ pc' = "failure" /\ ret' = "ENOMEM"
    <3>1. PICK p \in Ptr : /\ call' = [call EXCEPT !.p = p]
                           /\ kheap' = kheap \cup {p}
                           /\ \/ vheap' = vheap \cup {p} /\ pc' = "insert" /\ ret' = ret
                              \/ vheap' = vheap /\ pc' = "failure" /\ ret' = "ENOMEM"
      BY <2>2
    <3>2. CallType' /\ call'.p = p /\ call'.key = call.key
      BY <1>1, <3>1
    <3>3. call' # NoCall /\ p # NULL
      BY <1>3, <3>2
    <3>4. QED
      BY <1>1, <1>8, <3>1, <3>2, <3>3 DEF SetAlloc, tvars
  <2>3. QED
    BY <1>8, <2>1, <2>2 DEF SetAlloc
<1>9. CASE SetInsert
  <2>1. PICK n \in 0 .. cap :
          /\ oinsert(call.key, call.p, call.expired, n)
          /\ kheap' \subseteq kheap /\ vheap' \subseteq vheap
          /\ IF InsertRet(call.key, n) \notin Refused
               THEN Return(InsertRet(call.key, n))
               ELSE /\ pc' \in {"expand", "failure"}
                    /\ ret' = InsertRet(call.key, n)
                    /\ call' = call
    BY <1>9 DEF SetInsert, Accepted
  <2>2. expanding' = expanding
    BY <2>1 DEF oinsert
  <2>3. InsertRet(call.key, n) \in {"FULL", "UNKNOWN_ERROR", "REMOVED", "OK", "EXPIRED_",
                                    "REPLACED"}
    BY DEF InsertRet
  <2>4. CASE InsertRet(call.key, n) \notin Refused
    <3>1. call' = NoCall /\ pc' = "idle" /\ ret' = InsertRet(call.key, n)
      BY <2>1, <2>4 DEF Return
    <3>2. QED
      BY <1>1, <1>3, <1>9, <2>1, <2>2, <2>3, <3>1 DEF SetInsert, Refused
  <2>5. CASE InsertRet(call.key, n) \in Refused
    <3>1. pc' \in {"expand", "failure"} /\ ret' \in Refused /\ call' = call
      BY <2>1, <2>5
    <3>2. QED
      BY <1>1, <1>9, <2>1, <2>2, <3>1 DEF SetInsert
  <2>6. QED
    BY <2>4, <2>5
<1>10. CASE SetExpand
  BY <1>1, <1>10 DEF SetExpand, ExpandBegin, tvars
<1>11. CASE SetMigrate
  <2>1. expanding' = expanding /\ kheap' \subseteq kheap /\ vheap' \subseteq vheap
        /\ UNCHANGED <<call, pc, ret>>
    BY <1>11 DEF SetMigrate, ExpandSlot
  <2>2. QED
    BY <1>1, <2>1
<1>12. CASE SetExpanded
  <2>1. expanding' = FALSE /\ pc' = "retry" /\ pc = "migrate"
        /\ UNCHANGED <<call, ret, kheap, vheap>>
    BY <1>12 DEF SetExpanded, ExpandEnd
  <2>2. QED
    BY <1>1, <2>1
<1>13. CASE SetFailure
  BY <1>1, <1>3, <1>13 DEF SetFailure, Return, tvars
<1>14. CASE Tick /\ UNCHANGED cvars
  BY <1>1, <1>14 DEF Tick, cvars
<1>15. QED
  BY <1>4, <1>5, <1>6, <1>7, <1>8, <1>9, <1>10, <1>11, <1>12, <1>13, <1>14
     DEF CmdNext, Step

\* An oinsert refused by a table that is not full is impossible, so only FULL
\* on the first attempt leads on to the expansion, and nothing to failure.
LEMMA InsertNotRefused ==
  ASSUME CmdInv, NEW n \in 0 .. cap, SetInsert,
         oinsert(call.key, call.p, call.expired, n), InsertRet(call.key, n) \in Refused
  PROVE  pc = "insert" /\ InsertRet(call.key, n) = "FULL"
<1>1. call.key \in Key /\ pc \in {"insert", "retry"}
  BY DEF CmdInv, CmdTypeOK, SetInsert
<1>2. Full
  <2>1. ASSUME ~Full PROVE FALSE
    <3>1. Walks(InsertStop(call.key), Hash[call.key], n)
      BY <2>1 DEF oinsert
    <3>2. QED
      BY <1>1, <2>1, <3>1, InsertSucceeds DEF CmdInv
  <2>2. QED
    BY <2>1
<1>3. QED
  BY <1>1, <1>2 DEF InsertRet, CmdInv, RetryHasRoom

\* The invariant of the control is inductive.
LEMMA CmdStepInv == CmdInv /\ [CmdNext]_vars => CmdInv'
<1> SUFFICES ASSUME CmdInv, [CmdNext]_vars
             PROVE  CmdInv'
  OBVIOUS
<1>1. CmdTypeOK /\ TableInv /\ RetryHasRoom /\ OnlyMemoryFails
  BY DEF CmdInv
<1>2. TableInv'
  BY <1>1, CmdIsTableStep, TableStepInv
<1>3. CASE UNCHANGED vars
  BY <1>1, <1>2, <1>3 DEF vars, CmdInv, CmdTypeOK, TableInv, RetryHasRoom, Full, OnlyMemoryFails
<1>4. CASE CmdNext
  <2>1. CmdTypeOK'
    BY <1>1, <1>2, <1>4, CmdTypeStep
  <2>2. CASE Call \/ GET \/ DEL \/ EXPIRED \/ SetAlloc \/ SetExpand \/ SetMigrate \/ SetFailure
    BY <1>1, <1>2, <2>1, <2>2
       DEF Call, GET, DEL, EXPIRED, SetAlloc, SetExpand, SetMigrate, SetFailure, Return,
           CmdInv, RetryHasRoom, OnlyMemoryFails
  <2>3. CASE SetInsert
    <3>1. PICK n \in 0 .. cap :
            /\ oinsert(call.key, call.p, call.expired, n)
            /\ IF InsertRet(call.key, n) \notin Refused
                 THEN Return(InsertRet(call.key, n))
                 ELSE pc' = IF pc = "insert" /\ InsertRet(call.key, n) = "FULL"
                              THEN "expand" ELSE "failure"
      BY <2>3 DEF SetInsert, Accepted
    <3>2. pc' \in {"idle", "expand"}
      BY <2>3, <3>1, InsertNotRefused DEF Return
    <3>3. QED
      BY <1>2, <2>1, <3>2 DEF CmdInv, RetryHasRoom, OnlyMemoryFails
  <2>4. CASE SetExpanded
    <3>1. cap \in Nat \ {0} /\ size \in Nat /\ size * 10 < cap * 7 + 10
      BY <1>1 DEF TableInv, TableTypeOK, LoadBounded
    <3>2. cap' = 2 * cap /\ size' = size /\ pc' = "retry"
      BY <2>4 DEF SetExpanded, ExpandEnd
    <3>3. ~(size * 10 >= (2 * cap) * 7)
      BY <3>1
    <3>4. ~Full'
      BY <3>2, <3>3 DEF Full
    <3>5. QED
      BY <1>2, <2>1, <3>2, <3>4 DEF CmdInv, RetryHasRoom, OnlyMemoryFails
  <2>5. CASE Tick /\ UNCHANGED cvars
    BY <1>1, <1>2, <2>1, <2>5
       DEF Tick, cvars, CmdInv, RetryHasRoom, Full, OnlyMemoryFails
  <2>6. QED
    BY <1>4, <2>2, <2>3, <2>4, <2>5 DEF CmdNext, Step
<1>5. QED
  BY <1>3, <1>4

\* A fresh process satisfies it.
LEMMA CmdInitInv == CmdInit => CmdInv
<1> SUFFICES ASSUME CmdInit PROVE CmdInv
  OBVIOUS
<1>1. TableInv
  BY TableInitInv DEF CmdInit
<1>2. /\ call = NoCall /\ pc = "idle" /\ ret = "none" /\ kheap = {} /\ vheap = {}
      /\ expanding = FALSE
  BY DEF CmdInit, TableInit
<1>3. NoCall \in [op : Op \cup {"none"}, key : Key \cup {NULL},
                  expired : Expira, p : Ptr \cup {NULL}] /\ NoCall.p = NULL
  BY ExpiraAssumption DEF NoCall
<1>4. CmdTypeOK
  BY <1>1, <1>2, <1>3 DEF CmdTypeOK, TableInv
<1>5. QED
  BY <1>1, <1>2, <1>4 DEF CmdInv, RetryHasRoom, OnlyMemoryFails

\* The control invariant holds of the commands in every behaviour.
THEOREM CmdInvariant == CmdSpec => []CmdInv
<1>1. CmdInit => CmdInv
  BY CmdInitInv
<1>2. CmdInv /\ [CmdNext]_vars => CmdInv'
  BY CmdStepInv
<1>3. QED
  BY <1>1, <1>2, PTL DEF CmdSpec

\* Every variable of the commands keeps its type.
THEOREM CmdTypeCorrect == CmdSpec => []CmdTypeOK
<1>1. CmdInv => CmdTypeOK
  BY DEF CmdInv
<1>2. QED
  BY <1>1, CmdInvariant, PTL

\* Whatever the client does, the commands only make steps the table allows: the
\* theorems of OHashTable_proofs hold of them.
THEOREM CmdUsesTable == CmdSpec => TableSpec
<1>1. CmdInit => TableInit
  BY DEF CmdInit
<1>2. CmdInv /\ [CmdNext]_vars => [TableNext]_tvars
  BY CmdIsTableStep DEF CmdInv
<1>3. QED
  BY <1>1, <1>2, CmdInvariant, PTL DEF CmdSpec, TableSpec

\* SET never fails for another reason than memory: UNKNOWN_ERROR and a second
\* FULL are unreachable.
THEOREM OnlyMemoryFailsCorrect == CmdSpec => []OnlyMemoryFails
<1>1. CmdInv => OnlyMemoryFails
  BY DEF CmdInv
<1>2. QED
  BY <1>1, CmdInvariant, PTL

-----------------------------------------------------------------------------
(* The heap.                                                               *)

\* While no expansion runs, the table owns the pair of every slot with a key.
LEMMA OwnedIdle ==
  ASSUME ~expanding
  PROVE  OwnedSlots = Occupied
  BY DEF OwnedSlots

\* The operations that search leave the pairs of the slots they do not vacate.
LEMMA SearchPairs ==
  ASSUME TableTypeOK, NEW k \in Key, NEW n \in 0 .. cap, NEW e \in Nat,
         oget(k, n) \/ otake(k, n) \/ oexpired(k, e, n)
  PROVE  /\ \A j \in Occupied' : j \in Occupied /\ ohashtabl'[j].v = ohashtabl[j].v
         /\ \/ Occupied' = Occupied /\ ~(otake(k, n) /\ Found(k, n))
            \/ /\ otake(k, n) /\ Found(k, n)
               /\ At(Hash[k], n, cap) \in Occupied
               /\ Occupied' = Occupied \ {At(Hash[k], n, cap)}
<1>1. /\ ohashtabl' \in [0 .. cap - 1 -> Slot]
      /\ \A j \in 0 .. cap - 1 : Aged(ohashtabl[j], ohashtabl'[j])
      /\ \/ size' = size /\ Occupied' = Occupied
         \/ /\ otake(k, n) /\ Found(k, n) /\ size' = size - 1
            /\ At(Hash[k], n, cap) \in Occupied
            /\ Occupied' = Occupied \ {At(Hash[k], n, cap)}
  BY SearchAges
<1>2. cap' = cap /\ size \in Nat
  BY DEF oget, otake, oexpired, TableTypeOK
<1>3. ASSUME NEW j \in Occupied'
      PROVE  j \in Occupied /\ ohashtabl'[j].v = ohashtabl[j].v
  <2>1. j \in 0 .. cap - 1 /\ ohashtabl'[j].key # NULL
    BY <1>2 DEF Occupied, Occ
  <2>2. ohashtabl[j].key # NULL /\ ohashtabl'[j].v = ohashtabl[j].v
    BY <1>1, <2>1 DEF Aged
  <2>3. QED
    BY <2>1, <2>2 DEF Occupied, Occ
<1>4. otake(k, n) /\ Found(k, n) => size' = size - 1
  BY DEF otake
<1>5. QED
  BY <1>1, <1>2, <1>3, <1>4

\* GET and EXPIRED neither allocate nor free, and DEL frees the pair it took.
LEMMA SearchHeap ==
  ASSUME CmdInv, HeapInv, GET \/ DEL \/ EXPIRED
  PROVE  HeapInv'
<1>1. /\ TableTypeOK /\ call.key \in Key /\ call.expired \in Nat /\ call.p = NULL
      /\ ~expanding /\ pc = "start" /\ expanding' = expanding
      /\ call' = NoCall /\ pc' = "idle"
  BY ExpiraAssumption
     DEF CmdInv, CmdTypeOK, GET, DEL, EXPIRED, Return, oget, otake, oexpired
<1>2. InFlight = {} /\ InFlight' = {}
  BY <1>1 DEF InFlight, NoCall
<1>3. OwnedSlots = Occupied /\ OwnedSlots' = Occupied'
  BY <1>1 DEF OwnedSlots
<1>4. kheap = Owned /\ vheap = Owned
  BY <1>1, <1>2 DEF HeapInv, Ownership
<1>5. \A j, m \in Occupied : ohashtabl[j].v = ohashtabl[m].v => j = m
  BY <1>3 DEF HeapInv, OneOwner
<1>6. \A j \in Occupied' : j \in Occupied /\ ohashtabl'[j].v = ohashtabl[j].v
  BY <1>1, SearchPairs DEF GET, DEL, EXPIRED
<1>7. OneOwner' /\ SlotsHoldPairs' /\ CopiesDistinct' /\ MigrationKeeps'
  BY <1>1, <1>2, <1>3, <1>5, <1>6
     DEF OneOwner, HeapInv, SlotsHoldPairs, CopiesDistinct, MigrationKeeps
<1>8. kheap' = Owned' /\ vheap' = Owned'
  <2>1. CASE GET \/ EXPIRED
    <3>1. Occupied' = Occupied
      <4>1. ~DEL
        BY <2>1 DEF GET, EXPIRED, DEL
      <4>2. PICK n \in 0 .. cap : oget(call.key, n) \/ oexpired(call.key, call.expired, n)
        BY <2>1 DEF GET, EXPIRED
      <4>3. size' = size /\ size \in Nat
        BY <1>1, <4>2 DEF oget, oexpired, TableTypeOK
      <4>4. ~(otake(call.key, n) /\ Found(call.key, n))
        BY <4>3 DEF otake
      <4>5. QED
        BY <1>1, <4>2, <4>4, SearchPairs
    <3>2. Owned' = Owned
      BY <1>3, <1>6, <3>1 DEF Owned
    <3>3. QED
      BY <1>4, <2>1, <3>2 DEF GET, EXPIRED
  <2>2. CASE DEL
    <3> DEFINE a(n)     == At(Hash[call.key], n, cap)
               taken(n) == IF Found(call.key, n) THEN {ohashtabl[a(n)].v} ELSE {}
    <3>1. PICK n \in 0 .. cap :
            otake(call.key, n) /\ kheap' = kheap \ taken(n) /\ vheap' = vheap \ taken(n)
      BY <2>2 DEF DEL
    <3>2. Owned' = Owned \ taken(n)
      <4>1. CASE ~Found(call.key, n)
        <5>1. Occupied' = Occupied
          BY <1>1, <3>1, <4>1, SearchPairs
        <5>2. QED
          BY <1>3, <1>6, <4>1, <5>1 DEF Owned
      <4>2. CASE Found(call.key, n)
        <5>1. a(n) \in Occupied /\ Occupied' = Occupied \ {a(n)}
          BY <1>1, <3>1, <4>2, SearchPairs
        <5>2. QED
          BY <1>3, <1>5, <1>6, <4>2, <5>1 DEF Owned
      <4>3. QED
        BY <4>1, <4>2
    <3>3. QED
      BY <1>4, <3>1, <3>2
  <2>3. QED
    BY <2>1, <2>2
<1>9. Ownership'
  BY <1>2, <1>8 DEF Ownership
<1>10. QED
  BY <1>7, <1>9 DEF HeapInv

\* An accepted insertion hands the pair to the table and frees the pair whose
\* slot it took over, if that slot had one.
LEMMA InsertHeap ==
  ASSUME CmdInv, HeapInv, SetInsert
  PROVE  HeapInv'
<1>1. /\ TableTypeOK /\ call.key \in Key /\ call.p \in Ptr /\ call.p # NULL
      /\ ~expanding /\ pc \in {"insert", "retry"}
      /\ cap \in Nat \ {0} /\ ohashtabl \in [0 .. cap - 1 -> Slot]
      /\ Hash[call.key] \in Nat /\ NULL # call.key
  BY HashAssumption, NullAssumption DEF CmdInv, CmdTypeOK, SetInsert, TableTypeOK
<1> DEFINE p      == call.p
           a(n)   == At(Hash[call.key], n, cap)
           r(n)   == InsertRet(call.key, n)
           old(n) == IF r(n) \in {"REPLACED", "EXPIRED_"} THEN {ohashtabl[a(n)].v} ELSE {}
<1>2. PICK n \in 0 .. cap :
        /\ oinsert(call.key, p, call.expired, n)
        /\ kheap' = kheap \ old(n) /\ vheap' = vheap \ old(n)
        /\ IF r(n) \notin Refused
             THEN Return(r(n))
             ELSE /\ pc' = IF pc = "insert" /\ r(n) = "FULL" THEN "expand" ELSE "failure"
                  /\ call' = call
  BY DEF SetInsert, Accepted, Superseded
<1>3. /\ InFlight = {p}
      /\ OwnedSlots = Occupied
      /\ kheap = Owned \cup {p} /\ vheap = kheap /\ p \notin Owned
      /\ \A j, m \in Occupied : ohashtabl[j].v = ohashtabl[m].v => j = m
  BY <1>1 DEF InFlight, OwnedSlots, HeapInv, Ownership, OneOwner
<1>4. expanding' = expanding /\ cap' = cap
  BY <1>2 DEF oinsert
<1>5. CASE r(n) \in Refused
  <2>1. UNCHANGED <<ohashtabl, call>> /\ old(n) = {}
    BY <1>2, <1>5 DEF oinsert, Refused
  <2>2. InFlight' = InFlight /\ Occupied' = Occupied /\ OwnedSlots' = Occupied /\ Owned' = Owned
    BY <1>1, <1>3, <1>4, <2>1 DEF InFlight, Occupied, Occ, OwnedSlots, Owned
  <2>3. kheap' = kheap /\ vheap' = vheap
    BY <1>2, <2>1
  <2>4. QED
    BY <1>1, <1>3, <1>4, <2>1, <2>2, <2>3
       DEF HeapInv, Ownership, OneOwner, SlotsHoldPairs, CopiesDistinct, MigrationKeeps
<1>6. CASE r(n) \notin Refused
  <2>1. ~Full /\ n \in 0 .. cap - 1
    BY <1>1, <1>6 DEF InsertRet, Refused
  <2>2. a(n) \in 0 .. cap - 1
    BY <1>1, <2>1, AtIsSlot
  <2>3. /\ ohashtabl'[a(n)].v = p /\ ohashtabl'[a(n)].key # NULL
        /\ \A j \in 0 .. cap - 1 : j # a(n) => ohashtabl'[j] = ohashtabl[j]
    <3> DEFINE new == [hash |-> Hash[call.key], key |-> call.key, keylen |-> KeyLen[call.key],
                       v |-> p, tb |-> FALSE, rm |-> FALSE, expiratime |-> call.expired]
    <3>1. ohashtabl' = [ohashtabl EXCEPT ![a(n)] = new]
      BY <1>2, <1>6 DEF oinsert
    <3>2. new.v = p /\ new.key # NULL
      BY <1>1
    <3> HIDE DEF new
    <3>3. QED
      BY <1>1, <2>2, <3>1, <3>2
  <2>4. r(n) \in {"REPLACED", "EXPIRED_"} <=> a(n) \in Occupied
    BY <1>6, <2>1, <2>2 DEF InsertRet, Refused, Occupied, Occ, CmdInv, TableInv, SlotsConsistent
  <2>5. old(n) = {ohashtabl[j].v : j \in Occupied \cap {a(n)}}
    BY <2>4
  <2>6. Occupied' = Occupied \cup {a(n)} /\ OwnedSlots' = Occupied'
    BY <1>1, <1>4, <2>2, <2>3 DEF Occupied, Occ, OwnedSlots
  <2>7. \A j \in Occupied \ {a(n)} : ohashtabl'[j].v = ohashtabl[j].v
    BY <2>3 DEF Occupied, Occ
  <2>8. Owned' = (Owned \ old(n)) \cup {p}
    <3>1. Owned' = {ohashtabl[j].v : j \in Occupied \ {a(n)}} \cup {p}
      BY <2>3, <2>6, <2>7 DEF Owned
    <3>2. {ohashtabl[j].v : j \in Occupied \ {a(n)}} = Owned \ old(n)
      BY <1>3, <2>5 DEF Owned
    <3>3. QED
      BY <3>1, <3>2
  <2>9. InFlight' = {} /\ pc' = "idle"
    BY <1>2, <1>6 DEF Return, InFlight, NoCall
  <2>10. p \notin old(n)
    BY <1>3, <2>5 DEF Owned
  <2>11. Ownership'
    BY <1>2, <1>3, <2>8, <2>9, <2>10 DEF Ownership
  <2>12. OneOwner'
    <3>1. \A j \in Occupied : ohashtabl[j].v # p
      BY <1>3 DEF Owned
    <3>2. QED
      BY <1>3, <2>3, <2>6, <2>7, <2>9, <3>1 DEF OneOwner
  <2>13. SlotsHoldPairs'
    BY <1>1, <2>3, <2>6, <2>7 DEF SlotsHoldPairs, HeapInv
  <2>14. CopiesDistinct' /\ MigrationKeeps'
    BY <1>1, <1>4 DEF CopiesDistinct, MigrationKeeps
  <2>15. QED
    BY <2>11, <2>12, <2>13, <2>14 DEF HeapInv
<1>7. QED
  BY <1>5, <1>6

\* Steps that leave the table's arrays alone: the pairs in flight change with
\* the heap.
LEMMA CallerHeap ==
  ASSUME CmdInv, HeapInv, Call \/ SetAlloc \/ SetFailure \/ (Tick /\ UNCHANGED cvars)
  PROVE  HeapInv'
<1>1. UNCHANGED <<ohashtabl, cap, expanding, n_ohash, i>>
  BY DEF Call, SetAlloc, SetFailure, Tick, tvars
<1>2. Occupied' = Occupied /\ OwnedSlots' = OwnedSlots /\ Owned' = Owned
  BY <1>1 DEF Occupied, Occ, OwnedSlots, Owned
<1>3. SlotsHoldPairs' /\ CopiesDistinct' /\ MigrationKeeps'
  BY <1>1, <1>2 DEF SlotsHoldPairs, CopiesDistinct, MigrationKeeps, HeapInv
<1>4. /\ pc \in {"idle", "start"} <=> call.p = NULL
      /\ kheap = Owned \cup InFlight
      /\ vheap = kheap \/ (pc = "failure" /\ vheap = kheap \ InFlight)
      /\ \A j, m \in OwnedSlots : ohashtabl[j].v = ohashtabl[m].v => j = m
      /\ InFlight \cap Owned = {}
      /\ NoCall.p = NULL
  BY DEF CmdInv, CmdTypeOK, HeapInv, Ownership, OneOwner, NoCall
<1>5. \A j, m \in OwnedSlots' : ohashtabl'[j].v = ohashtabl'[m].v => j = m
  BY <1>1, <1>2, <1>4
<1>6. /\ kheap' = Owned \cup InFlight'
      /\ vheap' = kheap' \/ (pc' = "failure" /\ vheap' = kheap' \ InFlight')
      /\ InFlight' \cap Owned = {}
  <2>1. CASE Call
    <3>1. InFlight = {} /\ InFlight' = {} /\ kheap' = kheap /\ vheap' = vheap /\ pc = "idle"
      BY <1>4, <2>1 DEF Call, InFlight
    <3>2. QED
      BY <1>4, <3>1
  <2>2. CASE SetAlloc
    <3>1. InFlight = {} /\ kheap = Owned /\ vheap = Owned /\ call.p = NULL
      BY <1>4, <2>2 DEF SetAlloc, InFlight
    <3>2. CASE Return("ENOMEM") /\ UNCHANGED <<kheap, vheap>>
      BY <1>4, <3>1, <3>2 DEF Return, InFlight
    <3>3. CASE \E p \in Ptr \ (kheap \cup vheap) :
                 /\ call' = [call EXCEPT !.p = p]
                 /\ kheap' = kheap \cup {p}
                 /\ \/ vheap' = vheap \cup {p} /\ pc' = "insert" /\ ret' = ret
                    \/ vheap' = vheap /\ pc' = "failure" /\ ret' = "ENOMEM"
      <4>1. PICK p \in Ptr \ (kheap \cup vheap) :
                 /\ call' = [call EXCEPT !.p = p]
                 /\ kheap' = kheap \cup {p}
                 /\ \/ vheap' = vheap \cup {p} /\ pc' = "insert" /\ ret' = ret
                    \/ vheap' = vheap /\ pc' = "failure" /\ ret' = "ENOMEM"
        BY <3>3
      <4>2. call'.p = p /\ p # NULL
        BY <4>1, NullAssumption DEF CmdInv, CmdTypeOK
      <4>3. InFlight' = {p}
        BY <4>2 DEF InFlight
      <4>4. QED
        BY <3>1, <4>1, <4>3
    <3>4. QED
      BY <2>2, <3>2, <3>3 DEF SetAlloc
  <2>3. CASE SetFailure
    <3>1. InFlight' = {} /\ InFlight = {call.p}
      BY <1>4, <2>3 DEF SetFailure, Return, InFlight
    <3>2. kheap' = kheap \ InFlight /\ vheap' = vheap \ InFlight
      BY <2>3, <3>1 DEF SetFailure
    <3>3. QED
      BY <1>4, <3>1, <3>2
  <2>4. CASE Tick /\ UNCHANGED cvars
    BY <1>4, <2>4 DEF cvars, InFlight
  <2>5. QED
    BY <2>1, <2>2, <2>3, <2>4
<1>7. Ownership' /\ OneOwner'
  BY <1>2, <1>5, <1>6 DEF Ownership, OneOwner
<1>8. QED
  BY <1>3, <1>7 DEF HeapInv

\* Starting an expansion, or failing to, moves no pair.
LEMMA ExpandHeap ==
  ASSUME CmdInv, HeapInv, SetExpand
  PROVE  HeapInv'
<1>1. /\ ~expanding /\ pc = "expand" /\ cap \in Nat \ {0}
  BY DEF CmdInv, CmdTypeOK, TableTypeOK, SetExpand
<1>2. /\ UNCHANGED <<ohashtabl, cap, call, kheap, vheap>>
      /\ \/ expanding' = expanding
         \/ expanding' /\ i' = 0 /\ n_ohash' = Calloc(2 * cap)
  BY DEF SetExpand, ExpandBegin, tvars
<1>3. Occupied' = Occupied /\ OwnedSlots' = OwnedSlots /\ Owned' = Owned /\ InFlight' = InFlight
  <2>1. Occupied' = Occupied /\ InFlight' = InFlight
    BY <1>2 DEF Occupied, Occ, InFlight
  <2>2. OwnedSlots = Occupied
    BY <1>1 DEF OwnedSlots
  <2>3. \A j \in Occupied : ~(j < 0)
    BY DEF Occupied, Occ
  <2>4. OwnedSlots' = Occupied
    BY <1>1, <1>2, <2>1, <2>3 DEF OwnedSlots
  <2>5. QED
    BY <1>2, <2>1, <2>2, <2>4 DEF Owned
<1>4. kheap = Owned \cup InFlight /\ vheap = kheap
  BY <1>1 DEF HeapInv, Ownership
<1>5. Ownership' /\ OneOwner' /\ SlotsHoldPairs'
  BY <1>2, <1>3, <1>4 DEF HeapInv, Ownership, OneOwner, SlotsHoldPairs
<1>6. CopiesDistinct' /\ MigrationKeeps'
  <2>1. CASE expanding' = expanding
    BY <1>1, <2>1 DEF CopiesDistinct, MigrationKeeps
  <2>2. CASE expanding' /\ i' = 0 /\ n_ohash' = Calloc(2 * cap)
    <3>1. Occ(n_ohash', 2 * cap) = {}
      BY <2>2 DEF Occ, Calloc, NullSlot
    <3>2. 0 .. i' - 1 = {}
      BY <2>2
    <3>3. QED
      BY <1>2, <3>1, <3>2 DEF CopiesDistinct, MigrationKeeps
  <2>3. QED
    BY <1>2, <2>1, <2>2
<1>7. QED
  BY <1>5, <1>6 DEF HeapInv

\* The migration loop frees the pair of a tombstone as it passes it, and gives
\* the pair of a live slot one copy in the new array.
LEMMA MigrateHeap ==
  ASSUME NonZeroHash, CmdInv, HeapInv, SetMigrate
  PROVE  HeapInv'
<1> DEFINE s  == ohashtabl[i]
           c2 == 2 * cap
<1>1. /\ TableInv /\ expanding /\ pc = "migrate" /\ ExpandSlot
      /\ cap \in Nat \ {0} /\ i \in 0 .. cap - 1
      /\ ohashtabl \in [0 .. cap - 1 -> Slot] /\ n_ohash \in [0 .. c2 - 1 -> Slot]
      /\ Occupied \in SUBSET (0 .. cap - 1)
  BY DEF CmdInv, TableInv, TableTypeOK, SetMigrate, ExpandSlot, Occupied, Occ
<1>2. i' = i + 1 /\ UNCHANGED <<ohashtabl, cap, expanding, call, pc>>
  BY DEF SetMigrate, ExpandSlot
<1>3. MigrationKeeps'
  BY <1>1, MigrationStep DEF HeapInv
<1>4. Occupied' = Occupied /\ InFlight' = InFlight /\ SlotsHoldPairs'
  BY <1>2 DEF Occupied, Occ, InFlight, HeapInv, SlotsHoldPairs
<1>5. /\ kheap = Owned \cup InFlight /\ vheap = kheap /\ InFlight \cap Owned = {}
      /\ \A j, m \in OwnedSlots : ohashtabl[j].v = ohashtabl[m].v => j = m
  BY <1>1 DEF HeapInv, Ownership, OneOwner
<1>6. CASE Discarded(s)
  <2>1. i \in OwnedSlots
    BY <1>1, <1>6 DEF OwnedSlots, Discarded, Occupied, Occ
  <2>2. \A j \in Occupied : j < i + 1 <=> j < i \/ j = i
    BY <1>1
  <2>3. OwnedSlots' = OwnedSlots \ {i}
    BY <1>1, <1>2, <1>4, <1>6, <2>2 DEF OwnedSlots, Discarded
  <2>4. Owned' = Owned \ {s.v}
    BY <1>2, <1>5, <2>1, <2>3 DEF Owned
  <2>5. kheap' = kheap \ {s.v} /\ vheap' = vheap \ {s.v}
    BY <1>6 DEF SetMigrate
  <2>6. s.v \in Owned
    BY <2>1 DEF Owned
  <2>7. Ownership' /\ OneOwner'
    BY <1>2, <1>4, <1>5, <2>3, <2>4, <2>5, <2>6 DEF Ownership, OneOwner
  <2>8. n_ohash' = n_ohash
    BY <1>6 DEF SetMigrate, ExpandSlot, Discarded, Live
  <2>9. CopiesDistinct'
    BY <1>2, <2>8 DEF HeapInv, CopiesDistinct
  <2>10. QED
    BY <1>3, <1>4, <2>7, <2>9 DEF HeapInv
<1>7. CASE ~Discarded(s)
  <2>1. i \in Occupied => ~s.tb
    BY <1>1, <1>7 DEF Occupied, Occ, Discarded, TableInv, SlotsConsistent
  <2>2. \A j \in Occupied : j < i + 1 <=> j < i \/ j = i
    BY <1>1
  <2>3. OwnedSlots' = OwnedSlots
    BY <1>1, <1>2, <1>4, <2>1, <2>2 DEF OwnedSlots
  <2>4. Owned' = Owned /\ kheap' = kheap /\ vheap' = vheap
    BY <1>2, <1>7, <2>3 DEF Owned, SetMigrate
  <2>5. Ownership' /\ OneOwner'
    BY <1>2, <1>4, <1>5, <2>3, <2>4 DEF Ownership, OneOwner
  <2>6. CopiesDistinct'
    <3>1. CASE Live(s) /\ ~s.rm
      <4>1. PICK n \in 0 .. c2 - 1 : n_ohash' = [n_ohash EXCEPT ![At(s.hash, n, c2)] = s]
        BY <1>1, <3>1 DEF ExpandSlot
      <4> DEFINE a == At(s.hash, n, c2)
      <4>2. a \in 0 .. c2 - 1
        <5>1. s.hash \in Nat /\ c2 \in Nat \ {0}
          BY <1>1 DEF Slot
        <5>2. QED
          BY <5>1, AtIsSlot
      <4>3. /\ n_ohash'[a] = s
            /\ \A m \in 0 .. c2 - 1 : m # a => n_ohash'[m] = n_ohash[m]
        BY <1>1, <4>1, <4>2
      <4>4. i \in OwnedSlots
        BY <1>1, <3>1 DEF OwnedSlots, Occupied, Occ, Live
      <4>5. ASSUME NEW m \in Occ(n_ohash, c2)
            PROVE  n_ohash[m].v # s.v
        <5>1. m \in 0 .. c2 - 1 /\ n_ohash[m] # NullSlot
          BY DEF Occ, NullSlot
        <5>2. PICK j \in 0 .. i - 1 : n_ohash[m] = ohashtabl[j] /\ Live(n_ohash[m])
          BY <1>1, <5>1 DEF TableInv, NewArrayFilled
        <5>3. j \in OwnedSlots /\ j # i
          BY <1>1, <5>2 DEF OwnedSlots, Occupied, Occ, Live
        <5>4. QED
          BY <1>5, <4>4, <5>2, <5>3
      <4>6. ASSUME NEW m \in Occ(n_ohash', c2), m # a
            PROVE  m \in Occ(n_ohash, c2) /\ n_ohash'[m] = n_ohash[m]
        BY <4>3, <4>6 DEF Occ
      <4>7. \A l, m \in Occ(n_ohash', c2) : n_ohash'[l].v = n_ohash'[m].v => l = m
        BY <1>1, <4>3, <4>5, <4>6 DEF HeapInv, CopiesDistinct
      <4>8. QED
        BY <1>2, <4>7 DEF CopiesDistinct
    <3>2. CASE ~(Live(s) /\ ~s.rm)
      <4>1. n_ohash' = n_ohash
        BY <1>1, <3>2 DEF ExpandSlot
      <4>2. QED
        BY <1>2, <4>1 DEF HeapInv, CopiesDistinct
    <3>3. QED
      BY <3>1, <3>2
  <2>7. QED
    BY <1>3, <1>4, <2>5, <2>6 DEF HeapInv
<1>8. QED
  BY <1>6, <1>7

\* At the swap the new array holds exactly the pairs the table still owned.
LEMMA ExpandedHeap ==
  ASSUME CmdInv, HeapInv, SetExpanded
  PROVE  HeapInv'
<1> DEFINE c2 == 2 * cap
<1>1. /\ TableInv /\ expanding /\ pc = "migrate" /\ i = cap /\ cap \in Nat \ {0}
      /\ Occupied \in SUBSET (0 .. cap - 1)
  BY DEF CmdInv, TableInv, TableTypeOK, SetExpanded, ExpandEnd, Occupied, Occ
<1>2. /\ ohashtabl' = n_ohash /\ cap' = c2 /\ ~expanding' /\ pc' = "retry"
      /\ UNCHANGED <<call, kheap, vheap>>
  BY DEF SetExpanded, ExpandEnd
<1>3. Occupied' = Occ(n_ohash, c2) /\ OwnedSlots' = Occupied' /\ InFlight' = InFlight
  BY <1>2 DEF Occupied, OwnedSlots, InFlight
<1>4. ASSUME NEW m \in Occ(n_ohash, c2)
      PROVE  \E j \in OwnedSlots : n_ohash[m] = ohashtabl[j]
  <2>1. m \in 0 .. c2 - 1 /\ n_ohash[m] # NullSlot
    BY DEF Occ, NullSlot
  <2>2. PICK j \in 0 .. i - 1 : n_ohash[m] = ohashtabl[j] /\ Live(n_ohash[m])
    BY <1>1, <2>1 DEF TableInv, NewArrayFilled
  <2>3. j \in OwnedSlots
    BY <1>1, <2>2 DEF OwnedSlots, Occupied, Occ, Live
  <2>4. QED
    BY <2>2, <2>3
<1>5. ASSUME NEW j \in OwnedSlots
      PROVE  \E m \in Occ(n_ohash, c2) : n_ohash[m] = ohashtabl[j]
  <2>1. j \in 0 .. i - 1 /\ Live(ohashtabl[j])
    BY <1>1 DEF OwnedSlots, Occupied, Occ, Live
  <2>2. PICK m \in 0 .. c2 - 1 : n_ohash[m] = ohashtabl[j]
    BY <1>1, <2>1 DEF HeapInv, MigrationKeeps
  <2>3. QED
    BY <2>1, <2>2 DEF Occ, Live
<1>6. Owned' = Owned
  BY <1>2, <1>3, <1>4, <1>5 DEF Owned
<1>7. Ownership'
  BY <1>1, <1>2, <1>3, <1>6 DEF HeapInv, Ownership
<1>8. OneOwner'
  BY <1>1, <1>2, <1>3, <1>6 DEF HeapInv, OneOwner, CopiesDistinct
<1>9. SlotsHoldPairs'
  <2>1. \A j \in OwnedSlots : ohashtabl[j].v \in Ptr
    BY DEF HeapInv, SlotsHoldPairs, OwnedSlots
  <2>2. QED
    BY <1>2, <1>3, <1>4, <2>1 DEF SlotsHoldPairs
<1>10. CopiesDistinct' /\ MigrationKeeps'
  BY <1>2 DEF CopiesDistinct, MigrationKeeps
<1>11. QED
  BY <1>7, <1>8, <1>9, <1>10 DEF HeapInv

\* Every step keeps the heap in order, when no key hashes to 0.
LEMMA HeapStepInv ==
  ASSUME NonZeroHash, CmdInv, HeapInv, [CmdNext]_vars
  PROVE  HeapInv'
<1>1. CASE UNCHANGED vars
  BY <1>1 DEF vars, HeapInv, Ownership, OneOwner, SlotsHoldPairs, CopiesDistinct,
              MigrationKeeps, Owned, OwnedSlots, InFlight, Occupied
<1>2. CASE CmdNext
  BY <1>2, SearchHeap, InsertHeap, CallerHeap, ExpandHeap, MigrateHeap, ExpandedHeap
     DEF CmdNext, Step
<1>3. QED
  BY <1>1, <1>2

\* For every hash function that is never 0, the heap invariant holds of every
\* behaviour of the commands.
THEOREM HeapInvariant ==
  ASSUME NonZeroHash
  PROVE  CmdSpec => []HeapInv
<1>1. CmdInit => HeapInv
  <2> SUFFICES ASSUME CmdInit PROVE HeapInv
    OBVIOUS
  <2>1. /\ call = NoCall /\ NoCall.p = NULL /\ kheap = {} /\ vheap = {} /\ ~expanding
        /\ \A j \in 0 .. cap - 1 : ohashtabl[j] = NullSlot
    BY DEF CmdInit, TableInit, NoCall, Calloc
  <2>2. Occupied = {}
    BY <2>1 DEF Occupied, Occ, NullSlot
  <2>3. OwnedSlots = {} /\ Owned = {} /\ InFlight = {}
    BY <2>1, <2>2 DEF OwnedSlots, Owned, InFlight
  <2>4. QED
    BY <2>1, <2>2, <2>3
       DEF HeapInv, Ownership, OneOwner, SlotsHoldPairs, CopiesDistinct, MigrationKeeps
<1>2. CmdInv /\ HeapInv /\ [CmdNext]_vars => HeapInv'
  BY HeapStepInv
<1>3. QED
  BY <1>1, <1>2, CmdInvariant, PTL DEF CmdSpec

\* No command leaks a block or leaves a reference to a freed one.
THEOREM OwnershipCorrect ==
  ASSUME NonZeroHash
  PROVE  CmdSpec => []Ownership
<1>1. HeapInv => Ownership
  BY DEF HeapInv
<1>2. QED
  BY <1>1, HeapInvariant, PTL

\* No block has two owners that could each free it.
THEOREM OneOwnerCorrect ==
  ASSUME NonZeroHash
  PROVE  CmdSpec => []OneOwner
<1>1. HeapInv => OneOwner
  BY DEF HeapInv
<1>2. QED
  BY <1>1, HeapInvariant, PTL

-----------------------------------------------------------------------------
(* The map.                                                                *)

\* Slot j holds the entry of key k, and what the map says of that entry.
LiveAt(k, j) == j \in 0 .. cap - 1 /\ Live(ohashtabl[j]) /\ ohashtabl[j].key = k
Image(s)     == [v |-> s.v, expired |-> s.expiratime]

\* The map is read off the live slots.
MapRead ==
  \A k \in Key :
    /\ \A j \in 0 .. cap - 1 : LiveAt(k, j) => Entry(k) = Image(ohashtabl[j])
    /\ (\A j \in 0 .. cap - 1 : ~LiveAt(k, j)) => Entry(k) = NULL

\* Every search that may end, ends.
LEMMA WalkEnds ==
  ASSUME TableTypeOK, NEW stop, NEW k \in Key
  PROVE  EndOf(stop, k) \in 0 .. cap /\ Walks(stop, Hash[k], EndOf(stop, k))
<1> DEFINE S == {n \in 0 .. cap : n = cap \/ At(Hash[k], n, cap) \in stop}
<1>1. cap \in Nat \ {0} /\ S \in SUBSET Nat /\ cap \in S
  BY DEF TableTypeOK
<1>2. PICK n \in S : \A m \in S : n <= m
  BY <1>1, LeastNumber
<1>3. ASSUME NEW m \in 0 .. n - 1 PROVE At(Hash[k], m, cap) \notin stop
  BY <1>1, <1>2
<1>4. n \in 0 .. cap /\ Walks(stop, Hash[k], n)
  BY <1>2, <1>3 DEF Walks
<1>5. QED
  BY <1>4 DEF EndOf

\* The search of DEL and EXPIRED ends at the one live slot of the key, if there
\* is one.
LEMMA TakeFinds ==
  ASSUME TableInv, LiveOnce, NEW k \in Key, NEW n \in 0 .. cap,
         Walks(TakeStop(k), Hash[k], n)
  PROVE  LET a == At(Hash[k], n, cap)
         IN  /\ Found(k, n) => LiveAt(k, a)
             /\ \A j \in 0 .. cap - 1 : LiveAt(k, j) => Found(k, n) /\ j = a
<1> DEFINE a == At(Hash[k], n, cap)
<1>1. /\ TableTypeOK /\ cap \in Nat \ {0} /\ Hash[k] \in Nat /\ k # NULL
  BY HashAssumption, NullAssumption DEF TableInv, TableTypeOK
<1>2. Found(k, n) => LiveAt(k, a)
  <2> SUFFICES ASSUME Found(k, n) PROVE LiveAt(k, a)
    OBVIOUS
  <2>1. a \in TakeStop(k) /\ ~Empty(ohashtabl[a])
    BY DEF Walks, Found
  <2>2. QED
    BY <1>1, <2>1 DEF TakeStop, Match, LiveAt, Live
<1>3. ASSUME NEW j \in 0 .. cap - 1, LiveAt(k, j)
      PROVE  Found(k, n) /\ j = a
  <2>1. Found(k, n)
    BY <1>3, InvReaches DEF LiveKeysReached, LiveAt
  <2>2. QED
    BY <1>2, <1>3, <2>1 DEF LiveAt, LiveOnce, Only
<1>4. QED
  BY <1>2, <1>3

\* Entry finds the one live slot of a key.
LEMMA EntryIs == TableInv /\ LiveOnce => MapRead
<1> SUFFICES ASSUME TableInv, LiveOnce, NEW k \in Key
             PROVE  /\ \A j \in 0 .. cap - 1 : LiveAt(k, j) => Entry(k) = Image(ohashtabl[j])
                    /\ (\A j \in 0 .. cap - 1 : ~LiveAt(k, j)) => Entry(k) = NULL
  BY DEF MapRead
<1> DEFINE n == EndOf(TakeStop(k), k)
           a == At(Hash[k], n, cap)
<1>1. n \in 0 .. cap /\ Walks(TakeStop(k), Hash[k], n)
  BY WalkEnds DEF TableInv
<1>2. /\ Found(k, n) => LiveAt(k, a)
      /\ \A j \in 0 .. cap - 1 : LiveAt(k, j) => Found(k, n) /\ j = a
  BY <1>1, TakeFinds
<1>3. Entry(k) = IF Found(k, n) THEN Image(ohashtabl[a]) ELSE NULL
  BY DEF Entry, Image
<1>4. QED
  BY <1>2, <1>3 DEF LiveAt

\* An entry is not NULL, and its value belongs to the table.
LEMMA ImageIs ==
  ASSUME TableTypeOK, SlotsHoldPairs, NEW k \in Key, NEW j, LiveAt(k, j)
  PROVE  /\ Image(ohashtabl[j]) # NULL
         /\ Image(ohashtabl[j]).v = ohashtabl[j].v
         /\ Image(ohashtabl[j]).expired = ohashtabl[j].expiratime
         /\ j \in Occupied /\ ohashtabl[j].v \in Ptr
<1>1. j \in Occupied /\ ohashtabl[j] \in Slot
  BY DEF LiveAt, Live, Occupied, Occ, TableTypeOK
<1>2. ohashtabl[j].v \in Ptr /\ ohashtabl[j].expiratime \in Nat
  BY <1>1 DEF SlotsHoldPairs, Slot
<1>3. QED
  BY <1>1, <1>2, EntryAssumption DEF Image

\* Bury only turns slots whose time is over into tombstones.
LEMMA BurySlots ==
  ASSUME TableTypeOK, NEW S, NEW j \in 0 .. cap - 1
  PROVE  \/ Bury(S)[j] = ohashtabl[j]
         \/ Late(ohashtabl[j]) /\ ~Live(Bury(S)[j]) /\ j \in S
<1>1. ohashtabl[j] \in Slot
  BY DEF TableTypeOK
<1>2. Tombstone(ohashtabl[j]).tb
  BY <1>1 DEF Tombstone, Slot
<1>3. QED
  BY <1>2 DEF Bury, Live

\* What a search does to the live slots: it drops late ones, and DEL and EXPIRED
\* change the slot of their key they found, which is live.
LEMMA SearchSlots ==
  ASSUME TableInv, NEW k \in Key, NEW n \in 0 .. cap, NEW e \in Nat,
         oget(k, n) \/ otake(k, n) \/ oexpired(k, e, n)
  PROVE  /\ cap' = cap /\ now' = now
         /\ \A j \in 0 .. cap - 1 :
              \/ ohashtabl'[j] = ohashtabl[j]
              \/ Late(ohashtabl[j]) /\ ~Live(ohashtabl'[j])
              \/ j = At(Hash[k], n, cap) /\ LiveAt(k, j) /\ Found(k, n)
                 /\ (otake(k, n) \/ oexpired(k, e, n))
<1> DEFINE a == At(Hash[k], n, cap)
<1>1. /\ TableTypeOK /\ cap \in Nat \ {0} /\ Hash[k] \in Nat /\ k # NULL
      /\ ohashtabl \in [0 .. cap - 1 -> Slot]
  BY HashAssumption, NullAssumption DEF TableInv, TableTypeOK
<1>2. cap' = cap /\ now' = now
  BY DEF oget, otake, oexpired
<1>3. ASSUME NEW S, ohashtabl' = Bury(S), NEW j \in 0 .. cap - 1
      PROVE  \/ ohashtabl'[j] = ohashtabl[j]
             \/ Late(ohashtabl[j]) /\ ~Live(ohashtabl'[j])
  BY <1>1, <1>3, BurySlots
<1>4. CASE oget(k, n)
  BY <1>2, <1>3, <1>4 DEF oget
<1>5. CASE (otake(k, n) \/ oexpired(k, e, n)) /\ ~Found(k, n)
  BY <1>2, <1>3, <1>5 DEF otake, oexpired
<1>6. CASE (otake(k, n) \/ oexpired(k, e, n)) /\ Found(k, n)
  <2> DEFINE b == Bury(Passed(Hash[k], n))
  <2>1. Walks(TakeStop(k), Hash[k], n) /\ n # cap /\ ~Empty(ohashtabl[a])
    BY <1>6 DEF otake, oexpired, Found
  <2>2. a \in 0 .. cap - 1
    <3>1. n \in 0 .. cap - 1
      BY <1>1, <2>1
    <3>2. QED
      BY <1>1, <3>1, AtIsSlot
  <2>3. LiveAt(k, a)
    BY <1>1, <2>1, <2>2 DEF Walks, TakeStop, Match, LiveAt, Live
  <2>4. \A j \in 0 .. cap - 1 : j # a => ohashtabl'[j] = b[j]
    BY <1>1, <1>6, <2>2, BuryAges DEF otake, oexpired
  <2>5. QED
    BY <1>1, <1>2, <1>6, <2>3, <2>4, BurySlots
<1>7. QED
  BY <1>4, <1>5, <1>6

\* No search makes a second entry of a key.
LEMMA SearchOnce ==
  ASSUME TableTypeOK, LiveOnce, NEW k \in Key, NEW n \in 0 .. cap, NEW e \in Nat,
         oget(k, n) \/ otake(k, n) \/ oexpired(k, e, n)
  PROVE  LiveOnce'
<1>1. cap' = cap
  BY DEF oget, otake, oexpired
<1>2. \A j \in 0 .. cap - 1 :
        Live(ohashtabl'[j]) => Live(ohashtabl[j]) /\ ohashtabl'[j].key = ohashtabl[j].key
  BY SearchAges DEF Aged
<1>3. QED
  BY <1>1, <1>2 DEF LiveOnce, Only

\* Where no tombstone lies ahead of an entry, oinsert's search ends at the live
\* slot of its key, if there is one, and else at a slot that is not live.
LEMMA InsertFinds ==
  ASSUME TableInv, LiveOnce, Undisturbed, NEW k \in Key, NEW n \in 0 .. cap,
         Walks(InsertStop(k), Hash[k], n), n # cap
  PROVE  LET a == At(Hash[k], n, cap)
         IN  /\ a \in 0 .. cap - 1
             /\ \A j \in 0 .. cap - 1 : LiveAt(k, j) => j = a
             /\ Live(ohashtabl[a]) => LiveAt(k, a)
<1> DEFINE a == At(Hash[k], n, cap)
<1>1. /\ cap \in Nat \ {0} /\ Hash[k] \in Nat /\ SlotsConsistent /\ n \in 0 .. cap - 1
  BY HashAssumption DEF TableInv, TableTypeOK
<1>2. a \in 0 .. cap - 1
  BY <1>1, AtIsSlot
<1>3. a \in InsertStop(k)
  BY <1>1 DEF Walks
<1>4. Live(ohashtabl[a]) => LiveAt(k, a)
  BY <1>1, <1>2, <1>3 DEF InsertStop, Live, LiveAt, Match, SlotsConsistent
<1>5. ASSUME NEW j \in 0 .. cap - 1, LiveAt(k, j)
      PROVE  j = a
  <2>1. ohashtabl[j].hash = Hash[k] /\ Match(ohashtabl[j], k) /\ Live(ohashtabl[j])
    BY <1>1, <1>5 DEF LiveAt, SlotsConsistent, Match, Tagged
  <2>2. PICK d \in 0 .. cap - 1 :
          /\ At(Hash[k], d, cap) = j
          /\ \A m \in 0 .. d - 1 : Live(ohashtabl[At(Hash[k], m, cap)])
    BY <2>1 DEF Undisturbed
  <2>3. j \in InsertStop(k)
    BY <2>1 DEF InsertStop
  <2>4. ~(d < n)
    BY <2>2, <2>3 DEF Walks
  <2>5. CASE d = n
    BY <2>2, <2>5
  <2>6. CASE n < d
    <3>1. Live(ohashtabl[a])
      BY <1>1, <2>2, <2>6
    <3>2. LiveAt(k, a)
      BY <1>4, <3>1
    <3>3. QED
      BY <1>5, <3>2 DEF LiveAt, LiveOnce, Only
  <2>7. QED
    BY <1>1, <2>4, <2>5, <2>6
<1>6. QED
  BY <1>2, <1>4, <1>5

\* What an accepted insertion does to the live slots.
LEMMA InsertSlots ==
  ASSUME CmdInv, LiveOnce, Undisturbed, NEW n \in 0 .. cap, pc \in {"insert", "retry"},
         oinsert(call.key, call.p, call.expired, n),
         InsertRet(call.key, n) \notin Refused
  PROVE  LET k == call.key
             a == At(Hash[k], n, cap)
         IN  /\ a \in 0 .. cap - 1 /\ cap' = cap
             /\ \A j \in 0 .. cap - 1 : j # a => ohashtabl'[j] = ohashtabl[j]
             /\ Live(ohashtabl'[a]) /\ ohashtabl'[a].key = k
             /\ Image(ohashtabl'[a]) = [v |-> call.p, expired |-> call.expired]
             /\ \A j \in 0 .. cap - 1 : LiveAt(k, j) => j = a
             /\ Live(ohashtabl[a]) => LiveAt(k, a)
             /\ InsertRet(k, n) = "REPLACED" <=> LiveAt(k, a)
<1> DEFINE k   == call.key
           a   == At(Hash[k], n, cap)
           new == [hash |-> Hash[k], key |-> k, keylen |-> KeyLen[k], v |-> call.p,
                   tb |-> FALSE, rm |-> FALSE, expiratime |-> call.expired]
<1>1. /\ TableInv /\ k \in Key /\ k # NULL /\ cap \in Nat \ {0}
      /\ ohashtabl \in [0 .. cap - 1 -> Slot] /\ SlotsConsistent
  BY NullAssumption DEF CmdInv, CmdTypeOK, TableInv, TableTypeOK
<1>2. ~Full /\ n # cap /\ Walks(InsertStop(k), Hash[k], n)
  BY DEF InsertRet, Refused, oinsert
<1>3. /\ a \in 0 .. cap - 1
      /\ \A j \in 0 .. cap - 1 : LiveAt(k, j) => j = a
      /\ Live(ohashtabl[a]) => LiveAt(k, a)
  BY <1>1, <1>2, InsertFinds
<1>4. ohashtabl' = [ohashtabl EXCEPT ![a] = new] /\ cap' = cap
  BY DEF oinsert
<1>5. new.key = k /\ ~new.tb /\ new.v = call.p /\ new.expiratime = call.expired
  OBVIOUS
<1>6. InsertRet(k, n) = "REPLACED" <=> Live(ohashtabl[a])
  BY <1>1, <1>2, <1>3 DEF InsertRet, Live, SlotsConsistent
<1>7. Live(ohashtabl[a]) <=> LiveAt(k, a)
  BY <1>3 DEF LiveAt
<1> HIDE DEF new
<1>8. /\ ohashtabl'[a] = new
      /\ \A j \in 0 .. cap - 1 : j # a => ohashtabl'[j] = ohashtabl[j]
  BY <1>1, <1>3, <1>4
<1>9. Live(new) /\ Image(new) = [v |-> call.p, expired |-> call.expired]
  BY <1>1, <1>5 DEF Live, Image
<1>10. QED
  BY <1>3, <1>4, <1>5, <1>6, <1>7, <1>8, <1>9

\* At the swap, the new array holds the old live slots, each of them once.
LEMMA ExpandedSlots ==
  ASSUME CmdInv, HeapInv, LiveOnce, ExpandEnd
  PROVE  /\ \A m \in 0 .. cap' - 1 : Live(ohashtabl'[m]) =>
              \E j \in 0 .. cap - 1 : Live(ohashtabl[j]) /\ ohashtabl'[m] = ohashtabl[j]
         /\ \A j \in 0 .. cap - 1 : Live(ohashtabl[j]) =>
              \E m \in 0 .. cap' - 1 : ohashtabl'[m] = ohashtabl[j]
         /\ LiveOnce'
<1> DEFINE c2 == 2 * cap
<1>1. /\ TableInv /\ expanding /\ i = cap /\ cap \in Nat \ {0}
      /\ ohashtabl' = n_ohash /\ cap' = c2
  BY DEF CmdInv, TableInv, TableTypeOK, ExpandEnd
<1>2. ASSUME NEW m \in 0 .. c2 - 1, Live(n_ohash[m])
      PROVE  \E j \in 0 .. cap - 1 : Live(ohashtabl[j]) /\ n_ohash[m] = ohashtabl[j]
  <2>1. n_ohash[m] # NullSlot
    BY <1>2 DEF Live, NullSlot
  <2>2. QED
    BY <1>1, <1>2, <2>1 DEF TableInv, NewArrayFilled
<1>3. \A j \in 0 .. cap - 1 : Live(ohashtabl[j]) => \E m \in 0 .. c2 - 1 : n_ohash[m] = ohashtabl[j]
  BY <1>1 DEF HeapInv, MigrationKeeps
<1>4. ASSUME NEW l \in 0 .. c2 - 1, NEW m \in 0 .. c2 - 1, Live(n_ohash[l]), Live(n_ohash[m]),
             n_ohash[l].key = n_ohash[m].key
      PROVE  l = m
  <2>1. PICK j \in 0 .. cap - 1 : Live(ohashtabl[j]) /\ n_ohash[l] = ohashtabl[j]
    BY <1>2, <1>4
  <2>2. PICK d \in 0 .. cap - 1 : Live(ohashtabl[d]) /\ n_ohash[m] = ohashtabl[d]
    BY <1>2, <1>4
  <2>3. j = d
    BY <1>4, <2>1, <2>2 DEF LiveOnce, Only
  <2>4. l \in Occ(n_ohash, c2) /\ m \in Occ(n_ohash, c2)
    BY <1>4 DEF Occ, Live
  <2>5. QED
    BY <1>1, <2>1, <2>2, <2>3, <2>4 DEF HeapInv, CopiesDistinct
<1>5. LiveOnce'
  BY <1>1, <1>4 DEF LiveOnce, Only
<1>6. QED
  BY <1>1, <1>2, <1>3, <1>5

\* No step gives a key a second entry where no tombstone lies ahead of the first.
LEMMA OnceStep ==
  CmdInv /\ HeapInv /\ LiveOnce /\ Undisturbed /\ [CmdNext]_vars => LiveOnce'
<1> SUFFICES ASSUME CmdInv, HeapInv, LiveOnce, Undisturbed, [CmdNext]_vars
             PROVE  LiveOnce'
  OBVIOUS
<1>1. /\ TableTypeOK
      /\ pc = "idle" \/ call.key \in Key
      /\ call.expired \in Nat /\ 0 \in Nat
  BY ExpiraAssumption DEF CmdInv, CmdTypeOK
<1>2. CASE UNCHANGED <<ohashtabl, cap>>
  BY <1>2 DEF LiveOnce, Only
<1>3. CASE GET \/ DEL \/ EXPIRED
  <2>1. call.key \in Key
    BY <1>1, <1>3 DEF GET, DEL, EXPIRED
  <2>2. PICK n \in 0 .. cap : \/ oget(call.key, n) \/ otake(call.key, n)
                              \/ oexpired(call.key, call.expired, n)
    BY <1>3 DEF GET, DEL, EXPIRED
  <2>3. QED
    BY <1>1, <2>1, <2>2, SearchOnce
<1>4. CASE SetInsert
  <2>1. PICK n \in 0 .. cap : oinsert(call.key, call.p, call.expired, n)
    BY <1>4 DEF SetInsert
  <2>2. CASE InsertRet(call.key, n) \in Refused
    BY <1>2, <2>1, <2>2 DEF oinsert
  <2>3. CASE InsertRet(call.key, n) \notin Refused
    <3> DEFINE a == At(Hash[call.key], n, cap)
    <3>1. pc \in {"insert", "retry"}
      BY <1>4 DEF SetInsert
    <3>2. /\ a \in 0 .. cap - 1 /\ cap' = cap
          /\ \A j \in 0 .. cap - 1 : j # a => ohashtabl'[j] = ohashtabl[j]
          /\ Live(ohashtabl'[a]) /\ ohashtabl'[a].key = call.key
          /\ \A j \in 0 .. cap - 1 : LiveAt(call.key, j) => j = a
      BY <2>1, <2>3, <3>1, InsertSlots
    <3>3. QED
      BY <3>2 DEF LiveOnce, Only, LiveAt
  <2>4. QED
    BY <2>2, <2>3
<1>5. CASE SetExpanded
  BY <1>5, ExpandedSlots DEF SetExpanded
<1>6. CASE \/ Call \/ SetAlloc \/ SetExpand \/ SetMigrate \/ SetFailure
           \/ (Tick /\ UNCHANGED cvars) \/ UNCHANGED vars
  BY <1>2, <1>6 DEF Call, SetAlloc, SetExpand, ExpandBegin, SetMigrate, ExpandSlot,
                    SetFailure, Tick, tvars, vars
<1>7. QED
  BY <1>3, <1>4, <1>5, <1>6 DEF CmdNext, Step

\* What may become of the entries of a search's other keys.
Kept(x) == \/ Entry(x)' = Entry(x)
           \/ Entry(x)' = NULL /\ Entry(x) # NULL /\ Map!Late(Entry(x))

\* A search evicts late entries only, but for those of the keys in X.
LEMMA DropsLate ==
  ASSUME TableTypeOK, SlotsHoldPairs, MapRead, MapRead', cap' = cap, NEW X \in SUBSET Key,
         \A j \in 0 .. cap - 1 : \/ ohashtabl'[j] = ohashtabl[j]
                                 \/ Late(ohashtabl[j]) /\ ~Live(ohashtabl'[j])
                                 \/ \E k \in X : LiveAt(k, j) /\ ohashtabl'[j].key \in {k, NULL}
  PROVE  \A x \in Key \ X : Kept(x)
<1> SUFFICES ASSUME NEW x \in Key \ X PROVE Kept(x)
  OBVIOUS
<1>1. x # NULL
  BY NullAssumption
<1>2. ASSUME NEW j \in 0 .. cap - 1, LiveAt(x, j)'
      PROVE  Kept(x)
  <2>1. Live(ohashtabl'[j]) /\ ohashtabl'[j].key = x
    BY <1>2 DEF LiveAt
  <2>2. ohashtabl'[j] = ohashtabl[j]
    BY <1>1, <2>1
  <2>3. LiveAt(x, j)
    BY <2>1, <2>2 DEF LiveAt
  <2>4. Entry(x) = Image(ohashtabl[j])
    BY <2>3 DEF MapRead
  <2>5. Entry(x)' = Image(ohashtabl'[j])
    BY <1>2 DEF MapRead
  <2>6. QED
    BY <2>2, <2>4, <2>5 DEF Kept
<1>3. ASSUME \A j \in 0 .. cap - 1 : ~LiveAt(x, j)'
      PROVE  Kept(x)
  <2>1. Entry(x)' = NULL
    BY <1>3 DEF MapRead
  <2>2. CASE \A j \in 0 .. cap - 1 : ~LiveAt(x, j)
    <3>1. Entry(x) = NULL
      BY <2>2 DEF MapRead
    <3>2. QED
      BY <2>1, <3>1 DEF Kept
  <2>3. ASSUME NEW j \in 0 .. cap - 1, LiveAt(x, j)
        PROVE  Kept(x)
    <3>1. Entry(x) = Image(ohashtabl[j]) /\ ohashtabl[j].key = x /\ Live(ohashtabl[j])
      BY <2>3 DEF MapRead, LiveAt
    <3>2. ~LiveAt(x, j)'
      BY <1>3
    <3>3. ohashtabl'[j] # ohashtabl[j]
      BY <2>3, <3>2 DEF LiveAt
    <3>4. Late(ohashtabl[j])
      BY <3>1, <3>3 DEF LiveAt
    <3>5. Entry(x) # NULL /\ Entry(x).expired = ohashtabl[j].expiratime
      BY <2>3, <3>1, ImageIs
    <3>6. QED
      BY <2>1, <3>4, <3>5 DEF Kept, Late, Map!Late
  <2>4. QED
    BY <2>2, <2>3
<1>4. QED
  BY <1>2, <1>3

\* Such a change is one of the evictions the map allows.
LEMMA Evicted ==
  ASSUME NEW X \in SUBSET Key, \A x \in Key \ X : Kept(x)
  PROVE  [x \in Key |-> IF x \in X THEN Entry(x) ELSE Entry(x)']
           \in Map!Evictions([x \in Key |-> Entry(x)])
<1> DEFINE d == [x \in Key |-> Entry(x)]
           E == {x \in Key \ X : Entry(x)' # Entry(x)}
<1>1. E \in SUBSET {x \in Key : d[x] # NULL /\ Map!Late(d[x])}
  BY DEF Kept
<1>2. [x \in Key |-> IF x \in X THEN Entry(x) ELSE Entry(x)']
        = [x \in Key |-> IF x \in E THEN NULL ELSE d[x]]
  BY DEF Kept
<1>3. QED
  BY <1>1, <1>2 DEF Map!Evictions

\* The state of the map, and that it follows the table.
Db     == [k \in Key |-> Entry(k)]
MapInv == CmdInv /\ HeapInv /\ LiveOnce

\* What every step of the refinement uses.
LEMMA MapFacts ==
  MapInv => /\ TableInv /\ TableTypeOK /\ SlotsHoldPairs /\ MapRead /\ SlotsConsistent
            /\ cap \in Nat \ {0} /\ ohashtabl \in [0 .. cap - 1 -> Slot]
            /\ pc = "idle" <=> call = NoCall
            /\ pc = "idle" \/ call.key \in Key
            /\ pc \in {"idle", "start"} \/ call.op = "SET"
            /\ call.expired \in Nat
<1> SUFFICES ASSUME MapInv
             PROVE  /\ TableInv /\ TableTypeOK /\ SlotsHoldPairs /\ MapRead /\ SlotsConsistent
                    /\ cap \in Nat \ {0} /\ ohashtabl \in [0 .. cap - 1 -> Slot]
                    /\ pc = "idle" <=> call = NoCall
                    /\ pc = "idle" \/ call.key \in Key
                    /\ pc \in {"idle", "start"} \/ call.op = "SET"
                    /\ call.expired \in Nat
  OBVIOUS
<1>1. MapRead
  BY EntryIs DEF MapInv, CmdInv
<1>2. QED
  BY <1>1, ExpiraAssumption
     DEF MapInv, CmdInv, CmdTypeOK, HeapInv, TableInv, TableTypeOK

\* GET answers from the entry of its key.
LEMMA GetAnswers ==
  ASSUME MapInv, Undisturbed, NEW k \in Key, NEW n \in 0 .. cap, oget(k, n)
  PROVE  GetResult(k, n) = IF Entry(k) = NULL \/ Map!Late(Entry(k)) THEN NULL ELSE Entry(k).v
<1> DEFINE a == At(Hash[k], n, cap)
<1>1. /\ TableTypeOK /\ SlotsHoldPairs /\ MapRead /\ SlotsConsistent
      /\ cap \in Nat \ {0} /\ ohashtabl \in [0 .. cap - 1 -> Slot]
      /\ k # NULL /\ Hash[k] \in Nat /\ LiveOnce
  BY MapFacts, NullAssumption, HashAssumption DEF MapInv
<1>2. Walks(GetStop(k), Hash[k], n)
  BY DEF oget
<1>3. n # cap => a \in GetStop(k) /\ a \in 0 .. cap - 1
  <2> SUFFICES ASSUME n # cap PROVE a \in GetStop(k) /\ a \in 0 .. cap - 1
    OBVIOUS
  <2>1. n \in 0 .. cap - 1
    BY <1>1
  <2>2. QED
    BY <1>1, <1>2, <2>1, AtIsSlot DEF Walks
<1>4. ASSUME NEW j \in 0 .. cap - 1, LiveAt(k, j)
      PROVE  n # cap /\ a = j
  <2>1. ohashtabl[j].hash = Hash[k] /\ Match(ohashtabl[j], k) /\ Live(ohashtabl[j])
    BY <1>1, <1>4 DEF LiveAt, SlotsConsistent, Match, Tagged
  <2>2. PICK d \in 0 .. cap - 1 :
          /\ At(Hash[k], d, cap) = j
          /\ \A m \in 0 .. d - 1 : Live(ohashtabl[At(Hash[k], m, cap)])
    BY <2>1 DEF Undisturbed
  <2>3. j \in GetStop(k)
    BY <2>1 DEF GetStop, Live, Match
  <2>4. ~(d < n)
    BY <1>1, <1>2, <2>2, <2>3 DEF Walks
  <2>5. n # cap
    BY <1>1, <2>4
  <2>6. CASE d = n
    BY <2>2, <2>5, <2>6
  <2>7. CASE n < d
    <3>1. Live(ohashtabl[a]) /\ a \in GetStop(k) /\ a \in 0 .. cap - 1
      BY <1>1, <1>3, <2>2, <2>5, <2>7
    <3>2. Tagged(ohashtabl[a], k) /\ (Late(ohashtabl[a]) \/ ohashtabl[a].key = k)
      BY <3>1 DEF GetStop, Live, Empty
    <3>3. ohashtabl[a].key = k
      BY <3>1, <3>2 DEF Undisturbed
    <3>4. QED
      BY <1>1, <1>4, <2>5, <3>1, <3>3 DEF LiveAt, LiveOnce, Only
  <2>8. QED
    BY <1>1, <2>4, <2>6, <2>7
<1>5. CASE \E j \in 0 .. cap - 1 : LiveAt(k, j)
  <2>1. PICK j \in 0 .. cap - 1 : LiveAt(k, j)
    BY <1>5
  <2>2. n # cap /\ a = j /\ ~Empty(ohashtabl[a])
    BY <1>4, <2>1 DEF LiveAt, Live, Empty
  <2>3. Entry(k) = Image(ohashtabl[j])
    BY <1>1, <2>1 DEF MapRead
  <2>4. /\ Entry(k) # NULL /\ Entry(k).v = ohashtabl[j].v
        /\ Entry(k).expired = ohashtabl[j].expiratime
    BY <1>1, <2>1, <2>3, ImageIs
  <2>5. Late(ohashtabl[j]) <=> Map!Late(Entry(k))
    BY <2>4 DEF Late, Map!Late
  <2>6. QED
    BY <2>2, <2>4, <2>5 DEF GetResult
<1>6. CASE \A j \in 0 .. cap - 1 : ~LiveAt(k, j)
  <2>1. Entry(k) = NULL
    BY <1>1, <1>6 DEF MapRead
  <2>2. ASSUME n # cap, ~Empty(ohashtabl[a])
        PROVE  Late(ohashtabl[a])
    <3>1. ~LiveAt(k, a)
      BY <1>3, <1>6, <2>2
    <3>2. QED
      BY <1>1, <1>3, <2>2, <3>1 DEF GetStop, Empty, LiveAt, Live
  <2>3. GetResult(k, n) = NULL
    BY <2>2 DEF GetResult
  <2>4. QED
    BY <2>1, <2>3
<1>7. QED
  BY <1>5, <1>6

\* The step of a command that returns is the return of the map's operation.
LEMMA MapReturns ==
  ASSUME NEW r, Return(r), now' = now
  PROVE  Map!Return(r)
  BY DEF Return, Map!Return, NoCall, Map!NoCall

\* GET is the map's Get.
LEMMA GetStep ==
  ASSUME MapInv, MapInv', Undisturbed, GET
  PROVE  Map!Get
<1> DEFINE k == call.key
<1>1. PICK n \in 0 .. cap : oget(k, n) /\ Return(GetResult(k, n))
  BY DEF GET
<1>2. /\ TableInv /\ TableTypeOK /\ SlotsHoldPairs /\ MapRead /\ k \in Key
      /\ call.op = "GET"
  BY MapFacts DEF GET
<1>3. MapRead'
  BY MapFacts, PTL
<1>4. cap' = cap /\ now' = now
      /\ ohashtabl' = Bury(Passed(Hash[k], n) \cup Hit(Hash[k], n))
  BY <1>1 DEF oget
<1>5. \A j \in 0 .. cap - 1 : \/ ohashtabl'[j] = ohashtabl[j]
                              \/ Late(ohashtabl[j]) /\ ~Live(ohashtabl'[j])
  BY <1>2, <1>4, BurySlots
<1>6. \A x \in Key \ {} : Kept(x)
  BY <1>2, <1>3, <1>4, <1>5, DropsLate
<1>7. [x \in Key |-> IF x \in {} THEN Entry(x) ELSE Entry(x)'] \in Map!Evictions(Db)
  <2>1. {} \in SUBSET Key
    OBVIOUS
  <2>2. [x \in Key |-> IF x \in {} THEN Entry(x) ELSE Entry(x)']
          \in Map!Evictions([x \in Key |-> Entry(x)])
    BY <1>6, <2>1, Evicted, Zenon
  <2>3. QED
    BY <2>2 DEF Db
<1>8. Db' \in Map!Evictions(Db)
  BY <1>7 DEF Db
<1>9. GetResult(k, n) = IF Db[k] = NULL \/ Map!Late(Db[k]) THEN NULL ELSE Db[k].v
  BY <1>1, <1>2, GetAnswers DEF Db
<1>10. Map!Return(IF Db[k] = NULL \/ Map!Late(Db[k]) THEN NULL ELSE Db[k].v)
  BY <1>1, <1>4, <1>9, MapReturns
<1>11. QED
  BY <1>2, <1>8, <1>10 DEF Map!Get, Map!Running, Db

\* DEL and EXPIRED leave or evict the entries of other keys.
LEMMA OthersKept ==
  ASSUME MapInv, MapInv', NEW k \in Key, NEW n \in 0 .. cap, NEW e \in Nat,
         otake(k, n) \/ oexpired(k, e, n)
  PROVE  [x \in Key |-> IF x = k THEN Entry(x) ELSE Entry(x)'] \in Map!Evictions(Db)
<1>1. TableInv /\ TableTypeOK /\ SlotsHoldPairs /\ MapRead
  BY MapFacts
<1>2. MapRead'
  BY MapFacts, PTL
<1>3. cap' = cap /\ \A j \in 0 .. cap - 1 : \/ ohashtabl'[j] = ohashtabl[j]
                                            \/ Late(ohashtabl[j]) /\ ~Live(ohashtabl'[j])
                                            \/ LiveAt(k, j)
  BY <1>1, SearchSlots
<1>4. \A j \in 0 .. cap - 1 : ohashtabl'[j].key \in {ohashtabl[j].key, NULL}
  BY <1>1, SearchAges DEF Aged
<1>5. \A j \in 0 .. cap - 1 :
        \/ ohashtabl'[j] = ohashtabl[j]
        \/ Late(ohashtabl[j]) /\ ~Live(ohashtabl'[j])
        \/ \E x \in {k} : LiveAt(x, j) /\ ohashtabl'[j].key \in {x, NULL}
  BY <1>3, <1>4 DEF LiveAt
<1>6. \A x \in Key \ {k} : Kept(x)
  BY <1>1, <1>2, <1>3, <1>5, DropsLate
<1>7. [x \in Key |-> IF x \in {k} THEN Entry(x) ELSE Entry(x)']
        \in Map!Evictions([x \in Key |-> Entry(x)])
  <2>1. {k} \in SUBSET Key
    OBVIOUS
  <2>2. QED
    BY <1>6, <2>1, Evicted, Zenon
<1>8. [x \in Key |-> IF x \in {k} THEN Entry(x) ELSE Entry(x)']
        = [x \in Key |-> IF x = k THEN Entry(x) ELSE Entry(x)']
  OBVIOUS
<1>9. QED
  BY <1>7, <1>8 DEF Db

\* DEL is the map's Del.
LEMMA DelStep ==
  ASSUME MapInv, MapInv', DEL
  PROVE  Map!Del
<1>1. PICK k \in Key : call.key = k
  BY MapFacts DEF DEL
<1> DEFINE d == [x \in Key |-> IF x = k THEN Entry(x) ELSE Entry(x)']
<1>2. PICK n \in 0 .. cap : otake(k, n) /\ Return("OK")
  BY <1>1 DEF DEL
<1> DEFINE a == At(Hash[k], n, cap)
<1>3. /\ TableInv /\ TableTypeOK /\ cap \in Nat \ {0} /\ call.op = "DEL"
      /\ ohashtabl \in [0 .. cap - 1 -> Slot] /\ LiveOnce /\ 0 \in Nat
  BY MapFacts DEF DEL, MapInv
<1>4. MapRead'
  BY MapFacts, PTL
<1>5. cap' = cap /\ now' = now /\ Walks(TakeStop(k), Hash[k], n)
  BY <1>2 DEF otake
<1>6. d \in Map!Evictions(Db)
  BY <1>2, <1>3, OthersKept
<1>7. ASSUME NEW j \in 0 .. cap - 1
      PROVE  ~LiveAt(k, j)'
  <2> SUFFICES ASSUME LiveAt(k, j)' PROVE FALSE
    OBVIOUS
  <2>1. Live(ohashtabl'[j]) /\ ohashtabl'[j].key = k
    BY DEF LiveAt
  <2>2. LiveAt(k, j)
    BY <1>2, <1>3, <2>1, SearchAges DEF Aged, LiveAt
  <2>3. Found(k, n) /\ j = a
    BY <1>3, <1>5, <2>2, TakeFinds
  <2>4. ohashtabl'[j] = Vacated(Bury(Passed(Hash[k], n))[j])
    BY <1>2, <1>3, <2>3, BuryAges DEF otake
  <2>5. Bury(Passed(Hash[k], n))[j] \in Slot
    BY <1>3, BuryAges
  <2>6. ohashtabl'[j].tb
    BY <2>4, <2>5, SlotUpdates DEF Vacated, Slot
  <2>7. QED
    BY <2>1, <2>6 DEF Live
<1>8. Entry(k)' = NULL
  BY <1>3, <1>4, <1>5, <1>7 DEF MapRead
<1>9. Db' = [d EXCEPT ![k] = NULL]
  BY <1>8 DEF Db
<1>10. Map!Return("OK")
  BY <1>2, <1>5, MapReturns
<1>11. QED
  BY <1>1, <1>3, <1>6, <1>9, <1>10 DEF Map!Del, Map!Running, Db

\* EXPIRED is the map's Expire.
LEMMA ExpireStep ==
  ASSUME MapInv, MapInv', EXPIRED
  PROVE  Map!Expire
<1>1. PICK k \in Key, e \in Nat : call.key = k /\ call.expired = e
  BY MapFacts DEF EXPIRED
<1> DEFINE d == [x \in Key |-> IF x = k THEN Entry(x) ELSE Entry(x)']
<1>2. PICK n \in 0 .. cap : oexpired(k, e, n) /\ Return("OK")
  BY <1>1 DEF EXPIRED
<1> DEFINE a == At(Hash[k], n, cap)
<1>3. /\ TableInv /\ TableTypeOK /\ SlotsHoldPairs /\ MapRead /\ LiveOnce
      /\ ohashtabl \in [0 .. cap - 1 -> Slot] /\ call.op = "EXPIRED"
  BY MapFacts DEF EXPIRED, MapInv
<1>4. MapRead'
  BY MapFacts, PTL
<1>5. cap' = cap /\ now' = now /\ Walks(TakeStop(k), Hash[k], n)
  BY <1>2 DEF oexpired
<1>6. d \in Map!Evictions(Db)
  BY <1>2, <1>3, OthersKept
<1>7. \A j \in 0 .. cap - 1 : LiveAt(k, j) => Found(k, n) /\ j = a
  BY <1>3, <1>5, TakeFinds
<1>8. Db' = IF d[k] = NULL THEN d ELSE [d EXCEPT ![k] = [d[k] EXCEPT !.expired = e]]
  <2>1. CASE Found(k, n)
    <3>1. LiveAt(k, a) /\ a \in TakeStop(k) /\ a \in 0 .. cap - 1
      <4>1. LiveAt(k, a)
        BY <1>3, <1>5, <2>1, TakeFinds
      <4>2. a \in TakeStop(k)
        BY <1>5, <2>1 DEF Walks, Found
      <4>3. QED
        BY <4>1, <4>2 DEF LiveAt
    <3>2. Entry(k) = Image(ohashtabl[a]) /\ Entry(k) # NULL
      BY <1>3, <3>1, ImageIs DEF MapRead
    <3>3. a \notin Passed(Hash[k], n)
      BY <1>5, <3>1 DEF Walks, Passed
    <3>4. Bury(Passed(Hash[k], n))[a] = ohashtabl[a]
      BY <3>1, <3>3 DEF Bury
    <3>5. ohashtabl'[a] = Renewed(ohashtabl[a], e)
      BY <1>2, <1>3, <2>1, <3>1, <3>4, BuryAges DEF oexpired
    <3>6. ohashtabl[a] \in Slot
      BY <1>3, <3>1
    <3>7. /\ Live(ohashtabl'[a]) /\ ohashtabl'[a].key = k
          /\ Image(ohashtabl'[a]) = [Image(ohashtabl[a]) EXCEPT !.expired = e]
      BY <3>1, <3>5, <3>6 DEF Renewed, LiveAt, Live, Image, Slot
    <3>8. Entry(k)' = Image(ohashtabl'[a])
      <4>1. PICK b \in 0 .. cap - 1 : b = a
        BY <3>1
      <4>2. LiveAt(k, b)'
        BY <1>5, <3>7, <4>1 DEF LiveAt
      <4>3. Entry(k)' = Image(ohashtabl'[b])
        BY <1>4, <1>5, <4>2 DEF MapRead
      <4>4. QED
        BY <4>1, <4>3
    <3>9. Entry(k)' = [Entry(k) EXCEPT !.expired = e]
      BY <3>2, <3>7, <3>8
    <3>10. QED
      BY <3>2, <3>9 DEF Db
  <2>2. CASE ~Found(k, n)
    <3>1. \A j \in 0 .. cap - 1 : ~LiveAt(k, j)
      BY <1>7, <2>2
    <3>2. \A j \in 0 .. cap - 1 : ~LiveAt(k, j)'
      BY <1>2, <1>3, <1>5, <3>1, SearchAges DEF Aged, LiveAt
    <3>3. Entry(k) = NULL
      BY <1>3, <3>1 DEF MapRead
    <3>4. Entry(k)' = NULL
      BY <1>4, <1>5, <3>2 DEF MapRead
    <3>5. QED
      BY <3>3, <3>4 DEF Db
  <2>3. QED
    BY <2>1, <2>2
<1>9. Map!Return("OK")
  BY <1>2, <1>5, MapReturns
<1>10. QED
  BY <1>1, <1>3, <1>6, <1>8, <1>9 DEF Map!Expire, Map!Running, Db

\* An accepted insertion is the map's Set.
LEMMA SetStep ==
  ASSUME MapInv, MapInv', Undisturbed, NEW n \in 0 .. cap, pc \in {"insert", "retry"},
         oinsert(call.key, call.p, call.expired, n),
         InsertRet(call.key, n) \notin Refused, Return(InsertRet(call.key, n))
  PROVE  Map!Set
<1>1. PICK k \in Key : call.key = k
  BY MapFacts
<1> DEFINE a   == At(Hash[k], n, cap)
           r   == InsertRet(k, n)
           new == [v |-> call.p, expired |-> call.expired]
<1>2. /\ TableTypeOK /\ SlotsHoldPairs /\ MapRead /\ call.op = "SET"
      /\ CmdInv /\ HeapInv /\ LiveOnce /\ ~expanding /\ call.p \in Ptr /\ call.p # NULL
  BY MapFacts DEF MapInv, CmdInv, CmdTypeOK
<1>3. MapRead'
  BY MapFacts, PTL
<1>4. /\ a \in 0 .. cap - 1 /\ cap' = cap
      /\ \A j \in 0 .. cap - 1 : j # a => ohashtabl'[j] = ohashtabl[j]
      /\ Live(ohashtabl'[a]) /\ ohashtabl'[a].key = k
      /\ Image(ohashtabl'[a]) = new
      /\ \A j \in 0 .. cap - 1 : LiveAt(k, j) => j = a
      /\ Live(ohashtabl[a]) => LiveAt(k, a)
      /\ r = "REPLACED" <=> LiveAt(k, a)
  BY <1>1, <1>2, InsertSlots
<1>5. now' = now
  BY DEF oinsert
<1>6. PICK b \in 0 .. cap - 1 : b = a
  BY <1>4
<1>7. Entry(k)' = new
  <2>1. LiveAt(k, b)'
    BY <1>4, <1>6 DEF LiveAt
  <2>2. Entry(k)' = Image(ohashtabl'[b])
    BY <1>3, <1>4, <1>6, <2>1 DEF MapRead
  <2>3. QED
    BY <1>4, <1>6, <2>2
<1>8. ASSUME NEW x \in Key, x # k
      PROVE  Entry(x)' = Entry(x)
  <2>1. \A j \in 0 .. cap - 1 : LiveAt(x, j)' <=> LiveAt(x, j)
    BY <1>4, <1>6, <1>8 DEF LiveAt
  <2>2. \A j \in 0 .. cap - 1 : LiveAt(x, j) => ohashtabl'[j] = ohashtabl[j]
    BY <1>4, <1>8 DEF LiveAt
  <2>3. ASSUME NEW j \in 0 .. cap - 1, LiveAt(x, j)
        PROVE  Entry(x)' = Entry(x)
    <3>1. Entry(x) = Image(ohashtabl[j])
      BY <1>2, <2>3 DEF MapRead
    <3>2. Entry(x)' = Image(ohashtabl'[j])
      BY <1>3, <1>4, <2>1, <2>3 DEF MapRead
    <3>3. QED
      BY <2>2, <2>3, <3>1, <3>2
  <2>4. CASE \A j \in 0 .. cap - 1 : ~LiveAt(x, j)
    <3>1. Entry(x) = NULL
      BY <1>2, <2>4 DEF MapRead
    <3>2. Entry(x)' = NULL
      BY <1>3, <1>4, <2>1, <2>4 DEF MapRead
    <3>3. QED
      BY <3>1, <3>2
  <2>5. QED
    BY <2>3, <2>4
<1>9. Db' = [Db EXCEPT ![k] = new]
  BY <1>7, <1>8 DEF Db
<1>10. call.p \in Ptr \ {Db[x].v : x \in {y \in Key : Db[y] # NULL}}
  <2> SUFFICES ASSUME NEW x \in Key, Db[x] # NULL
               PROVE  Db[x].v # call.p
    BY <1>2
  <2>1. PICK j \in 0 .. cap - 1 : LiveAt(x, j)
    BY <1>2 DEF MapRead, Db
  <2>2. Db[x].v = ohashtabl[j].v /\ j \in Occupied
    BY <1>2, <2>1, ImageIs DEF MapRead, Db
  <2>3. ohashtabl[j].v \in Owned
    BY <1>2, <2>2 DEF Owned, OwnedSlots
  <2>4. call.p \in InFlight
    BY <1>2 DEF InFlight
  <2>5. QED
    BY <1>2, <2>2, <2>3, <2>4 DEF HeapInv, OneOwner
<1>11. r \in IF Db[k] = NULL THEN {"OK", "REMOVED", "EXPIRED_"} ELSE {"REPLACED"}
  <2>1. CASE LiveAt(k, a)
    <3>1. Db[k] # NULL
      BY <1>2, <1>4, <2>1, ImageIs DEF MapRead, Db
    <3>2. QED
      BY <1>4, <2>1, <3>1
  <2>2. CASE ~LiveAt(k, a)
    <3>1. Db[k] = NULL
      BY <1>2, <1>4, <2>2 DEF MapRead, Db
    <3>2. r # "REPLACED" /\ r \notin Refused
      BY <1>1, <1>4, <2>2
    <3>3. r \in {"OK", "REMOVED", "EXPIRED_"}
      BY <3>2 DEF InsertRet, Refused
    <3>4. QED
      BY <3>1, <3>3
  <2>3. QED
    BY <2>1, <2>2
<1>12. Map!Return(r)
  BY <1>1, <1>5, MapReturns
<1> HIDE DEF r
<1>13. \E s \in IF Db[k] = NULL THEN {"OK", "REMOVED", "EXPIRED_"} ELSE {"REPLACED"} :
         Map!Return(s)
  BY <1>11, <1>12
<1>14. QED
  BY <1>1, <1>2, <1>9, <1>10, <1>13 DEF Map!Set, Map!Running, Map!Values, Db

\* A step that leaves the table's slots alone leaves the map alone.
LEMMA SameTable ==
  ASSUME UNCHANGED <<ohashtabl, cap>>
  PROVE  Db' = Db
  BY DEF Db, Entry, EndOf, Walks, TakeStop, Found

\* The swap at the end of an expansion loses no entry and makes none.
LEMMA SwapStep ==
  ASSUME MapInv, MapInv', ExpandEnd
  PROVE  Db' = Db
<1>1. MapRead /\ CmdInv /\ HeapInv /\ LiveOnce
  BY MapFacts DEF MapInv
<1>2. MapRead'
  BY MapFacts, PTL
<1>3. /\ \A m \in 0 .. cap' - 1 : Live(ohashtabl'[m]) =>
           \E j \in 0 .. cap - 1 : Live(ohashtabl[j]) /\ ohashtabl'[m] = ohashtabl[j]
      /\ \A j \in 0 .. cap - 1 : Live(ohashtabl[j]) =>
           \E m \in 0 .. cap' - 1 : ohashtabl'[m] = ohashtabl[j]
  BY <1>1, ExpandedSlots
<1>4. ASSUME NEW k \in Key
      PROVE  Entry(k)' = Entry(k)
  <2>1. ASSUME NEW j \in 0 .. cap - 1, LiveAt(k, j)
        PROVE  Entry(k)' = Entry(k)
    <3>1. PICK m \in 0 .. cap' - 1 : ohashtabl'[m] = ohashtabl[j]
      BY <1>3, <2>1 DEF LiveAt
    <3>2. LiveAt(k, m)'
      BY <2>1, <3>1 DEF LiveAt, Live
    <3>3. Entry(k)' = Image(ohashtabl'[m])
      BY <1>2, <3>2 DEF MapRead
    <3>4. Entry(k) = Image(ohashtabl[j])
      BY <1>1, <2>1 DEF MapRead
    <3>5. QED
      BY <3>1, <3>3, <3>4
  <2>2. CASE \A j \in 0 .. cap - 1 : ~LiveAt(k, j)
    <3>1. \A m \in 0 .. cap' - 1 : ~LiveAt(k, m)'
      BY <1>3, <2>2 DEF LiveAt
    <3>2. Entry(k)' = NULL
      BY <1>2, <3>1 DEF MapRead
    <3>3. Entry(k) = NULL
      BY <1>1, <2>2 DEF MapRead
    <3>4. QED
      BY <3>2, <3>3
  <2>3. QED
    BY <2>1, <2>2
<1>5. QED
  BY <1>4 DEF Db

\* Every step of the commands is a step of the map or changes nothing of it.
LEMMA MapStep ==
  ASSUME MapInv, MapInv', Undisturbed, [CmdNext]_vars
  PROVE  [Map!Next]_(Map!vars)
<1> DEFINE Same == UNCHANGED Map!vars
<1>1. /\ pc = "idle" <=> call = NoCall
      /\ pc \in {"idle", "start"} \/ call.op = "SET"
      /\ pc = "failure" => ret = "ENOMEM"
  BY MapFacts DEF MapInv, CmdInv, OnlyMemoryFails
<1>2. ASSUME Db' = Db, now' = now, pc # "idle", pc' # "idle",
             call'.op = call.op, call'.key = call.key, call'.expired = call.expired
      PROVE  Same
  BY <1>2 DEF Map!vars, Db
<1>3. CASE Call
  <2>1. PICK c \in Calls : call' = [op |-> c.op, key |-> c.key, expired |-> c.expired, p |-> NULL]
    BY <1>3 DEF Call
  <2>2. c.op \in {"SET", "GET", "DEL", "EXPIRED"} /\ c.key \in Key /\ c.expired \in Expira
    BY CallsAssumption DEF Op
  <2>3. call.op = "none" /\ pc' = "start" /\ now' = now
    BY <1>1, <1>3 DEF Call, NoCall, tvars
  <2>4. Db' = Db
    BY <1>3, SameTable DEF Call, tvars
  <2>5. Map!Call
    BY <2>1, <2>2, <2>3, <2>4 DEF Map!Call, Map!Running, Db
  <2>6. QED
    BY <2>5 DEF Map!Next
<1>4. CASE GET
  BY <1>4, GetStep DEF Map!Next
<1>5. CASE DEL
  BY <1>5, DelStep DEF Map!Next
<1>6. CASE EXPIRED
  BY <1>6, ExpireStep DEF Map!Next
<1>7. ASSUME UNCHANGED tvars, call.op = "SET", Return("ENOMEM")
      PROVE  Map!SetFails
  <2>1. Db' = Db /\ now' = now
    BY <1>7, SameTable DEF tvars
  <2>2. Map!Return("ENOMEM")
    BY <1>7, <2>1, MapReturns
  <2>3. QED
    BY <1>7, <2>1, <2>2 DEF Map!SetFails, Map!Running, Db
<1>8. CASE SetAlloc
  <2>1. CASE Return("ENOMEM")
    BY <1>7, <1>8, <2>1 DEF SetAlloc, Map!Next
  <2>2. CASE \E p \in Ptr : /\ call' = [call EXCEPT !.p = p]
                            /\ pc' \in {"insert", "failure"}
    <3>1. /\ call'.op = call.op /\ call'.key = call.key /\ call'.expired = call.expired
          /\ pc # "idle" /\ pc' # "idle" /\ now' = now
      BY <1>8, <2>2 DEF SetAlloc, tvars, MapInv, CmdInv, CmdTypeOK
    <3>2. Db' = Db
      BY <1>8, SameTable DEF SetAlloc, tvars
    <3>3. QED
      BY <1>2, <3>1, <3>2
  <2>3. QED
    BY <1>8, <2>1, <2>2 DEF SetAlloc
<1>9. CASE SetInsert
  <2>1. PICK n \in 0 .. cap :
          /\ oinsert(call.key, call.p, call.expired, n)
          /\ IF InsertRet(call.key, n) \notin Refused
               THEN Return(InsertRet(call.key, n))
               ELSE pc' \in {"expand", "failure"} /\ call' = call
    BY <1>9 DEF SetInsert, Accepted
  <2>2. pc \in {"insert", "retry"}
    BY <1>9 DEF SetInsert
  <2>3. CASE InsertRet(call.key, n) \notin Refused
    BY <2>1, <2>2, <2>3, SetStep DEF Map!Next
  <2>4. CASE InsertRet(call.key, n) \in Refused
    <3>1. UNCHANGED <<ohashtabl, cap>> /\ now' = now
      BY <2>1, <2>4 DEF oinsert
    <3>2. Db' = Db
      BY <3>1, SameTable
    <3>3. QED
      BY <1>2, <2>1, <2>2, <2>4, <3>1, <3>2
  <2>5. QED
    BY <2>3, <2>4
<1>10. CASE SetExpand \/ SetMigrate
  <2>1. /\ UNCHANGED <<ohashtabl, cap>> /\ now' = now
        /\ pc # "idle" /\ pc' # "idle" /\ call' = call
    BY <1>10 DEF SetExpand, ExpandBegin, SetMigrate, ExpandSlot, tvars
  <2>2. Db' = Db
    BY <2>1, SameTable
  <2>3. QED
    BY <1>2, <2>1, <2>2
<1>11. CASE SetExpanded
  <2>1. ExpandEnd /\ now' = now /\ pc # "idle" /\ pc' # "idle" /\ call' = call
    BY <1>11 DEF SetExpanded, ExpandEnd
  <2>2. Db' = Db
    BY <2>1, SwapStep
  <2>3. QED
    BY <1>2, <2>1, <2>2
<1>12. CASE SetFailure
  <2>1. UNCHANGED tvars /\ call.op = "SET" /\ Return("ENOMEM")
    BY <1>1, <1>12 DEF SetFailure
  <2>2. QED
    BY <1>7, <2>1 DEF Map!Next
<1>13. CASE Tick /\ UNCHANGED cvars
  <2>1. Db' = Db
    BY <1>13, SameTable DEF Tick
  <2>2. Map!Tick
    BY <1>13, <2>1 DEF Tick, cvars, Map!Tick, Db
  <2>3. QED
    BY <2>2 DEF Map!Next
<1>14. CASE UNCHANGED vars
  <2>1. Db' = Db
    BY <1>14, SameTable DEF vars
  <2>2. QED
    BY <1>14, <2>1 DEF vars, Map!vars, Db
<1>15. QED
  BY <1>3, <1>4, <1>5, <1>6, <1>8, <1>9, <1>10, <1>11, <1>12, <1>13, <1>14 DEF CmdNext, Step

\* A fresh process is the empty map.
LEMMA MapInit == CmdInit => Map!Init /\ LiveOnce
<1> SUFFICES ASSUME CmdInit PROVE Map!Init /\ LiveOnce
  OBVIOUS
<1>1. /\ call = NoCall /\ pc = "idle" /\ ret = "none" /\ now = 1
      /\ \A j \in 0 .. cap - 1 : ohashtabl[j] = NullSlot
  BY DEF CmdInit, TableInit, Calloc
<1>2. \A j \in 0 .. cap - 1 : ~Live(ohashtabl[j])
  BY <1>1 DEF Live, NullSlot
<1>3. LiveOnce
  BY <1>2 DEF LiveOnce
<1>4. MapRead
  BY <1>3, CmdInitInv, EntryIs DEF CmdInv
<1>5. Db = [k \in Key |-> NULL]
  BY <1>2, <1>4 DEF MapRead, LiveAt, Db
<1>6. QED
  BY <1>1, <1>3, <1>5 DEF Map!Init, Map!NoCall, NoCall, Db

\* For every hash function that is never 0: as long as the table is Undisturbed,
\* no key has two entries, whatever is inserted, replaced, expired or migrated.
THEOREM LiveOnceCorrect ==
  ASSUME NonZeroHash
  PROVE  CmdSpec /\ []Undisturbed => []LiveOnce
<1>1. CmdInit => LiveOnce
  BY MapInit
<1>2. CmdInv /\ HeapInv /\ Undisturbed /\ LiveOnce /\ [CmdNext]_vars => LiveOnce'
  BY OnceStep
<1>3. QED
  BY <1>1, <1>2, CmdInvariant, HeapInvariant, PTL DEF CmdSpec

\* The commands implement the map as long as the table is Undisturbed: every
\* answer of SET, GET, DEL and EXPIRED is the map's, the expansion and the lazy
\* expiry show in none, and each command takes effect once.
THEOREM IsMapCorrect ==
  ASSUME NonZeroHash
  PROVE  CmdSpec /\ []Undisturbed => IsMap
<1>1. CmdInit => Map!Init
  BY MapInit
<1>2. MapInv /\ MapInv' /\ Undisturbed /\ [CmdNext]_vars => [Map!Next]_(Map!vars)
  BY MapStep
<1>3. CmdInv /\ HeapInv /\ LiveOnce => MapInv
  BY DEF MapInv
<1>4. QED
  BY <1>1, <1>2, <1>3, CmdInvariant, HeapInvariant, LiveOnceCorrect, PTL
     DEF CmdSpec, IsMap, Map!Spec

-----------------------------------------------------------------------------
(* Callers whose loose keys have slots of their own (LooseApart).          *)

\* The loose keys and the kept ones are the keys.
LEMMA EachKey ==
  ASSUME NEW k \in Key
  PROVE  (k \in Loose /\ k \notin Fixed) \/ (k \in Fixed /\ k \notin Loose)
  BY DEF Loose, Fixed

\* A fixed key lies in no home of a loose one, so it is live and does not expire.
LEMMA FixedSlot ==
  ASSUME NEW c \in Nat \ {0}, NEW tab, Settled(tab, c), NEW j \in 0 .. c - 1,
         tab[j].key \in Fixed
  PROVE  j \notin Homes(c) /\ ~tab[j].tb /\ tab[j].expiratime = 0
<1> DEFINE k == tab[j].key
<1>1. Hash[k] \in Nat
  BY HashAssumption DEF Fixed
<1>2. PICK n \in 0 .. c - 1 : At(Hash[k], n, c) = j
  BY <1>1, ProbeCovers
<1>3. n \in 0 .. n /\ Clear(k, j, c)
  BY DEF Settled
<1>4. j \notin Homes(c)
  BY <1>2, <1>3 DEF Clear
<1>5. QED
  BY <1>4 DEF Settled

\* In the home of a loose key there is that key or none.
LEMMA HomeHolds ==
  ASSUME LooseApart, NEW c \in Sizes, c \in Nat \ {0}, NEW tab, Settled(tab, c),
         NEW l \in Loose, tab[Home(l, c)].key \in Key
  PROVE  tab[Home(l, c)].key = l
<1> DEFINE a == Home(l, c)
           k == tab[a].key
<1>1. l \in Key /\ Hash[l] \in Nat
  BY HashAssumption DEF Loose
<1>2. a \in 0 .. c - 1 /\ a \in Homes(c)
  BY <1>1, AtIsSlot, 0 \in 0 .. c - 1 DEF Home, Homes
<1>3. k \in Loose
  BY <1>2, EachKey, FixedSlot
<1>4. a = Home(k, c)
  BY <1>2, <1>3 DEF Settled
<1>5. QED
  BY <1>3, <1>4 DEF LooseApart

\* A probe for a fixed key that has passed other keys only, each in one slot,
\* has passed fixed keys and stands outside the homes of the loose ones.
LEMMA PathClear ==
  ASSUME LooseApart, NEW c \in Sizes, c \in Nat \ {0}, NEW tab, Settled(tab, c),
         NEW k \in Fixed, NEW n \in 0 .. c - 1,
         \A m \in 0 .. n - 1 : tab[At(Hash[k], m, c)].key \in Key \ {k},
         \A l, m \in 0 .. n - 1 :
           tab[At(Hash[k], l, c)].key = tab[At(Hash[k], m, c)].key => l = m
  PROVE  \A m \in 0 .. n : At(Hash[k], m, c) \notin Homes(c)
<1> DEFINE Bad == {m \in 0 .. n : At(Hash[k], m, c) \in Homes(c)}
<1> SUFFICES ASSUME Bad # {} PROVE FALSE
  OBVIOUS
<1>1. k \in Key /\ Hash[k] \in Nat
  BY HashAssumption DEF Fixed
<1>2. PICK d \in Bad : \A m \in Bad : d <= m
  <2>1. Bad \in SUBSET Nat
    OBVIOUS
  <2>2. QED
    BY <2>1, LeastNumber
<1>3. d \in 0 .. c - 1 /\ d \in 0 .. n
  OBVIOUS
<1>4. IsFiniteSet(Fixed) /\ Cardinality(Fixed) <= d
  BY <1>3 DEF LooseApart
<1>5. ASSUME NEW m \in 0 .. d - 1
      PROVE  tab[At(Hash[k], m, c)].key \in Fixed \ {k}
  <2>1. m \in 0 .. n - 1 /\ m \in 0 .. c - 1 /\ m \notin Bad /\ m \in 0 .. n
    BY <1>2, <1>3
  <2>2. At(Hash[k], m, c) \in 0 .. c - 1 /\ At(Hash[k], m, c) \notin Homes(c)
    BY <1>1, <2>1, AtIsSlot
  <2>3. tab[At(Hash[k], m, c)].key \notin Loose
    BY <2>2 DEF Settled, Homes
  <2>4. QED
    BY <2>1, <2>3 DEF Fixed
<1> DEFINE f == [m \in 0 .. d - 1 |-> tab[At(Hash[k], m, c)].key]
<1>6. f \in Injection(0 .. d - 1, Fixed \ {k})
  BY <1>3, <1>5 DEF Injection, IsInjective
<1>7. Cardinality(Fixed \ {k}) = Cardinality(Fixed) - 1 /\ IsFiniteSet(Fixed \ {k})
  BY <1>4, FS_RemoveElement
<1>8. Cardinality(0 .. d - 1) <= Cardinality(Fixed \ {k})
  BY <1>6, <1>7, FS_Injection
<1>9. Cardinality(0 .. d - 1) = d
  <2>1. 0 \in Int /\ d - 1 \in Int
    BY <1>3
  <2>2. Cardinality(0 .. d - 1) = IF 0 > d - 1 THEN 0 ELSE d - 1 - 0 + 1
    BY <2>1, FS_Interval
  <2>3. QED
    BY <1>3, <2>2
<1>10. Cardinality(Fixed) \in Nat
  BY <1>4, FS_CardinalityType
<1>11. QED
  BY <1>3, <1>4, <1>7, <1>8, <1>9, <1>10

\* A probe reaches each slot once.
LEMMA ProbeOnce ==
  ASSUME NEW h \in Nat, NEW c \in Nat \ {0}, NEW l \in 0 .. c - 1, NEW m \in 0 .. c - 1,
         At(h, l, c) = At(h, m, c)
  PROVE  l = m
<1>1. PICK s \in 0 .. c - 1 : s = h % c
  BY HomeIsSlot
<1>2. QED
  BY <1>1 DEF At

\* A fixed key may be put where such a probe for it ends, a loose key in its home.
LEMMA SettledPlace ==
  ASSUME LooseApart, NEW c \in Sizes, c \in Nat \ {0}, NEW tab, Settled(tab, c),
         NEW k \in Key, NEW n \in 0 .. c - 1,
         k \in Loose => n = 0,
         k \in Fixed => \A m \in 0 .. n : At(Hash[k], m, c) \notin Homes(c),
         NEW new, new.key = k, ~new.tb, k \in Fixed => new.expiratime = 0,
         NEW tab2, tab2[At(Hash[k], n, c)] = new,
         \A j \in 0 .. c - 1 : j # At(Hash[k], n, c) => tab2[j] = tab[j]
  PROVE  Settled(tab2, c)
<1> DEFINE a == At(Hash[k], n, c)
<1>1. Hash[k] \in Nat
  BY HashAssumption
<1>2. k \in Fixed => Clear(k, a, c)
  <2> SUFFICES ASSUME k \in Fixed, NEW l \in 0 .. c - 1, At(Hash[k], l, c) = a
               PROVE  \A m \in 0 .. l : At(Hash[k], m, c) \notin Homes(c)
    BY DEF Clear
  <2>1. l = n
    BY <1>1, ProbeOnce
  <2>2. QED
    BY <2>1
<1>3. k \in Loose => a = Home(k, c) /\ a \in Homes(c)
  BY DEF Home, Homes
<1>4. (k \in Loose /\ k \notin Fixed) \/ (k \in Fixed /\ k \notin Loose)
  BY EachKey
<1>5. QED
  BY <1>2, <1>3, <1>4 DEF Settled

\* Such a table is Undisturbed.
LEMMA ApartUndisturbed ==
  ASSUME LooseApart, TableInv, ApartInv
  PROVE  Undisturbed
<1> SUFFICES ASSUME NEW j \in 0 .. cap - 1, Live(ohashtabl[j])
             PROVE  /\ \E n \in 0 .. cap - 1 :
                         /\ At(ohashtabl[j].hash, n, cap) = j
                         /\ \A m \in 0 .. n - 1 : Live(ohashtabl[At(ohashtabl[j].hash, m, cap)])
                    /\ Late(ohashtabl[j]) =>
                         \A k \in Key : Tagged(ohashtabl[j], k) => k = ohashtabl[j].key
  BY DEF Undisturbed
<1> DEFINE s == ohashtabl[j]
<1>1. /\ cap \in Nat \ {0} /\ cap \in Sizes /\ Settled(ohashtabl, cap) /\ s.key \in Key
      /\ s.hash = Hash[s.key] /\ Hash[s.key] \in Nat
      /\ (s.key \in Loose /\ s.key \notin Fixed) \/ (s.key \in Fixed /\ s.key \notin Loose)
  <2>1. cap \in Nat \ {0} /\ s \in Slot
    BY DEF TableInv, TableTypeOK
  <2>2. s.key \in Key
    BY <2>1 DEF Live, Slot
  <2>3. s.hash = Hash[s.key]
    BY DEF TableInv, SlotsConsistent, Match, Tagged
  <2>4. QED
    BY <2>1, <2>2, <2>3, EachKey, HashAssumption DEF ApartInv
<1>2. \E n \in 0 .. cap - 1 :
        /\ At(s.hash, n, cap) = j
        /\ \A m \in 0 .. n - 1 : Live(ohashtabl[At(s.hash, m, cap)])
  <2>1. CASE s.key \in Loose
    <3>1. At(s.hash, 0, cap) = j /\ 0 \in 0 .. cap - 1 /\ 0 .. 0 - 1 = {}
      BY <1>1, <2>1 DEF Settled, Home
    <3>2. QED
      BY <3>1
  <2>2. CASE s.key \in Fixed
    <3>1. PICK n \in 0 .. cap - 1 :
            /\ At(s.hash, n, cap) = j
            /\ \A m \in 0 .. n - 1 : ~Empty(ohashtabl[At(s.hash, m, cap)])
      BY DEF TableInv, Chains
    <3>2. \A m \in 0 .. n : At(s.hash, m, cap) \notin Homes(cap)
      BY <1>1, <2>2, <3>1 DEF Settled, Clear
    <3>3. ASSUME NEW m \in 0 .. n - 1 PROVE Live(ohashtabl[At(s.hash, m, cap)])
      <4>1. m \in 0 .. cap - 1 /\ m \in 0 .. n
        BY <1>1
      <4>2. At(s.hash, m, cap) \in 0 .. cap - 1
        BY <1>1, <4>1, AtIsSlot
      <4>3. ~ohashtabl[At(s.hash, m, cap)].tb
        BY <1>1, <3>2, <4>1, <4>2 DEF Settled
      <4>4. QED
        BY <3>1, <4>3 DEF Empty, Live
    <3>4. QED
      BY <3>1, <3>3
  <2>3. QED
    BY <1>1, <2>1, <2>2
<1>3. ASSUME Late(s), NEW k \in Key, Tagged(s, k)
      PROVE  k = s.key
  <2>1. s.key \in Loose
    BY <1>1, <1>3, FixedSlot DEF Late
  <2>2. Hash[k] = Hash[s.key]
    BY <1>1, <1>3 DEF Tagged
  <2>3. Home(k, cap) = Home(s.key, cap) /\ Home(k, cap) \in Homes(cap)
    BY <2>1, <2>2 DEF Home, Homes
  <2>4. k \notin Fixed
    <3> SUFFICES ASSUME k \in Fixed PROVE FALSE
      OBVIOUS
    <3>1. IsFiniteSet(Fixed) /\ Cardinality(Fixed) <= 0
      BY <1>1, <2>3, 0 \in 0 .. cap - 1 DEF LooseApart, Home
    <3>2. QED
      BY <3>1, FS_EmptySet, FS_CardinalityType
  <2>5. QED
    BY <1>1, <2>1, <2>3, <2>4 DEF LooseApart, Fixed
<1>4. QED
  BY <1>2, <1>3

\* The searches bury nothing but entries that expire.
LEMMA BurySettled ==
  ASSUME TableInv, Settled(ohashtabl, cap), NEW S
  PROVE  /\ Bury(S) \in [0 .. cap - 1 -> Slot]
         /\ Settled(Bury(S), cap)
         /\ \A j \in 0 .. cap - 1 : Bury(S)[j].key = ohashtabl[j].key
<1>1. ohashtabl \in [0 .. cap - 1 -> Slot]
  BY DEF TableInv, TableTypeOK
<1>2. ASSUME NEW j \in 0 .. cap - 1
      PROVE  /\ Bury(S)[j].key = ohashtabl[j].key
             /\ Bury(S)[j].expiratime = ohashtabl[j].expiratime
             /\ Bury(S)[j].tb => ohashtabl[j].tb \/ ohashtabl[j].expiratime # 0
  <2>1. ohashtabl[j] \in Slot
    BY <1>1
  <2>2. CASE Bury(S)[j] = ohashtabl[j]
    BY <2>2
  <2>3. CASE Bury(S)[j] # ohashtabl[j]
    <3>1. Late(ohashtabl[j]) /\ Bury(S)[j] = Tombstone(ohashtabl[j])
      BY <2>3 DEF Bury
    <3>2. ohashtabl[j].expiratime # 0
      BY <3>1 DEF Late
    <3>3. QED
      BY <2>1, <3>1, <3>2 DEF Tombstone, Slot
  <2>4. QED
    BY <2>2, <2>3
<1>3. Bury(S) \in [0 .. cap - 1 -> Slot]
  BY <1>1, BuryAges
<1>4. QED
  BY <1>2, <1>3 DEF Settled

\* DEL and EXPIRED find their key in the slot where it belongs.
LEMMA TakeWhere ==
  ASSUME TableInv, Settled(ohashtabl, cap), NEW k \in Key, NEW n \in 0 .. cap,
         Walks(TakeStop(k), Hash[k], n), Found(k, n)
  PROVE  LET a == At(Hash[k], n, cap)
         IN  /\ a \in 0 .. cap - 1 /\ ohashtabl[a].key = k
             /\ k \in Loose => a \in Homes(cap)
<1> DEFINE a == At(Hash[k], n, cap)
<1>1. /\ cap \in Nat \ {0} /\ Hash[k] \in Nat
  BY HashAssumption DEF TableInv, TableTypeOK
<1>2. n # cap /\ ~Empty(ohashtabl[a])
  BY DEF Found
<1>3. n \in 0 .. cap - 1
  BY <1>1, <1>2
<1>4. a \in 0 .. cap - 1 /\ ohashtabl[a].key = k
  BY <1>1, <1>2, <1>3, AtIsSlot DEF Walks, TakeStop, Match
<1>5. QED
  BY <1>4 DEF Settled, Homes

\* DEL leaves a tombstone in the home of a loose key.
LEMMA TakeSettled ==
  ASSUME TableInv, Settled(ohashtabl, cap), NEW k \in Loose, NEW n \in 0 .. cap, otake(k, n)
  PROVE  Settled(ohashtabl', cap)
<1>1. k \in Key /\ NULL \notin Loose /\ NULL \notin Fixed
  BY NullAssumption DEF Loose, Fixed
<1>2. PICK b : b = Bury(Passed(Hash[k], n))
  OBVIOUS
<1>3. b \in [0 .. cap - 1 -> Slot] /\ Settled(b, cap)
  BY <1>2, BurySettled
<1>4. CASE Found(k, n)
  <2>1. PICK a : a = At(Hash[k], n, cap)
    OBVIOUS
  <2>2. a \in 0 .. cap - 1 /\ a \in Homes(cap)
    BY <1>1, <1>4, <2>1, TakeWhere DEF otake
  <2>3. ohashtabl' = [b EXCEPT ![a] = Vacated(@)]
    BY <1>2, <1>4, <2>1 DEF otake
  <2>4. Vacated(b[a]).key = NULL
    BY <1>3, <2>2 DEF Vacated, Slot
  <2>5. ohashtabl'[a].key = NULL /\ \A j \in 0 .. cap - 1 : j # a => ohashtabl'[j] = b[j]
    BY <1>3, <2>2, <2>3, <2>4
  <2>6. QED
    BY <1>1, <1>3, <2>2, <2>5 DEF Settled
<1>5. CASE ~Found(k, n)
  BY <1>2, <1>3, <1>5 DEF otake
<1>6. QED
  BY <1>4, <1>5

\* EXPIRED gives an expiry time to a loose key only.
LEMMA RenewSettled ==
  ASSUME TableInv, Settled(ohashtabl, cap), NEW k \in Key, NEW n \in 0 .. cap, NEW e \in Nat,
         oexpired(k, e, n), k \in Fixed => e = 0
  PROVE  Settled(ohashtabl', cap)
<1>1. PICK b : b = Bury(Passed(Hash[k], n))
  OBVIOUS
<1>2. /\ b \in [0 .. cap - 1 -> Slot] /\ Settled(b, cap)
      /\ \A j \in 0 .. cap - 1 : b[j].key = ohashtabl[j].key
  BY <1>1, BurySettled
<1>3. CASE Found(k, n)
  <2>1. PICK a : a = At(Hash[k], n, cap)
    OBVIOUS
  <2>2. /\ a \in 0 .. cap - 1 /\ ohashtabl[a].key = k
        /\ k \in Loose => a \in Homes(cap)
    BY <1>3, <2>1, TakeWhere DEF oexpired
  <2>3. b[a] \in Slot /\ b[a].key = k
    BY <1>2, <2>2
  <2>4. ohashtabl' = [b EXCEPT ![a] = Renewed(@, e)]
    BY <1>1, <1>3, <2>1 DEF oexpired
  <2>5. /\ Renewed(b[a], e).key = k /\ Renewed(b[a], e).tb = b[a].tb
        /\ Renewed(b[a], e).expiratime = e
    BY <2>3 DEF Renewed, Slot
  <2>6. /\ ohashtabl'[a].key = k /\ ohashtabl'[a].tb = b[a].tb
        /\ ohashtabl'[a].expiratime = e
        /\ \A j \in 0 .. cap - 1 : j # a => ohashtabl'[j] = b[j]
    BY <1>2, <2>2, <2>4, <2>5
  <2>7. e # 0 => a \in Homes(cap)
    BY <2>2, EachKey
  <2>8. QED
    BY <1>2, <2>2, <2>3, <2>6, <2>7 DEF Settled
<1>4. CASE ~Found(k, n)
  BY <1>1, <1>2, <1>4 DEF oexpired
<1>5. QED
  BY <1>3, <1>4

\* oinsert puts a loose key into its home, and a fixed key clear of the homes.
LEMMA InsertSettled ==
  ASSUME LooseApart, CmdInv, LiveOnce, ApartInv, NEW n \in 0 .. cap, pc \in {"insert", "retry"},
         oinsert(call.key, call.p, call.expired, n),
         InsertRet(call.key, n) \notin Refused
  PROVE  Settled(ohashtabl', cap)
<1>1. PICK k : k = call.key
  OBVIOUS
<1>2. /\ TableInv /\ k \in Key /\ k # NULL /\ Hash[k] \in Nat /\ cap \in Nat \ {0}
      /\ cap \in Sizes /\ Settled(ohashtabl, cap)
      /\ ohashtabl \in [0 .. cap - 1 -> Slot] /\ SlotsConsistent
      /\ k \in Fixed => call.expired = 0
  BY <1>1, NullAssumption, HashAssumption DEF CmdInv, CmdTypeOK, TableInv, TableTypeOK, ApartInv
<1>3. ~Full /\ n # cap /\ Walks(InsertStop(k), Hash[k], n)
  BY <1>1 DEF InsertRet, Refused, oinsert
<1>4. n \in 0 .. cap - 1 /\ At(Hash[k], n, cap) \in 0 .. cap - 1
  <2>1. n \in 0 .. cap - 1
    BY <1>2, <1>3
  <2>2. QED
    BY <1>2, <2>1, AtIsSlot
<1>5. ASSUME NEW m \in 0 .. n - 1
      PROVE  LET s == ohashtabl[At(Hash[k], m, cap)]
             IN  /\ At(Hash[k], m, cap) \in 0 .. cap - 1
                 /\ Live(s) /\ s.key \in Key \ {k}
  <2>1. m \in 0 .. cap - 1
    BY <1>2, <1>4
  <2>2. PICK j \in 0 .. cap - 1 : j = At(Hash[k], m, cap)
    BY <1>2, <2>1, AtIsSlot
  <2>3. j \notin InsertStop(k)
    BY <1>3, <2>2 DEF Walks
  <2>4. Live(ohashtabl[j]) /\ ~Match(ohashtabl[j], k)
    BY <2>3 DEF InsertStop, Live
  <2>5. ohashtabl[j].key \in Key
    BY <1>2, <2>4 DEF Live, Slot
  <2>6. ohashtabl[j].key # k
    BY <1>2, <2>4 DEF SlotsConsistent
  <2>7. QED
    BY <2>2, <2>4, <2>5, <2>6
<1>6. k \in Loose => n = 0
  <2> SUFFICES ASSUME k \in Loose, n # 0 PROVE FALSE
    OBVIOUS
  <2>1. 0 \in 0 .. n - 1
    BY <1>4
  <2>2. ohashtabl[Home(k, cap)].key \in Key \ {k}
    BY <1>5, <2>1 DEF Home
  <2>3. QED
    BY <1>2, <2>2, HomeHolds
<1>7. k \in Fixed => \A m \in 0 .. n : At(Hash[k], m, cap) \notin Homes(cap)
  <2> SUFFICES ASSUME k \in Fixed
               PROVE  \A m \in 0 .. n : At(Hash[k], m, cap) \notin Homes(cap)
    OBVIOUS
  <2>1. ASSUME NEW l \in 0 .. n - 1, NEW m \in 0 .. n - 1,
               ohashtabl[At(Hash[k], l, cap)].key = ohashtabl[At(Hash[k], m, cap)].key
        PROVE  l = m
    <3>1. At(Hash[k], l, cap) = At(Hash[k], m, cap)
      BY <1>5, <2>1 DEF LiveOnce, Only
    <3>2. l \in 0 .. cap - 1 /\ m \in 0 .. cap - 1
      BY <1>2, <1>4
    <3>3. QED
      BY <1>2, <3>1, <3>2, ProbeOnce
  <2>2. \A m \in 0 .. n - 1 : ohashtabl[At(Hash[k], m, cap)].key \in Key \ {k}
    BY <1>5
  <2>3. QED
    BY <1>2, <1>4, <2>1, <2>2, PathClear
<1>8. PICK new : /\ new.key = k /\ ~new.tb /\ new.expiratime = call.expired
                 /\ ohashtabl' = [ohashtabl EXCEPT ![At(Hash[k], n, cap)] = new]
  BY <1>1 DEF oinsert
<1>9. /\ ohashtabl'[At(Hash[k], n, cap)] = new
      /\ \A j \in 0 .. cap - 1 : j # At(Hash[k], n, cap) => ohashtabl'[j] = ohashtabl[j]
  BY <1>2, <1>4, <1>8
<1>10. k \in Fixed => new.expiratime = 0
  BY <1>2, <1>8
<1>11. PICK tab2 : tab2 = ohashtabl'
  OBVIOUS
<1>12. Settled(tab2, cap)
  <2>1. /\ tab2[At(Hash[k], n, cap)] = new
        /\ \A j \in 0 .. cap - 1 : j # At(Hash[k], n, cap) => tab2[j] = ohashtabl[j]
        /\ k \in Key /\ cap \in Sizes /\ cap \in Nat \ {0} /\ Settled(ohashtabl, cap)
        /\ n \in 0 .. cap - 1 /\ new.key = k /\ ~new.tb
    BY <1>2, <1>4, <1>8, <1>9, <1>11
  <2>2. QED
    BY <1>6, <1>7, <1>10, <2>1, SettledPlace
<1>13. QED
  BY <1>11, <1>12

\* expand_capacity, too, puts a loose key into its home, and a fixed key clear of
\* the homes.
LEMMA MigrateSettled ==
  ASSUME LooseApart, CmdInv, HeapInv, LiveOnce, NonZeroHash, ApartInv, ExpandSlot
  PROVE  Settled(n_ohash', 2 * cap)
<1>1. PICK c : c = 2 * cap
  OBVIOUS
<1>2. PICK s : s = ohashtabl[i]
  OBVIOUS
<1>3. /\ TableInv /\ cap \in Nat \ {0} /\ c \in Nat \ {0} /\ i \in 0 .. cap - 1 /\ expanding
      /\ ohashtabl \in [0 .. cap - 1 -> Slot] /\ n_ohash \in [0 .. c - 1 -> Slot]
      /\ SlotsConsistent /\ c \in Sizes /\ Settled(ohashtabl, cap) /\ Settled(n_ohash, c)
  BY <1>1 DEF CmdInv, TableInv, TableTypeOK, ApartInv, ExpandSlot
<1>4. CASE ~(Live(s) /\ ~s.rm)
  BY <1>1, <1>2, <1>3, <1>4 DEF ExpandSlot
<1>5. CASE Live(s) /\ ~s.rm
  <2>1. PICK k \in Key : k = s.key /\ s.hash = Hash[k] /\ Hash[k] \in Nat
    BY <1>2, <1>3, <1>5, HashAssumption DEF Live, Slot, SlotsConsistent, Match, Tagged
  <2>2. PICK n \in 0 .. c - 1 :
          /\ FirstFree(Hash[k], n)
          /\ n_ohash' = [n_ohash EXCEPT ![At(Hash[k], n, c)] = s]
    BY <1>1, <1>2, <1>5, <2>1 DEF ExpandSlot
  <2>3. ASSUME NEW m \in 0 .. n - 1
        PROVE  /\ At(Hash[k], m, c) \in Occ(n_ohash, c)
               /\ \E j \in 0 .. i - 1 : /\ n_ohash[At(Hash[k], m, c)] = ohashtabl[j]
                                        /\ Live(ohashtabl[j])
                                        /\ ohashtabl[j].key \in Key \ {k}
    <3>1. m \in 0 .. c - 1
      BY <1>3, <2>2
    <3>2. PICK a \in 0 .. c - 1 : a = At(Hash[k], m, c)
      BY <1>3, <2>1, <3>1, AtIsSlot
    <3>3. n_ohash[a].hash # 0
      BY <1>1, <2>2, <3>2 DEF FirstFree
    <3>4. n_ohash[a] # NullSlot
      BY <3>3 DEF NullSlot
    <3>5. PICK j \in 0 .. i - 1 : n_ohash[a] = ohashtabl[j] /\ Live(ohashtabl[j])
      BY <1>1, <1>3, <3>4 DEF TableInv, NewArrayFilled
    <3>6. j \in 0 .. cap - 1 /\ j # i
      BY <1>3
    <3>7. ohashtabl[j].key # k
      BY <1>2, <1>3, <1>5, <2>1, <3>5, <3>6 DEF LiveOnce, Only
    <3>8. ohashtabl[j].key \in Key /\ ohashtabl[j].key # NULL
      BY <1>3, <3>5, <3>6 DEF Live, Slot
    <3>9. QED
      BY <3>2, <3>5, <3>7, <3>8 DEF Occ
  <2>4. k \in Loose => n = 0
    <3> SUFFICES ASSUME k \in Loose, n # 0 PROVE FALSE
      OBVIOUS
    <3>1. 0 \in 0 .. n - 1
      BY <2>2
    <3>2. n_ohash[Home(k, c)].key \in Key \ {k}
      BY <2>3, <3>1 DEF Home
    <3>3. QED
      BY <1>3, <3>2, HomeHolds
  <2>5. k \in Fixed => \A m \in 0 .. n : At(Hash[k], m, c) \notin Homes(c)
    <3> SUFFICES ASSUME k \in Fixed
                 PROVE  \A m \in 0 .. n : At(Hash[k], m, c) \notin Homes(c)
      OBVIOUS
    <3>1. ASSUME NEW l \in 0 .. n - 1, NEW m \in 0 .. n - 1,
                 n_ohash[At(Hash[k], l, c)].key = n_ohash[At(Hash[k], m, c)].key
          PROVE  l = m
      <4>1. PICK j \in 0 .. i - 1 : n_ohash[At(Hash[k], l, c)] = ohashtabl[j] /\ Live(ohashtabl[j])
        BY <2>3
      <4>2. PICK d \in 0 .. i - 1 : n_ohash[At(Hash[k], m, c)] = ohashtabl[d] /\ Live(ohashtabl[d])
        BY <2>3
      <4>3. j \in 0 .. cap - 1 /\ d \in 0 .. cap - 1
        BY <1>3
      <4>4. j = d
        BY <3>1, <4>1, <4>2, <4>3 DEF LiveOnce, Only
      <4>5. At(Hash[k], l, c) = At(Hash[k], m, c)
        BY <1>1, <1>3, <2>3, <4>1, <4>2, <4>4 DEF HeapInv, CopiesDistinct
      <4>6. l \in 0 .. c - 1 /\ m \in 0 .. c - 1
        BY <1>3, <2>2
      <4>7. QED
        BY <1>3, <2>1, <4>5, <4>6, ProbeOnce
    <3>2. \A m \in 0 .. n - 1 : n_ohash[At(Hash[k], m, c)].key \in Key \ {k}
      BY <2>3
    <3>3. QED
      BY <1>3, <2>2, <3>1, <3>2, PathClear
  <2>6. s.key = k /\ ~s.tb /\ (k \in Fixed => s.expiratime = 0)
    BY <1>2, <1>3, <1>5, <2>1, FixedSlot DEF Live
  <2>7. PICK tab2 : tab2 = n_ohash'
    OBVIOUS
  <2>8. Settled(tab2, c)
    <3>1. At(Hash[k], n, c) \in 0 .. c - 1
      BY <1>3, <2>1, AtIsSlot
    <3>2. /\ tab2[At(Hash[k], n, c)] = s
          /\ \A j \in 0 .. c - 1 : j # At(Hash[k], n, c) => tab2[j] = n_ohash[j]
          /\ k \in Key /\ c \in Sizes /\ c \in Nat \ {0} /\ Settled(n_ohash, c)
          /\ n \in 0 .. c - 1 /\ s.key = k /\ ~s.tb
      BY <1>3, <2>2, <2>6, <2>7, <3>1
    <3>3. k \in Fixed => s.expiratime = 0
      BY <2>6
    <3>4. QED
      BY <2>4, <2>5, <3>2, <3>3, SettledPlace
  <2>9. QED
    BY <1>1, <2>7, <2>8
<1>6. QED
  BY <1>4, <1>5

\* Twice a capacity is one, if calloc grants it.
LEMMA SizeDoubles ==
  ASSUME TableTypeOK, CapIsPower, cap \in Sizes, 2 * cap <= MaxCap
  PROVE  2 * cap \in Sizes
<1>1. cap \in Nat \ {0}
  BY DEF TableTypeOK
<1>2. PICK n \in 0 .. WordBits - 1 : cap = Pow2[n]
  BY DEF CapIsPower
<1>3. n + 1 \in 0 .. WordBits - 1 /\ 2 * cap = Pow2[n + 1]
  BY <1>2, DoublesInWord
<1>4. PICK a \in Asked : Capacity(a) <= cap
  BY <1>1 DEF Sizes
<1>5. Capacity(a) <= 2 * cap
  <2>1. Capacity(a) \in Nat
    BY AskedCapacity
  <2>2. QED
    BY <1>1, <1>4, <2>1
<1>6. 2 * cap \in 1 .. MaxCap
  BY <1>1, CapAssumption DEF IsWord
<1>7. QED
  BY <1>3, <1>5, <1>6 DEF Sizes

\* An array of empty slots is settled.
LEMMA CallocSettled ==
  ASSUME NEW c PROVE Settled(Calloc(c), c)
<1>1. NULL \notin Loose /\ NULL \notin Fixed
  BY NullAssumption DEF Loose, Fixed
<1>2. \A j \in 0 .. c - 1 : Calloc(c)[j] = NullSlot
  BY DEF Calloc
<1>3. QED
  BY <1>1, <1>2 DEF Settled, NullSlot

\* A fixed key is called with SET and GET only, and never expires.
LEMMA CallFixed ==
  ASSUME CmdInv, ApartInv, [CmdNext]_vars
  PROVE  call'.key \in Fixed => call'.op # "DEL" /\ call'.expired = 0
<1>1. CASE Call
  <2>1. PICK c \in Calls : call'.op = c.op /\ call'.expired = c.expired /\ call'.key = c.key
    BY <1>1 DEF Call
  <2>2. QED
    BY <2>1 DEF Loose, Fixed
<1>2. CASE ~Call
  <2>1. \/ call' = NoCall
        \/ call'.key = call.key /\ call'.op = call.op /\ call'.expired = call.expired
    <3>1. CASE SetAlloc
      BY <3>1 DEF SetAlloc, Return, CmdInv, CmdTypeOK
    <3>2. CASE ~SetAlloc
      BY <1>2, <3>2 DEF CmdNext, Step, GET, DEL, EXPIRED, SetInsert, SetExpand, SetMigrate,
                        SetExpanded, SetFailure, Return, cvars, vars
    <3>3. QED
      BY <3>1, <3>2
  <2>2. NoCall.key \notin Fixed
    BY NullAssumption DEF NoCall, Fixed
  <2>3. QED
    BY <2>1, <2>2 DEF ApartInv
<1>3. QED
  BY <1>1, <1>2

\* Every step keeps the loose keys apart.
LEMMA ApartStep ==
  ASSUME LooseApart, NonZeroHash, CmdInv, HeapInv, LiveOnce, CapIsPower, ApartInv,
         [CmdNext]_vars
  PROVE  ApartInv'
<1>1. /\ TableInv /\ TableTypeOK /\ 0 \in Nat
      /\ cap \in Sizes /\ Settled(ohashtabl, cap)
      /\ expanding => 2 * cap \in Sizes /\ Settled(n_ohash, 2 * cap)
      /\ pc = "idle" \/ call.key \in Key
      /\ pc = "migrate" <=> expanding
  BY DEF CmdInv, CmdTypeOK, TableInv, ApartInv
<1>2. call'.key \in Fixed => call'.op # "DEL" /\ call'.expired = 0
  BY CallFixed
<1>3. ASSUME ~expanding', cap' = cap, Settled(ohashtabl', cap)
      PROVE  ApartInv'
  BY <1>1, <1>2, <1>3 DEF ApartInv
<1>4. CASE GET \/ DEL \/ EXPIRED
  <2>1. call.key \in Key /\ ~expanding
    BY <1>1, <1>4 DEF GET, DEL, EXPIRED
  <2>2. PICK n \in 0 .. cap :
          \/ oget(call.key, n) /\ call.op = "GET"
          \/ otake(call.key, n) /\ call.op = "DEL"
          \/ oexpired(call.key, call.expired, n) /\ call.op = "EXPIRED"
    BY <1>4 DEF GET, DEL, EXPIRED
  <2>3. call.expired \in Nat
    BY ExpiraAssumption DEF CmdInv, CmdTypeOK
  <2>4. cap' = cap /\ expanding' = expanding
    BY <2>2 DEF oget, otake, oexpired
  <2>5. CASE otake(call.key, n) /\ call.op = "DEL"
    <3>1. call.key \in Loose
      BY <2>1, <2>5, EachKey DEF ApartInv
    <3>2. Settled(ohashtabl', cap)
      BY <1>1, <2>5, <3>1, TakeSettled
    <3>3. QED
      BY <1>3, <2>1, <2>4, <3>2
  <2>6. CASE oget(call.key, n) /\ call.op = "GET"
    <3>1. ohashtabl' = Bury(Passed(Hash[call.key], n) \cup Hit(Hash[call.key], n))
      BY <2>6 DEF oget
    <3>2. Settled(ohashtabl', cap)
      BY <1>1, <2>1, <3>1, BurySettled
    <3>3. QED
      BY <1>3, <2>1, <2>4, <3>2
  <2>7. CASE oexpired(call.key, call.expired, n) /\ call.op = "EXPIRED"
    <3>1. call.key \in Fixed => call.expired = 0
      BY DEF ApartInv
    <3>2. Settled(ohashtabl', cap)
      BY <1>1, <2>1, <2>3, <2>7, <3>1, RenewSettled
    <3>3. QED
      BY <1>3, <2>1, <2>4, <3>2
  <2>8. QED
    BY <2>2, <2>5, <2>6, <2>7
<1>5. CASE SetInsert
  <2>1. ~expanding /\ pc \in {"insert", "retry"}
    BY <1>1, <1>5 DEF SetInsert
  <2>2. PICK n \in 0 .. cap : oinsert(call.key, call.p, call.expired, n)
    BY <1>5 DEF SetInsert
  <2>3. Settled(ohashtabl', cap)
    <3>1. CASE InsertRet(call.key, n) \in Refused
      BY <1>1, <2>2, <3>1 DEF oinsert
    <3>2. CASE InsertRet(call.key, n) \notin Refused
      BY <2>1, <2>2, <3>2, InsertSettled
    <3>3. QED
      BY <3>1, <3>2
  <2>4. QED
    BY <1>3, <2>1, <2>2, <2>3 DEF oinsert
<1>6. CASE SetExpand
  <2>1. ~expanding
    BY <1>1, <1>6 DEF SetExpand
  <2>2. CASE ExpandBegin
    <3>1. 2 * cap \in Sizes /\ Settled(Calloc(2 * cap), 2 * cap)
      BY <1>1, <2>2, SizeDoubles, CallocSettled DEF ExpandBegin
    <3>2. QED
      BY <1>1, <1>2, <2>2, <3>1 DEF ExpandBegin, ApartInv
  <2>3. CASE UNCHANGED tvars
    BY <1>1, <1>3, <2>1, <2>3 DEF tvars
  <2>4. QED
    BY <1>6, <2>2, <2>3 DEF SetExpand
<1>7. CASE SetMigrate
  <2>1. ExpandSlot
    BY <1>7 DEF SetMigrate
  <2>2. Settled(n_ohash', 2 * cap)
    BY <2>1, MigrateSettled
  <2>3. QED
    BY <1>1, <1>2, <2>1, <2>2 DEF ExpandSlot, ApartInv
<1>8. CASE SetExpanded
  <2>1. ExpandEnd
    BY <1>8 DEF SetExpanded
  <2>2. QED
    BY <1>1, <1>2, <2>1 DEF ExpandEnd, ApartInv
<1>9. CASE Call \/ SetAlloc \/ SetFailure \/ (Tick /\ UNCHANGED cvars) \/ UNCHANGED vars
  <2>1. UNCHANGED <<ohashtabl, cap, expanding, n_ohash>>
    BY <1>9 DEF Call, SetAlloc, SetFailure, Tick, tvars, vars
  <2>2. QED
    BY <1>1, <1>2, <2>1 DEF ApartInv
<1>10. QED
  BY <1>4, <1>5, <1>6, <1>7, <1>8, <1>9 DEF CmdNext, Step

\* So no call ever disturbs the table.
LEMMA ApartInvariant ==
  ASSUME NonZeroHash, LooseApart
  PROVE  CmdSpec => [](ApartInv /\ LiveOnce /\ TableInv)
<1>1. CmdInit => ApartInv /\ LiveOnce /\ CapIsPower
  <2> SUFFICES ASSUME CmdInit PROVE ApartInv /\ LiveOnce /\ CapIsPower
    OBVIOUS
  <2>1. /\ cap \in Sizes /\ ohashtabl = Calloc(cap) /\ ~expanding /\ call = NoCall
    BY DEF CmdInit, TableInit, Sizes
  <2>2. NoCall.key \notin Fixed
    BY NullAssumption DEF NoCall, Fixed
  <2>3. CapIsPower
    BY CapacityInit DEF CmdInit, CapInv
  <2>4. QED
    BY <2>1, <2>2, <2>3, CallocSettled, MapInit DEF ApartInv
<1>2. CmdInv /\ HeapInv /\ LiveOnce /\ CapIsPower /\ ApartInv /\ [CmdNext]_vars => ApartInv'
  BY ApartStep
<1>3. CmdInv /\ HeapInv /\ LiveOnce /\ ApartInv /\ [CmdNext]_vars => LiveOnce'
  BY OnceStep, ApartUndisturbed DEF CmdInv
<1>4. CmdSpec => []CapIsPower
  <2>1. CapInv => CapIsPower
    BY DEF CapInv
  <2>2. QED
    BY <2>1, CmdUsesTable, CapacityInvariant, PTL
<1>5. CmdInv => TableInv
  BY DEF CmdInv
<1>6. QED
  BY <1>1, <1>2, <1>3, <1>4, <1>5, CmdInvariant, HeapInvariant, PTL DEF CmdSpec

\* Callers whose removals and expiry times are for keys with slots of their own
\* never put a tombstone ahead of an entry, nor an expired entry in the way of a
\* key of the same hash and length, however often the table expands.
THEOREM UndisturbedCorrect ==
  ASSUME NonZeroHash, LooseApart
  PROVE  CmdSpec => []Undisturbed
<1>1. ApartInv /\ LiveOnce /\ TableInv => Undisturbed
  BY ApartUndisturbed
<1>2. QED
  BY <1>1, ApartInvariant, PTL

\* They find one slot of each key in the table, tombstones included, however
\* their other keys collide.
THEOREM NoDuplicatesCorrect ==
  ASSUME NonZeroHash, LooseApart
  PROVE  CmdSpec => []NoDuplicates
<1>1. ApartInv /\ LiveOnce /\ TableInv => NoDuplicates
  <2> SUFFICES ASSUME ApartInv, LiveOnce, TableInv, NEW j \in Occupied, NEW m \in Occupied,
                      ohashtabl[j].key = ohashtabl[m].key
               PROVE  j = m
    BY DEF NoDuplicates
  <2>1. /\ j \in 0 .. cap - 1 /\ m \in 0 .. cap - 1 /\ cap \in Nat \ {0}
        /\ ohashtabl[j].key # NULL /\ ohashtabl[j].key \in Key
        /\ Settled(ohashtabl, cap)
    BY DEF Occupied, Occ, TableInv, TableTypeOK, Slot, ApartInv
  <2>2. CASE ohashtabl[j].key \in Loose
    BY <2>1, <2>2 DEF Settled
  <2>3. CASE ohashtabl[j].key \in Fixed
    <3>1. Live(ohashtabl[j]) /\ Live(ohashtabl[m])
      BY <2>1, <2>3, FixedSlot DEF Live
    <3>2. QED
      BY <2>1, <3>1 DEF LiveOnce, Only
  <2>4. QED
    BY <2>1, <2>2, <2>3, EachKey
<1>2. QED
  BY <1>1, ApartInvariant, PTL

\* For them the commands are a map, without condition on the table.
THEOREM ApartMapCorrect ==
  ASSUME NonZeroHash, LooseApart
  PROVE  CmdSpec => IsMap
<1>1. QED
  BY UndisturbedCorrect, IsMapCorrect, PTL

\* Callers that neither remove a key nor let one expire are among them, whatever
\* their keys hash to.
LEMMA NoneLoose ==
  ASSUME \A c \in Calls : c.op # "DEL" /\ c.expired = 0
  PROVE  LooseApart
<1>1. Loose = {}
  BY DEF Loose
<1>2. QED
  BY <1>1 DEF LooseApart, Homes

=============================================================================
