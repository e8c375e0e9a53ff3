--------------------------- MODULE EventLoop_proofs ---------------------------
(***************************************************************************)
(* Proofs about the server: for any number of descriptors, connections and *)
(* bytes, and wherever the clients' steps fall between the thread's.       *)
(***************************************************************************)
EXTENDS EventLoop, NatLemmas, FiniteSetTheorems

-----------------------------------------------------------------------------
(* Growing the pool.                                                       *)

\* g gives the capacity that doubling from c ends with.
Doubles(g, f) == g = [c \in Nat \ {0} |-> IF c > f THEN c ELSE g[2 * c]]

\* The loop that doubles ends from every capacity: by induction on how far the
\* capacity it begins with may be below f.
LEMMA DoublingEnds == ASSUME NEW f \in Nat PROVE \E g : Doubles(g, f)
<1> DEFINE D == Nat \ {0}
           EndsFrom(g, n) == \A c \in D : c + n > f => g[c] = IF c > f THEN c ELSE g[2 * c]
           S == {n \in Nat : \E g : EndsFrom(g, n)}
<1>1. 0 \in S
  <2> DEFINE g0 == [c \in D |-> c]
  <2>1. EndsFrom(g0, 0)
    OBVIOUS
  <2>2. QED
    BY <2>1
<1>2. ASSUME NEW n \in S PROVE n + 1 \in S
  <2>1. PICK g : EndsFrom(g, n)
    OBVIOUS
  <2> DEFINE h == [c \in D |-> IF c + n > f THEN g[c] ELSE g[2 * c]]
  <2>2. ASSUME NEW c \in D, c + (n + 1) > f
        PROVE  h[c] = IF c > f THEN c ELSE h[2 * c]
    <3>1. 2 * c \in D /\ 2 * c + n > f
      BY <2>2
    <3>2. h[2 * c] = g[2 * c]
      BY <3>1
    <3>3. CASE c + n > f
      BY <2>1, <3>2, <3>3
    <3>4. CASE ~(c + n > f)
      BY <3>2, <3>4
    <3>5. QED
      BY <3>3, <3>4
  <2> HIDE DEF h
  <2>3. QED
    BY <2>2
<1>3. S = Nat
  <2> HIDE DEF S
  <2>1. S \in SUBSET Nat
    BY DEF S
  <2>2. QED
    BY <1>1, <1>2, <2>1, NatSetInduction
<1>4. PICK g : EndsFrom(g, f)
  BY <1>3
<1> DEFINE h == [c \in D |-> g[c]]
<1>5. ASSUME NEW c \in D PROVE h[c] = IF c > f THEN c ELSE h[2 * c]
  <2>1. c + f > f /\ 2 * c \in D
    OBVIOUS
  <2>2. QED
    BY <1>4, <2>1
<1>6. Doubles(h, f)
  BY <1>5 DEF Doubles
<1>7. QED
  BY <1>6

\* A pool that grows has an entry for f afterwards, and those it had.
LEMMA NewCapHolds ==
  ASSUME NEW f \in Nat, size \in Nat \ {0}
  PROVE  NewCap(f) \in Nat /\ NewCap(f) > f
<1> DEFINE g == CHOOSE h : Doubles(h, f)
           Bad == {c \in Nat \ {0} : ~(g[c] \in Nat /\ g[c] > f)}
           Gap == {n \in Nat : \E c \in Bad : n = f - c}
<1>1. Doubles(g, f)
  BY DoublingEnds, Zenon
<1>2. NewCap(f) = g[2 * size]
  BY DEF NewCap, Doubles
<1> HIDE DEF g
<1>3. ASSUME NEW c \in Nat \ {0} PROVE g[c] = IF c > f THEN c ELSE g[2 * c]
  BY <1>1 DEF Doubles
<1>4. ASSUME NEW c \in Bad PROVE c <= f /\ 2 * c \in Bad
  BY <1>3
<1>5. Bad = {}
  <2>1. SUFFICES ASSUME Bad # {} PROVE FALSE
    OBVIOUS
  <2>2. Gap # {}
    <3>1. PICK c \in Bad : TRUE
      BY <2>1
    <3>2. f - c \in Nat
      BY <1>4
    <3>3. QED
      BY <3>2
  <2>3. PICK n \in Gap : \A m \in Gap : n <= m
    <3> HIDE DEF Gap
    <3>1. Gap \in SUBSET Nat
      BY DEF Gap
    <3>2. QED
      BY <2>2, <3>1, LeastNumber
  <2>4. PICK c \in Bad : n = f - c
    OBVIOUS
  <2>5. f - 2 * c \in Gap /\ f - 2 * c < n
    BY <1>4, <2>4
  <2>6. QED
    BY <2>3, <2>5
<1>6. 2 * size \in Nat \ {0}
  OBVIOUS
<1>7. QED
  BY <1>2, <1>5, <1>6

-----------------------------------------------------------------------------
(* The invariant.                                                          *)

Handlers == {"read", "out", "hup", "completedfd",
             "writere_read", "writere_out", "blocked_read", "blocked_out"}

SockType  == [id : 0 .. MaxConns, in : 0 .. MaxIn, fin : BOOLEAN, rst : BOOLEAN,
              room : 0 .. MaxRoom]
EventType == [fd : Fd \cup {0}, ev : SUBSET {"IN", "OUT", "RDHUP", "ERR"}]

\* Where the pool has a connection.
Entries(p) == {j \in DOMAIN p : p[j] # NULL}

\* Neither buffer runs over, and the read buffer may still grow.
BuffersFit(c) == /\ 2 <= c.rb_cap /\ c.rb_size <= c.rb_cap /\ c.rb_cap < RbMax
                 /\ c.wb_offset <= c.wb_limit

Ended(f) == sock[f].fin \/ sock[f].rst

\* An open socket is watched for input, a closed one is not watched.
KernelInv ==
  /\ backlog \in Nat /\ accepted \in Nat /\ backlog + accepted <= MaxConns
  /\ sock \in [Fd -> SockType]
  /\ interest \in [Fd -> SUBSET {"IN", "OUT", "RDHUP"}]
  /\ ready \subseteq Fd \cup {0}
  /\ \A f \in Fd : IF Open(f) THEN "IN" \in interest[f] ELSE interest[f] = {}

PoolInv ==
  /\ size \in Nat \ {0} /\ DOMAIN pool = 0 .. size - 1
  /\ Entries(pool) \subseteq Fd
  /\ \A j \in Entries(pool) : pool[j] \in ConnType /\ BuffersFit(pool[j])
  /\ active_count = Cardinality(Entries(pool))

\* Each open socket has its own connection in the pool; without failing calls
\* no other entry is taken.
OpenServed == \A f \in Fd : Open(f) => f \in Entries(pool) /\ pool[f].id = sock[f].id
ClosedFree == Faults \/ \A f \in Entries(pool) : Open(f)

\* The batch speaks of open sockets, and of ends that have come.
BatchInv ==
  /\ events \in Seq(EventType)
  /\ \A m \in 1 .. Len(events) :
       events[m].fd # 0 => /\ Open(events[m].fd)
                           /\ events[m].ev \cap {"RDHUP", "ERR"} # {} => Ended(events[m].fd)

ControlInv ==
  /\ pc \in Handlers \cup {"wait", "next", "accept"}
  /\ pc = "wait" => events = <<>>
  /\ pc = "accept" => events # <<>> /\ fd = 0
  /\ pc \in Handlers => events # <<>> /\ fd # 0

\* on_read has been shown what was read, but for the connection being read.
SeenInv ==
  \A f \in Fd : Open(f) => \/ pool[f].seen = pool[f].rb_size
                           \/ pc \in {"read", "completedfd"} /\ f = fd

ReasonInv == ~Faults /\ pc = "completedfd" => Ended(fd) \/ TooBig(pool[fd])

LoopInv == /\ KernelInv /\ PoolInv /\ OpenServed /\ ClosedFree
           /\ BatchInv /\ ControlInv /\ SeenInv /\ ReasonInv

-----------------------------------------------------------------------------
(* What the invariant says of the pool and of the event in hand.           *)

\* An entry is what get_connection returns.
LEMMA GetEntry ==
  ASSUME NEW f \in Entries(pool)
  PROVE  get_connection(f) = pool[f] /\ get_connection(f) # NULL
  BY DEF Entries, get_connection

LEMMA GetNone ==
  ASSUME NEW f, f \notin Entries(pool)
  PROVE  get_connection(f) = NULL
  BY DEF Entries, get_connection

LEMMA EntriesFinite == PoolInv => IsFiniteSet(Entries(pool))
<1> SUFFICES ASSUME PoolInv PROVE IsFiniteSet(Entries(pool))
  OBVIOUS
<1>1. Entries(pool) \in SUBSET Fd
  BY DEF PoolInv
<1>2. QED
  BY <1>1, FdAssumption, FS_Subset, Zenon

\* A pool with the indices 0 to n - 1 has size n.
LEMMA SizeOf ==
  ASSUME NEW p, NEW n \in Nat, DOMAIN p = 0 .. n - 1
  PROVE  Cardinality(DOMAIN p) = n
<1>1. 0 \in Int /\ n - 1 \in Int
  OBVIOUS
<1>2. Cardinality(0 .. n - 1) = IF 0 > n - 1 THEN 0 ELSE n - 1 - 0 + 1
  BY <1>1, FS_Interval, Zenon
<1>3. Cardinality(0 .. n - 1) = n
  BY <1>2
<1>4. QED
  BY <1>3, Zenon

\* The event in hand.
LEMMA HeadOfBatch ==
  ASSUME BatchInv, events # <<>>
  PROVE  /\ Head(events) \in EventType /\ fd \in Fd \cup {0}
         /\ fd # 0 => /\ fd \in Fd /\ Open(fd)
                      /\ ev \cap {"RDHUP", "ERR"} # {} => Ended(fd)
         /\ Tail(events) \in Seq(EventType)
         /\ Len(Tail(events)) = Len(events) - 1
         /\ \A m \in 1 .. Len(Tail(events)) :
              Tail(events)[m] = events[m + 1] /\ m + 1 \in 1 .. Len(events)
<1>1. Head(events) = events[1] /\ 1 \in 1 .. Len(events) /\ Head(events) \in EventType
  BY DEF BatchInv
<1>2. QED
  BY <1>1 DEF BatchInv, EventType, fd, ev

\* Where epollrun handles the event of a connection, it has that connection.
LEMMA InHand ==
  ASSUME LoopInv, pc \in Handlers
  PROVE  /\ fd \in Fd /\ Open(fd) /\ events # <<>>
         /\ fd \in Entries(pool) /\ cn = pool[fd] /\ cn # NULL
         /\ cn \in ConnType /\ BuffersFit(cn) /\ cn.id = sock[fd].id
         /\ ev \cap {"RDHUP", "ERR"} # {} => Ended(fd)
<1>1. events # <<>> /\ fd # 0
  BY DEF LoopInv, ControlInv
<1>2. fd \in Fd /\ Open(fd) /\ (ev \cap {"RDHUP", "ERR"} # {} => Ended(fd))
  BY <1>1, HeadOfBatch DEF LoopInv
<1>3. fd \in Entries(pool) /\ pool[fd].id = sock[fd].id
  BY <1>2 DEF LoopInv, OpenServed
<1>4. cn = pool[fd] /\ cn # NULL
  BY <1>3, GetEntry DEF cn
<1>5. QED
  BY <1>1, <1>2, <1>3, <1>4 DEF LoopInv, PoolInv

-----------------------------------------------------------------------------
(* What a step leaves alone.                                               *)

\* A batch keeps its meaning while sockets stay open and ends stay ends.
LEMMA BatchKept ==
  ASSUME BatchInv, events' = events \/ (events # <<>> /\ events' = Tail(events)),
         \A f \in Fd : Open(f) => Open(f)' /\ (Ended(f) => Ended(f)')
  PROVE  BatchInv'
<1>1. \A m \in 1 .. Len(events) : events[m] \in EventType
  BY DEF BatchInv
<1>2. ASSUME NEW e \in EventType, e.fd # 0,
             NEW m \in 1 .. Len(events), events[m] = e
      PROVE  Open(e.fd)' /\ (e.ev \cap {"RDHUP", "ERR"} # {} => Ended(e.fd)')
  <2>1. e.fd \in Fd
    BY <1>2 DEF EventType
  <2>2. Open(e.fd) /\ (e.ev \cap {"RDHUP", "ERR"} # {} => Ended(e.fd))
    BY <1>2 DEF BatchInv
  <2>3. QED
    BY <2>1, <2>2
<1>3. CASE events' = events
  BY <1>1, <1>2, <1>3 DEF BatchInv
<1>4. CASE events # <<>> /\ events' = Tail(events)
  <2>1. /\ Tail(events) \in Seq(EventType)
        /\ \A m \in 1 .. Len(Tail(events)) :
             Tail(events)[m] = events[m + 1] /\ m + 1 \in 1 .. Len(events)
    BY <1>4, HeadOfBatch
  <2>2. QED
    BY <1>1, <1>2, <1>4, <2>1 DEF BatchInv
<1>5. QED
  BY <1>3, <1>4

\* Sockets and entries stay what they are, but for the data in them.
LEMMA SocketsStay ==
  ASSUME LoopInv,
         \A f \in Fd : sock'[f].id = sock[f].id /\ (Ended(f) => Ended(f)'),
         Entries(pool') = Entries(pool),
         \A f \in Entries(pool) : pool'[f].id = pool[f].id,
         events' = events \/ (events # <<>> /\ events' = Tail(events))
  PROVE  OpenServed' /\ ClosedFree' /\ BatchInv'
<1>1. \A f \in Fd : Open(f)' <=> Open(f)
  BY DEF Open
<1>2. OpenServed'
  BY <1>1 DEF LoopInv, OpenServed
<1>3. ClosedFree'
  BY <1>1 DEF LoopInv, ClosedFree, PoolInv
<1>4. BatchInv'
  BY <1>1, BatchKept DEF LoopInv
<1>5. QED
  BY <1>2, <1>3, <1>4

LEMMA KernelSame == KernelInv /\ UNCHANGED kvars => KernelInv'
  BY DEF KernelInv, kvars, Open

LEMMA PoolSame ==
  PoolInv /\ UNCHANGED <<pool, active_count>> => PoolInv' /\ Entries(pool') = Entries(pool)
  BY DEF PoolInv, Entries, size

\* A step that changes control only.
LEMMA OnlyControl ==
  ASSUME LoopInv, UNCHANGED kvars, UNCHANGED <<pool, active_count>>,
         events' = events \/ (events # <<>> /\ events' = Tail(events)),
         ControlInv', SeenInv', ReasonInv'
  PROVE  LoopInv'
<1>1. KernelInv' /\ PoolInv' /\ Entries(pool') = Entries(pool)
  BY KernelSame, PoolSame DEF LoopInv
<1>2. OpenServed' /\ ClosedFree' /\ BatchInv'
  BY <1>1, SocketsStay DEF kvars, Ended
<1>3. QED
  BY <1>1, <1>2 DEF LoopInv

\* The connection in hand is updated.
LEMMA UpdateKeepsPool ==
  ASSUME LoopInv, pc \in Handlers, NEW c \in ConnType, BuffersFit(c), Update(c),
         active_count' = active_count
  PROVE  /\ PoolInv' /\ Entries(pool') = Entries(pool)
         /\ pool'[fd] = c /\ \A j \in Entries(pool) : j # fd => pool'[j] = pool[j]
<1>1. fd \in Entries(pool) /\ fd \in DOMAIN pool
  BY InHand DEF Entries
<1>2. /\ DOMAIN pool' = DOMAIN pool /\ pool'[fd] = c
      /\ \A j \in DOMAIN pool : j # fd => pool'[j] = pool[j]
  BY <1>1 DEF Update
<1>3. Entries(pool') = Entries(pool)
  BY <1>1, <1>2, NullAssumption DEF Entries
<1>4. PoolInv'
  <2>1. size' = size
    BY <1>2 DEF size
  <2>2. \A j \in Entries(pool') : pool'[j] \in ConnType /\ BuffersFit(pool'[j])
    BY <1>2, <1>3 DEF LoopInv, PoolInv, Entries
  <2>3. QED
    BY <1>2, <1>3, <2>1, <2>2 DEF LoopInv, PoolInv
<1>5. QED
  BY <1>2, <1>3, <1>4 DEF Entries

\* A handler goes on with its event.
LEMMA HandlerGoesOn ==
  ASSUME LoopInv, pc \in Handlers, events' = events, pc' \in Handlers
  PROVE  ControlInv' /\ fd' = fd /\ ev' = ev
  BY DEF LoopInv, ControlInv, Handlers, fd, ev

\* Steps of a handler that change neither buffers nor sockets.
LEMMA HandlerMoves ==
  ASSUME LoopInv, pc \in Handlers, pc' \in Handlers,
         UNCHANGED kvars, UNCHANGED <<pool, active_count, events>>,
         pc = "read" => pc' = "completedfd", pc # "completedfd",
         ~Faults /\ pc' = "completedfd" => Ended(fd) \/ TooBig(pool[fd])
  PROVE  LoopInv'
<1>1. ControlInv' /\ fd' = fd
  BY HandlerGoesOn
<1>2. SeenInv'
  BY <1>1 DEF LoopInv, SeenInv, kvars, Open
<1>3. ReasonInv'
  BY <1>1 DEF ReasonInv, Ended, TooBig, Crowded, kvars
<1>4. QED
  BY <1>1, <1>2, <1>3, OnlyControl

-----------------------------------------------------------------------------
(* The steps of epollrun and writere, one by one.                          *)

LEMMA DispatchKeeps == LoopInv /\ Dispatch => LoopInv'
<1> SUFFICES ASSUME LoopInv, Dispatch PROVE LoopInv'
  OBVIOUS
<1>1. UNCHANGED kvars /\ UNCHANGED <<pool, active_count, events>> /\ fd' = fd
  BY DEF Dispatch, fd
<1>2. events # <<>> /\ fd # 0 => get_connection(fd) # NULL
  BY HeadOfBatch, GetEntry DEF LoopInv, OpenServed
<1>3. ControlInv' /\ pc' # "completedfd"
  BY <1>1, <1>2 DEF Dispatch, ControlInv, Handlers
<1>4. SeenInv'
  BY <1>1 DEF LoopInv, SeenInv, Dispatch, kvars, Open
<1>5. ReasonInv'
  BY <1>3 DEF ReasonInv
<1>6. QED
  BY <1>1, <1>3, <1>4, <1>5, OnlyControl

LEMMA AcceptNoMoreKeeps == LoopInv /\ AcceptNoMore => LoopInv'
<1> SUFFICES ASSUME LoopInv, AcceptNoMore PROVE LoopInv'
  OBVIOUS
<1>1. /\ UNCHANGED kvars /\ UNCHANGED <<pool, active_count>>
      /\ events # <<>> /\ events' = Tail(events) /\ pc' = "next" /\ pc = "accept"
  BY DEF LoopInv, ControlInv, AcceptNoMore, Done
<1>2. ControlInv' /\ ReasonInv'
  BY <1>1 DEF ControlInv, ReasonInv, Handlers
<1>3. SeenInv'
  BY <1>1 DEF LoopInv, SeenInv, kvars, Open
<1>4. QED
  BY <1>1, <1>2, <1>3, OnlyControl

LEMMA OnHupKeeps == LoopInv /\ OnHup => LoopInv'
<1> SUFFICES ASSUME LoopInv, OnHup PROVE LoopInv'
  OBVIOUS
<1>1. pc = "hup" /\ pc \in Handlers /\ UNCHANGED kvars /\ UNCHANGED <<pool, active_count>>
  BY DEF OnHup, Handlers
<1>2. CASE ev \cap {"RDHUP", "ERR"} # {} /\ pc' = "completedfd" /\ events' = events
  <2>1. Ended(fd)
    BY <1>1, <1>2, InHand
  <2>2. QED
    BY <1>1, <1>2, <2>1, HandlerMoves DEF Handlers
<1>3. CASE Done
  <2>1. events # <<>> /\ events' = Tail(events) /\ pc' = "next"
    BY <1>1, <1>3, InHand DEF Done
  <2>2. ControlInv' /\ ReasonInv'
    BY <2>1 DEF ControlInv, ReasonInv, Handlers
  <2>3. SeenInv'
    BY <1>1, <2>1 DEF LoopInv, SeenInv, kvars, Open
  <2>4. QED
    BY <1>1, <2>1, <2>2, <2>3, OnlyControl
<1>4. QED
  BY <1>2, <1>3 DEF OnHup

\* The steps that only decide how to go on.
LEMMA DecisionsKeep ==
  LoopInv /\ (ReadGivesUp \/ WriteNothing \/ WriteBlocked \/ WriteFails \/ OnOut) => LoopInv'
<1> SUFFICES ASSUME LoopInv,
                    ReadGivesUp \/ WriteNothing \/ WriteBlocked \/ WriteFails \/ OnOut
             PROVE  LoopInv'
  OBVIOUS
<1>1. /\ pc \in Handlers /\ pc' \in Handlers /\ pc # "completedfd"
      /\ UNCHANGED kvars /\ UNCHANGED <<pool, active_count, events>>
  BY DEF ReadGivesUp, WriteNothing, WriteBlocked, WriteFails, OnOut, InWritere, After, Handlers
<1>2. pc = "read" => pc' = "completedfd"
  BY DEF ReadGivesUp, WriteNothing, WriteBlocked, WriteFails, OnOut, InWritere
<1>3. ASSUME ~Faults, pc' = "completedfd" PROVE Ended(fd) \/ TooBig(pool[fd])
  <2>1. ReadGivesUp \/ WriteFails
    BY <1>3 DEF WriteNothing, WriteBlocked, OnOut, After
  <2>2. CASE ReadGivesUp
    BY <1>1, <1>3, <2>2, InHand DEF ReadGivesUp
  <2>3. CASE WriteFails
    BY <2>3 DEF WriteFails, Ended, s
  <2>4. QED
    BY <2>1, <2>2, <2>3
<1>4. QED
  BY <1>1, <1>2, <1>3, HandlerMoves

\* A handler updates its connection, which stays that of its socket.
LEMMA UpdatedKeeps ==
  ASSUME LoopInv, pc \in Handlers, pc' \in Handlers, KernelInv',
         NEW c \in ConnType, BuffersFit(c), c.id = cn.id, Update(c),
         active_count' = active_count, events' = events,
         \A f \in Fd : sock'[f].id = sock[f].id /\ (Ended(f) => Ended(f)'),
         c.seen = c.rb_size \/ pc' \in {"read", "completedfd"},
         ReasonInv'
  PROVE  LoopInv'
<1>1. /\ PoolInv' /\ Entries(pool') = Entries(pool)
      /\ pool'[fd] = c /\ \A j \in Entries(pool) : j # fd => pool'[j] = pool[j]
  BY UpdateKeepsPool
<1>2. ControlInv' /\ fd' = fd
  BY HandlerGoesOn
<1>3. \A f \in Entries(pool) : pool'[f].id = pool[f].id
  BY <1>1, InHand
<1>4. OpenServed' /\ ClosedFree' /\ BatchInv'
  BY <1>1, <1>3, SocketsStay
<1>5. SeenInv'
  <2>1. SUFFICES ASSUME NEW f \in Fd, Open(f)'
                 PROVE  \/ pool'[f].seen = pool'[f].rb_size
                        \/ pc' \in {"read", "completedfd"} /\ f = fd
    BY <1>2 DEF SeenInv
  <2>2. Open(f) /\ f \in Entries(pool)
    BY <2>1 DEF LoopInv, OpenServed, Open
  <2>3. QED
    BY <1>1, <2>2 DEF LoopInv, SeenInv
<1>6. QED
  BY <1>1, <1>2, <1>4, <1>5 DEF LoopInv

\* After the check that precedes a read there is room, and no less than before.
LEMMA GrownFits ==
  ASSUME NEW c \in ConnType, BuffersFit(c), ~TooBig(c)
  PROVE  /\ Grown(c) \in ConnType /\ BuffersFit(Grown(c))
         /\ Grown(c).rb_cap > Grown(c).rb_size
         /\ Grown(c) = [c EXCEPT !.rb_cap = Grown(c).rb_cap]
<1>1. c.rb_cap \in Nat /\ c.rb_size \in Nat
  BY DEF ConnType
<1>2. CASE Crowded(c)
  <2> DEFINE g == [c EXCEPT !.rb_cap = 2 * @]
  <2>1. Grown(c) = g /\ 2 * c.rb_cap < RbMax
    BY <1>1, <1>2, BufferAssumption DEF TooBig, Grown
  <2>2. g \in ConnType /\ g.rb_cap = 2 * c.rb_cap /\ g.rb_size = c.rb_size
    BY <1>1 DEF ConnType
  <2>3. g.wb_offset = c.wb_offset /\ g.wb_limit = c.wb_limit
    BY DEF ConnType
  <2>4. g = [c EXCEPT !.rb_cap = g.rb_cap]
    BY DEF ConnType
  <2> HIDE DEF g
  <2>5. BuffersFit(g) /\ g.rb_cap > g.rb_size
    BY <1>1, <2>1, <2>2, <2>3 DEF BuffersFit
  <2>6. QED
    BY <2>1, <2>2, <2>4, <2>5
<1>3. CASE ~Crowded(c)
  BY <1>1, <1>3 DEF ConnType, BuffersFit, Crowded, Grown
<1>4. QED
  BY <1>2, <1>3

LEMMA ReadSomeKeeps == LoopInv /\ ReadSome => LoopInv'
<1> SUFFICES ASSUME LoopInv, ReadSome PROVE LoopInv'
  OBVIOUS
<1>1. /\ pc = "read" /\ pc' = "read" /\ pc \in Handlers
      /\ events' = events /\ active_count' = active_count
      /\ ~TooBig(cn) /\ UNCHANGED <<backlog, accepted, interest, ready>>
  BY DEF ReadSome, ReadOn, Handlers
<1>2. PICK n \in 1 .. s.in : /\ n <= Grown(cn).rb_cap - cn.rb_size
                            /\ Update([Grown(cn) EXCEPT !.rb_size = @ + n])
                            /\ sock' = [sock EXCEPT ![fd].in = @ - n]
  BY DEF ReadSome
<1> DEFINE c == [Grown(cn) EXCEPT !.rb_size = @ + n]
<1>3. fd \in Fd /\ cn \in ConnType /\ BuffersFit(cn)
  BY <1>1, InHand
<1>4. /\ Grown(cn) \in ConnType /\ BuffersFit(Grown(cn))
      /\ Grown(cn).rb_size = cn.rb_size /\ Grown(cn).id = cn.id
  BY <1>1, <1>3, GrownFits DEF ConnType
<1>5. sock[fd] \in SockType
  BY <1>3 DEF LoopInv, KernelInv
<1>6. n \in Nat
  BY <1>5, BoundAssumption DEF s, SockType
<1>7. c \in ConnType /\ c.id = cn.id /\ BuffersFit(c)
  BY <1>2, <1>3, <1>4, <1>6 DEF ConnType, BuffersFit
<1>8. \A f \in Fd : sock'[f].id = sock[f].id /\ (Ended(f) => Ended(f)')
  BY <1>2, <1>3 DEF LoopInv, KernelInv, SockType, Ended
<1>9. KernelInv'
  <2>1. [sock[fd] EXCEPT !.in = @ - n] \in SockType
    BY <1>2, <1>5, <1>6, BoundAssumption DEF SockType, s
  <2>2. sock' = [sock EXCEPT ![fd] = [sock[fd] EXCEPT !.in = @ - n]]
    BY <1>2
  <2>3. sock' \in [Fd -> SockType]
    BY <1>3, <2>1, <2>2 DEF LoopInv, KernelInv
  <2>4. QED
    BY <1>1, <1>8, <2>3 DEF LoopInv, KernelInv, Open
<1>10. ReasonInv'
  BY <1>1 DEF ReasonInv
<1> HIDE DEF c
<1>11. Update(c)
  BY <1>2 DEF c
<1>12. QED
  BY <1>1, <1>7, <1>8, <1>9, <1>10, <1>11, UpdatedKeeps

\* With the room there is after the check, read() is never asked for 0 bytes.
LEMMA ReadEndsKeeps == LoopInv /\ ReadEnds => LoopInv'
<1> SUFFICES ASSUME LoopInv, ReadEnds PROVE LoopInv'
  OBVIOUS
<1>1. /\ pc = "read" /\ pc' = "completedfd" /\ pc \in Handlers /\ pc' \in Handlers
      /\ events' = events /\ active_count' = active_count
      /\ ~TooBig(cn) /\ UNCHANGED kvars /\ Update(Grown(cn))
  BY DEF ReadEnds, Handlers
<1>2. cn \in ConnType /\ BuffersFit(cn)
  BY <1>1, InHand
<1>3. /\ Grown(cn) \in ConnType /\ BuffersFit(Grown(cn)) /\ Grown(cn).id = cn.id
      /\ Grown(cn).rb_cap > cn.rb_size
  BY <1>1, <1>2, GrownFits DEF ConnType
<1>4. Ended(fd)
  <2>1. Grown(cn).rb_cap # cn.rb_size
    BY <1>2, <1>3 DEF ConnType
  <2>2. QED
    BY <2>1, Zenon DEF ReadEnds, Ended, s
<1>5. KernelInv' /\ \A f \in Fd : sock'[f].id = sock[f].id /\ (Ended(f) => Ended(f)')
  BY <1>1, KernelSame DEF LoopInv, kvars, Ended
<1>6. fd' = fd
  BY <1>1 DEF fd
<1>7. ReasonInv'
  BY <1>1, <1>4, <1>6 DEF ReasonInv, Ended, kvars
<1>8. QED
  BY <1>1, <1>3, <1>5, <1>7, UpdatedKeeps

LEMMA ReadAgainKeeps == LoopInv /\ ReadAgain => LoopInv'
<1> SUFFICES ASSUME LoopInv, ReadAgain PROVE LoopInv'
  OBVIOUS
<1>1. /\ pc = "read" /\ pc' = "writere_read" /\ pc \in Handlers /\ pc' \in Handlers
      /\ events' = events /\ active_count' = active_count
      /\ ~TooBig(cn) /\ UNCHANGED kvars
  BY DEF ReadAgain, Handlers
<1>2. PICK limit \in cn.wb_limit .. WbMax :
        Update([Grown(cn) EXCEPT !.seen = cn.rb_size, !.wb_limit = limit])
  BY DEF ReadAgain
<1> DEFINE c == [Grown(cn) EXCEPT !.seen = cn.rb_size, !.wb_limit = limit]
<1>3. cn \in ConnType /\ BuffersFit(cn)
  BY <1>1, InHand
<1>4. /\ Grown(cn) \in ConnType /\ BuffersFit(Grown(cn))
      /\ Grown(cn).rb_size = cn.rb_size /\ Grown(cn).id = cn.id
      /\ Grown(cn).wb_limit = cn.wb_limit
  BY <1>1, <1>3, GrownFits DEF ConnType
<1>5. c \in ConnType /\ c.id = cn.id /\ BuffersFit(c) /\ c.seen = c.rb_size
  <2>1. limit \in 0 .. WbMax /\ cn.wb_limit <= limit /\ cn.rb_size \in Nat
    BY <1>2, <1>3, BufferAssumption DEF ConnType
  <2>2. c \in ConnType
    BY <1>4, <2>1 DEF ConnType
  <2>3. /\ c.id = cn.id /\ c.seen = c.rb_size /\ c.rb_cap = Grown(cn).rb_cap
        /\ c.rb_size = Grown(cn).rb_size /\ c.wb_limit = limit
        /\ c.wb_offset = Grown(cn).wb_offset
    BY <1>4, <2>1 DEF ConnType
  <2>4. Grown(cn).wb_offset \in Nat /\ Grown(cn).wb_limit \in Nat
    BY <1>4 DEF ConnType
  <2> HIDE DEF c
  <2>5. QED
    BY <1>4, <2>1, <2>2, <2>3, <2>4, BufferAssumption DEF BuffersFit
<1>6. KernelInv' /\ \A f \in Fd : sock'[f].id = sock[f].id /\ (Ended(f) => Ended(f)')
  BY <1>1, KernelSame DEF LoopInv, kvars, Ended
<1>7. ReasonInv'
  BY <1>1 DEF ReasonInv
<1> HIDE DEF c
<1>8. Update(c)
  BY <1>2 DEF c
<1>9. QED
  BY <1>1, <1>5, <1>6, <1>7, <1>8, UpdatedKeeps

\* A change of interest keeps the socket watched for input.
LEMMA ModKeeps ==
  ASSUME LoopInv, pc \in Handlers, NEW e \in SUBSET {"IN", "OUT", "RDHUP"}, "IN" \in e, Mod(e),
         UNCHANGED <<backlog, accepted>>, sock' \in [Fd -> SockType],
         \A f \in Fd : sock'[f].id = sock[f].id
  PROVE  KernelInv'
<1>1. fd \in Fd /\ Open(fd)
  BY InHand
<1>2. interest' = [interest EXCEPT ![fd] = e] /\ ready' \subseteq ready \cup {fd}
  BY DEF Mod
<1>3. interest' \in [Fd -> SUBSET {"IN", "OUT", "RDHUP"}]
  BY <1>1, <1>2 DEF LoopInv, KernelInv
<1>4. \A f \in Fd : IF Open(f)' THEN "IN" \in interest'[f] ELSE interest'[f] = {}
  BY <1>1, <1>2 DEF LoopInv, KernelInv, Open
<1>5. QED
  BY <1>1, <1>2, <1>3, <1>4 DEF LoopInv, KernelInv

LEMMA WriteSomeKeeps == LoopInv /\ WriteSome => LoopInv'
<1> SUFFICES ASSUME LoopInv, WriteSome PROVE LoopInv'
  OBVIOUS
<1>1. /\ InWritere /\ pc \in Handlers /\ pc # "read" /\ pc # "completedfd"
      /\ events' = events /\ active_count' = active_count
      /\ UNCHANGED <<backlog, accepted>>
  BY DEF WriteSome, InWritere, Handlers
<1>2. PICK n \in 1 .. s.room :
        /\ n <= cn.wb_limit - cn.wb_offset
        /\ sock' = [sock EXCEPT ![fd].room = @ - n]
        /\ IF cn.wb_offset + n < cn.wb_limit
             THEN /\ Update([cn EXCEPT !.wb_offset = @ + n])
                  /\ UNCHANGED <<interest, ready, pc>>
             ELSE /\ Update([cn EXCEPT !.wb_limit = 0, !.wb_offset = 0])
                  /\ \/ Mod({"IN", "RDHUP"}) /\ pc' = After
                     \/ Faults /\ UNCHANGED <<interest, ready>> /\ pc' = "completedfd"
  BY DEF WriteSome
<1>3. fd \in Fd /\ Open(fd) /\ cn \in ConnType /\ BuffersFit(cn) /\ cn = pool[fd]
  BY <1>1, InHand
<1>4. sock[fd] \in SockType
  BY <1>3 DEF LoopInv, KernelInv
<1>5. n \in Nat /\ n >= 1
  BY <1>4, BoundAssumption DEF s, SockType
<1>6. sock' \in [Fd -> SockType]
  <2>1. [sock[fd] EXCEPT !.room = @ - n] \in SockType
    BY <1>2, <1>4, <1>5, BoundAssumption DEF SockType, s
  <2>2. sock' = [sock EXCEPT ![fd] = [sock[fd] EXCEPT !.room = @ - n]]
    BY <1>2
  <2>3. QED
    BY <1>3, <2>1, <2>2 DEF LoopInv, KernelInv
<1>7. \A f \in Fd : sock'[f].id = sock[f].id /\ (Ended(f) => Ended(f)')
  BY <1>2, <1>3 DEF LoopInv, KernelInv, SockType, Ended
<1>8. cn.seen = cn.rb_size
  BY <1>1, <1>3 DEF LoopInv, SeenInv
<1>9. ASSUME UNCHANGED <<interest, ready>> PROVE KernelInv'
  BY <1>1, <1>6, <1>7, <1>9 DEF LoopInv, KernelInv, Open
<1>10. CASE cn.wb_offset + n < cn.wb_limit
  <2> DEFINE w == cn.wb_offset + n
             c == [cn EXCEPT !.wb_offset = w]
  <2>1. c \in ConnType /\ c.id = cn.id /\ c.seen = c.rb_size
    <3>1. w \in 0 .. WbMax
      BY <1>3, <1>5, <1>10, BufferAssumption DEF ConnType
    <3> HIDE DEF w
    <3>2. c \in ConnType
      BY <1>3, <3>1 DEF ConnType
    <3>3. c.id = cn.id /\ c.seen = cn.seen /\ c.rb_size = cn.rb_size
      BY <1>3 DEF ConnType
    <3>4. QED
      BY <1>8, <3>2, <3>3
  <2>2. BuffersFit(c)
    BY <1>3, <1>5, <1>10 DEF ConnType, BuffersFit
  <2>3. ReasonInv' /\ pc' \in Handlers /\ KernelInv'
    BY <1>1, <1>2, <1>9, <1>10 DEF ReasonInv
  <2> HIDE DEF c
  <2>4. Update(c)
    BY <1>2, <1>10 DEF c
  <2>5. QED
    BY <1>1, <1>7, <2>1, <2>2, <2>3, <2>4, UpdatedKeeps
<1>11. CASE ~(cn.wb_offset + n < cn.wb_limit)
  <2> DEFINE c == [cn EXCEPT !.wb_limit = 0, !.wb_offset = 0]
  <2>1. c \in ConnType /\ c.id = cn.id /\ c.seen = c.rb_size
    <3>1. 0 \in 0 .. WbMax
      BY BufferAssumption
    <3>2. c \in ConnType
      BY <1>3, <3>1 DEF ConnType
    <3>3. c.id = cn.id /\ c.seen = cn.seen /\ c.rb_size = cn.rb_size
      BY <1>3 DEF ConnType
    <3>4. QED
      BY <1>8, <3>2, <3>3
  <2>2. BuffersFit(c)
    BY <1>3 DEF ConnType, BuffersFit
  <2>3. KernelInv'
    BY <1>1, <1>2, <1>6, <1>7, <1>9, <1>11, ModKeeps
  <2>4. ReasonInv' /\ pc' \in Handlers
    BY <1>2, <1>11 DEF ReasonInv, After, Handlers
  <2> HIDE DEF c
  <2>5. Update(c)
    BY <1>2, <1>11 DEF c
  <2>6. QED
    BY <1>1, <1>7, <2>1, <2>2, <2>3, <2>4, <2>5, UpdatedKeeps
<1>12. QED
  BY <1>10, <1>11

LEMMA RegisterKeeps == LoopInv /\ Register => LoopInv'
<1> SUFFICES ASSUME LoopInv, Register PROVE LoopInv'
  OBVIOUS
<1>1. /\ pc \in Handlers /\ pc # "read" /\ pc # "completedfd" /\ pc' \in Handlers
      /\ UNCHANGED <<sock, backlog, accepted, pool, active_count, events>>
      /\ ~Faults => pc' # "completedfd"
  BY DEF Register, After, Handlers
<1>2. KernelInv'
  <2>1. CASE Mod({"IN", "RDHUP", "OUT"})
    <3>1. sock' \in [Fd -> SockType]
      BY <1>1 DEF LoopInv, KernelInv
    <3>2. QED
      BY <1>1, <2>1, <3>1, ModKeeps
  <2>2. CASE UNCHANGED <<interest, ready>>
    BY <1>1, <2>2 DEF LoopInv, KernelInv, Open
  <2>3. QED
    BY <2>1, <2>2 DEF Register
<1>3. PoolInv' /\ Entries(pool') = Entries(pool)
  BY <1>1, PoolSame DEF LoopInv
<1>4. OpenServed' /\ ClosedFree' /\ BatchInv'
  BY <1>1, <1>3, SocketsStay DEF Ended
<1>5. ControlInv'
  BY <1>1, HandlerGoesOn
<1>6. SeenInv'
  BY <1>1 DEF LoopInv, SeenInv, Open
<1>7. QED
  BY <1>1, <1>2, <1>3, <1>4, <1>5, <1>6 DEF LoopInv, ReasonInv

\* Closing a connection frees its entry, and ends the batch.
LEMMA CompletedKeeps == LoopInv /\ completedfd => LoopInv'
<1> SUFFICES ASSUME LoopInv, completedfd PROVE LoopInv'
  OBVIOUS
<1>1. /\ pc = "completedfd" /\ pc \in Handlers /\ events' = <<>> /\ pc' = "wait"
      /\ sock' = [sock EXCEPT ![fd] = Closed] /\ interest' = [interest EXCEPT ![fd] = {}]
      /\ ready' = ready \ {fd} /\ UNCHANGED <<backlog, accepted>> /\ take_connection(fd)
  BY DEF completedfd, GiveUpBatch, Handlers
<1>2. fd \in Fd /\ fd \in Entries(pool) /\ get_connection(fd) # NULL
  BY <1>1, InHand DEF cn
<1>3. pool' = [pool EXCEPT ![fd] = NULL] /\ active_count' = active_count - 1
  BY <1>1, <1>2 DEF take_connection
<1>4. Entries(pool') = Entries(pool) \ {fd} /\ DOMAIN pool' = DOMAIN pool
  BY <1>2, <1>3 DEF Entries
<1>5. \A j \in Entries(pool') : pool'[j] = pool[j]
  BY <1>3, <1>4 DEF Entries
<1>6. Closed \in SockType /\ Closed.id = 0
  BY BoundAssumption DEF Closed, SockType
<1>7. \A f \in Fd : sock'[f] = IF f = fd THEN Closed ELSE sock[f]
  BY <1>1 DEF LoopInv, KernelInv
<1>8. \A f \in Fd : Open(f)' <=> Open(f) /\ f # fd
  BY <1>6, <1>7 DEF Open
<1>9. KernelInv'
  <2>1. sock' \in [Fd -> SockType]
    BY <1>1, <1>6 DEF LoopInv, KernelInv
  <2>2. interest' \in [Fd -> SUBSET {"IN", "OUT", "RDHUP"}] /\ ready' \subseteq Fd \cup {0}
    BY <1>1 DEF LoopInv, KernelInv
  <2>3. \A f \in Fd : IF Open(f)' THEN "IN" \in interest'[f] ELSE interest'[f] = {}
    BY <1>1, <1>8 DEF LoopInv, KernelInv
  <2>4. QED
    BY <1>1, <2>1, <2>2, <2>3 DEF LoopInv, KernelInv
<1>10. PoolInv'
  <2>1. active_count' = Cardinality(Entries(pool'))
    <3>1. Cardinality(Entries(pool) \ {fd}) = Cardinality(Entries(pool)) - 1
      BY <1>2, EntriesFinite, FS_RemoveElement DEF LoopInv
    <3>2. QED
      BY <1>3, <1>4, <3>1 DEF LoopInv, PoolInv
  <2>2. size' = size
    BY <1>4 DEF size
  <2>3. Entries(pool') \subseteq Fd
        /\ \A j \in Entries(pool') : pool'[j] \in ConnType /\ BuffersFit(pool'[j])
    BY <1>4, <1>5 DEF LoopInv, PoolInv
  <2>4. QED
    BY <1>4, <2>1, <2>2, <2>3 DEF LoopInv, PoolInv
<1>11. OpenServed'
  BY <1>4, <1>5, <1>7, <1>8 DEF LoopInv, OpenServed
<1>12. ClosedFree'
  BY <1>4, <1>8 DEF LoopInv, ClosedFree, PoolInv
<1>13. BatchInv' /\ ControlInv' /\ ReasonInv'
  BY <1>1 DEF BatchInv, ControlInv, ReasonInv, Handlers
<1>14. SeenInv'
  <2>1. SUFFICES ASSUME NEW f \in Fd, Open(f)' PROVE pool'[f].seen = pool'[f].rb_size
    BY DEF SeenInv
  <2>2. Open(f) /\ f # fd /\ f \in Entries(pool')
    BY <1>4, <1>8, <2>1 DEF LoopInv, OpenServed
  <2>3. QED
    BY <1>5, <2>2 DEF LoopInv, SeenInv
<1>15. QED
  BY <1>9, <1>10, <1>11, <1>12, <1>13, <1>14 DEF LoopInv

-----------------------------------------------------------------------------
(* Accepting.                                                              *)

\* accept gives a descriptor that is free.
LEMMA FreeGiven == FreeFds # {} => cfd \in FreeFds
<1> SUFFICES ASSUME FreeFds # {} PROVE cfd \in FreeFds
  OBVIOUS
<1>1. FreeFds \in SUBSET Nat
  BY FdAssumption DEF FreeFds
<1>2. \E f \in FreeFds : \A g \in FreeFds : f <= g
  BY <1>1, LeastNumber
<1>3. QED
  BY <1>2, Zenon DEF cfd

\* A connection is created where there is none that is open; the entry is taken
\* over, added, or makes the pool grow.
LEMMA CreateKeeps ==
  ASSUME PoolInv, NEW f \in Fd, NEW c \in ConnType, BuffersFit(c), create_connection(f, c)
  PROVE  /\ PoolInv' /\ Entries(pool') = Entries(pool) \cup {f}
         /\ pool'[f] = c /\ \A j \in Entries(pool) : j # f => pool'[j] = pool[j]
<1>1. f \in Nat /\ c # NULL
  BY FdAssumption, NullAssumption
<1>2. \E n \in Nat \ {0} :
        /\ DOMAIN pool' = 0 .. n - 1 /\ f < n /\ size <= n
        /\ \A j \in 0 .. n - 1 : pool'[j] = IF j = f THEN c ELSE IF j < size THEN pool[j] ELSE NULL
  <2>1. CASE f < size
    <3>1. pool' = [pool EXCEPT ![f] = c]
      BY <2>1 DEF create_connection
    <3>2. QED
      BY <1>1, <2>1, <3>1 DEF PoolInv
  <2>2. CASE ~(f < size)
    <3>1. NewCap(f) \in Nat /\ NewCap(f) > f
      BY <1>1, NewCapHolds DEF PoolInv
    <3>2. pool' = [j \in 0 .. NewCap(f) - 1 |->
                    IF j = f THEN c ELSE IF j < size THEN pool[j] ELSE NULL]
      BY <2>2 DEF create_connection
    <3>3. QED
      BY <1>1, <2>2, <3>1, <3>2 DEF PoolInv
  <2>3. QED
    BY <2>1, <2>2
<1>3. PICK n \in Nat \ {0} :
        /\ DOMAIN pool' = 0 .. n - 1 /\ f < n /\ size <= n
        /\ \A j \in 0 .. n - 1 : pool'[j] = IF j = f THEN c ELSE IF j < size THEN pool[j] ELSE NULL
  BY <1>2
<1>4. Entries(pool') = Entries(pool) \cup {f}
  BY <1>1, <1>3 DEF PoolInv, Entries
<1>5. pool'[f] = c /\ \A j \in Entries(pool) : j # f => pool'[j] = pool[j]
  BY <1>1, <1>3 DEF PoolInv, Entries
<1>6. size' = n
  BY <1>3, SizeOf DEF size
<1>7. active_count' = Cardinality(Entries(pool'))
  <2>1. Cardinality(Entries(pool) \cup {f})
          = IF f \in Entries(pool) THEN Cardinality(Entries(pool))
                                   ELSE Cardinality(Entries(pool)) + 1
    BY EntriesFinite, FS_AddElement
  <2>2. get_connection(f) = NULL <=> f \notin Entries(pool)
    BY DEF get_connection, Entries
  <2>3. QED
    BY <1>4, <2>1, <2>2 DEF create_connection, Activated, PoolInv
<1>8. QED
  BY <1>3, <1>4, <1>5, <1>6, <1>7 DEF PoolInv

\* The accepted socket takes a free descriptor; where epoll_ctl fails only the
\* entry stays.
LEMMA AcceptOneKeeps == LoopInv /\ AcceptOne => LoopInv'
<1> SUFFICES ASSUME LoopInv, AcceptOne PROVE LoopInv'
  OBVIOUS
<1> DEFINE new == Connection(accepted + 1)
<1>1. /\ pc = "accept" /\ pc' = pc /\ events' = events
      /\ backlog > 0 /\ backlog' = backlog - 1 /\ accepted' = accepted + 1
      /\ FreeFds # {}
  BY DEF AcceptOne, GoOn
<1>2. cfd \in Fd /\ ~Open(cfd)
  BY <1>1, FreeGiven DEF FreeFds
<1>3. /\ backlog' \in Nat /\ accepted' \in Nat /\ backlog' + accepted' <= MaxConns
      /\ accepted + 1 \in 1 .. MaxConns
  BY <1>1, BoundAssumption DEF LoopInv, KernelInv
<1>4. new \in ConnType /\ BuffersFit(new) /\ new.id = accepted + 1 /\ new.seen = new.rb_size
  BY <1>3, BufferAssumption DEF Connection, ConnType, BuffersFit
<1> HIDE DEF new
<1>5. ControlInv' /\ ReasonInv'
  BY <1>1 DEF LoopInv, ControlInv, ReasonInv, Handlers, fd
<1>6. ASSUME UNCHANGED <<sock, interest, ready>> PROVE KernelInv'
  BY <1>3, <1>6 DEF LoopInv, KernelInv, Open
<1>7. CASE UNCHANGED <<sock, interest, ready, pool, active_count>>
  <2>1. PoolInv' /\ Entries(pool') = Entries(pool)
    BY <1>7, PoolSame DEF LoopInv
  <2>2. OpenServed' /\ ClosedFree' /\ BatchInv'
    BY <1>1, <1>7, <2>1, SocketsStay DEF Ended
  <2>3. SeenInv'
    BY <1>1, <1>7 DEF LoopInv, SeenInv, Open
  <2>4. QED
    BY <1>5, <1>6, <1>7, <2>1, <2>2, <2>3 DEF LoopInv
<1>8. ASSUME create_connection(cfd, new)
      PROVE  /\ PoolInv' /\ Entries(pool') = Entries(pool) \cup {cfd}
             /\ pool'[cfd] = new /\ \A j \in Entries(pool) : j # cfd => pool'[j] = pool[j]
  BY <1>2, <1>4, <1>8, CreateKeeps DEF LoopInv
<1>9. CASE Faults /\ create_connection(cfd, new) /\ UNCHANGED <<sock, interest, ready>>
  <2>1. \A f \in Fd : Open(f)' <=> Open(f)
    BY <1>9 DEF Open
  <2>2. OpenServed' /\ ClosedFree'
    BY <1>2, <1>8, <1>9, <2>1 DEF LoopInv, OpenServed, ClosedFree
  <2>3. BatchInv'
    BY <1>1, <1>9, <2>1, BatchKept DEF LoopInv, Ended
  <2>4. SeenInv'
    BY <1>1, <1>2, <1>8, <1>9, <2>1 DEF LoopInv, SeenInv, OpenServed
  <2>5. QED
    BY <1>5, <1>6, <1>8, <1>9, <2>2, <2>3, <2>4 DEF LoopInv
<1>10. CASE /\ create_connection(cfd, new)
            /\ \E in \in 0 .. MaxIn :
                 /\ sock' = [sock EXCEPT ![cfd] = [id |-> accepted + 1, in |-> in, fin |-> FALSE,
                                                   rst |-> FALSE, room |-> MaxRoom]]
                 /\ interest' = [interest EXCEPT ![cfd] = {"IN"}]
                 /\ ready' = IF in > 0 THEN ready \cup {cfd} ELSE ready
  <2>1. PICK in \in 0 .. MaxIn :
          /\ sock' = [sock EXCEPT ![cfd] = [id |-> accepted + 1, in |-> in, fin |-> FALSE,
                                            rst |-> FALSE, room |-> MaxRoom]]
          /\ interest' = [interest EXCEPT ![cfd] = {"IN"}]
          /\ ready' = IF in > 0 THEN ready \cup {cfd} ELSE ready
    BY <1>10
  <2> DEFINE so == [id |-> accepted + 1, in |-> in, fin |-> FALSE, rst |-> FALSE, room |-> MaxRoom]
  <2>2. so \in SockType /\ so.id = accepted + 1 /\ so.id # 0
    BY <1>3, BoundAssumption DEF SockType
  <2>3. sock' = [sock EXCEPT ![cfd] = so]
    BY <2>1
  <2> HIDE DEF so
  <2>4. \A f \in Fd : sock'[f] = IF f = cfd THEN so ELSE sock[f]
    BY <1>2, <2>3 DEF LoopInv, KernelInv
  <2>5. \A f \in Fd : Open(f)' <=> Open(f) \/ f = cfd
    BY <2>2, <2>4 DEF Open
  <2>6. KernelInv'
    <3>1. sock' \in [Fd -> SockType]
      BY <2>2, <2>3 DEF LoopInv, KernelInv
    <3>2. /\ interest' \in [Fd -> SUBSET {"IN", "OUT", "RDHUP"}] /\ ready' \subseteq Fd \cup {0}
          /\ \A f \in Fd : IF Open(f)' THEN "IN" \in interest'[f] ELSE interest'[f] = {}
      BY <1>2, <2>1, <2>5 DEF LoopInv, KernelInv
    <3>3. QED
      BY <1>3, <3>1, <3>2 DEF LoopInv, KernelInv
  <2>7. OpenServed'
    BY <1>2, <1>4, <1>8, <1>10, <2>2, <2>4, <2>5 DEF LoopInv, OpenServed
  <2>8. ClosedFree'
    BY <1>2, <1>8, <1>10, <2>5 DEF LoopInv, ClosedFree, PoolInv
  <2>9. BatchInv'
    <3>1. \A f \in Fd : Open(f) => Open(f)' /\ (Ended(f) => Ended(f)')
      BY <1>2, <2>4, <2>5 DEF Ended
    <3>2. QED
      BY <1>1, <3>1, BatchKept DEF LoopInv
  <2>10. SeenInv'
    BY <1>1, <1>2, <1>4, <1>8, <1>10, <2>5 DEF LoopInv, SeenInv, OpenServed
  <2>11. QED
    BY <1>5, <1>8, <1>10, <2>6, <2>7, <2>8, <2>9, <2>10 DEF LoopInv
<1>11. QED
  BY <1>7, <1>9, <1>10 DEF AcceptOne, new

-----------------------------------------------------------------------------
(* The batch, and the clients.                                             *)

\* epoll_wait reports what is so.
LEMMA WaitKeepsLoop == LoopInv /\ epoll_wait => LoopInv'
<1> SUFFICES ASSUME LoopInv, epoll_wait PROVE LoopInv'
  OBVIOUS
<1> DEFINE R == {f \in ready : Events(f) # {}}
<1>1. /\ pc = "wait" /\ pc' = "next" /\ ready' = {}
      /\ UNCHANGED <<backlog, accepted, sock, interest, pool, active_count>>
  BY DEF epoll_wait
<1>2. PICK order \in [1 .. Cardinality(R) -> R] :
        events' = [m \in DOMAIN order |-> [fd |-> order[m], ev |-> Events(order[m])]]
  BY DEF epoll_wait
<1>3. ASSUME NEW f \in R
      PROVE  /\ [fd |-> f, ev |-> Events(f)] \in EventType
             /\ f # 0 => Open(f) /\ (Events(f) \cap {"RDHUP", "ERR"} # {} => Ended(f))
  <2>1. f \in Fd \cup {0} /\ Events(f) # {}
    BY DEF LoopInv, KernelInv
  <2>2. CASE f = 0
    BY <2>2 DEF Events, EventType
  <2>3. CASE f # 0
    <3>1. f \in Fd /\ Events(f) = EventsOf(sock[f], interest[f])
      BY <2>1, <2>3 DEF Events
    <3>2. interest[f] \in SUBSET {"IN", "OUT", "RDHUP"}
      BY <3>1 DEF LoopInv, KernelInv
    <3>3. interest[f] # {}
      BY <2>1, <3>1 DEF EventsOf
    <3>4. Open(f)
      BY <3>1, <3>3 DEF LoopInv, KernelInv
    <3>5. Events(f) \in SUBSET {"IN", "OUT", "RDHUP", "ERR"}
      BY <3>1, <3>2 DEF EventsOf
    <3>6. Events(f) \cap {"RDHUP", "ERR"} # {} => Ended(f)
      BY <3>1 DEF EventsOf, Ended
    <3>7. QED
      BY <2>1, <3>4, <3>5, <3>6 DEF EventType
  <2>4. QED
    BY <2>2, <2>3
<1>4. Cardinality(R) \in Nat
  <2>1. IsFiniteSet(Fd \cup {0})
    BY FdAssumption, FS_AddElement
  <2>2. R \in SUBSET (Fd \cup {0})
    BY DEF LoopInv, KernelInv
  <2>3. QED
    BY <2>1, <2>2, FS_Subset, FS_CardinalityType
<1> DEFINE n == Cardinality(R)
           e(m) == [fd |-> order[m], ev |-> Events(order[m])]
<1>5. ASSUME NEW m \in 1 .. n PROVE e(m) \in EventType /\ order[m] \in R
  BY <1>2, <1>3
<1>6. events' = [m \in 1 .. n |-> e(m)]
  BY <1>2
<1> HIDE DEF e, n, R
<1>7. events' \in Seq(EventType) /\ Len(events') = n
  BY <1>4, <1>5, <1>6 DEF n
<1>8. BatchInv'
  <2>1. ASSUME NEW m \in 1 .. n, NEW x \in EventType, x = e(m), x.fd # 0
        PROVE  Open(x.fd)' /\ (x.ev \cap {"RDHUP", "ERR"} # {} => Ended(x.fd)')
    <3>1. x.fd = order[m] /\ x.ev = Events(order[m]) /\ order[m] \in R
      BY <1>5, <2>1 DEF e
    <3>2. Open(x.fd) /\ (x.ev \cap {"RDHUP", "ERR"} # {} => Ended(x.fd))
      BY <1>3, <2>1, <3>1
    <3>3. QED
      BY <1>1, <3>2 DEF Open, Ended
  <2>2. ASSUME NEW m \in 1 .. n PROVE events'[m] = e(m) /\ e(m) \in EventType
    BY <1>5, <1>6
  <2>3. ASSUME NEW m \in 1 .. n, NEW x \in EventType, x = events'[m], x.fd # 0
        PROVE  Open(x.fd)' /\ (x.ev \cap {"RDHUP", "ERR"} # {} => Ended(x.fd)')
    BY <2>1, <2>2, <2>3
  <2>4. QED
    BY <1>7, <2>2, <2>3 DEF BatchInv
<1>9. KernelInv'
  BY <1>1 DEF LoopInv, KernelInv, Open
<1>10. PoolInv' /\ Entries(pool') = Entries(pool)
  BY <1>1, PoolSame DEF LoopInv
<1>11. OpenServed' /\ ClosedFree'
  BY <1>1, <1>10 DEF LoopInv, OpenServed, ClosedFree, Open
<1>12. ControlInv' /\ ReasonInv'
  BY <1>1 DEF ControlInv, ReasonInv, Handlers
<1>13. SeenInv'
  BY <1>1 DEF LoopInv, SeenInv, Open
<1>14. QED
  BY <1>8, <1>9, <1>10, <1>11, <1>12, <1>13 DEF LoopInv

\* Clients change sockets, but neither open nor close one here, and their end is
\* not taken back.
LEMMA ClientsKeep == LoopInv /\ Clients /\ UNCHANGED lvars => LoopInv'
<1> SUFFICES ASSUME LoopInv, Clients, UNCHANGED lvars PROVE LoopInv'
  OBVIOUS
<1>1. UNCHANGED <<pool, active_count, events, pc>> /\ fd' = fd
  BY DEF lvars, fd
<1>2. /\ KernelInv'
      /\ \A f \in Fd : sock'[f].id = sock[f].id /\ (Ended(f) => Ended(f)')
  <2>1. CASE Connect
    <3>1. UNCHANGED <<sock, accepted, interest>> /\ backlog' = backlog + 1
          /\ backlog + accepted < MaxConns /\ ready' = ready \cup {0}
      BY <2>1 DEF Connect
    <3>2. KernelInv'
      BY <3>1, BoundAssumption DEF LoopInv, KernelInv, Open
    <3>3. QED
      BY <3>1, <3>2 DEF Ended
  <2>2. ASSUME NEW f \in Fd, Send(f) \/ Fin(f) \/ Reset(f) \/ Drain(f)
        PROVE  /\ KernelInv'
               /\ \A g \in Fd : sock'[g].id = sock[g].id /\ (Ended(g) => Ended(g)')
    <3>1. sock[f] \in SockType
      BY DEF LoopInv, KernelInv
    <3>2. UNCHANGED <<backlog, accepted, interest>> /\ ready' \subseteq ready \cup {f}
      BY <2>2 DEF Send, Fin, Reset, Drain, Wake
    <3>3. \E so \in SockType : /\ sock' = [sock EXCEPT ![f] = so] /\ so.id = sock[f].id
                               /\ Ended(f) => so.fin \/ so.rst
      <4>1. CASE Send(f)
        <5> DEFINE so == [sock[f] EXCEPT !.in = @ + 1]
        <5>1. sock' = [sock EXCEPT ![f] = so] /\ sock[f].in < MaxIn
          BY <4>1 DEF Send
        <5>2. so \in SockType /\ so.id = sock[f].id /\ so.fin = sock[f].fin /\ so.rst = sock[f].rst
          BY <3>1, <5>1, BoundAssumption DEF SockType
        <5>3. QED
          BY <5>1, <5>2 DEF Ended
      <4>2. CASE Fin(f)
        <5> DEFINE so == [sock[f] EXCEPT !.fin = TRUE]
        <5>1. sock' = [sock EXCEPT ![f] = so]
          BY <4>2 DEF Fin
        <5>2. so \in SockType /\ so.id = sock[f].id /\ so.fin
          BY <3>1 DEF SockType
        <5>3. QED
          BY <5>1, <5>2
      <4>3. CASE Reset(f)
        <5> DEFINE so == [sock[f] EXCEPT !.rst = TRUE, !.in = 0]
        <5>1. sock' = [sock EXCEPT ![f] = so]
          BY <3>1, <4>3 DEF Reset, LoopInv, KernelInv, SockType
        <5>2. 0 \in 0 .. MaxIn
          BY BoundAssumption
        <5>3. so \in SockType /\ so.id = sock[f].id /\ so.rst
          BY <3>1, <5>2 DEF SockType
        <5>4. QED
          BY <5>1, <5>3
      <4>4. CASE Drain(f)
        <5> DEFINE so == [sock[f] EXCEPT !.room = @ + 1]
        <5>1. sock' = [sock EXCEPT ![f] = so] /\ sock[f].room < MaxRoom
          BY <4>4 DEF Drain
        <5>2. so \in SockType /\ so.id = sock[f].id /\ so.fin = sock[f].fin /\ so.rst = sock[f].rst
          BY <3>1, <5>1, BoundAssumption DEF SockType
        <5>3. QED
          BY <5>1, <5>2 DEF Ended
      <4>5. QED
        BY <2>2, <4>1, <4>2, <4>3, <4>4
    <3>4. PICK so \in SockType : /\ sock' = [sock EXCEPT ![f] = so] /\ so.id = sock[f].id
                                 /\ Ended(f) => so.fin \/ so.rst
      BY <3>3
    <3>5. \A g \in Fd : sock'[g] = IF g = f THEN so ELSE sock[g]
      BY <3>4 DEF LoopInv, KernelInv
    <3>6. \A g \in Fd : sock'[g].id = sock[g].id /\ (Ended(g) => Ended(g)')
      BY <3>4, <3>5 DEF Ended
    <3>7. KernelInv'
      BY <3>2, <3>4, <3>6 DEF LoopInv, KernelInv, Open
    <3>8. QED
      BY <3>6, <3>7
  <2>3. QED
    BY <2>1, <2>2 DEF Clients
<1>3. PoolInv' /\ Entries(pool') = Entries(pool)
  BY <1>1, PoolSame DEF LoopInv
<1>4. OpenServed' /\ ClosedFree' /\ BatchInv'
  BY <1>1, <1>2, <1>3, SocketsStay
<1>5. ControlInv'
  BY <1>1 DEF LoopInv, ControlInv
<1>6. SeenInv'
  BY <1>1, <1>2 DEF LoopInv, SeenInv, Open
<1>7. ReasonInv'
  <2>1. pc = "completedfd" => fd \in Fd
    BY InHand DEF Handlers
  <2>2. QED
    BY <1>1, <1>2, <2>1 DEF LoopInv, ReasonInv, TooBig, Crowded
<1>8. QED
  BY <1>2, <1>3, <1>4, <1>5, <1>6, <1>7 DEF LoopInv

-----------------------------------------------------------------------------
(* The invariant holds, and what follows from it.                          *)

LEMMA LoopInitInv == Init => LoopInv
<1> SUFFICES ASSUME Init PROVE LoopInv
  OBVIOUS
<1>1. /\ backlog = 0 /\ accepted = 0 /\ sock = [f \in Fd |-> Closed]
      /\ interest = [f \in Fd |-> {}] /\ ready = {} /\ events = <<>> /\ pc = "wait"
      /\ active_count = 0 /\ pool = [j \in 0 .. PoolSize - 1 |-> NULL]
  BY DEF Init, KernelInit
<1>2. Closed \in SockType /\ Closed.id = 0
  BY BoundAssumption DEF Closed, SockType
<1>3. \A f \in Fd : ~Open(f)
  BY <1>1, <1>2 DEF Open
<1>4. KernelInv
  BY <1>1, <1>2, <1>3, BoundAssumption DEF KernelInv
<1>5. Entries(pool) = {}
  BY <1>1 DEF Entries
<1>6. size = PoolSize
  BY <1>1, PoolAssumption, SizeOf DEF size
<1>7. PoolInv
  BY <1>1, <1>5, <1>6, PoolAssumption, FS_EmptySet DEF PoolInv
<1>8. OpenServed /\ ClosedFree /\ SeenInv
  BY <1>3, <1>5 DEF OpenServed, ClosedFree, SeenInv
<1>9. BatchInv /\ ControlInv /\ ReasonInv
  BY <1>1 DEF BatchInv, ControlInv, ReasonInv, Handlers
<1>10. QED
  BY <1>4, <1>7, <1>8, <1>9 DEF LoopInv

LEMMA LoopStepInv == LoopInv /\ [Next]_vars => LoopInv'
<1> SUFFICES ASSUME LoopInv, [Next]_vars PROVE LoopInv'
  OBVIOUS
<1>1. CASE Loop
  BY <1>1, WaitKeepsLoop, DispatchKeeps, AcceptOneKeeps, AcceptNoMoreKeeps, DecisionsKeep,
     ReadSomeKeeps, ReadEndsKeeps, ReadAgainKeeps, WriteSomeKeeps, RegisterKeeps,
     OnHupKeeps, CompletedKeeps DEF Loop
<1>2. CASE Clients /\ UNCHANGED lvars
  BY <1>2, ClientsKeep
<1>3. CASE UNCHANGED vars
  <2>1. UNCHANGED <<backlog, accepted, sock, interest, ready>>
        /\ UNCHANGED <<pool, active_count>> /\ events' = events /\ pc' = pc /\ fd' = fd
    BY <1>3 DEF vars, fd
  <2>2. ControlInv'
    BY <2>1 DEF LoopInv, ControlInv
  <2>3. SeenInv'
    BY <2>1 DEF LoopInv, SeenInv, Open
  <2>4. ReasonInv'
    BY <2>1 DEF LoopInv, ReasonInv, Ended, TooBig, Crowded
  <2>5. QED
    BY <2>1, <2>2, <2>3, <2>4, OnlyControl DEF kvars
<1>4. QED
  BY <1>1, <1>2, <1>3 DEF Next

\* Sockets, pool, batch and control of the server agree in every state, for any
\* number of connections, clients that do what they like and calls that fail.
THEOREM LoopInvariant == Spec => []LoopInv
<1>1. Init => LoopInv
  BY LoopInitInv
<1>2. LoopInv /\ [Next]_vars => LoopInv'
  BY LoopStepInv
<1>3. QED
  BY <1>1, <1>2, PTL DEF Spec

\* A handler always has its connection, and neither buffer runs over.
THEOREM LoopTypeCorrect == Spec => []LoopTypeOK
<1>1. LoopInv => LoopTypeOK
  <2> SUFFICES ASSUME LoopInv PROVE LoopTypeOK
    OBVIOUS
  <2>1. backlog \in 0 .. MaxConns /\ accepted \in 0 .. MaxConns
    BY BoundAssumption DEF LoopInv, KernelInv
  <2>2. \A j \in DOMAIN pool : pool[j] = NULL \/ pool[j] \in ConnType
    BY DEF LoopInv, PoolInv, Entries
  <2>3. \A m \in DOMAIN events : events[m].fd \in Fd \cup {0}
    <3>1. events \in Seq(EventType)
      BY DEF LoopInv, BatchInv
    <3>2. \A m \in DOMAIN events : events[m] \in EventType
      BY <3>1
    <3>3. QED
      BY <3>2 DEF EventType
  <2>4. pc \notin {"wait", "next", "accept", "completedfd"} =>
          cn # NULL /\ BuffersFit(cn)
    BY InHand DEF LoopInv, ControlInv
  <2>5. QED
    BY <2>1, <2>2, <2>3, <2>4
    DEF LoopInv, KernelInv, PoolInv, ControlInv, LoopTypeOK, Handlers, BuffersFit
<1>2. QED
  BY <1>1, LoopInvariant, PTL

\* Whatever fails, no open socket is served through another's entry, and
\* active_count counts the entries.
THEOREM PoolServesCorrect == Spec => []PoolServes
<1>1. LoopInv => PoolServes
  BY GetEntry DEF LoopInv, OpenServed, PoolInv, PoolServes, Entries
<1>2. QED
  BY <1>1, LoopInvariant, PTL

\* Where nothing fails, the pool describes exactly the open sockets.
THEOREM PoolExactCorrect == ASSUME ~Faults PROVE Spec => []PoolExact
<1>1. LoopInv => PoolExact
  <2> SUFFICES ASSUME LoopInv PROVE PoolExact
    OBVIOUS
  <2>1. ASSUME NEW f \in Fd, Open(f)
        PROVE  /\ get_connection(f) # NULL /\ get_connection(f).id = sock[f].id
               /\ "IN" \in interest[f]
    BY <2>1, GetEntry DEF LoopInv, OpenServed, KernelInv
  <2>2. ASSUME NEW f \in Fd, ~Open(f) PROVE get_connection(f) = NULL
    BY <2>2, GetNone DEF LoopInv, ClosedFree
  <2>3. active_count = Cardinality({j \in DOMAIN pool : pool[j] # NULL})
    BY DEF LoopInv, PoolInv, Entries
  <2>4. QED
    BY <2>1, <2>2, <2>3 DEF PoolExact
<1>2. QED
  BY <1>1, LoopInvariant, PTL

\* Where nothing fails, a connection is given up only when its client ended it or
\* its buffer may not grow.
THEOREM ClosedForReasonCorrect == ASSUME ~Faults PROVE Spec => []ClosedForReason
<1>1. LoopInv => ClosedForReason
  <2> SUFFICES ASSUME LoopInv, pc = "completedfd"
               PROVE  s.fin \/ s.rst \/ (get_connection(fd) # NULL /\ TooBig(cn))
    BY DEF ClosedForReason
  <2>1. cn = pool[fd] /\ cn # NULL
    BY InHand DEF Handlers
  <2>2. Ended(fd) \/ TooBig(cn)
    BY <2>1 DEF LoopInv, ReasonInv
  <2>3. QED
    BY <2>1, <2>2 DEF cn, s, Ended
<1>2. QED
  BY <1>1, LoopInvariant, PTL

\* Whenever the thread sleeps, on_read has been shown every byte read.
THEOREM NothingUnseenCorrect == Spec => []NothingUnseen
<1>1. LoopInv => NothingUnseen
  BY GetEntry DEF LoopInv, OpenServed, SeenInv, NothingUnseen
<1>2. QED
  BY <1>1, LoopInvariant, PTL

=============================================================================
