------------------------------ MODULE EventLoop ------------------------------
(***************************************************************************)
(* epollrun of server_/noblock_sserver.c, its connection pool and writere. *)
(* One thread takes a batch of events from epoll_wait and handles them one *)
(* by one; between two of its steps the clients may do anything.  The      *)
(* callbacks are the application's: on_read leaves the buffer as it is,    *)
(* on_writer puts some bytes, or none, behind those still unsent.          *)
(***************************************************************************)
EXTENDS Epoll

CONSTANTS NULL,       \* no connection
          PoolSize,   \* create_pool's init_cap
          RbDefault,  \* BUFFER_SIZE_DEFAULT
          RbMax,      \* BUFFER_SIZE_MAX
          WbMax,      \* bound on the bytes in a write buffer
          Faults      \* whether allocations, accept and epoll_ctl may fail

ASSUME PoolAssumption   == PoolSize \in Nat \ {0} /\ Faults \in BOOLEAN
ASSUME BufferAssumption == /\ RbDefault \in Nat /\ RbDefault >= 2
                           /\ RbMax \in Nat /\ RbDefault < RbMax
                           /\ WbMax \in Nat

VARIABLES pool,          \* pool->connections, indexed from 0
          active_count,  \* pool->active_count
          events,        \* the rest of the batch, the event in hand first
          pc,            \* where epollrun stands
          dropped        \* sockets (0: the listening one) whose event was given
                         \* up and that have had no other since

lvars == <<pool, active_count, events, pc, dropped>>
vars  == <<backlog, accepted, sock, interest, ready, pool, active_count, events, pc, dropped>>

\* seen is a history variable: how many bytes on_read was last shown.
Connection(id) == [id |-> id, rb_size |-> 0, rb_cap |-> RbDefault, seen |-> 0,
                   wb_limit |-> 0, wb_offset |-> 0]

ConnType == [id : 1 .. MaxConns, rb_size : Nat, rb_cap : Nat, seen : Nat,
             wb_limit : 0 .. WbMax, wb_offset : 0 .. WbMax]

ASSUME NullAssumption == NULL \notin ConnType

size == Cardinality(DOMAIN pool)
fd   == Head(events).fd
ev   == Head(events).ev

\* Lets c be the connection of the event in hand.
Update(c) == pool' = [pool EXCEPT ![fd] = c]

-----------------------------------------------------------------------------
(* The pool.                                                               *)

get_connection(f) == IF f \in DOMAIN pool THEN pool[f] ELSE NULL

\* Mutant: doubling stops at f, which a pool of that size has no entry for.
NewCapOffByOne(f) ==
  LET doubled[c \in Nat \ {0}] == IF c >= f THEN c ELSE doubled[2 * c] IN doubled[2 * size]

\* The capacity is doubled at least once, and until it is greater than f.
NewCap(f) ==
  LET doubled[c \in Nat \ {0}] == IF c > f THEN c ELSE doubled[2 * c] IN doubled[2 * size]

\* Mutant: each connection created counts.
ActivatedAlways(f) == active_count + 1

\* A connection that takes an entry over is not counted again.
Activated(f) == IF get_connection(f) = NULL THEN active_count + 1 ELSE active_count

create_connection(f, c) ==
  /\ pool' = IF f < size
               THEN [pool EXCEPT ![f] = c]
               ELSE [j \in 0 .. NewCap(f) - 1 |->
                       IF j = f THEN c ELSE IF j < size THEN pool[j] ELSE NULL]
  /\ active_count' = Activated(f)

take_connection(f) ==
  IF get_connection(f) = NULL
    THEN UNCHANGED <<pool, active_count>>
    ELSE pool' = [pool EXCEPT ![f] = NULL] /\ active_count' = active_count - 1

-----------------------------------------------------------------------------
(* The batch.                                                              *)

IdOf(f) == IF f = 0 THEN 0 ELSE sock[f].id

\* epoll_wait: everything on the ready list, in any order.
epoll_wait ==
  LET R == {f \in ready : Events(f) # {}} IN
    /\ pc = "wait" /\ R # {}
    /\ \E order \in [1 .. Cardinality(R) -> R] :
         /\ \A f \in R : \E m \in DOMAIN order : order[m] = f
         /\ events' = [m \in DOMAIN order |->
                         [fd |-> order[m], ev |-> Events(order[m])]]
    /\ ready' = {}
    /\ dropped' = dropped \ {IdOf(f) : f \in R}
    /\ pc' = "next"
    /\ UNCHANGED <<backlog, accepted, sock, interest, pool, active_count>>

\* The next event, or the end of the batch.
Dispatch ==
  /\ pc = "next"
  /\ pc' = IF events = <<>> THEN "wait"
           ELSE IF fd = 0 THEN "accept"
           ELSE IF get_connection(fd) = NULL THEN "completedfd"
           ELSE IF "IN" \in ev THEN "read" ELSE "out"
  /\ UNCHANGED <<kvars, pool, active_count, events, dropped>>

Done == events' = Tail(events) /\ pc' = "next"

\* `break`: the rest of the batch is given up.
GiveUpBatch ==
  /\ events' = <<>>
  /\ pc' = "wait"
  /\ dropped' = dropped \cup {IdOf(events[m].fd) : m \in 2 .. Len(events)}

\* destroy_connection(take_connection()), epoll_ctl(DEL), close.
completedfd ==
  /\ pc = "completedfd"
  /\ take_connection(fd)
  /\ sock' = [sock EXCEPT ![fd] = Closed]
  /\ interest' = [interest EXCEPT ![fd] = {}]
  /\ ready' = ready \ {fd}
  /\ GiveUpBatch
  /\ UNCHANGED <<backlog, accepted>>

-----------------------------------------------------------------------------
(* Accepting.                                                              *)

\* accept gives the lowest free descriptor.
FreeFds == {f \in Fd : ~Open(f)}
cfd     == CHOOSE f \in FreeFds : \A g \in FreeFds : f <= g

\* Mutant: one accept for each event.
GoOnOnce == Done

\* `continue`: accept again.
GoOn == UNCHANGED <<events, pc>>

\* accept, create_connection, epoll_ctl(ADD): each may fail, and the loop goes
\* on with the next connection.  Bytes may be waiting already.
AcceptOne ==
  /\ pc = "accept" /\ backlog > 0 /\ FreeFds # {}
  /\ GoOn
  /\ backlog' = backlog - 1
  /\ accepted' = accepted + 1
  /\ \/ /\ create_connection(cfd, Connection(accepted + 1))
        /\ \E in \in 0 .. MaxIn :
             /\ sock' = [sock EXCEPT ![cfd] = [id |-> accepted + 1, in |-> in, fin |-> FALSE,
                                               rst |-> FALSE, room |-> MaxRoom]]
             /\ interest' = [interest EXCEPT ![cfd] = {"IN"}]
             /\ ready' = IF in > 0 THEN ready \cup {cfd} ELSE ready
     \/ /\ Faults
        /\ create_connection(cfd, Connection(accepted + 1))
        /\ UNCHANGED <<sock, interest, ready>>
     \/ /\ Faults
        /\ UNCHANGED <<sock, interest, ready, pool, active_count>>
  /\ UNCHANGED dropped

\* EAGAIN, or an error that leaves connections in the backlog.
AcceptNoMore ==
  /\ pc = "accept"
  /\ \/ backlog = 0 /\ dropped' = dropped
     \/ backlog > 0 /\ (FreeFds = {} \/ Faults) /\ dropped' = dropped \cup {0}
  /\ Done
  /\ UNCHANGED <<kvars, pool, active_count>>

-----------------------------------------------------------------------------
(* Reading.                                                                *)

cn == get_connection(fd)
s  == sock[fd]

\* Mutant: the buffer grows only when less than a quarter is free.
CrowdedQuarter(c) == c.rb_cap - c.rb_size < c.rb_cap \div 4

\* Less than half of the buffer is free.
Crowded(c) == c.rb_cap - c.rb_size < c.rb_cap \div 2

\* Mutant: the old capacity is compared with the maximum.
TooBigAfter(c) == Crowded(c) /\ c.rb_cap >= RbMax

\* The buffer after the check that precedes each read.
Grown(c) == IF Crowded(c) THEN [c EXCEPT !.rb_cap = 2 * @] ELSE c
TooBig(c) == Crowded(c) /\ 2 * c.rb_cap >= RbMax

\* The buffer may not, or cannot, grow: the latter calls on_read once more.
ReadGivesUp ==
  /\ pc = "read"
  /\ TooBig(cn) \/ (Crowded(cn) /\ Faults)
  /\ pc' = "completedfd"
  /\ UNCHANGED <<kvars, pool, active_count, events, dropped>>

\* Mutant: one read for each event.
ReadOnOnce == pc' = "out"

\* read() returns n > 0 bytes, and is called again.
ReadOn == pc' = "read"

ReadSome ==
  /\ pc = "read" /\ ~TooBig(cn) /\ ~s.rst
  /\ \E n \in 1 .. s.in :
       /\ n <= Grown(cn).rb_cap - cn.rb_size
       /\ Update([Grown(cn) EXCEPT !.rb_size = @ + n])
       /\ sock' = [sock EXCEPT ![fd].in = @ - n]
  /\ ReadOn
  /\ UNCHANGED <<backlog, accepted, interest, ready, active_count, events, dropped>>

\* read() returns 0, as it also does when it is asked for 0 bytes, or fails.
ReadEnds ==
  /\ pc = "read" /\ ~TooBig(cn)
  /\ s.rst \/ (s.in = 0 /\ s.fin) \/ Grown(cn).rb_cap = cn.rb_size
  /\ Update(Grown(cn))
  /\ pc' = "completedfd"
  /\ UNCHANGED <<kvars, active_count, events, dropped>>

\* EAGAIN: on_read, on_writer.
ReadAgain ==
  /\ pc = "read" /\ ~TooBig(cn)
  /\ s.in = 0 /\ ~s.fin /\ ~s.rst
  /\ \E limit \in cn.wb_limit .. WbMax :
       Update([Grown(cn) EXCEPT !.seen = cn.rb_size, !.wb_limit = limit])
  /\ pc' = "writere_read"
  /\ UNCHANGED <<kvars, active_count, events, dropped>>

-----------------------------------------------------------------------------
(* Writing: writere after on_writer, and on EPOLLOUT.                       *)

After == IF pc \in {"writere_read", "blocked_read"} THEN "out" ELSE "hup"
InWritere == pc \in {"writere_read", "writere_out"}
Unsent(c) == c.wb_limit > c.wb_offset

\* Mutant: a change of interest reports only what happens after it.
ModLater(e) == interest' = [interest EXCEPT ![fd] = e] /\ ready' = ready

\* epoll_ctl(MOD) finds out whether fd is ready for its new interest.
Mod(e) == /\ interest' = [interest EXCEPT ![fd] = e]
          /\ ready' = IF EventsOf(sock'[fd], e) # {} THEN ready \cup {fd} ELSE ready

WriteNothing ==
  /\ InWritere /\ ~Unsent(cn)
  /\ pc' = After
  /\ UNCHANGED <<kvars, pool, active_count, events, dropped>>

\* send() returns n > 0; once all is sent the buffer starts over.
WriteSome ==
  /\ InWritere /\ Unsent(cn) /\ ~s.rst
  /\ \E n \in 1 .. s.room :
       /\ n <= cn.wb_limit - cn.wb_offset
       /\ sock' = [sock EXCEPT ![fd].room = @ - n]
       /\ IF cn.wb_offset + n < cn.wb_limit
            THEN /\ Update([cn EXCEPT !.wb_offset = @ + n])
                 /\ UNCHANGED <<interest, ready, pc>>
            ELSE /\ Update([cn EXCEPT !.wb_limit = 0, !.wb_offset = 0])
                 /\ \/ Mod({"IN", "RDHUP"}) /\ pc' = After
                    \/ Faults /\ UNCHANGED <<interest, ready>> /\ pc' = "completedfd"
  /\ UNCHANGED <<backlog, accepted, active_count, events, dropped>>

\* EAGAIN; a client may make room before epoll_ctl asks for EPOLLOUT.
WriteBlocked ==
  /\ InWritere /\ Unsent(cn) /\ ~s.rst /\ s.room = 0
  /\ pc' = IF pc = "writere_read" THEN "blocked_read" ELSE "blocked_out"
  /\ UNCHANGED <<kvars, pool, active_count, events, dropped>>

Register ==
  /\ pc \in {"blocked_read", "blocked_out"}
  /\ UNCHANGED sock
  /\ \/ Mod({"IN", "RDHUP", "OUT"}) /\ pc' = After
     \/ Faults /\ UNCHANGED <<interest, ready>> /\ pc' = "completedfd"
  /\ UNCHANGED <<backlog, accepted, pool, active_count, events, dropped>>

\* EPIPE and other errors.
WriteFails ==
  /\ InWritere /\ Unsent(cn) /\ s.rst
  /\ pc' = "completedfd"
  /\ UNCHANGED <<kvars, pool, active_count, events, dropped>>

-----------------------------------------------------------------------------
(* The rest of the handler.                                                *)

OnOut ==
  /\ pc = "out"
  /\ pc' = IF "OUT" \in ev THEN "writere_out" ELSE "hup"
  /\ UNCHANGED <<kvars, pool, active_count, events, dropped>>

OnHup ==
  /\ pc = "hup"
  /\ IF ev \cap {"RDHUP", "ERR"} # {}
       THEN pc' = "completedfd" /\ events' = events
       ELSE Done
  /\ UNCHANGED <<kvars, pool, active_count, dropped>>

Loop == \/ epoll_wait \/ Dispatch \/ AcceptOne \/ AcceptNoMore
        \/ ReadGivesUp \/ ReadSome \/ ReadEnds \/ ReadAgain
        \/ WriteNothing \/ WriteSome \/ WriteBlocked \/ Register \/ WriteFails
        \/ OnOut \/ OnHup \/ completedfd

Init == /\ KernelInit
        /\ pool = [j \in 0 .. PoolSize - 1 |-> NULL]
        /\ active_count = 0
        /\ events = <<>>
        /\ pc = "wait"
        /\ dropped = {}

Next == Loop \/ (Clients /\ UNCHANGED lvars)

Spec == Init /\ [][Next]_vars

\* The server's thread runs on; clients that let a response wait take it in the
\* end, and promise nothing else.
LiveSpec == Spec /\ WF_vars(Loop)
                 /\ \A f \in Fd : WF_vars(Drain(f) /\ UNCHANGED lvars)

-----------------------------------------------------------------------------
(* Properties.                                                             *)

\* Every variable has its type; the handler of a connection's event has that
\* connection, and neither buffer runs over.
LoopTypeOK ==
  /\ backlog \in 0 .. MaxConns /\ accepted \in 0 .. MaxConns
  /\ interest \in [Fd -> SUBSET {"IN", "OUT", "RDHUP"}] /\ ready \subseteq Fd \cup {0}
  /\ DOMAIN pool = 0 .. size - 1
  /\ \A j \in DOMAIN pool : pool[j] = NULL \/ pool[j] \in ConnType
  /\ \A m \in DOMAIN events : events[m].fd \in Fd \cup {0}
  /\ pc \in {"wait", "next", "accept", "read", "out", "hup", "completedfd",
             "writere_read", "writere_out", "blocked_read", "blocked_out"}
  /\ pc \notin {"wait", "next", "accept", "completedfd"} =>
       /\ cn # NULL
       /\ cn.rb_size <= cn.rb_cap /\ cn.rb_cap < RbMax
       /\ cn.wb_offset <= cn.wb_limit

\* The pool and the sockets agree, whatever was accepted, closed, reused and
\* grown: a descriptor's entry is the connection of the very socket it names,
\* an open socket has its entry and is watched, active_count counts them.
\* Where nothing fails.
PoolExact ==
  /\ \A f \in Fd : IF Open(f) THEN /\ get_connection(f) # NULL
                                    /\ get_connection(f).id = sock[f].id
                                    /\ "IN" \in interest[f]
                               ELSE get_connection(f) = NULL
  /\ active_count = Cardinality({j \in DOMAIN pool : pool[j] # NULL})

\* A connection is given up only if its client ended it, or its buffer is full:
\* read() is never called without room, which would look like a disconnect.
ClosedForReason ==
  pc = "completedfd" => \/ s.fin \/ s.rst
                        \/ get_connection(fd) # NULL /\ TooBig(cn)

\* No open socket is served through another's entry, also where accept,
\* create_connection and epoll_ctl fail: the entry that a failed EPOLL_CTL_ADD
\* leaves in the pool is taken over by the descriptor's next connection, and
\* active_count still counts the entries.
PoolServes ==
  /\ \A f \in Fd : Open(f) => get_connection(f) # NULL /\ get_connection(f).id = sock[f].id
  /\ active_count = Cardinality({j \in DOMAIN pool : pool[j] # NULL})

\* When the thread sleeps, on_read has been shown every byte read so far: no
\* request sits in a buffer until its client sends more.
NothingUnseen ==
  pc = "wait" => \A f \in Fd : Open(f) => get_connection(f).seen = get_connection(f).rb_size

\* Input that has arrived is read, or its connection closed, however the
\* clients' sends fall between the server's reads, unless its event was in a
\* batch that was given up.
Unread(id)  == \E f \in Fd : sock[f].id = id /\ sock[f].in > 0
InputServed == \A id \in 1 .. MaxConns : Unread(id) ~> (~Unread(id) \/ id \in dropped)

\* Clients in the backlog are accepted, unless accept failed or the listening
\* socket's event was in a batch that was given up.
BacklogServed == backlog > 0 ~> (backlog = 0 \/ 0 \in dropped)

\* A response that fills the send buffer is sent in the end, or its connection
\* closed, unless its event was in a batch that was given up.
Pending(id)   == \E f \in Fd : sock[f].id = id /\ get_connection(f) # NULL /\ Unsent(pool[f])
OutputFlushed == \A id \in 1 .. MaxConns : Pending(id) ~> (~Pending(id) \/ id \in dropped)

\* server_/noblock_sserver.c on a full send buffer: "register the write event
\* again and wait for the next time".  The next time comes.
BlockedOutputResumes == \A id \in 1 .. MaxConns : Pending(id) ~> ~Pending(id)

=============================================================================
