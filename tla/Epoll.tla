-------------------------------- MODULE Epoll --------------------------------
(***************************************************************************)
(* The kernel and the clients, as far as server_/noblock_sserver.c can     *)
(* tell: a listening socket with a backlog, one socket per descriptor, and *)
(* an epoll instance that watches them edge-triggered.  A watched          *)
(* descriptor enters the ready list when something happens to it that its  *)
(* interest covers, or when a change of interest finds it ready;           *)
(* epoll_wait reports what is true of it then and takes it off the list.   *)
(***************************************************************************)
EXTENDS Integers, FiniteSets, Sequences

CONSTANTS Fd,        \* the descriptors of connections; 0 is the listening socket
          MaxConns,  \* bound on the connections ever made (TLC)
          MaxIn,     \* bound on the bytes waiting in a socket to be read
          MaxRoom    \* the size of a socket's send buffer

ASSUME FdAssumption    == Fd \subseteq Nat \ {0} /\ IsFiniteSet(Fd)
ASSUME BoundAssumption == MaxConns \in Nat /\ MaxIn \in Nat \ {0} /\ MaxRoom \in Nat \ {0}

VARIABLES backlog,   \* connections waiting to be accepted
          accepted,  \* how many have been accepted
          sock,      \* each descriptor's socket
          interest,  \* what epoll watches it for; {} if it is not registered
          ready      \* the ready list

kvars == <<backlog, accepted, sock, interest, ready>>

\* id tells apart the sockets that one descriptor names one after the other.
Closed   == [id |-> 0, in |-> 0, fin |-> FALSE, rst |-> FALSE, room |-> 0]
Open(fd) == sock[fd].id # 0

\* The events that hold of socket s, among those of the interest e.
EventsOf(s, e) ==
  {x \in e : \/ x = "IN"    /\ (s.in > 0 \/ s.fin \/ s.rst)
             \/ x = "OUT"   /\ (s.room > 0 \/ s.rst)
             \/ x = "RDHUP" /\ (s.fin \/ s.rst)}
  \cup {x \in {"ERR"} : s.rst /\ e # {}}

Events(fd) == IF fd = 0 THEN {x \in {"IN"} : backlog > 0} ELSE EventsOf(sock[fd], interest[fd])

KernelInit ==
  /\ backlog = 0
  /\ accepted = 0
  /\ sock = [fd \in Fd |-> Closed]
  /\ interest = [fd \in Fd |-> {}]
  /\ ready = {}

-----------------------------------------------------------------------------
(* The clients.                                                            *)

Wake(fd, e) == ready' = IF e \cap interest[fd] # {} THEN ready \cup {fd} ELSE ready

Connect ==
  /\ backlog + accepted < MaxConns
  /\ backlog' = backlog + 1
  /\ ready' = ready \cup {0}
  /\ UNCHANGED <<accepted, sock, interest>>

Send(fd) ==
  /\ Open(fd) /\ ~sock[fd].fin /\ ~sock[fd].rst /\ sock[fd].in < MaxIn
  /\ sock' = [sock EXCEPT ![fd].in = @ + 1]
  /\ Wake(fd, {"IN"})
  /\ UNCHANGED <<backlog, accepted, interest>>

\* The client has sent all it wants to send.
Fin(fd) ==
  /\ Open(fd) /\ ~sock[fd].fin /\ ~sock[fd].rst
  /\ sock' = [sock EXCEPT ![fd].fin = TRUE]
  /\ Wake(fd, {"IN", "RDHUP"})
  /\ UNCHANGED <<backlog, accepted, interest>>

Reset(fd) ==
  /\ Open(fd) /\ ~sock[fd].rst
  /\ sock' = [sock EXCEPT ![fd].rst = TRUE, ![fd].in = 0]
  /\ ready' = IF interest[fd] # {} THEN ready \cup {fd} ELSE ready
  /\ UNCHANGED <<backlog, accepted, interest>>

\* The client takes a byte, which makes room in the send buffer.
Drain(fd) ==
  /\ Open(fd) /\ sock[fd].room < MaxRoom
  /\ sock' = [sock EXCEPT ![fd].room = @ + 1]
  /\ Wake(fd, {"OUT"})
  /\ UNCHANGED <<backlog, accepted, interest>>

Clients == Connect \/ \E fd \in Fd : Send(fd) \/ Fin(fd) \/ Reset(fd) \/ Drain(fd)

=============================================================================
