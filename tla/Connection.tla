------------------------------ MODULE Connection ------------------------------
(***************************************************************************)
(* One connection of server_/noblock_sserver.c with the parser behind      *)
(* on_read: epollrun reads into the read buffer, which it replaces by a    *)
(* larger one as it fills, and calls on_read when the socket is drained;   *)
(* on_read binds a parser_context to the connection on its first call      *)
(* (bindctx of protocol/resp2parser.c) and drives the parser.              *)
(***************************************************************************)
EXTENDS Segment

CONSTANT RbDefault  \* BUFFER_SIZE_DEFAULT

ASSUME BufferAssumption == RbDefault \in Nat \ {0} /\ RbDefault % 2 = 0

VARIABLES rb_cap,    \* the size of the read buffer; each buffer has a size of its own
          seen,      \* how many bytes were in it when on_read last ran the parser
          reader,    \* epollrun: waits for an event, reads, has closed the connection
          use_data,  \* whether a parser_context is bound
          source     \* the size of the buffer each element was taken from

cvars == <<rb_cap, seen, reader, use_data, source>>
connvars == <<wire, sent, rb_size, rb_offset, state, prog, ret, outframe, pc, frames,
              stx, segret, commands, rb_cap, seen, reader, use_data, source>>

-----------------------------------------------------------------------------
(* epollrun, where the parser does not run.                                *)

\* Mutant: the buffer grows only when it is full.
CrowdedFull == rb_cap = rb_size

\* Less than half of the buffer is free: a new one is due before the next read.
Crowded == rb_cap - rb_size < rb_cap \div 2
Grown   == IF Crowded THEN 2 * rb_cap ELSE rb_cap
TooBig  == Crowded /\ 2 * rb_cap >= MaxBulk

Reading == pc = "io" /\ reader # "closed"

\* read() returns n > 0 bytes.
ReadSome ==
  /\ Reading /\ ~TooBig
  /\ \E n \in 1 .. Len(wire) - rb_size : n <= Grown - rb_size /\ rb_size' = rb_size + n
  /\ rb_cap' = Grown
  /\ reader' = "reading"
  /\ UNCHANGED <<wire, sent, rb_offset, state, prog, ret, outframe, pc, frames, svars,
                 seen, use_data, source>>

\* Mutants: the connection is not told of its context; each call of on_read binds
\* a context.
BindNothing == UNCHANGED <<use_data, state, prog, outframe, stx>>
BindAnew ==
  /\ use_data' = TRUE
  /\ state' = "COMPLETE" /\ prog' = NoProg /\ outframe' = NoFrame
  /\ stx' = NewSegment

\* bindctx: the first call of on_read creates the context, in the state of SInit.
bindctx == use_data' = TRUE /\ UNCHANGED <<state, prog, outframe, stx>>

\* EAGAIN: on_read.  Without memory for a context the bytes stay unparsed.
OnRead ==
  /\ Reading /\ reader = "reading" /\ ~TooBig
  /\ rb_cap' = Grown
  /\ reader' = "waiting"
  /\ \/ bindctx /\ pc' = "parse" /\ seen' = rb_size
     \/ ~use_data /\ UNCHANGED <<use_data, state, prog, outframe, stx, pc, seen>>
  /\ UNCHANGED <<wire, sent, rb_size, rb_offset, ret, frames, segret, commands, source>>

\* The client's end, an error, a buffer that may not or cannot grow: it is
\* destroyed.  In the last case on_read is told so, and does not parse.
CloseConnection ==
  /\ Reading
  /\ reader' = "closed"
  /\ UNCHANGED <<wire, sent, rb_size, rb_offset, state, prog, ret, outframe, pc, frames, svars,
                 rb_cap, seen, use_data, source>>

-----------------------------------------------------------------------------
(* on_read, at work.                                                       *)

Parse == zerocopy_proceed /\ UNCHANGED <<svars, cvars>>

\* An element is stored: it points into the buffer that is there now.
Stores == ~Nested /\ outframe.type # "*"

Aggregate ==
  /\ segment_proceed
  /\ source' = IF Stores THEN [source EXCEPT ![Opened.element_count] = rb_cap] ELSE source
  /\ UNCHANGED <<rb_cap, seen, reader, use_data>>

CInit == /\ SInit
         /\ rb_cap = RbDefault /\ seen = 0
         /\ reader = "waiting"
         /\ use_data = FALSE
         /\ source = [j \in 0 .. MaxElems - 1 |-> 0]

CNext == ReadSome \/ OnRead \/ CloseConnection \/ Parse \/ Aggregate

ConnSpec == CInit /\ [][CNext]_connvars

-----------------------------------------------------------------------------
(* Properties.                                                             *)

\* Every variable has its type; the buffer has room for what is in it, and the
\* parser runs only on a context, and on all that has been read.
ConnTypeOK ==
  /\ rb_cap \in Nat /\ rb_cap % 2 = 0 /\ rb_size <= rb_cap
  /\ seen \in 0 .. rb_size
  /\ reader \in {"waiting", "reading", "closed"}
  /\ use_data \in BOOLEAN
  /\ source \in [0 .. MaxElems - 1 -> Nat]
  /\ pc # "io" => use_data /\ seen = rb_size

\* The offset of the last byte that BulkWhole looks at.
LastLookedAt(i, n) == Base + i + n + 3 + BulkLen(i, n) + 1

\* The parser looks at no byte beyond the read buffer.  It does look beyond the
\* bytes received: resumed behind stray bytes, it takes the data of a bulk
\* string to be complete too early.  What saves it is epollrun's rule to keep
\* half of the buffer free.
ReadsInBuffer ==
  pc = "parse" =>
    \A i, n \in 0 .. rb_size :
      (/\ Anchored(i) /\ CRLFAt(Base + i + 1, n)
       /\ PrefixAt(i) = "$" /\ BulkLen(i, n) \in 0 .. MaxBulk - 1 /\ ~Short(i, n))
      => LastLookedAt(i, n) < rb_cap

Parsing == INSTANCE Segment WITH rb_size <- seen

\* Behind epollrun the parser and the aggregator behave as Segment says of the
\* chunks they have been shown: reads between two calls, new buffers, and calls
\* that found no memory for a context are nothing to them.
ParsesChunks == Parsing!SSpec

\* include/resp2parser.h on zero copy: the pointers "point directly to the
\* original read buffer (connection->read_buffer)".  A command taken does.
ElementsInBuffer ==
  [][Len(commands') > Len(commands)
       => \A j \in 0 .. stx'.element_count - 1 : source'[j] = rb_cap']_connvars

=============================================================================
