-------------------------- MODULE Connection_proofs --------------------------
(***************************************************************************)
(* Proofs about a connection: whatever is read when, parser and aggregator *)
(* do what Segment says of the bytes they were shown, and look at no byte  *)
(* beyond the read buffer.                                                 *)
(***************************************************************************)
EXTENDS Connection, Framing_proofs

-----------------------------------------------------------------------------
(* The invariant.                                                          *)

\* Where the parser runs half of the buffer is free; a connection that has been
\* read from has something to show.
RoomInv == /\ pc # "io" => rb_cap - rb_size >= rb_cap \div 2
           /\ reader = "reading" => seen < rb_size

ConnInv == ConnTypeOK /\ RoomInv /\ ParserInv /\ SegmentInv

\* A buffer that has been checked is half free, and holds what it held.
LEMMA GrownHalfFree ==
  ASSUME ConnInv
  PROVE  /\ Grown \in Nat /\ Grown % 2 = 0 /\ rb_size <= Grown /\ rb_size \in Nat
         /\ Grown - rb_size >= Grown \div 2
  BY DEF ConnInv, ConnTypeOK, ParserInv, ParserTypeOK, Grown, Crowded

LEMMA ConnInitInv == CInit => ConnInv
<1> SUFFICES ASSUME CInit PROVE ConnInv
  OBVIOUS
<1>1. ParserInv /\ SegmentInv /\ rb_size = 0 /\ pc = "io"
  BY ParserInitInv, SegmentInitInv DEF CInit, SInit, PInit
<1>2. rb_cap \in Nat /\ rb_cap % 2 = 0 /\ rb_size <= rb_cap
  BY <1>1, BufferAssumption DEF CInit
<1>3. seen = 0 /\ reader = "waiting" /\ use_data = FALSE
  BY DEF CInit
<1>4. source \in [0 .. MaxElems - 1 -> Nat]
  BY DEF CInit
<1>5. ConnTypeOK /\ RoomInv
  <2>1. seen \in 0 .. rb_size /\ ~(pc # "io") /\ ~(reader = "reading")
    BY <1>1, <1>3
  <2>2. use_data \in BOOLEAN
    BY <1>3, Zenon
  <2>3. QED
    BY <1>2, <1>3, <1>4, <2>1, <2>2 DEF ConnTypeOK, RoomInv
<1>6. QED
  BY <1>1, <1>5 DEF ConnInv

LEMMA ReadSomeKeeps == ConnInv /\ ReadSome => ConnInv'
<1> SUFFICES ASSUME ConnInv, ReadSome PROVE ConnInv'
  OBVIOUS
<1>1. PICK n \in 1 .. Len(wire) - rb_size : n <= Grown - rb_size /\ rb_size' = rb_size + n
  BY DEF ReadSome
<1>2. /\ pc = "io" /\ rb_cap' = Grown /\ reader' = "reading"
      /\ UNCHANGED <<wire, sent, rb_offset, state, prog, ret, outframe, pc, frames>>
      /\ UNCHANGED <<stx, segret, commands>> /\ UNCHANGED <<seen, use_data, source>>
  BY DEF ReadSome, Reading, svars
<1>3. rb_size \in Nat /\ n \in Nat /\ n >= 1 /\ rb_size' \in 0 .. Len(wire) /\ Len(wire) \in Nat
  BY <1>1 DEF ConnInv, ParserInv, ParserTypeOK
<1>4. ParserInv'
  BY <1>2, <1>1, <1>3 DEF ConnInv, ParserInv, ParserTypeOK, OffsetInBuffer, Base
<1>5. SegmentInv'
  BY <1>2 DEF ConnInv, SegmentInv, SlotFree
<1>6. ConnTypeOK' /\ RoomInv'
  BY <1>1, <1>2, <1>3, GrownHalfFree DEF ConnInv, ConnTypeOK, RoomInv
<1>7. QED
  BY <1>4, <1>5, <1>6 DEF ConnInv

LEMMA OnReadKeeps == ConnInv /\ OnRead => ConnInv'
<1> SUFFICES ASSUME ConnInv, OnRead PROVE ConnInv'
  OBVIOUS
<1>1. /\ pc = "io" /\ rb_cap' = Grown /\ reader' = "waiting"
      /\ UNCHANGED <<wire, sent, rb_size, rb_offset, state, prog, ret, outframe, frames>>
      /\ UNCHANGED <<stx, segret, commands>> /\ UNCHANGED source
      /\ \/ use_data' = TRUE /\ pc' = "parse" /\ seen' = rb_size
         \/ UNCHANGED <<use_data, pc, seen>>
  BY DEF OnRead, Reading, bindctx
<1>2. ParserInv'
  BY <1>1 DEF ConnInv, ParserInv, ParserTypeOK, OffsetInBuffer, Base
<1>3. SegmentInv'
  BY <1>1 DEF ConnInv, SegmentInv, SlotFree
<1>4. /\ rb_cap' \in Nat /\ rb_cap' % 2 = 0 /\ rb_size' <= rb_cap'
      /\ rb_cap' - rb_size' >= rb_cap' \div 2
  BY <1>1, GrownHalfFree
<1>5. /\ seen' \in 0 .. rb_size' /\ use_data' \in BOOLEAN
      /\ pc' # "io" => use_data' /\ seen' = rb_size'
  <2>1. rb_size \in Nat /\ rb_size' = rb_size /\ seen \in 0 .. rb_size /\ use_data \in BOOLEAN
    BY <1>1 DEF ConnInv, ConnTypeOK, ParserInv, ParserTypeOK
  <2>2. CASE use_data' = TRUE /\ seen' = rb_size
    BY <2>1, <2>2
  <2>3. CASE UNCHANGED <<use_data, pc, seen>>
    BY <1>1, <2>1, <2>3
  <2>4. QED
    BY <1>1, <2>2, <2>3
<1>6. ConnTypeOK' /\ RoomInv'
  BY <1>1, <1>4, <1>5 DEF ConnInv, ConnTypeOK, RoomInv
<1>7. QED
  BY <1>2, <1>3, <1>6 DEF ConnInv

LEMMA CloseKeeps == ConnInv /\ CloseConnection => ConnInv'
  BY DEF CloseConnection, svars, ConnInv, ConnTypeOK, RoomInv, ParserInv, ParserTypeOK,
         OffsetInBuffer, Base, SegmentInv, SlotFree

\* What zerocopy_proceed leaves alone.
LEMMA ProceedLeaves ==
  zerocopy_proceed => UNCHANGED <<wire, sent, rb_size, frames>> /\ pc = "parse"
  BY DEF zerocopy_proceed

LEMMA ParseKeeps == ConnInv /\ Parse => ConnInv'
<1> SUFFICES ASSUME ConnInv, Parse PROVE ConnInv'
  OBVIOUS
<1>1. /\ UNCHANGED <<rb_size, rb_cap, seen, reader, use_data, source>> /\ pc = "parse"
      /\ UNCHANGED <<stx, segret, commands>>
  BY ProceedLeaves DEF Parse, svars, cvars
<1>2. ParserInv'
  BY ProceedKeeps DEF ConnInv, Parse
<1>3. SegmentInv'
  BY <1>1 DEF ConnInv, SegmentInv, SlotFree
<1>4. ConnTypeOK' /\ RoomInv'
  BY <1>1 DEF ConnInv, ConnTypeOK, RoomInv
<1>5. QED
  BY <1>2, <1>3, <1>4 DEF ConnInv

LEMMA AggregateKeeps == ConnInv /\ Aggregate => ConnInv'
<1> SUFFICES ASSUME ConnInv, Aggregate PROVE ConnInv'
  OBVIOUS
<1>1. /\ UNCHANGED <<rb_size, rb_cap, seen, reader, use_data>> /\ pc = "feed"
      /\ segment_proceed
  BY DEF Aggregate, segment_proceed, HandOn
<1>2. ParserInv' /\ SegmentInv'
  BY <1>1, SegmentKeepsParser, SegmentKeeps DEF ConnInv
<1>3. source' \in [0 .. MaxElems - 1 -> Nat]
  BY DEF Aggregate, ConnInv, ConnTypeOK
<1>4. ConnTypeOK' /\ RoomInv'
  BY <1>1, <1>3 DEF ConnInv, ConnTypeOK, RoomInv
<1>5. QED
  BY <1>2, <1>4 DEF ConnInv

LEMMA ConnStepInv == ConnInv /\ [CNext]_connvars => ConnInv'
<1> SUFFICES ASSUME ConnInv, [CNext]_connvars PROVE ConnInv'
  OBVIOUS
<1>1. CASE UNCHANGED connvars
  BY <1>1 DEF connvars, ConnInv, ConnTypeOK, RoomInv, ParserInv, ParserTypeOK,
              OffsetInBuffer, Base, SegmentInv, SlotFree
<1>2. QED
  BY <1>1, ReadSomeKeeps, OnReadKeeps, CloseKeeps, ParseKeeps, AggregateKeeps DEF CNext

THEOREM ConnInvariant == ConnSpec => []ConnInv
<1>1. CInit => ConnInv
  BY ConnInitInv
<1>2. ConnInv /\ [CNext]_connvars => ConnInv'
  BY ConnStepInv
<1>3. QED
  BY <1>1, <1>2, PTL DEF ConnSpec

\* The parser runs on a bound context and on all that was read, and the buffer
\* has room for what is in it.
THEOREM ConnTypeCorrect == ConnSpec => []ConnTypeOK
<1>1. ConnInv => ConnTypeOK
  BY DEF ConnInv
<1>2. QED
  BY <1>1, ConnInvariant, PTL

\* Through a read buffer that grows, and an on_read that may find no memory for its
\* context, every number on a line is read as it is or refused.
THEOREM NumbersCorrect == ConnSpec => []NumExact
<1>1. ConnInv => NumExact
  BY LinesReadExactly DEF ConnInv
<1>2. QED
  BY <1>1, ConnInvariant, PTL

\* zerocopy_proceed looks at no byte beyond the read buffer, although it may take
\* a bulk string behind stray bytes to be whole too early: at most as many bytes
\* as lie before the frame's prefix, which are not more than are free.
THEOREM ReadsCorrect == ConnSpec => []ReadsInBuffer
<1>1. ConnInv => ReadsInBuffer
  <2> SUFFICES ASSUME ConnInv, pc = "parse", NEW i \in 0 .. rb_size, NEW n \in 0 .. rb_size,
                      CRLFAt(Base + i + 1, n), BulkLen(i, n) \in 0 .. MaxBulk - 1, ~Short(i, n)
               PROVE  LastLookedAt(i, n) < rb_cap
    BY DEF ReadsInBuffer
  <2> DEFINE a == prog.anchorpoint_offset
             b == BulkLen(i, n)
  <2>1. /\ rb_size \in Nat /\ rb_offset \in Nat /\ rb_cap \in Nat /\ rb_cap % 2 = 0
        /\ a \in Nat /\ rb_cap - rb_size >= rb_cap \div 2
    BY DEF ConnInv, ConnTypeOK, RoomInv, ParserInv, ParserTypeOK
  <2>2. b \in Nat
    BY LimitAssumption
  <2>3. rb_offset + a + i + 1 + n + 1 < rb_size
    BY <2>1 DEF CRLFAt, Base
  <2>4. b + 2 <= rb_size - rb_offset - (i + n + 3)
    BY <2>1, <2>2 DEF Short, Remaining
  <2>5. LastLookedAt(i, n) = rb_offset + a + i + n + 3 + b + 1
    BY <2>1 DEF LastLookedAt, Base
  <2> HIDE DEF a, b
  <2>6. QED
    BY <2>1, <2>2, <2>3, <2>4, <2>5
<1>2. QED
  BY <1>1, ConnInvariant, PTL

-----------------------------------------------------------------------------
(* The refinement: what Segment says of the bytes in the buffer is what it *)
(* says of the bytes shown, when all of them have been shown.              *)

\* What does not look at the buffer.
LEMMA SameWords ==
  /\ Parsing!Simple = Simple /\ Parsing!Prefix = Prefix /\ Parsing!None = None
  /\ Parsing!NoProg = NoProg /\ Parsing!NoFrame = NoFrame /\ Parsing!Base = Base
  /\ Parsing!Digit = Digit
  BY DEF Parsing!Simple, Simple, Parsing!Prefix, Prefix, Parsing!None, None,
         Parsing!NoProg, NoProg, Parsing!NoFrame, NoFrame, Parsing!Frame, Frame,
         Parsing!Base, Base, Parsing!Digit, Digit

LEMMA SameFrame ==
  ASSUME NEW t, NEW a, NEW n, NEW m
  PROVE  Parsing!Frame(t, a, n, m) = Frame(t, a, n, m)
  BY DEF Parsing!Frame, Frame

LEMMA SameValue == ASSUME NEW s PROVE Parsing!Value(s) = Value(s)
  BY DEF Parsing!Value, Value, Parsing!DigitValue, DigitValue, Parsing!IsDigit, IsDigit,
         Parsing!Digit, Digit

LEMMA SameExits ==
  /\ \A p : Parsing!Wait(p) <=> Wait(p)
  /\ \A c : Parsing!Consume(c) <=> Consume(c)
  /\ \A e, c : Parsing!Fail(e, c) <=> Fail(e, c)
  /\ \A f, c : Parsing!Complete(f, c) <=> Complete(f, c)
  BY SameWords DEF Parsing!Wait, Wait, Parsing!Consume, Consume, Parsing!Fail, Fail,
                   Parsing!Complete, Complete

-----------------------------------------------------------------------------
(* What looks at it.                                                       *)

LEMMA SameBytes ==
  ASSUME seen = rb_size
  PROVE  /\ \A j : Parsing!At(j) = At(j)
         /\ \A a, n : Parsing!CRLFAt(a, n) <=> CRLFAt(a, n)
         /\ \A a : Parsing!NoCRLF(a) <=> NoCRLF(a)
<1>1. \A j : Parsing!At(j) = At(j)
  BY DEF Parsing!At, At
<1>2. \A a, n : Parsing!CRLFAt(a, n) <=> CRLFAt(a, n)
  BY <1>1 DEF Parsing!CRLFAt, CRLFAt
<1>3. \A a : Parsing!NoCRLF(a) <=> NoCRLF(a)
  BY <1>2 DEF Parsing!NoCRLF, NoCRLF
<1>4. QED
  BY <1>1, <1>2, <1>3

LEMMA SameNum ==
  ASSUME seen = rb_size, NEW a, NEW n
  PROVE  Parsing!Num(a, n) = Num(a, n)
  BY SameBytes, SameValue DEF Parsing!Num, Num

LEMMA SameAnchor ==
  ASSUME seen = rb_size
  PROVE  /\ \A i : Parsing!Anchored(i) <=> Anchored(i)
         /\ \A i : Parsing!PrefixAt(i) = PrefixAt(i)
  BY SameBytes, SameWords DEF Parsing!Anchored, Anchored, Parsing!PrefixAt, PrefixAt

LEMMA SameLengths ==
  ASSUME seen = rb_size, NEW i, NEW n
  PROVE  /\ Parsing!BulkLen(i, n) = BulkLen(i, n) /\ Parsing!HeadLen(i, n) = HeadLen(i, n)
         /\ Parsing!Remaining(i, n) = Remaining(i, n) /\ (Parsing!Short(i, n) <=> Short(i, n))
  BY SameNum, SameWords DEF Parsing!BulkLen, BulkLen, Parsing!HeadLen, HeadLen,
         Parsing!Remaining, Remaining, Parsing!Short, Short

-----------------------------------------------------------------------------
(* zerocopy_proceed and segment_proceed.                                   *)

LEMMA SamePaths ==
  ASSUME seen = rb_size, NEW i, NEW n
  PROVE  /\ SimpleFrame(i, n) => Parsing!SimpleFrame(i, n)
         /\ BulkBad(i, n) => Parsing!BulkBad(i, n)
         /\ BulkShort(i, n) => Parsing!BulkShort(i, n)
         /\ BulkWhole(i, n) => Parsing!BulkWhole(i, n)
         /\ ArrayHeader(i, n) => Parsing!ArrayHeader(i, n)
<1>1. SimpleFrame(i, n) => Parsing!SimpleFrame(i, n)
  BY SameAnchor, SameWords, SameFrame, SameExits DEF SimpleFrame, Parsing!SimpleFrame
<1>2. BulkBad(i, n) => Parsing!BulkBad(i, n)
  BY SameAnchor, SameLengths, SameExits DEF BulkBad, Parsing!BulkBad
<1>3. BulkShort(i, n) => Parsing!BulkShort(i, n)
  BY SameAnchor, SameLengths, SameExits DEF BulkShort, Parsing!BulkShort
<1>4. BulkWhole(i, n) => Parsing!BulkWhole(i, n)
  BY SameAnchor, SameBytes, SameWords, SameLengths, SameFrame, SameExits
     DEF BulkWhole, Parsing!BulkWhole
<1>5. ArrayHeader(i, n) => Parsing!ArrayHeader(i, n)
  BY SameAnchor, SameWords, SameNum, SameFrame, SameExits
     DEF ArrayHeader, Parsing!ArrayHeader
<1>6. QED
  BY <1>1, <1>2, <1>3, <1>4, <1>5

LEMMA SameProceed ==
  ASSUME seen = rb_size, UNCHANGED seen, zerocopy_proceed
  PROVE  Parsing!zerocopy_proceed
<1>1. pc = "parse" /\ UNCHANGED <<wire, sent, rb_size, frames>>
  BY DEF zerocopy_proceed
<1>2. CASE NoPrefix
  <2>1. Parsing!NoPrefix
    BY <1>2, SameBytes, SameWords, SameExits DEF NoPrefix, Parsing!NoPrefix
  <2>2. QED
    BY <1>1, <2>1 DEF Parsing!zerocopy_proceed
<1>3. CASE NoLine
  <2>1. Parsing!NoLine
    BY <1>3, SameBytes, SameAnchor, SameWords, SameExits DEF NoLine, Parsing!NoLine
  <2>2. QED
    BY <1>1, <2>1 DEF Parsing!zerocopy_proceed
<1>4. ASSUME NEW i \in 0 .. rb_size, NEW n \in 0 .. rb_size,
             Anchored(i), CRLFAt(Base + i + 1, n),
             \/ SimpleFrame(i, n)
             \/ BulkBad(i, n) \/ BulkShort(i, n) \/ BulkWhole(i, n)
             \/ ArrayHeader(i, n)
      PROVE  Parsing!zerocopy_proceed
  <2>1. i \in 0 .. seen /\ n \in 0 .. seen
    OBVIOUS
  <2>2. Parsing!Anchored(i) /\ Parsing!CRLFAt(Parsing!Base + i + 1, n)
    BY <1>4, SameAnchor, SameBytes, SameWords
  <2>3. \/ Parsing!SimpleFrame(i, n)
        \/ Parsing!BulkBad(i, n) \/ Parsing!BulkShort(i, n) \/ Parsing!BulkWhole(i, n)
        \/ Parsing!ArrayHeader(i, n)
    BY <1>4, SamePaths
  <2>4. QED
    BY <1>1, <2>1, <2>2, <2>3 DEF Parsing!zerocopy_proceed
<1>5. QED
  BY <1>2, <1>3, <1>4 DEF zerocopy_proceed

LEMMA SameSegment ==
  ASSUME UNCHANGED seen, segment_proceed
  PROVE  Parsing!segment_proceed
<1>1. Parsing!HandOn
  BY DEF segment_proceed, HandOn, Parsing!HandOn
<1>2. Parsing!Nested <=> Nested
  BY DEF Parsing!Nested, Nested
<1>3. Parsing!Begun = Begun /\ Parsing!Opened = Opened
  BY DEF Parsing!Begun, Begun, Parsing!Opened, Opened
<1>4. Parsing!Element(outframe) = Element(outframe)
  BY DEF Parsing!Element, Element
<1>5. Parsing!Stored = Stored
  BY <1>3, <1>4 DEF Parsing!Stored, Stored
<1>6. \A x : Parsing!Argv(x) = Argv(x)
  BY DEF Parsing!Argv, Argv
<1>7. QED
  BY <1>1, <1>2, <1>3, <1>5, <1>6 DEF segment_proceed, Parsing!segment_proceed

-----------------------------------------------------------------------------
(* The steps of a connection.                                              *)

LEMMA InitParses == CInit => Parsing!SInit
<1> SUFFICES ASSUME CInit PROVE Parsing!SInit
  OBVIOUS
<1>1. PInit /\ stx = NewSegment /\ segret = "0" /\ commands = <<>> /\ seen = 0
  BY DEF CInit, SInit
<1>2. \A x, m : Parsing!Bytes(x, m) = Bytes(x, m)
  BY DEF Parsing!Bytes, Bytes, Parsing!Encode, Encode, Parsing!Simple, Simple,
         Parsing!CRLF, CRLF, Parsing!Dec, Dec, Parsing!Digit, Digit
<1>3. Parsing!PInit
  BY <1>1, <1>2, SameWords DEF PInit, Parsing!PInit
<1>4. Parsing!NewSegment = NewSegment
  BY DEF Parsing!NewSegment, NewSegment, Parsing!NoElement, NoElement, Parsing!None, None
<1>5. QED
  BY <1>1, <1>3, <1>4 DEF Parsing!SInit

\* on_read with a context shows the parser the bytes that came since.
LEMMA OnReadReceives ==
  ASSUME ConnInv, OnRead
  PROVE  Parsing!SNext \/ UNCHANGED Parsing!gvars
<1>1. /\ pc = "io" /\ reader = "reading"
      /\ UNCHANGED <<wire, sent, rb_size, rb_offset, state, prog, ret, outframe, frames>>
      /\ UNCHANGED <<stx, segret, commands>>
      /\ \/ pc' = "parse" /\ seen' = rb_size
         \/ UNCHANGED <<pc, seen>>
  BY DEF OnRead, Reading, bindctx
<1>2. CASE pc' = "parse" /\ seen' = rb_size
  <2>1. seen \in Nat /\ rb_size \in Nat /\ seen < rb_size /\ rb_size <= Len(wire) /\ Len(wire) \in Nat
    BY <1>1 DEF ConnInv, ConnTypeOK, RoomInv, ParserInv, ParserTypeOK
  <2>2. seen' \in seen + 1 .. Len(wire)
    BY <1>2, <2>1
  <2>3. Parsing!Receive
    BY <1>1, <1>2, <2>2 DEF Parsing!Receive
  <2>4. UNCHANGED Parsing!svars
    BY <1>1 DEF Parsing!svars
  <2>5. QED
    BY <2>3, <2>4 DEF Parsing!SNext
<1>3. CASE UNCHANGED <<pc, seen>>
  BY <1>1, <1>3 DEF Parsing!gvars
<1>4. QED
  BY <1>1, <1>2, <1>3

LEMMA StepParses ==
  ConnInv /\ [CNext]_connvars => [Parsing!SNext]_(Parsing!gvars)
<1> SUFFICES ASSUME ConnInv, [CNext]_connvars
             PROVE  Parsing!SNext \/ UNCHANGED Parsing!gvars
  OBVIOUS
<1>1. CASE ReadSome \/ CloseConnection
  BY <1>1 DEF ReadSome, CloseConnection, svars, Parsing!gvars
<1>2. CASE OnRead
  BY <1>2, OnReadReceives
<1>3. CASE Parse
  <2>1. seen = rb_size /\ UNCHANGED seen /\ zerocopy_proceed
    BY <1>3, ProceedLeaves DEF Parse, cvars, ConnInv, ConnTypeOK
  <2>2. UNCHANGED Parsing!svars
    BY <1>3 DEF Parse, svars, Parsing!svars
  <2>3. QED
    BY <2>1, <2>2, SameProceed DEF Parsing!SNext
<1>4. CASE Aggregate
  <2>1. UNCHANGED seen /\ segment_proceed
    BY <1>4 DEF Aggregate
  <2>2. QED
    BY <2>1, SameSegment DEF Parsing!SNext
<1>5. CASE UNCHANGED connvars
  BY <1>5 DEF connvars, Parsing!gvars
<1>6. QED
  BY <1>1, <1>2, <1>3, <1>4, <1>5 DEF CNext

\* Behind epollrun parser and aggregator behave as Segment says of the chunks
\* they have been shown, whatever was read in between: so all that is proved and
\* checked of Segment holds of a connection.
THEOREM ConnectionParses == ConnSpec => ParsesChunks
<1>1. CInit => Parsing!SInit
  BY InitParses
<1>2. ConnInv /\ [CNext]_connvars => [Parsing!SNext]_(Parsing!gvars)
  BY StepParses
<1>3. QED
  BY <1>1, <1>2, ConnInvariant, PTL DEF ConnSpec, ParsesChunks, Parsing!SSpec

=============================================================================
