--------------------------- MODULE Framing_proofs ---------------------------
(***************************************************************************)
(* Proofs about the parser and the aggregator: whatever bytes arrive, in   *)
(* whatever chunks, neither leaves its buffer; and framing is exact: on    *)
(* every stream of frames, however it is cut into reads, the parser hands  *)
(* on the frames sent.                                                     *)
(***************************************************************************)
EXTENDS Segment, NatLemmas, SequenceTheorems, FiniteSetTheorems, TLAPS

-----------------------------------------------------------------------------
(* The parser.                                                             *)

ProgType  == [anchorpoint_offset : Nat, prefix : Prefix \cup {None}, have_bulk_len : BOOLEAN,
              bulk_len : 0 .. MaxBulk - 1, head_len : Nat]
FrameType == [type : Prefix \cup {None}, at : Nat, len : Nat, n : 0 .. MaxElems - 1]

ParserInv == ParserTypeOK /\ OffsetInBuffer /\ Len(wire) \in Nat

\* A cleared parser_process has its type.
LEMMA NoProgType == NoProg \in ProgType
  BY LimitAssumption DEF NoProg, ProgType

\* The bytes a call consumes: any number that keeps the offset in the buffer.
LEMMA ConsumeKeeps ==
  ASSUME ParserInv, NEW c \in Nat, c <= rb_size - rb_offset, Consume(c),
         UNCHANGED <<wire, rb_size>>,
         outframe' \in FrameType, ret' \in {"0", "-EPROTO", "-EMSGSIZE"}, pc' \in {"io", "feed"}
  PROVE  ParserInv'
<1>1. prog' \in ProgType /\ prog' = NoProg
  BY NoProgType DEF Consume
<1>2. rb_offset' \in Nat /\ rb_offset' <= rb_size'
  BY DEF Consume, ParserInv, ParserTypeOK
<1>3. OffsetInBuffer'
  BY <1>1, <1>2 DEF OffsetInBuffer, NoProg
<1>4. QED
  BY <1>1, <1>2, <1>3 DEF ParserInv, ParserTypeOK, ProgType, FrameType, Consume

\* What a call saves when it waits: the offset stays where it is, and the prefix
\* saved, if any, has arrived.
LEMMA WaitKeeps ==
  ASSUME ParserInv, NEW p \in ProgType, Wait(p), UNCHANGED <<wire, rb_size>>,
         p.prefix # None => rb_offset + p.anchorpoint_offset < rb_size
  PROVE  ParserInv'
<1>1. prog' = p /\ rb_offset' = rb_offset /\ rb_size' = rb_size
  BY DEF Wait
<1>2. OffsetInBuffer'
  BY <1>1 DEF ParserInv, OffsetInBuffer, Base
<1>3. QED
  BY <1>1, <1>2 DEF ParserInv, ParserTypeOK, ProgType, Wait

\* Where a search for a frame's prefix may end, and what is there.
LEMMA AnchoredPrefix ==
  ASSUME ParserInv, NEW j \in 0 .. rb_size, Anchored(j)
  PROVE  PrefixAt(j) \in Prefix
  BY DEF ParserInv, ParserTypeOK, Anchored, PrefixAt

\* A frame's prefix has arrived, and what lies before it.
LEMMA AnchorArrived ==
  ASSUME ParserInv, NEW j \in 0 .. rb_size, Anchored(j)
  PROVE  Base < rb_size
  BY DEF ParserInv, ParserTypeOK, OffsetInBuffer, Anchored, Base

\* A line that ends in the buffer has been received as a whole.
LEMMA LineInBuffer ==
  ASSUME ParserInv, NEW j \in 0 .. rb_size, NEW n \in 0 .. rb_size, CRLFAt(Base + j + 1, n)
  PROVE  /\ Base \in Nat
         /\ j + n + 3 \in Nat
         /\ j + n + 3 <= rb_size - rb_offset
  BY DEF ParserInv, ParserTypeOK, OffsetInBuffer, Base, CRLFAt

-----------------------------------------------------------------------------
\* Every way out of zerocopy_proceed keeps the offset in the buffer.
LEMMA ProceedKeeps ==
  ASSUME ParserInv, zerocopy_proceed
  PROVE  ParserInv'
<1>1. UNCHANGED <<wire, rb_size>> /\ prog \in ProgType /\ outframe \in FrameType
  BY DEF zerocopy_proceed, ParserInv, ParserTypeOK, ProgType, FrameType
<1>2. CASE NoPrefix
  BY <1>1, <1>2, WaitKeeps DEF NoPrefix, ParserInv, OffsetInBuffer, Base
<1>3. CASE NoLine
  <2>1. PICK j \in 0 .. rb_size : /\ Anchored(j)
                                  /\ Wait([prog EXCEPT !.prefix = PrefixAt(j)])
    BY <1>3 DEF NoLine
  <2>2. [prog EXCEPT !.prefix = PrefixAt(j)] \in ProgType
    BY <1>1, <2>1, AnchoredPrefix DEF ProgType
  <2> DEFINE saved == [prog EXCEPT !.prefix = PrefixAt(j)]
  <2>3. saved.anchorpoint_offset = prog.anchorpoint_offset
    BY <1>1 DEF ProgType
  <2>4. Base < rb_size
    BY <1>1, <2>1, AnchorArrived
  <2>5. rb_offset + saved.anchorpoint_offset < rb_size
    BY <2>3, <2>4 DEF Base
  <2> HIDE DEF saved
  <2>6. QED
    BY <1>1, <2>1, <2>2, <2>5, WaitKeeps DEF saved
<1>4. ASSUME NEW j \in 0 .. rb_size, NEW n \in 0 .. rb_size,
             Anchored(j), CRLFAt(Base + j + 1, n),
             \/ SimpleFrame(j, n)
             \/ BulkBad(j, n) \/ BulkShort(j, n) \/ BulkWhole(j, n)
             \/ ArrayHeader(j, n)
      PROVE  ParserInv'
  <2> DEFINE line == j + n + 3
  <2>1. /\ Base \in Nat /\ line \in Nat /\ line <= rb_size - rb_offset
        /\ rb_size \in Nat /\ rb_offset \in Nat
    BY <1>4, LineInBuffer DEF ParserInv, ParserTypeOK
  <2>2. PrefixAt(j) \in Prefix
    BY <1>4, AnchoredPrefix
  <2>3. ASSUME NEW err \in {"-EPROTO", "-EMSGSIZE"}, Fail(err, line)
        PROVE  ParserInv'
    BY <1>1, <2>1, <2>3, ConsumeKeeps DEF Fail
  <2>4. CASE SimpleFrame(j, n)
    <3>1. Frame(PrefixAt(j), Base + j + 1, n, 0) \in FrameType
      BY <2>1, <2>2, LimitAssumption DEF Frame, FrameType
    <3>2. QED
      BY <1>1, <2>1, <2>4, <3>1, ConsumeKeeps DEF SimpleFrame, Complete
  <2>5. CASE BulkBad(j, n)
    BY <2>3, <2>5 DEF BulkBad
  <2>6. CASE BulkShort(j, n)
    <3>1. HeadLen(j, n) \in Nat /\ prog.anchorpoint_offset + j \in Nat
      BY <1>1 DEF HeadLen, ProgType
    <3>2. [anchorpoint_offset |-> prog.anchorpoint_offset + j, prefix |-> "$",
           have_bulk_len |-> TRUE, bulk_len |-> BulkLen(j, n), head_len |-> HeadLen(j, n)]
            \in ProgType
      BY <2>6, <3>1 DEF BulkShort, ProgType, Prefix
    <3>3. rb_offset + (prog.anchorpoint_offset + j) < rb_size
      BY <1>1, <1>4, <2>1 DEF CRLFAt, Base, ProgType
    <3>4. QED
      BY <1>1, <2>6, <3>2, <3>3, WaitKeeps DEF BulkShort
  <2>7. CASE BulkWhole(j, n)
    <3> DEFINE data == BulkLen(j, n)
    <3>1. data \in Nat /\ data + 2 <= rb_size - rb_offset - line
      BY <2>1, <2>7, LimitAssumption DEF BulkWhole, Short, Remaining
    <3>2. line + data + 2 \in Nat /\ line + data + 2 <= rb_size - rb_offset
      BY <2>1, <3>1
    <3>3. Frame("$", Base + j + HeadLen(j, n), data, 0) \in FrameType
      <4>1. HeadLen(j, n) \in Nat
        BY <1>1 DEF HeadLen, ProgType
      <4>2. QED
        BY <2>1, <3>1, <4>1, LimitAssumption DEF Frame, FrameType, Prefix
    <3>4. CASE Complete(Frame("$", Base + j + HeadLen(j, n), data, 0), line + data + 2)
      BY <1>1, <3>2, <3>3, <3>4, ConsumeKeeps DEF Complete
    <3>5. CASE Fail("-EPROTO", line + data + 2)
      BY <1>1, <3>2, <3>5, ConsumeKeeps DEF Fail
    <3>6. QED
      BY <2>7, <3>4, <3>5 DEF BulkWhole
  <2>8. CASE ArrayHeader(j, n)
    <3> DEFINE arraylen == Num(Base + j + 1, n)
    <3>1. CASE Fail("-EPROTO", line) \/ Fail("-EMSGSIZE", line)
      BY <2>3, <3>1
    <3>2. CASE /\ arraylen \in 0 .. MaxElems - 1
               /\ Complete(Frame("*", Base + j + 1, n, arraylen), line)
      <4>1. Frame("*", Base + j + 1, n, arraylen) \in FrameType
        BY <2>1, <3>2 DEF Frame, FrameType, Prefix
      <4>2. QED
        BY <1>1, <2>1, <3>2, <4>1, ConsumeKeeps DEF Complete
    <3>3. QED
      BY <2>8, <3>1, <3>2 DEF ArrayHeader
  <2>9. QED
    BY <1>4, <2>4, <2>5, <2>6, <2>7, <2>8
<1>5. QED
  BY <1>2, <1>3, <1>4 DEF zerocopy_proceed

\* At first nothing is in the buffer; a read adds to it; handing on a frame
\* changes nothing in it.
LEMMA ParserInitInv == SInit => ParserInv
<1> SUFFICES ASSUME SInit PROVE ParserInv
  OBVIOUS
<1>1. NoFrame \in FrameType /\ NoProg \in ProgType
  BY NoProgType, LimitAssumption DEF NoFrame, Frame, FrameType
<1>2. Len(wire) \in Nat
  BY StreamAssumption DEF SInit, PInit
<1>3. OffsetInBuffer
  BY DEF SInit, PInit, OffsetInBuffer, NoProg
<1>4. QED
  BY <1>1, <1>2, <1>3 DEF SInit, PInit, ParserInv, ParserTypeOK, ProgType, FrameType

LEMMA ReceiveKeeps == ParserInv /\ Receive => ParserInv'
  BY DEF ParserInv, ParserTypeOK, OffsetInBuffer, Base, Receive

LEMMA SegmentKeepsParser == ParserInv /\ segment_proceed => ParserInv'
<1> SUFFICES ASSUME ParserInv, segment_proceed PROVE ParserInv'
  OBVIOUS
<1>1. /\ UNCHANGED <<wire, rb_size, rb_offset, state, prog, ret, outframe>>
      /\ pc' \in {"io", "parse"}
  BY DEF segment_proceed, HandOn
<1>2. QED
  BY <1>1 DEF ParserInv, ParserTypeOK, OffsetInBuffer, Base

-----------------------------------------------------------------------------
(* The aggregator.                                                         *)

ElementType == [type : Prefix \cup {None}, len : 0 .. LenRange - 1, data : Nat]
SegmentType == [element_count : 0 .. MaxElems, expected_count : 0 .. 255, consumed : BOOLEAN,
                in_array : BOOLEAN, elements : [0 .. MaxElems - 1 -> ElementType]]

\* The context of a command: an array begun has elements to come, and fits.
SegmentInv == stx \in SegmentType /\ SlotFree

\* A length is cut to 16 bits.
LEMMA Cut == ASSUME NEW n \in Nat PROVE n % LenRange \in 0 .. LenRange - 1
  BY LenAssumption

\* A frame stored in elements[] fits it.
LEMMA ElementFits ==
  ASSUME NEW f \in FrameType
  PROVE  Element(f) \in ElementType
<1>1. f.type \in Prefix \cup {None} /\ f.at \in Nat /\ f.len \in Nat
  BY DEF FrameType
<1> DEFINE cut == f.len % LenRange
<1>2. cut \in 0 .. LenRange - 1
  BY <1>1, Cut, Zenon
<1>3. Element(f) = [type |-> f.type, len |-> cut, data |-> f.at]
  BY DEF Element
<1> HIDE DEF cut
<1>4. QED
  BY <1>1, <1>2, <1>3 DEF ElementType

\* A context is in SegmentType when its fields are in their types.
SegmentOf(c, x, d, a, els) == [element_count |-> c, expected_count |-> x, consumed |-> d,
                              in_array |-> a, elements |-> els]

LEMMA SegmentFields ==
  ASSUME NEW c \in 0 .. MaxElems, NEW x \in 0 .. 255, NEW d \in BOOLEAN, NEW a \in BOOLEAN,
         NEW els \in [0 .. MaxElems - 1 -> ElementType]
  PROVE  SegmentOf(c, x, d, a, els) \in SegmentType
  BY DEF SegmentOf, SegmentType

\* It keeps its invariant when an array begun has elements to come, and fits.
LEMMA SegmentFieldsInv ==
  ASSUME NEW c \in 0 .. MaxElems, NEW x \in 0 .. 255, NEW d \in BOOLEAN, NEW a \in BOOLEAN,
         NEW els \in [0 .. MaxElems - 1 -> ElementType],
         a => c < x /\ x <= MaxElems,
         stx' = SegmentOf(c, x, d, a, els)
  PROVE  SegmentInv'
<1>1. stx' \in SegmentType
  BY SegmentFields, Zenon
<1>2. stx'.element_count = c /\ stx'.expected_count = x
  BY DEF SegmentOf
<1>3. stx'.in_array = a
  BY DEF SegmentOf
<1>4. SlotFree'
  BY <1>2, <1>3 DEF SlotFree
<1>5. QED
  BY <1>1, <1>4 DEF SegmentInv

LEMMA SegmentInitInv == SInit => SegmentInv
<1> SUFFICES ASSUME SInit PROVE SegmentInv
  OBVIOUS
<1>1. NoElement \in ElementType
  BY LenAssumption DEF NoElement, ElementType
<1>2. QED
  BY <1>1, LimitAssumption DEF SInit, NewSegment, SegmentInv, SegmentType, SlotFree

\* The header of an array leaves slots for all of its elements.
LEMMA BegunKeeps ==
  ASSUME SegmentInv, outframe \in FrameType, stx' = Begun
  PROVE  SegmentInv'
<1>1. outframe.n \in 0 .. 255 /\ outframe.n <= MaxElems /\ 0 \in 0 .. MaxElems
  BY LimitAssumption DEF FrameType
<1>2. stx.elements \in [0 .. MaxElems - 1 -> ElementType]
  BY DEF SegmentInv, SegmentType
<1>3. stx' = SegmentOf(0, outframe.n, outframe.n = 0, outframe.n # 0, stx.elements)
  BY DEF SegmentInv, SegmentType, Begun, SegmentOf
<1>4. outframe.n # 0 => 0 < outframe.n /\ outframe.n <= MaxElems
  BY <1>1
<1>5. (outframe.n = 0) \in BOOLEAN /\ (outframe.n # 0) \in BOOLEAN
  BY Zenon
<1>6. QED
  BY <1>1, <1>2, <1>3, <1>4, <1>5, SegmentFieldsInv, Zenon

\* The context an element is stored into has a slot for it.
LEMMA OpenedHasSlot ==
  ASSUME SegmentInv
  PROVE  /\ Opened \in SegmentType
         /\ Opened.element_count < Opened.expected_count
         /\ Opened.expected_count <= MaxElems
<1>1. CASE stx.in_array
  BY <1>1 DEF Opened, SegmentInv, SlotFree
<1>2. CASE ~stx.in_array
  <2>1. /\ stx.consumed \in BOOLEAN /\ stx.in_array \in BOOLEAN
        /\ stx.elements \in [0 .. MaxElems - 1 -> ElementType]
    BY DEF SegmentInv, SegmentType
  <2>2. Opened = SegmentOf(0, 1, stx.consumed, stx.in_array, stx.elements)
    BY <1>2 DEF SegmentInv, SegmentType, Opened, SegmentOf
  <2>3. 0 \in 0 .. MaxElems /\ 1 \in 0 .. 255 /\ 1 <= MaxElems
    BY LimitAssumption
  <2>4. Opened \in SegmentType
    BY <2>1, <2>2, <2>3, SegmentFields
  <2>5. QED
    BY <2>2, <2>3, <2>4 DEF SegmentOf
<1>3. QED
  BY <1>1, <1>2

\* An element goes into that slot; if it is not the last, there is one more.
LEMMA StoredKeeps ==
  ASSUME SegmentInv, outframe \in FrameType, stx' = Stored
  PROVE  SegmentInv'
<1> DEFINE c == Opened.element_count
           x == Opened.expected_count
           e == Element(outframe)
           els == [Opened.elements EXCEPT ![c] = e]
<1>1. Opened \in SegmentType /\ c < x /\ x <= MaxElems
  BY OpenedHasSlot
<1>2. /\ c \in 0 .. MaxElems /\ x \in 0 .. 255
      /\ Opened.elements \in [0 .. MaxElems - 1 -> ElementType]
  BY <1>1 DEF SegmentType
<1>3. e \in ElementType
  BY ElementFits
<1>4. stx' = SegmentOf(c + 1, x, c + 1 = x, c + 1 # x, els)
  <2> HIDE DEF e
  <2>1. stx' = [Opened EXCEPT !.elements[c] = e, !.element_count = c + 1,
                              !.consumed = c + 1 = x, !.in_array = c + 1 # x]
    BY DEF Stored, e
  <2>2. QED
    BY <1>1, <2>1 DEF SegmentType, SegmentOf
<1> HIDE DEF c, x, e
<1>5. els \in [0 .. MaxElems - 1 -> ElementType]
  BY <1>2, <1>3
<1> HIDE DEF els
<1>6. c + 1 \in 0 .. MaxElems /\ (c + 1 # x => c + 1 < x /\ x <= MaxElems)
  BY <1>1, <1>2, LimitAssumption
<1>7. (c + 1 = x) \in BOOLEAN /\ (c + 1 # x) \in BOOLEAN
  BY Zenon
<1>8. QED
  BY <1>2, <1>4, <1>5, <1>6, <1>7, SegmentFieldsInv, Zenon

\* segment_proceed refuses a nested header and takes every other frame.
LEMMA SegmentKeeps ==
  ASSUME ParserInv, SegmentInv, segment_proceed
  PROVE  SegmentInv'
<1>1. outframe \in FrameType
  BY DEF ParserInv, ParserTypeOK, FrameType
<1>2. CASE UNCHANGED stx
  BY <1>2 DEF SegmentInv, SlotFree
<1>3. CASE stx' = Begun
  BY <1>1, <1>3, BegunKeeps
<1>4. CASE stx' = Stored
  BY <1>1, <1>4, StoredKeeps
<1>5. QED
  BY <1>2, <1>3, <1>4 DEF segment_proceed

-----------------------------------------------------------------------------
(* The invariant, and what follows from it.                                *)

LEMMA SegmentStepInv == ParserInv /\ SegmentInv /\ [SNext]_gvars => ParserInv' /\ SegmentInv'
<1> SUFFICES ASSUME ParserInv, SegmentInv, [SNext]_gvars
             PROVE  ParserInv' /\ SegmentInv'
  OBVIOUS
<1>1. CASE (Receive \/ zerocopy_proceed) /\ UNCHANGED svars
  <2>1. ParserInv'
    BY <1>1, ReceiveKeeps, ProceedKeeps
  <2>2. SegmentInv'
    BY <1>1 DEF svars, SegmentInv, SlotFree
  <2>3. QED
    BY <2>1, <2>2
<1>2. CASE segment_proceed
  BY <1>2, SegmentKeepsParser, SegmentKeeps
<1>3. CASE UNCHANGED gvars
  BY <1>3 DEF gvars, ParserInv, ParserTypeOK, OffsetInBuffer, Base, SegmentInv, SlotFree
<1>4. QED
  BY <1>1, <1>2, <1>3 DEF SNext

\* Parser and aggregator keep their invariants on every byte stream, however it
\* is cut.
THEOREM SegmentInvariant == SSpec => [](ParserInv /\ SegmentInv)
<1>1. SInit => ParserInv /\ SegmentInv
  BY ParserInitInv, SegmentInitInv
<1>2. ParserInv /\ SegmentInv /\ [SNext]_gvars => ParserInv' /\ SegmentInv'
  BY SegmentStepInv
<1>3. QED
  BY <1>1, <1>2, PTL DEF SSpec

\* Every variable of the parser has its type, and a parser that waits for
\* nothing has saved nothing.
THEOREM ParserTypeCorrect == SSpec => []ParserTypeOK
<1>1. ParserInv => ParserTypeOK
  BY DEF ParserInv
<1>2. QED
  BY <1>1, SegmentInvariant, PTL

\* The parser never consumes a byte that has not arrived.
THEOREM OffsetCorrect == SSpec => []OffsetInBuffer
<1>1. ParserInv => OffsetInBuffer
  BY DEF ParserInv
<1>2. QED
  BY <1>1, SegmentInvariant, PTL

\* elements[] has a slot for every element segment_proceed is given.
THEOREM SlotCorrect == SSpec => []SlotFree
<1>1. SegmentInv => SlotFree
  BY DEF SegmentInv
<1>2. QED
  BY <1>1, SegmentInvariant, PTL

-----------------------------------------------------------------------------
(* Numbers: what the client writes, try_parser_num reads.                  *)

Digits == {Digit[d] : d \in 1 .. 10}

LEMMA DigitRead ==
  ASSUME NEW d \in 0 .. 9
  PROVE  Digit[d + 1] \in Digits /\ IsDigit(Digit[d + 1]) /\ DigitValue(Digit[d + 1]) = d
<1>1. Digit[d + 1] \in Digits /\ IsDigit(Digit[d + 1])
  BY DEF Digits, IsDigit
<1>2. \A e \in 0 .. 9 : Digit[e + 1] = Digit[d + 1] => e = d
  BY DEF Digit
<1>3. QED
  BY <1>1, <1>2 DEF DigitValue

\* The step of try_parser_num's loop.
NumStep(s, a, j) ==
  IF \/ a < 0 \/ ~IsDigit(s[j])
     \/ j > CheckFrom /\ a > (LLMax - DigitValue(s[j])) \div 10
    THEN -1
    ELSE a * 10 + DigitValue(s[j])

NumLoop(s, g) == g = [j \in 0 .. Len(s) |-> IF j = 0 THEN 0 ELSE NumStep(s, g[j - 1], j)]

LEMMA NumLoopEnds ==
  ASSUME NEW s, Len(s) \in Nat
  PROVE  \E g \in [0 .. Len(s) -> Int] : NumLoop(s, g)
<1> DEFINE N == Len(s)
           step == [p \in Int \X (1 .. N) |-> NumStep(s, p[1], p[2])]
<1>1. ASSUME NEW a \in Int, NEW j \in 1 .. N PROVE NumStep(s, a, j) \in Int
  <2>1. IsDigit(s[j]) => DigitValue(s[j]) \in 0 .. 9
    BY DigitRead DEF IsDigit, DigitValue
  <2>2. QED
    BY <2>1 DEF NumStep
<1>2. step \in [Int \X (1 .. N) -> Int]
  BY <1>1
<1>3. \A a \in Int, j \in 1 .. N : step[<<a, j>>] = NumStep(s, a, j)
  OBVIOUS
<1> HIDE DEF step
<1>0. 0 \in Int /\ N \in Nat
  OBVIOUS
<1> HIDE DEF N
<1>4. PICK g \in [0 .. N -> Int] : Steps(g, 0, step, N)
  BY <1>0, <1>2, Recursion, ZenonT(30)
<1>5. ASSUME NEW j \in 0 .. N PROVE g[j] = IF j = 0 THEN 0 ELSE NumStep(s, g[j - 1], j)
  <2>1. CASE j = 0
    BY <1>4, <2>1 DEF Steps
  <2>2. CASE j # 0
    <3>1. j \in 1 .. N /\ j - 1 \in 0 .. N
      BY <1>0, <2>2
    <3>2. g[j - 1] \in Int
      BY <1>4, <3>1
    <3>3. QED
      BY <1>3, <1>4, <2>2, <3>1, <3>2 DEF Steps
  <2>3. QED
    BY <2>1, <2>2
<1>6. NumLoop(s, g)
  BY <1>4, <1>5 DEF NumLoop, N
<1>7. QED
  BY <1>4, <1>6 DEF N

\* The loop on s; its result is the value of s.
Loop(s) == CHOOSE g : NumLoop(s, g)

LEMMA ValueIsLoop ==
  ASSUME NEW s, Len(s) \in Nat
  PROVE  /\ Loop(s) \in [0 .. Len(s) -> Int]
         /\ Loop(s)[0] = 0
         /\ \A j \in 1 .. Len(s) : Loop(s)[j] = NumStep(s, Loop(s)[j - 1], j)
         /\ Value(s) = Loop(s)[Len(s)]
<1> DEFINE g == Loop(s)
<1>1. NumLoop(s, g)
  BY NumLoopEnds, Zenon DEF Loop
<1>2. Value(s) = g[Len(s)]
  BY DEF Value, Loop, NumLoop, NumStep
<1> HIDE DEF g
<1>3. g[0] = 0 /\ \A j \in 1 .. Len(s) : g[j] = NumStep(s, g[j - 1], j)
  BY <1>1 DEF NumLoop
<1>4. g \in [0 .. Len(s) -> Int]
  <2>1. PICK h \in [0 .. Len(s) -> Int] : NumLoop(s, h)
    BY NumLoopEnds
  <2> DEFINE Bad == {j \in 0 .. Len(s) : g[j] # h[j]}
  <2>2. Bad = {}
    <3>1. SUFFICES ASSUME Bad # {} PROVE FALSE
      OBVIOUS
    <3>2. PICK j \in Bad : \A m \in Bad : j <= m
      <4>1. Bad \in SUBSET Nat
        OBVIOUS
      <4> HIDE DEF Bad
      <4>2. QED
        BY <3>1, <4>1, LeastNumber
    <3>3. j # 0 /\ g[j - 1] = h[j - 1]
      BY <1>1, <2>1, <3>2 DEF NumLoop
    <3>4. QED
      BY <1>1, <2>1, <3>2, <3>3 DEF NumLoop
  <2>3. QED
    BY <1>1, <2>1, <2>2 DEF NumLoop
<1>5. QED
  BY <1>2, <1>3, <1>4 DEF g

\* A digit more is ten times the value and the digit, unless that overflows.
LEMMA ValueAppend ==
  ASSUME NEW S, NEW t \in Seq(S), NEW d \in 0 .. 9, Digit[d + 1] \in S,
         Value(t) \in Nat, Value(t) * 10 + d <= LLMax
  PROVE  Value(Append(t, Digit[d + 1])) = Value(t) * 10 + d
<1> DEFINE s == Append(t, Digit[d + 1])
           N == Len(t)
           g == Loop(s)
           h == Loop(t)
           Bad == {j \in 0 .. N : g[j] # h[j]}
<1>1. /\ N \in Nat /\ Len(s) = N + 1 /\ s[N + 1] = Digit[d + 1]
      /\ \A j \in 1 .. N : s[j] = t[j]
  BY AppendProperties, LenProperties
<1>2. /\ g \in [0 .. N + 1 -> Int] /\ h \in [0 .. N -> Int] /\ g[0] = 0 /\ h[0] = 0
      /\ \A j \in 1 .. N + 1 : g[j] = NumStep(s, g[j - 1], j)
      /\ \A j \in 1 .. N : h[j] = NumStep(t, h[j - 1], j)
      /\ Value(s) = g[N + 1] /\ Value(t) = h[N]
  <2> HIDE DEF s
  <2>1. Len(s) \in Nat /\ Len(t) \in Nat
    BY <1>1
  <2>2. QED
    BY <1>1, <2>1, ValueIsLoop
<1> HIDE DEF s, g, h, N
<1>3. \A a : \A j \in 1 .. N : NumStep(s, a, j) = NumStep(t, a, j)
  BY <1>1 DEF NumStep
<1>4. Bad = {}
  <2>1. SUFFICES ASSUME Bad # {} PROVE FALSE
    OBVIOUS
  <2>2. PICK j \in Bad : \A m \in Bad : j <= m
    <3>1. Bad \in SUBSET Nat
      OBVIOUS
    <3> HIDE DEF Bad
    <3>2. QED
      BY <2>1, <3>1, LeastNumber
  <2>3. j \in 1 .. N /\ j - 1 \in 0 .. N /\ j - 1 \notin Bad
    BY <1>1, <1>2, <2>2
  <2>4. g[j - 1] = h[j - 1]
    BY <2>3
  <2>5. g[j] = NumStep(t, g[j - 1], j) /\ h[j] = NumStep(t, h[j - 1], j)
    BY <1>1, <1>2, <1>3, <2>3
  <2>6. QED
    BY <2>2, <2>4, <2>5
<1>5. g[N] = Value(t)
  <2>1. N \in 0 .. N /\ N \notin Bad
    BY <1>1, <1>4
  <2>2. g[N] = h[N]
    BY <2>1
  <2>3. QED
    BY <1>2, <2>2
<1>6. g[N + 1] = NumStep(s, g[N], N + 1)
  <2>1. N + 1 \in 1 .. N + 1 /\ (N + 1) - 1 = N
    BY <1>1
  <2>2. QED
    BY <1>2, <2>1
<1>7. NumStep(s, Value(t), N + 1) = Value(t) * 10 + d
  <2> DEFINE a == Value(t)
  <2>1. IsDigit(s[N + 1]) /\ DigitValue(s[N + 1]) = d
    BY <1>1, DigitRead
  <2>2. a \in Nat /\ a * 10 + d <= LLMax /\ LLMax \in Nat
    BY NumberAssumption
  <2> HIDE DEF a
  <2>3. ~(a < 0) /\ ~(a > (LLMax - d) \div 10)
    BY <2>2
  <2>4. NumStep(s, a, N + 1) = a * 10 + d
    BY <2>1, <2>3 DEF NumStep
  <2>5. QED
    BY <2>4 DEF a
<1>8. QED
  BY <1>2, <1>5, <1>6, <1>7 DEF s

\* What Dec(n) is computed by.
DecLoop(n, g) ==
  g = [m \in 0 .. n |-> IF m < 10 THEN <<Digit[m + 1]>>
                        ELSE Append(g[m \div 10], Digit[(m % 10) + 1])]

LEMMA DecLoopEnds == ASSUME NEW n \in Nat PROVE \E g : DecLoop(n, g)
<1> DEFINE S == {l \in Nat : \E g : DecLoop(l, g)}
<1>1. 0 \in S
  <2>1. DecLoop(0, [m \in 0 .. 0 |-> <<Digit[m + 1]>>])
    BY DEF DecLoop
  <2>2. QED
    BY <2>1
<1>2. ASSUME NEW l \in S PROVE l + 1 \in S
  <2>1. PICK g : DecLoop(l, g)
    OBVIOUS
  <2> DEFINE h == [m \in 0 .. l + 1 |->
                     IF m < 10 THEN <<Digit[m + 1]>>
                     ELSE Append(g[m \div 10], Digit[(m % 10) + 1])]
  <2>2. ASSUME NEW m \in 0 .. l + 1, ~(m < 10) PROVE h[m \div 10] = g[m \div 10]
    <3>1. m \div 10 \in 0 .. l
      BY <2>2
    <3> DEFINE q == m \div 10
    <3> HIDE DEF q
    <3>2. q \in 0 .. l /\ q \in 0 .. l + 1
      BY <3>1 DEF q
    <3>3. g[q] = IF q < 10 THEN <<Digit[q + 1]>>
                 ELSE Append(g[q \div 10], Digit[(q % 10) + 1])
      BY <2>1, <3>2 DEF DecLoop
    <3>4. QED
      BY <3>2, <3>3 DEF q
  <2>3. h = [m \in 0 .. l + 1 |->
               IF m < 10 THEN <<Digit[m + 1]>>
               ELSE Append(h[m \div 10], Digit[(m % 10) + 1])]
    <3> DEFINE e(m) == IF m < 10 THEN <<Digit[m + 1]>>
                       ELSE Append(h[m \div 10], Digit[(m % 10) + 1])
    <3>1. ASSUME NEW m \in 0 .. l + 1 PROVE h[m] = e(m)
      <4>1. h[m] = IF m < 10 THEN <<Digit[m + 1]>>
                   ELSE Append(g[m \div 10], Digit[(m % 10) + 1])
        OBVIOUS
      <4> HIDE DEF h
      <4>2. CASE m < 10
        BY <4>1, <4>2
      <4>3. CASE ~(m < 10)
        BY <2>2, <4>1, <4>3
      <4>4. QED
        BY <4>2, <4>3
    <3>2. h = [m \in 0 .. l + 1 |-> h[m]]
      OBVIOUS
    <3> HIDE DEF h
    <3>3. QED
      BY <3>1, <3>2
  <2> HIDE DEF h
  <2>4. DecLoop(l + 1, h)
    BY <2>3 DEF DecLoop
  <2>5. QED
    BY <2>4
<1>3. S = Nat
  <2> HIDE DEF S
  <2>1. S \in SUBSET Nat
    BY DEF S
  <2>2. QED
    BY <1>1, <1>2, <2>1, NatSetInduction
<1>4. n \in S
  BY <1>3
<1>5. QED
  BY <1>4

\* A number written is digits, and is read as the number.
LEMMA DecRead ==
  ASSUME NEW n \in Nat, n <= LLMax
  PROVE  Dec(n) \in Seq(Digits) /\ Value(Dec(n)) = n
<1> DEFINE g == CHOOSE h : DecLoop(n, h)
           Bad == {m \in 0 .. n : ~(g[m] \in Seq(Digits) /\ Value(g[m]) = m)}
<1>1. DecLoop(n, g)
  BY DecLoopEnds, Zenon
<1>2. Dec(n) = g[n]
  BY DEF Dec, DecLoop
<1> HIDE DEF g
<1>3. Bad = {}
  <2>1. SUFFICES ASSUME Bad # {} PROVE FALSE
    OBVIOUS
  <2>2. PICK m \in Bad : \A l \in Bad : m <= l
    <3>1. Bad \in SUBSET Nat
      OBVIOUS
    <3> HIDE DEF Bad
    <3>2. QED
      BY <2>1, <3>1, LeastNumber
  <2>3. m \in 0 .. n /\ m \in Nat /\ m <= LLMax
    BY <2>2, NumberAssumption
  <2>4. g[m] = IF m < 10 THEN <<Digit[m + 1]>> ELSE Append(g[m \div 10], Digit[(m % 10) + 1])
    BY <1>1, <2>3 DEF DecLoop
  <2>5. CASE m < 10
    <3>1. m \in 0 .. 9 /\ g[m] = Append(<<>>, Digit[m + 1])
      BY <2>3, <2>4, <2>5
    <3>2. Digit[m + 1] \in Digits /\ <<>> \in Seq(Digits)
      BY <3>1, DigitRead
    <3>3. Value(<<>>) = 0
      <4>1. Len(<<>>) = 0 /\ Len(<<>>) \in Nat
        OBVIOUS
      <4>2. QED
        BY <4>1, ValueIsLoop
    <3> DEFINE none == <<>>
    <3> HIDE DEF none
    <3>4. none \in Seq(Digits) /\ Value(none) \in Nat /\ Value(none) * 10 + m = m
      BY <2>3, <3>2, <3>3 DEF none
    <3>5. Value(Append(none, Digit[m + 1])) = m
      BY <2>3, <3>1, <3>2, <3>4, ValueAppend
    <3>6. g[m] \in Seq(Digits)
      BY <3>1, <3>2
    <3>7. QED
      BY <2>2, <3>1, <3>5, <3>6 DEF none
  <2>6. CASE ~(m < 10)
    <3> DEFINE q == m \div 10
               d == m % 10
    <3>1. q \in Nat /\ q < m /\ q * 10 + d = m /\ d \in 0 .. 9
      BY <2>3, <2>6
    <3> HIDE DEF q, d
    <3>2. q \in 0 .. n /\ q \notin Bad
      BY <2>2, <2>3, <3>1
    <3>3. g[q] \in Seq(Digits) /\ Value(g[q]) = q
      BY <3>2
    <3>4. Digit[d + 1] \in Digits
      BY <3>1, DigitRead
    <3>5. g[m] = Append(g[q], Digit[d + 1])
      BY <2>4, <2>6 DEF q, d
    <3>6. Value(g[m]) = m
      <4>1. Value(g[q]) \in Nat /\ Value(g[q]) * 10 + d <= LLMax /\ Value(g[q]) * 10 + d = m
        BY <2>3, <3>1, <3>3
      <4>2. Value(Append(g[q], Digit[d + 1])) = Value(g[q]) * 10 + d
        BY <3>1, <3>3, <3>4, <4>1, ValueAppend
      <4>3. QED
        BY <3>5, <4>1, <4>2
    <3>7. g[m] \in Seq(Digits)
      BY <3>3, <3>4, <3>5, AppendProperties
    <3>8. QED
      BY <2>2, <3>6, <3>7
  <2>7. QED
    BY <2>5, <2>6
<1>4. QED
  BY <1>2, <1>3

-----------------------------------------------------------------------------
(* The stream: where each frame lies, and what lies there.                 *)

Wire(Octet) == Octet \cup Prefix \cup Digits \cup {"CR", "LF"}

\* What a frame's line says behind the prefix.
Line(x) == IF x.type \in Simple THEN x.data
           ELSE IF x.type = "$" THEN Dec(Len(x.data)) ELSE Dec(x.n)

LEMMA LineOf ==
  ASSUME NEW Octet, NEW x \in FrameItem(Octet), WellFormed(x)
  PROVE  /\ Line(x) \in Seq(Wire(Octet))
         /\ \A j \in 1 .. Len(Line(x)) - 1 : ~(Line(x)[j] = "CR" /\ Line(x)[j + 1] = "LF")
         /\ x.type = "$" => Value(Line(x)) = Len(x.data)
         /\ x.type = "*" => Value(Line(x)) = x.n
<1>1. /\ x.type \in Prefix /\ x.data \in Seq(Octet) /\ x.n \in 0 .. MaxElems - 1
      /\ Len(x.data) \in Nat
  BY DEF FrameItem
<1>2. CASE x.type \in Simple
  <2>1. Line(x) = x.data /\ x.type # "$" /\ x.type # "*"
    BY <1>2 DEF Line, Simple
  <2>2. x.data \in Seq(Wire(Octet))
    <3>1. Octet \subseteq Wire(Octet)
      BY DEF Wire
    <3>2. QED
      BY <1>1, <3>1, SeqMonotonic
  <2>3. QED
    BY <1>2, <2>1, <2>2 DEF WellFormed
<1>3. ASSUME NEW n \in Nat, n <= LLMax, Line(x) = Dec(n)
      PROVE  /\ Line(x) \in Seq(Wire(Octet)) /\ Value(Line(x)) = n
             /\ \A j \in 1 .. Len(Line(x)) - 1 : ~(Line(x)[j] = "CR" /\ Line(x)[j + 1] = "LF")
  <2>1. Line(x) \in Seq(Digits) /\ Value(Line(x)) = n
    BY <1>3, DecRead
  <2>2. Line(x) \in Seq(Wire(Octet))
    <3>1. Digits \subseteq Wire(Octet)
      BY DEF Wire
    <3>2. QED
      BY <2>1, <3>1, SeqMonotonic
  <2>3. "CR" \notin Digits
    BY DEF Digits, Digit
  <2>4. ASSUME NEW j \in 1 .. Len(Line(x)) - 1 PROVE Line(x)[j] # "CR"
    <3>1. Len(Line(x)) \in Nat
      BY <2>1, LenProperties
    <3>2. j \in 1 .. Len(Line(x))
      BY <3>1
    <3>3. Line(x)[j] \in Digits
      BY <2>1, <3>2, ElementOfSeq
    <3>4. QED
      BY <2>3, <3>3
  <2>5. QED
    BY <2>1, <2>2, <2>4
<1>4. CASE x.type = "$"
  <2>1. Line(x) = Dec(Len(x.data)) /\ x.type # "*"
    BY <1>4 DEF Line, Simple
  <2>2. Len(x.data) <= LLMax
    BY <1>1, <1>4, NumberAssumption, LimitAssumption DEF WellFormed
  <2>3. QED
    BY <1>1, <1>3, <2>1, <2>2
<1>5. CASE x.type = "*"
  <2>1. Line(x) = Dec(x.n) /\ x.type # "$"
    BY <1>5 DEF Line, Simple
  <2>2. x.n <= LLMax /\ x.n \in Nat
    BY <1>1, NumberAssumption, LimitAssumption
  <2>3. QED
    BY <1>3, <2>1, <2>2
<1>6. QED
  BY <1>1, <1>2, <1>4, <1>5 DEF Prefix

\* A prefix, a line and its end.
LEMMA HeaderBytes ==
  ASSUME NEW W, NEW t \in W, NEW l \in Seq(W), "CR" \in W, "LF" \in W
  PROVE  LET h == <<t>> \o l \o CRLF IN
           /\ h \in Seq(W) /\ Len(h) = Len(l) + 3
           /\ h[1] = t /\ \A j \in 1 .. Len(l) : h[1 + j] = l[j]
           /\ h[Len(l) + 2] = "CR" /\ h[Len(l) + 3] = "LF"
<1> DEFINE a == <<t>>
           b == a \o l
           h == b \o CRLF
<1>1. a \in Seq(W) /\ Len(a) = 1 /\ a[1] = t
  OBVIOUS
<1>2. CRLF \in Seq(W) /\ Len(CRLF) = 2 /\ CRLF[1] = "CR" /\ CRLF[2] = "LF"
  BY DEF CRLF
<1>3. Len(l) \in Nat
  BY LenProperties
<1> HIDE DEF a
<1>4. /\ b \in Seq(W) /\ Len(b) = Len(l) + 1
      /\ \A j \in 1 .. Len(l) + 1 : b[j] = IF j <= 1 THEN a[j] ELSE l[j - 1]
  <2>1. /\ b \in Seq(W) /\ Len(b) = Len(a) + Len(l)
        /\ \A j \in 1 .. Len(a) + Len(l) : b[j] = IF j <= Len(a) THEN a[j] ELSE l[j - Len(a)]
    BY <1>1, ConcatProperties
  <2> HIDE DEF b
  <2>2. QED
    BY <1>1, <1>3, <2>1
<1> HIDE DEF b
<1>5. /\ h \in Seq(W) /\ Len(h) = Len(b) + 2
      /\ \A j \in 1 .. Len(b) + 2 : h[j] = IF j <= Len(b) THEN b[j] ELSE CRLF[j - Len(b)]
  <2>1. /\ h \in Seq(W) /\ Len(h) = Len(b) + Len(CRLF)
        /\ \A j \in 1 .. Len(b) + Len(CRLF) :
             h[j] = IF j <= Len(b) THEN b[j] ELSE CRLF[j - Len(b)]
    BY <1>2, <1>4, ConcatProperties
  <2> HIDE DEF h
  <2>2. QED
    BY <1>2, <2>1
<1> HIDE DEF h
<1>6. h[1] = t
  BY <1>1, <1>3, <1>4, <1>5
<1>7. ASSUME NEW j \in 1 .. Len(l) PROVE h[1 + j] = l[j]
  <2>1. 1 + j \in 1 .. Len(b) + 2 /\ 1 + j <= Len(b) /\ 1 + j \in 1 .. Len(l) + 1 /\ (1 + j) - 1 = j
        /\ ~(1 + j <= 1)
    BY <1>3, <1>4
  <2>2. QED
    BY <1>4, <1>5, <2>1
<1>8. h[Len(l) + 2] = "CR" /\ h[Len(l) + 3] = "LF"
  <2>1. /\ Len(l) + 2 \in 1 .. Len(b) + 2 /\ ~(Len(l) + 2 <= Len(b)) /\ Len(l) + 2 - Len(b) = 1
        /\ Len(l) + 3 \in 1 .. Len(b) + 2 /\ ~(Len(l) + 3 <= Len(b)) /\ Len(l) + 3 - Len(b) = 2
    BY <1>3, <1>4
  <2>2. QED
    BY <1>2, <1>5, <2>1
<1>9. QED
  BY <1>3, <1>4, <1>5, <1>6, <1>7, <1>8 DEF h, b, a

\* Something, data and the end of data.
LEMMA DataBytes ==
  ASSUME NEW W, NEW h \in Seq(W), NEW d \in Seq(W), "CR" \in W, "LF" \in W
  PROVE  LET e == h \o d \o CRLF IN
           /\ e \in Seq(W) /\ Len(e) = Len(h) + Len(d) + 2
           /\ \A j \in 1 .. Len(h) : e[j] = h[j]
           /\ \A j \in 1 .. Len(d) : e[Len(h) + j] = d[j]
           /\ e[Len(h) + Len(d) + 1] = "CR" /\ e[Len(h) + Len(d) + 2] = "LF"
<1> DEFINE b == h \o d
           e == b \o CRLF
<1>1. CRLF \in Seq(W) /\ Len(CRLF) = 2 /\ CRLF[1] = "CR" /\ CRLF[2] = "LF"
  BY DEF CRLF
<1>2. Len(h) \in Nat /\ Len(d) \in Nat
  BY LenProperties
<1>3. /\ b \in Seq(W) /\ Len(b) = Len(h) + Len(d)
      /\ \A j \in 1 .. Len(h) + Len(d) : b[j] = IF j <= Len(h) THEN h[j] ELSE d[j - Len(h)]
  BY ConcatProperties
<1> HIDE DEF b
<1>4. /\ e \in Seq(W) /\ Len(e) = Len(b) + 2
      /\ \A j \in 1 .. Len(b) + 2 : e[j] = IF j <= Len(b) THEN b[j] ELSE CRLF[j - Len(b)]
  <2>0. b \in Seq(W) /\ CRLF \in Seq(W)
    BY <1>1, <1>3
  <2>1. /\ e \in Seq(W) /\ Len(e) = Len(b) + Len(CRLF)
        /\ \A j \in 1 .. Len(b) + Len(CRLF) :
             e[j] = IF j <= Len(b) THEN b[j] ELSE CRLF[j - Len(b)]
    BY <2>0, ConcatProperties
  <2> HIDE DEF e
  <2>2. QED
    BY <1>1, <2>1
<1> HIDE DEF e
<1>5. ASSUME NEW j \in 1 .. Len(h) PROVE e[j] = h[j]
  <2>1. j \in 1 .. Len(b) + 2 /\ j <= Len(b) /\ j \in 1 .. Len(h) + Len(d) /\ j <= Len(h)
    BY <1>2, <1>3
  <2>2. QED
    BY <1>3, <1>4, <2>1
<1>6. ASSUME NEW j \in 1 .. Len(d) PROVE e[Len(h) + j] = d[j]
  <2> DEFINE m == Len(h) + j
  <2>1. /\ m \in 1 .. Len(b) + 2 /\ m <= Len(b) /\ m \in 1 .. Len(h) + Len(d) /\ ~(m <= Len(h))
        /\ m - Len(h) = j
    BY <1>2, <1>3
  <2> HIDE DEF m
  <2>2. e[m] = d[j]
    BY <1>3, <1>4, <2>1
  <2>3. QED
    BY <2>2 DEF m
<1>7. e[Len(h) + Len(d) + 1] = "CR" /\ e[Len(h) + Len(d) + 2] = "LF"
  <2>1. /\ Len(b) + 1 \in 1 .. Len(b) + 2 /\ ~(Len(b) + 1 <= Len(b)) /\ Len(b) + 1 - Len(b) = 1
        /\ Len(b) + 2 \in 1 .. Len(b) + 2 /\ ~(Len(b) + 2 <= Len(b)) /\ Len(b) + 2 - Len(b) = 2
    BY <1>2, <1>3
  <2>2. e[Len(b) + 1] = "CR" /\ e[Len(b) + 2] = "LF"
    BY <1>1, <1>4, <2>1
  <2>3. QED
    BY <1>3, <2>2
<1>8. QED
  BY <1>3, <1>4, <1>5, <1>6, <1>7 DEF e, b

\* The length of a frame's line with the prefix and the line's end, and of the frame.
HeaderLen(x) == Len(Line(x)) + 3
FrameLen(x)  == IF x.type = "$" THEN HeaderLen(x) + Len(x.data) + 2 ELSE HeaderLen(x)

\* e is a frame: what x says.
FrameBytes(e, x) ==
  /\ Len(e) = FrameLen(x)
  /\ e[1] = x.type
  /\ \A j \in 1 .. Len(Line(x)) : e[1 + j] = Line(x)[j]
  /\ e[Len(Line(x)) + 2] = "CR" /\ e[Len(Line(x)) + 3] = "LF"
  /\ x.type = "$" => /\ \A j \in 1 .. Len(x.data) : e[HeaderLen(x) + j] = x.data[j]
                     /\ e[HeaderLen(x) + Len(x.data) + 1] = "CR"
                     /\ e[HeaderLen(x) + Len(x.data) + 2] = "LF"

LEMMA EncodeBytes ==
  ASSUME NEW Octet, NEW x \in FrameItem(Octet), WellFormed(x)
  PROVE  /\ Encode(x) \in Seq(Wire(Octet)) /\ FrameBytes(Encode(x), x)
         /\ Len(Line(x)) \in Nat /\ Len(x.data) \in Nat
<1> DEFINE W == Wire(Octet)
           h == <<x.type>> \o Line(x) \o CRLF
<1>1. /\ x.type \in Prefix /\ x.data \in Seq(Octet) /\ x.n \in 0 .. MaxElems - 1
      /\ Len(x.data) \in Nat
  BY DEF FrameItem
<1>2. Line(x) \in Seq(W)
  BY LineOf
<1>3. x.type \in W /\ "CR" \in W /\ "LF" \in W /\ Octet \subseteq W
  BY <1>1 DEF Wire
<1>4. x.data \in Seq(W)
  BY <1>1, <1>3, SeqMonotonic
<1> HIDE DEF W
<1>5. /\ h \in Seq(W) /\ Len(h) = Len(Line(x)) + 3
      /\ h[1] = x.type /\ \A j \in 1 .. Len(Line(x)) : h[1 + j] = Line(x)[j]
      /\ h[Len(Line(x)) + 2] = "CR" /\ h[Len(Line(x)) + 3] = "LF"
  BY <1>2, <1>3, HeaderBytes
<1>6. Len(Line(x)) \in Nat
  BY <1>2, LenProperties
<1>7. Encode(x) = IF x.type = "$" THEN h \o x.data \o CRLF ELSE h
  <2>1. CASE x.type \in Simple
    BY <2>1 DEF Encode, Line, Simple
  <2>2. CASE x.type = "$"
    BY <2>2 DEF Encode, Line, Simple
  <2>3. CASE x.type = "*"
    BY <2>3 DEF Encode, Line, Simple
  <2>4. QED
    BY <1>1, <2>1, <2>2, <2>3 DEF Prefix
<1> HIDE DEF h
<1>8. CASE x.type # "$"
  <2>1. Encode(x) = h /\ FrameLen(x) = Len(h)
    BY <1>5, <1>7, <1>8 DEF FrameLen, HeaderLen
  <2>2. QED
    BY <1>1, <1>5, <1>6, <1>8, <2>1 DEF FrameBytes, W
<1>9. CASE x.type = "$"
  <2> DEFINE e == h \o x.data \o CRLF
  <2>1. /\ e \in Seq(W) /\ Len(e) = Len(h) + Len(x.data) + 2
        /\ \A j \in 1 .. Len(h) : e[j] = h[j]
        /\ \A j \in 1 .. Len(x.data) : e[Len(h) + j] = x.data[j]
        /\ e[Len(h) + Len(x.data) + 1] = "CR" /\ e[Len(h) + Len(x.data) + 2] = "LF"
    <3>1. h \in Seq(W)
      BY <1>5
    <3>2. QED
      <4> DEFINE d == x.data
      <4>1. d \in Seq(W)
        BY <1>4
      <4> HIDE DEF d
      <4>2. LET b == h \o d \o CRLF IN
              /\ b \in Seq(W) /\ Len(b) = Len(h) + Len(d) + 2
              /\ \A j \in 1 .. Len(h) : b[j] = h[j]
              /\ \A j \in 1 .. Len(d) : b[Len(h) + j] = d[j]
              /\ b[Len(h) + Len(d) + 1] = "CR" /\ b[Len(h) + Len(d) + 2] = "LF"
        BY <1>3, <3>1, <4>1, DataBytes
      <4>3. QED
        BY <4>2 DEF d
  <2>2. Encode(x) = e
    BY <1>7, <1>9
  <2> HIDE DEF e
  <2>3. HeaderLen(x) = Len(h) /\ FrameLen(x) = Len(e)
    BY <1>5, <1>9, <2>1 DEF HeaderLen, FrameLen
  <2>4. e[1] = x.type /\ e[Len(Line(x)) + 2] = "CR" /\ e[Len(Line(x)) + 3] = "LF"
    <3>1. 1 \in 1 .. Len(h) /\ Len(Line(x)) + 2 \in 1 .. Len(h) /\ Len(Line(x)) + 3 \in 1 .. Len(h)
      BY <1>5, <1>6
    <3>2. \A j \in 1 .. Len(h) : e[j] = h[j]
      BY <2>1
    <3>3. /\ e[1] = h[1] /\ e[Len(Line(x)) + 2] = h[Len(Line(x)) + 2]
          /\ e[Len(Line(x)) + 3] = h[Len(Line(x)) + 3]
      BY <3>1, <3>2, Zenon
    <3>4. QED
      BY <1>5, <3>3
  <2>5. ASSUME NEW j \in 1 .. Len(Line(x)) PROVE e[1 + j] = Line(x)[j]
    <3>1. 1 + j \in 1 .. Len(h)
      BY <1>5, <1>6
    <3>2. e[1 + j] = h[1 + j]
      BY <2>1, <3>1, Zenon
    <3>3. QED
      BY <1>5, <3>2, Zenon
  <2>6. /\ \A j \in 1 .. Len(x.data) : e[HeaderLen(x) + j] = x.data[j]
        /\ e[HeaderLen(x) + Len(x.data) + 1] = "CR" /\ e[HeaderLen(x) + Len(x.data) + 2] = "LF"
    BY <2>1, <2>3
  <2>7. FrameBytes(e, x)
    BY <2>3, <2>4, <2>5, <2>6 DEF FrameBytes
  <2>8. QED
    BY <1>1, <1>6, <2>1, <2>2, <2>7 DEF W
<1>10. QED
  BY <1>8, <1>9

-----------------------------------------------------------------------------
(* The bytes of the first frames.                                          *)

BytesLoop(s, g) == g = [j \in 0 .. Len(s) |-> IF j = 0 THEN <<>> ELSE g[j - 1] \o Encode(s[j])]

LEMMA BytesGrow ==
  ASSUME NEW Octet, NEW s, FramesOnly(s, Octet)
  PROVE  /\ Len(s) \in Nat
         /\ \A m \in 0 .. Len(s) : Bytes(s, m) \in Seq(Wire(Octet))
         /\ Bytes(s, 0) = <<>>
         /\ \A m \in 1 .. Len(s) : /\ Bytes(s, m) = Bytes(s, m - 1) \o Encode(s[m])
                                   /\ s[m] \in FrameItem(Octet) /\ WellFormed(s[m])
                                   /\ Encode(s[m]) \in Seq(Wire(Octet))
<1> DEFINE V == Seq(Wire(Octet))
           N == Len(s)
           step == [p \in V \X (1 .. N) |-> p[1] \o Encode(s[p[2]])]
<1>1. N \in Nat /\ s \in Seq(FrameItem(Octet))
  BY LenProperties DEF FramesOnly
<1>2. ASSUME NEW m \in 1 .. N PROVE /\ s[m] \in FrameItem(Octet) /\ WellFormed(s[m])
                                    /\ Encode(s[m]) \in V
  <2>1. s[m] \in FrameItem(Octet) /\ WellFormed(s[m])
    BY <1>1, ElementOfSeq DEF FramesOnly
  <2>2. QED
    BY <2>1, EncodeBytes
<1>3. ASSUME NEW a \in V, NEW j \in 1 .. N PROVE a \o Encode(s[j]) \in V
  BY <1>2, ConcatProperties
<1>4. step \in [V \X (1 .. N) -> V]
  BY <1>3
<1>5. \A a \in V, j \in 1 .. N : step[<<a, j>>] = a \o Encode(s[j])
  OBVIOUS
<1>6. <<>> \in V
  BY EmptySeq
<1> HIDE DEF step, V, N
<1>7. PICK g \in [0 .. N -> V] : Steps(g, <<>>, step, N)
  BY <1>1, <1>4, <1>6, Recursion, ZenonT(30)
<1>8. ASSUME NEW j \in 0 .. N PROVE g[j] = IF j = 0 THEN <<>> ELSE g[j - 1] \o Encode(s[j])
  <2>1. CASE j = 0
    BY <1>7, <2>1 DEF Steps
  <2>2. CASE j # 0
    <3>1. j \in 1 .. N /\ j - 1 \in 0 .. N
      BY <1>1, <2>2
    <3>2. g[j - 1] \in V
      BY <1>7, <3>1
    <3>3. g[j] = step[<<g[j - 1], j>>]
      BY <1>7, <2>2 DEF Steps
    <3>4. QED
      BY <1>5, <2>2, <3>1, <3>2, <3>3
  <2>3. QED
    BY <2>1, <2>2
<1> DEFINE f == CHOOSE h : BytesLoop(s, h)
<1>9. BytesLoop(s, f)
  <2>1. BytesLoop(s, g)
    BY <1>7, <1>8 DEF BytesLoop, N
  <2>2. QED
    BY <2>1, Zenon
<1>10. \A m : Bytes(s, m) = f[m]
  BY DEF Bytes, BytesLoop
<1> HIDE DEF f
<1>11. \A j \in 0 .. N : f[j] = IF j = 0 THEN <<>> ELSE f[j - 1] \o Encode(s[j])
  BY <1>9 DEF BytesLoop, N
<1>12. \A j \in 0 .. N : f[j] = g[j]
  <2> DEFINE Bad == {j \in 0 .. N : f[j] # g[j]}
  <2>1. SUFFICES ASSUME Bad # {} PROVE FALSE
    OBVIOUS
  <2>2. PICK j \in Bad : \A m \in Bad : j <= m
    <3>1. Bad \in SUBSET Nat
      OBVIOUS
    <3> HIDE DEF Bad
    <3>2. QED
      BY <2>1, <3>1, LeastNumber
  <2>3. j \in 0 .. N /\ j # 0
    BY <1>8, <1>11, <2>2
  <2>4. f[j - 1] = g[j - 1]
    BY <1>1, <2>2, <2>3
  <2>5. f[j] = f[j - 1] \o Encode(s[j]) /\ g[j] = g[j - 1] \o Encode(s[j])
    BY <1>8, <1>11, <2>3
  <2>6. QED
    BY <2>2, <2>4, <2>5
<1>13. ASSUME NEW m \in 0 .. N PROVE Bytes(s, m) \in V
  BY <1>7, <1>10, <1>12
<1>14. Bytes(s, 0) = <<>>
  BY <1>1, <1>10, <1>11
<1>15. ASSUME NEW m \in 1 .. N PROVE Bytes(s, m) = Bytes(s, m - 1) \o Encode(s[m])
  <2>1. m \in 0 .. N /\ m # 0
    BY <1>1
  <2>2. f[m] = f[m - 1] \o Encode(s[m])
    BY <1>11, <2>1
  <2>3. QED
    BY <1>10, <2>2
<1>16. QED
  BY <1>1, <1>2, <1>13, <1>14, <1>15 DEF N, V

\* Where a frame ends in the stream; it lies before the end of the stream, and the
\* bytes there are its own.
End(s, m) == Len(Bytes(s, m))

LEMMA BytesPrefix ==
  ASSUME NEW Octet, NEW s, FramesOnly(s, Octet), NEW m \in 0 .. Len(s), NEW l \in m .. Len(s)
  PROVE  /\ End(s, m) \in Nat /\ End(s, l) \in Nat /\ End(s, m) <= End(s, l)
         /\ \A j \in 1 .. End(s, m) : Bytes(s, l)[j] = Bytes(s, m)[j]
<1> DEFINE Kept(n) == /\ End(s, m) <= End(s, n)
                      /\ \A j \in 1 .. End(s, m) : Bytes(s, n)[j] = Bytes(s, m)[j]
           Bad == {n \in m .. Len(s) : ~Kept(n)}
<1>1. Len(s) \in Nat /\ \A n \in 0 .. Len(s) : Bytes(s, n) \in Seq(Wire(Octet))
  BY BytesGrow
<1>2. \A n \in 0 .. Len(s) : End(s, n) \in Nat
  BY <1>1, LenProperties DEF End
<1>3. Bad = {}
  <2>1. SUFFICES ASSUME Bad # {} PROVE FALSE
    OBVIOUS
  <2>2. PICK n \in Bad : \A j \in Bad : n <= j
    <3>1. Bad \in SUBSET Nat
      OBVIOUS
    <3> HIDE DEF Bad
    <3>2. QED
      BY <2>1, <3>1, LeastNumber
  <2>3. Kept(m)
    BY <1>2
  <2>4. n \in m + 1 .. Len(s) /\ n \in 1 .. Len(s) /\ n - 1 \in 0 .. Len(s) /\ n \in 0 .. Len(s)
    BY <1>1, <2>2, <2>3
  <2>5. Kept(n - 1)
    <3>1. n - 1 \in m .. Len(s) /\ n - 1 \notin Bad
      BY <1>1, <2>2, <2>4
    <3>2. QED
      BY <3>1
  <2> DEFINE a == Bytes(s, n - 1)
             e == Encode(s[n])
  <2>6. a \in Seq(Wire(Octet)) /\ e \in Seq(Wire(Octet)) /\ Bytes(s, n) = a \o e
    BY <2>4, BytesGrow
  <2>7. Len(a) \in Nat /\ Len(e) \in Nat /\ Len(a) = End(s, n - 1)
    BY <2>6, LenProperties DEF End
  <2> HIDE DEF a, e
  <2>8. /\ Len(a \o e) = Len(a) + Len(e)
        /\ \A j \in 1 .. Len(a) + Len(e) : (a \o e)[j] = IF j <= Len(a) THEN a[j] ELSE e[j - Len(a)]
    BY <2>6, ConcatProperties
  <2>9. End(s, n) = Len(a) + Len(e)
    BY <2>6, <2>8 DEF End
  <2>10. End(s, m) <= End(s, n)
    BY <1>2, <2>4, <2>5, <2>7, <2>9
  <2>11. ASSUME NEW j \in 1 .. End(s, m) PROVE Bytes(s, n)[j] = Bytes(s, m)[j]
    <3>1. j \in 1 .. Len(a) + Len(e) /\ j <= Len(a)
      BY <1>2, <2>5, <2>7
    <3>2. Bytes(s, n)[j] = a[j]
      BY <2>6, <2>8, <3>1
    <3>3. QED
      BY <2>5, <3>2 DEF a
  <2>12. QED
    BY <2>2, <2>10, <2>11
<1>4. Kept(l)
  BY <1>3
<1>5. QED
  BY <1>1, <1>2, <1>4

LEMMA Placed ==
  ASSUME NEW Octet, NEW s, FramesOnly(s, Octet), NEW m \in 0 .. Len(s) - 1
  PROVE  /\ s[m + 1] \in FrameItem(Octet) /\ WellFormed(s[m + 1])
         /\ End(s, m) \in Nat /\ End(s, m + 1) = End(s, m) + FrameLen(s[m + 1])
         /\ End(s, m + 1) <= End(s, Len(s))
         /\ \A j \in 1 .. FrameLen(s[m + 1]) :
              Bytes(s, Len(s))[End(s, m) + j] = Encode(s[m + 1])[j]
<1> DEFINE a == Bytes(s, m)
           e == Encode(s[m + 1])
           N == Len(s)
<1>1. N \in Nat /\ m + 1 \in 1 .. N /\ m \in 0 .. N /\ m + 1 \in 0 .. N /\ (m + 1) - 1 = m
      /\ N \in m + 1 .. N
  BY BytesGrow
<1>2. a \in Seq(Wire(Octet)) /\ e \in Seq(Wire(Octet)) /\ Bytes(s, m + 1) = a \o e
  <2>1. a \in Seq(Wire(Octet))
    BY <1>1, BytesGrow
  <2>2. e \in Seq(Wire(Octet)) /\ Bytes(s, m + 1) = Bytes(s, (m + 1) - 1) \o e
    BY <1>1, BytesGrow
  <2>3. QED
    BY <1>1, <2>1, <2>2
<1>3. s[m + 1] \in FrameItem(Octet) /\ WellFormed(s[m + 1])
  BY <1>1, BytesGrow
<1>4. Len(e) = FrameLen(s[m + 1])
  BY <1>3, EncodeBytes DEF FrameBytes
<1>5. Len(a) \in Nat /\ Len(e) \in Nat /\ Len(a) = End(s, m)
  BY <1>2, LenProperties DEF End
<1> HIDE DEF a, e
<1>6. /\ Len(a \o e) = Len(a) + Len(e)
      /\ \A j \in 1 .. Len(a) + Len(e) : (a \o e)[j] = IF j <= Len(a) THEN a[j] ELSE e[j - Len(a)]
  BY <1>2, ConcatProperties
<1>7. End(s, m + 1) = Len(a) + Len(e)
  BY <1>2, <1>6 DEF End
<1>8. /\ End(s, m + 1) <= End(s, N)
      /\ \A j \in 1 .. End(s, m + 1) : Bytes(s, N)[j] = Bytes(s, m + 1)[j]
  BY <1>1, BytesPrefix
<1> HIDE DEF N
<1>9. ASSUME NEW j \in 1 .. Len(e) PROVE Bytes(s, N)[Len(a) + j] = e[j]
  <2> DEFINE l == Len(a) + j
  <2>1. l \in 1 .. Len(a) + Len(e) /\ ~(l <= Len(a)) /\ l - Len(a) = j
    BY <1>5
  <2> HIDE DEF l
  <2>2. (a \o e)[l] = e[j]
    BY <1>6, <2>1
  <2>3. Bytes(s, N)[l] = (a \o e)[l]
    BY <1>2, <1>7, <1>8, <2>1
  <2>4. QED
    BY <2>2, <2>3 DEF l
<1>10. QED
  BY <1>3, <1>4, <1>5, <1>7, <1>8, <1>9 DEF e, N

-----------------------------------------------------------------------------
(* Reading the buffer where a frame lies.                                  *)

\* The stream has the frame x at offset p.
Lies(Octet, x, p) ==
  /\ x \in FrameItem(Octet) /\ WellFormed(x)
  /\ p \in Nat /\ p + FrameLen(x) <= Len(wire)
  /\ \A j \in 1 .. FrameLen(x) : wire[p + j] = Encode(x)[j]

\* What is at the places of a frame that have arrived.
LEMMA FrameRead ==
  ASSUME NEW Octet, NEW x, NEW p, Lies(Octet, x, p), rb_size \in Nat
  PROVE  LET l == Len(Line(x)) IN
           /\ l \in Nat /\ Len(x.data) \in Nat /\ x.type \in Prefix
           /\ p < rb_size => At(p) = x.type
           /\ \A j \in 1 .. l : p + j < rb_size => At(p + j) = Line(x)[j]
           /\ p + l + 1 < rb_size => At(p + l + 1) = "CR"
           /\ p + l + 2 < rb_size => At(p + l + 2) = "LF"
           /\ x.type = "$" =>
                LET d == p + l + 3 IN
                  /\ \A j \in 1 .. Len(x.data) : d + j - 1 < rb_size => At(d + j - 1) = x.data[j]
                  /\ d + Len(x.data) < rb_size => At(d + Len(x.data)) = "CR"
                  /\ d + Len(x.data) + 1 < rb_size => At(d + Len(x.data) + 1) = "LF"
<1> DEFINE l == Len(Line(x))
           d == Len(x.data)
           e == Encode(x)
           L == FrameLen(x)
<1>1. l \in Nat /\ d \in Nat /\ FrameBytes(e, x) /\ x.type \in Prefix
  BY EncodeBytes DEF Lies, FrameItem
<1>2. p \in Nat /\ \A j \in 1 .. L : wire[p + j] = e[j]
  BY DEF Lies
<1>3. L = IF x.type = "$" THEN l + 3 + d + 2 ELSE l + 3
  BY DEF FrameLen, HeaderLen
<1>4. /\ e[1] = x.type
      /\ \A j \in 1 .. l : e[1 + j] = Line(x)[j]
      /\ e[l + 2] = "CR" /\ e[l + 3] = "LF"
      /\ x.type = "$" => /\ \A j \in 1 .. d : e[l + 3 + j] = x.data[j]
                         /\ e[l + 3 + d + 1] = "CR" /\ e[l + 3 + d + 2] = "LF"
  BY <1>1 DEF FrameBytes, HeaderLen
<1> HIDE DEF l, d, e, L
<1>5. ASSUME NEW j \in 0 .. L - 1, p + j < rb_size PROVE At(p + j) = e[j + 1]
  <2>1. j + 1 \in 1 .. L /\ p + (j + 1) = p + j + 1
    BY <1>1, <1>2, <1>3
  <2>2. wire[p + (j + 1)] = e[j + 1]
    BY <1>2, <2>1
  <2>3. QED
    BY <1>5, <2>1, <2>2 DEF At
<1>6. p < rb_size => At(p) = x.type
  <2>1. 0 \in 0 .. L - 1 /\ p + 0 = p /\ 0 + 1 = 1
    BY <1>1, <1>2, <1>3
  <2>2. p + 0 < rb_size => At(p + 0) = e[0 + 1]
    BY <1>5, <2>1
  <2>3. QED
    BY <1>4, <2>1, <2>2
<1>7. ASSUME NEW j \in 1 .. l, p + j < rb_size PROVE At(p + j) = Line(x)[j]
  <2>1. j \in 0 .. L - 1 /\ j + 1 = 1 + j
    BY <1>1, <1>3
  <2>2. QED
    BY <1>4, <1>5, <1>7, <2>1
<1>8. p + l + 1 < rb_size => At(p + l + 1) = "CR"
  <2>1. l + 1 \in 0 .. L - 1 /\ p + (l + 1) = p + l + 1 /\ (l + 1) + 1 = l + 2
    BY <1>1, <1>2, <1>3
  <2>2. p + (l + 1) < rb_size => At(p + (l + 1)) = e[(l + 1) + 1]
    BY <1>5, <2>1
  <2>3. QED
    BY <1>4, <2>1, <2>2
<1>9. p + l + 2 < rb_size => At(p + l + 2) = "LF"
  <2>1. l + 2 \in 0 .. L - 1 /\ p + (l + 2) = p + l + 2 /\ (l + 2) + 1 = l + 3
    BY <1>1, <1>2, <1>3
  <2>2. p + (l + 2) < rb_size => At(p + (l + 2)) = e[(l + 2) + 1]
    BY <1>5, <2>1
  <2>3. QED
    BY <1>4, <2>1, <2>2
<1>10. ASSUME x.type = "$"
       PROVE  LET b == p + l + 3 IN
                /\ \A j \in 1 .. d : b + j - 1 < rb_size => At(b + j - 1) = x.data[j]
                /\ b + d < rb_size => At(b + d) = "CR"
                /\ b + d + 1 < rb_size => At(b + d + 1) = "LF"
  <2> DEFINE b == p + l + 3
  <2>1. L = l + 3 + d + 2
    BY <1>3, <1>10
  <2>2. ASSUME NEW j \in 1 .. d, b + j - 1 < rb_size PROVE At(b + j - 1) = x.data[j]
    <3>1. l + 2 + j \in 0 .. L - 1 /\ p + (l + 2 + j) = b + j - 1 /\ (l + 2 + j) + 1 = l + 3 + j
      BY <1>1, <1>2, <2>1
    <3>2. At(p + (l + 2 + j)) = e[(l + 2 + j) + 1]
      BY <1>5, <2>2, <3>1
    <3>3. QED
      BY <1>4, <1>10, <3>1, <3>2
  <2>3. b + d < rb_size => At(b + d) = "CR"
    <3>1. l + 3 + d \in 0 .. L - 1 /\ p + (l + 3 + d) = b + d /\ (l + 3 + d) + 1 = l + 3 + d + 1
      BY <1>1, <1>2, <2>1
    <3>2. p + (l + 3 + d) < rb_size => At(p + (l + 3 + d)) = e[(l + 3 + d) + 1]
      BY <1>5, <3>1
    <3>3. QED
      BY <1>4, <1>10, <3>1, <3>2
  <2>4. b + d + 1 < rb_size => At(b + d + 1) = "LF"
    <3>1. /\ l + 3 + d + 1 \in 0 .. L - 1 /\ p + (l + 3 + d + 1) = b + d + 1
          /\ (l + 3 + d + 1) + 1 = l + 3 + d + 2
      BY <1>1, <1>2, <2>1
    <3>2. p + (l + 3 + d + 1) < rb_size => At(p + (l + 3 + d + 1)) = e[(l + 3 + d + 1) + 1]
      BY <1>5, <3>1
    <3>3. QED
      BY <1>4, <1>10, <3>1, <3>2
  <2>5. QED
    BY <2>2, <2>3, <2>4
<1>11. QED
  BY <1>1, <1>6, <1>7, <1>8, <1>9, <1>10 DEF l, d

\* The first CR LF behind a frame's prefix is the end of its line, and it is found
\* as soon as it has arrived.
LEMMA LineFound ==
  ASSUME NEW Octet, NEW x, NEW p, Lies(Octet, x, p), rb_size \in Nat,
         NEW n \in 0 .. rb_size
  PROVE  CRLFAt(p + 1, n) <=> n = Len(Line(x)) /\ p + HeaderLen(x) <= rb_size
<1> DEFINE l == Len(Line(x))
<1>1. /\ l \in Nat /\ p \in Nat
      /\ \A j \in 1 .. l : p + j < rb_size => At(p + j) = Line(x)[j]
      /\ p + l + 1 < rb_size => At(p + l + 1) = "CR"
      /\ p + l + 2 < rb_size => At(p + l + 2) = "LF"
  BY FrameRead DEF Lies
<1>2. \A j \in 1 .. l - 1 : ~(Line(x)[j] = "CR" /\ Line(x)[j + 1] = "LF")
  BY LineOf DEF Lies
<1>3. HeaderLen(x) = l + 3
  BY DEF HeaderLen
<1> HIDE DEF l
<1>4. ASSUME NEW m \in 0 .. l - 1, p + m + 2 < rb_size
      PROVE  ~(At(p + 1 + m) = "CR" /\ At(p + 1 + m + 1) = "LF")
  <2>1. /\ m + 1 \in 1 .. l /\ p + (m + 1) = p + 1 + m
        /\ p + (m + 2) = p + 1 + m + 1 /\ p + (m + 1) < rb_size /\ p + (m + 2) < rb_size
    BY <1>1, <1>4
  <2>2. At(p + 1 + m) = Line(x)[m + 1]
    BY <1>1, <2>1
  <2>3. CASE m + 1 \in 1 .. l - 1
    <3>1. m + 2 \in 1 .. l /\ (m + 1) + 1 = m + 2
      BY <1>1, <2>3
    <3>2. At(p + 1 + m + 1) = Line(x)[m + 2]
      BY <1>1, <2>1, <3>1
    <3>3. ~(Line(x)[m + 1] = "CR" /\ Line(x)[m + 2] = "LF")
      BY <1>2, <2>3, <3>1
    <3>4. QED
      BY <2>2, <3>2, <3>3
  <2>4. CASE m + 1 = l
    <3>1. p + 1 + m + 1 = p + l + 1 /\ p + l + 1 < rb_size
      BY <1>1, <1>4, <2>4
    <3>2. At(p + 1 + m + 1) = "CR"
      BY <1>1, <3>1
    <3>3. QED
      BY <3>2
  <2>5. QED
    BY <1>1, <2>3, <2>4
<1>5. ASSUME n = l, p + l + 3 <= rb_size PROVE CRLFAt(p + 1, n)
  <2>1. p + 1 + n + 1 < rb_size /\ p + 1 + n = p + l + 1 /\ p + 1 + n + 1 = p + l + 2
        /\ p + l + 1 < rb_size /\ p + l + 2 < rb_size
    BY <1>1, <1>5
  <2>2. At(p + 1 + n) = "CR" /\ At(p + 1 + n + 1) = "LF"
    BY <1>1, <2>1
  <2>3. ASSUME NEW m \in 0 .. n - 1 PROVE ~(At(p + 1 + m) = "CR" /\ At(p + 1 + m + 1) = "LF")
    BY <1>1, <1>4, <1>5
  <2>4. QED
    BY <2>1, <2>2, <2>3 DEF CRLFAt
<1>6. ASSUME CRLFAt(p + 1, n) PROVE n = l /\ p + l + 3 <= rb_size
  <2>1. /\ p + 1 + n + 1 < rb_size /\ At(p + 1 + n) = "CR" /\ At(p + 1 + n + 1) = "LF"
        /\ \A m \in 0 .. n - 1 : ~(At(p + 1 + m) = "CR" /\ At(p + 1 + m + 1) = "LF")
    BY <1>6 DEF CRLFAt
  <2>2. ~(n < l)
    <3>1. SUFFICES ASSUME n < l PROVE FALSE
      OBVIOUS
    <3>2. n \in 0 .. l - 1 /\ p + n + 2 < rb_size
      BY <1>1, <2>1, <3>1
    <3>3. QED
      BY <1>4, <2>1, <3>2
  <2>3. ~(l < n)
    <3>1. SUFFICES ASSUME l < n PROVE FALSE
      OBVIOUS
    <3>2. /\ l \in 0 .. n - 1 /\ p + 1 + l = p + l + 1 /\ p + 1 + l + 1 = p + l + 2
          /\ p + l + 1 < rb_size /\ p + l + 2 < rb_size
      BY <1>1, <2>1, <3>1
    <3>3. QED
      BY <1>1, <2>1, <3>2
  <2>4. QED
    BY <1>1, <2>1, <2>2, <2>3
<1>7. p + HeaderLen(x) = p + l + 3
  BY <1>1, <1>3
<1>8. QED
  BY <1>5, <1>6, <1>7 DEF l

\* What the line says is read off it.
LEMMA NumRead ==
  ASSUME NEW Octet, NEW x, NEW p, Lies(Octet, x, p), rb_size \in Nat, p + HeaderLen(x) <= rb_size
  PROVE  Num(p + 1, Len(Line(x))) = Value(Line(x))
<1> DEFINE l == Len(Line(x))
           read == [j \in 1 .. l |-> At(p + 1 + j - 1)]
<1>1. l \in Nat /\ p \in Nat /\ \A j \in 1 .. l : p + j < rb_size => At(p + j) = Line(x)[j]
  BY FrameRead DEF Lies
<1>2. p + l + 3 <= rb_size
  BY <1>1 DEF HeaderLen
<1>3. Line(x) \in [1 .. l -> Wire(Octet)]
  BY LineOf, LenProperties DEF Lies
<1>4. ASSUME NEW j \in 1 .. l PROVE At(p + 1 + j - 1) = Line(x)[j]
  <2>1. p + 1 + j - 1 = p + j /\ p + j < rb_size
    BY <1>1, <1>2
  <2>2. QED
    BY <1>1, <2>1
<1>5. read = Line(x)
  BY <1>3, <1>4
<1>6. QED
  BY <1>5 DEF Num

-----------------------------------------------------------------------------
(* One call of zerocopy_proceed, where the frame x lies at rb_offset.      *)

\* The frame f points at what x says.
Shows(f, x) ==
  /\ f.type = x.type /\ f.n = x.n
  /\ x.type # "*" => /\ f.at \in Nat /\ f.len = Len(x.data) /\ f.at + f.len <= rb_size
                     /\ \A j \in 1 .. f.len : At(f.at + j - 1) = x.data[j]

\* What parser_process holds is right: x begins at rb_offset.
Saved(x) ==
  /\ prog.anchorpoint_offset = 0
  /\ prog.prefix # None => prog.prefix = x.type
  /\ prog.have_bulk_len => /\ prog.prefix = "$"
                           /\ prog.bulk_len = Len(x.data) /\ prog.head_len = HeaderLen(x)

\* The two ways a call ends: not all of x has arrived, or x is the frame found.
Waits(x) ==
  /\ pc' = "io" /\ rb_size < rb_offset + FrameLen(x)
  /\ rb_offset' = rb_offset /\ Saved(x)'
Finds(x) ==
  /\ pc' = "feed" /\ rb_offset' = rb_offset + FrameLen(x) /\ prog' = NoProg
  /\ Shows(outframe', x)

\* What the search for a prefix finds at rb_offset.
LEMMA AnchorFound ==
  ASSUME NEW Octet, NEW x, Lies(Octet, x, rb_offset), ParserInv, Saved(x),
         NEW i \in 0 .. rb_size, Anchored(i)
  PROVE  i = 0 /\ PrefixAt(i) = x.type
<1> DEFINE p == rb_offset
<1>1. Base = p /\ p \in Nat /\ rb_size \in Nat
  BY DEF Saved, Base, ParserInv, ParserTypeOK
<1>2. x.type \in Prefix /\ (p < rb_size => At(p) = x.type)
  BY <1>1, FrameRead
<1>3. CASE prog.prefix # None
  BY <1>3 DEF Saved, Anchored, PrefixAt
<1>4. CASE prog.prefix = None
  <2>1. p + i < rb_size /\ At(p + i) \in Prefix /\ \A j \in 0 .. i - 1 : At(p + j) \notin Prefix
    BY <1>1, <1>4 DEF Anchored
  <2>2. p < rb_size /\ p + 0 = p
    BY <1>1, <2>1
  <2>3. i = 0
    <3>1. SUFFICES ASSUME i # 0 PROVE FALSE
      OBVIOUS
    <3>2. 0 \in 0 .. i - 1
      BY <3>1
    <3>3. At(p + 0) \notin Prefix
      BY <2>1, <3>2
    <3>4. QED
      BY <1>2, <2>2, <3>3
  <2>4. PrefixAt(i) = At(p + i)
    BY <1>1, <1>4 DEF PrefixAt
  <2>5. QED
    BY <1>2, <2>2, <2>3, <2>4
<1>5. QED
  BY <1>3, <1>4

\* The length of a bulk string, from its line or from the last call.
LEMMA BulkLenRead ==
  ASSUME NEW Octet, NEW x, Lies(Octet, x, rb_offset), ParserInv, Saved(x), x.type = "$",
         rb_offset + HeaderLen(x) <= rb_size
  PROVE  /\ BulkLen(0, Len(Line(x))) = Len(x.data) /\ HeadLen(0, Len(Line(x))) = HeaderLen(x)
         /\ Len(x.data) \in 0 .. MaxBulk - 1
<1> DEFINE l == Len(Line(x))
<1>1. /\ Base = rb_offset /\ rb_offset \in Nat /\ rb_size \in Nat /\ l \in Nat
      /\ Len(x.data) \in Nat
  BY FrameRead DEF Saved, Base, ParserInv, ParserTypeOK
<1>2. Len(x.data) \in 0 .. MaxBulk - 1
  BY <1>1, LimitAssumption DEF Lies, WellFormed
<1>3. Num(Base + 0 + 1, l) = Len(x.data)
  <2>1. Num(rb_offset + 1, l) = Value(Line(x)) /\ Value(Line(x)) = Len(x.data)
    BY <1>1, NumRead, LineOf DEF Lies
  <2>2. Base + 0 + 1 = rb_offset + 1
    BY <1>1
  <2>3. QED
    BY <2>1, <2>2
<1>4. 0 + l + 3 = HeaderLen(x)
  BY <1>1 DEF HeaderLen
<1>5. BulkLen(0, l) = Len(x.data) /\ HeadLen(0, l) = HeaderLen(x)
  BY <1>3, <1>4 DEF Saved, BulkLen, HeadLen
<1>6. QED
  BY <1>2, <1>5

LEMMA ParseFrame ==
  ASSUME NEW Octet, NEW x, Lies(Octet, x, rb_offset), ParserInv, Saved(x), zerocopy_proceed
  PROVE  Waits(x) \/ Finds(x)
<1> DEFINE p == rb_offset
           l == Len(Line(x))
           D == Len(x.data)
<1>1. /\ Base = p /\ p \in Nat /\ rb_size \in Nat /\ l \in Nat /\ D \in Nat
      /\ HeaderLen(x) = l + 3 /\ x.type \in Prefix
  BY FrameRead DEF Saved, Base, ParserInv, ParserTypeOK, HeaderLen
<1>2. FrameLen(x) = IF x.type = "$" THEN l + 3 + D + 2 ELSE l + 3
  BY <1>1 DEF FrameLen
<1>3. UNCHANGED <<wire, rb_size>> /\ prog \in ProgType
  BY DEF zerocopy_proceed, ParserInv, ParserTypeOK, ProgType
<1> HIDE DEF l, D
<1>4. CASE NoPrefix
  <2>1. \A j \in p .. rb_size - 1 : At(j) \notin Prefix
    BY <1>1, <1>4 DEF NoPrefix
  <2>2. ~(p < rb_size)
    <3>1. SUFFICES ASSUME p < rb_size PROVE FALSE
      OBVIOUS
    <3>2. p \in p .. rb_size - 1 /\ At(p) = x.type
      BY <1>1, <3>1, FrameRead
    <3>3. QED
      BY <1>1, <2>1, <3>2
  <2>3. rb_size < p + FrameLen(x)
    BY <1>1, <1>2, <2>2
  <2>4. Wait(prog)
    BY <1>4 DEF NoPrefix
  <2>5. QED
    BY <2>3, <2>4 DEF Wait, Waits, Saved
<1>5. CASE NoLine
  <2>1. PICK i \in 0 .. rb_size : /\ Anchored(i) /\ NoCRLF(Base + i + 1)
                                  /\ Wait([prog EXCEPT !.prefix = PrefixAt(i)])
    BY <1>5 DEF NoLine
  <2>2. i = 0 /\ PrefixAt(i) = x.type /\ Base + i + 1 = p + 1
    BY <1>1, <2>1, AnchorFound
  <2>3. rb_size < p + l + 3
    <3>1. SUFFICES ASSUME p + l + 3 <= rb_size PROVE FALSE
      BY <1>1
    <3>2. l \in 0 .. rb_size /\ p + HeaderLen(x) <= rb_size
      BY <1>1, <3>1
    <3>3. CRLFAt(p + 1, l)
      BY <1>1, <3>2, LineFound DEF l
    <3>4. QED
      BY <2>1, <2>2, <3>2, <3>3 DEF NoCRLF
  <2>4. rb_size < p + FrameLen(x)
    BY <1>1, <1>2, <2>3
  <2>5. prog' = [prog EXCEPT !.prefix = x.type] /\ pc' = "io" /\ rb_offset' = rb_offset
    BY <2>1, <2>2 DEF Wait
  <2>6. Saved(x)'
    <3>1. /\ prog'.anchorpoint_offset = prog.anchorpoint_offset /\ prog'.prefix = x.type
          /\ prog'.bulk_len = prog.bulk_len /\ prog'.head_len = prog.head_len
      BY <1>3, <2>5 DEF ProgType
    <3>2. prog'.have_bulk_len <=> prog.have_bulk_len
      BY <1>3, <2>5 DEF ProgType
    <3>3. prog.have_bulk_len => x.type = "$" /\ prog.bulk_len = Len(x.data)
                                /\ prog.head_len = HeaderLen(x)
      BY DEF Saved, None
    <3>4. prog.anchorpoint_offset = 0
      BY DEF Saved
    <3>5. QED
      BY <3>1, <3>2, <3>3, <3>4, Zenon DEF Saved
  <2>7. QED
    BY <2>4, <2>5, <2>6 DEF Waits
<1>6. ASSUME NEW i \in 0 .. rb_size, NEW n \in 0 .. rb_size,
             Anchored(i), CRLFAt(Base + i + 1, n),
             \/ SimpleFrame(i, n)
             \/ BulkBad(i, n) \/ BulkShort(i, n) \/ BulkWhole(i, n)
             \/ ArrayHeader(i, n)
      PROVE  Waits(x) \/ Finds(x)
  <2>1. i = 0 /\ PrefixAt(i) = x.type /\ Base + i + 1 = p + 1
    BY <1>1, <1>6, AnchorFound
  <2>2. n = l /\ p + l + 3 <= rb_size
    <3>1. n = l /\ p + HeaderLen(x) <= rb_size
      BY <1>1, <1>6, <2>1, LineFound DEF l
    <3>2. QED
      BY <1>1, <3>1
  <2>3. /\ \A j \in 1 .. l : At(p + j) = Line(x)[j]
        /\ x.type = "$" /\ p + l + 3 + D + 2 <= rb_size =>
             /\ \A j \in 1 .. D : At(p + l + 3 + j - 1) = x.data[j]
             /\ At(p + l + 3 + D) = "CR" /\ At(p + l + 3 + D + 1) = "LF"
    <3>1. ASSUME NEW j \in 1 .. l PROVE At(p + j) = Line(x)[j]
      <4>1. p + j < rb_size
        BY <1>1, <2>2
      <4>2. QED
        BY <1>1, <4>1, FrameRead DEF l
    <3>2. ASSUME x.type = "$", p + l + 3 + D + 2 <= rb_size
          PROVE  /\ \A j \in 1 .. D : At(p + l + 3 + j - 1) = x.data[j]
                 /\ At(p + l + 3 + D) = "CR" /\ At(p + l + 3 + D + 1) = "LF"
      <4>1. /\ \A j \in 1 .. D : p + l + 3 + j - 1 < rb_size
            /\ p + l + 3 + D < rb_size /\ p + l + 3 + D + 1 < rb_size
        BY <1>1, <3>2
      <4>2. /\ \A j \in 1 .. D : p + l + 3 + j - 1 < rb_size => At(p + l + 3 + j - 1) = x.data[j]
            /\ p + l + 3 + D < rb_size => At(p + l + 3 + D) = "CR"
            /\ p + l + 3 + D + 1 < rb_size => At(p + l + 3 + D + 1) = "LF"
        <5>1. rb_size \in Nat /\ x.type = "$"
          BY <1>1, <3>2
        <5>2. LET d == p + l + 3 IN
                /\ \A j \in 1 .. D : d + j - 1 < rb_size => At(d + j - 1) = x.data[j]
                /\ d + D < rb_size => At(d + D) = "CR"
                /\ d + D + 1 < rb_size => At(d + D + 1) = "LF"
          <6>1. LET d == p + Len(Line(x)) + 3 IN
                  /\ \A j \in 1 .. Len(x.data) : d + j - 1 < rb_size => At(d + j - 1) = x.data[j]
                  /\ d + Len(x.data) < rb_size => At(d + Len(x.data)) = "CR"
                  /\ d + Len(x.data) + 1 < rb_size => At(d + Len(x.data) + 1) = "LF"
            <7> HIDE DEF p
            <7>1. Lies(Octet, x, p)
              BY DEF p
            <7>2. QED
              BY <5>1, <7>1, FrameRead
          <6>2. QED
            BY <6>1 DEF l, D
        <5>3. QED
          BY <5>2, Zenon
      <4>3. QED
        BY <4>1, <4>2
    <3>3. QED
      BY <3>1, <3>2
  <2>4. CASE SimpleFrame(i, n)
    <3>1. x.type \in Simple /\ x.type # "$" /\ x.type # "*"
      BY <2>1, <2>4 DEF SimpleFrame, Simple
    <3>2. Line(x) = x.data /\ l = D /\ x.n = 0
      BY <3>1 DEF Line, l, D, Lies, WellFormed
    <3>3. Complete(Frame(x.type, p + 1, l, 0), l + 3)
      <4>1. Complete(Frame(PrefixAt(i), Base + i + 1, n, 0), i + n + 3)
        BY <2>4 DEF SimpleFrame
      <4>2. i + n + 3 = l + 3
        BY <1>1, <2>1, <2>2
      <4>3. QED
        BY <2>1, <2>2, <4>1, <4>2
    <3>4. Shows(outframe', x)
      <4>1. outframe' = Frame(x.type, p + 1, l, 0)
        BY <3>3 DEF Complete
      <4>2. /\ outframe'.type = x.type /\ outframe'.at = p + 1 /\ outframe'.len = l
            /\ outframe'.n = 0
        BY <4>1 DEF Frame
      <4>3. p + 1 \in Nat /\ p + 1 + l <= rb_size
        BY <1>1, <2>2
      <4>4. ASSUME NEW j \in 1 .. l PROVE At(p + 1 + j - 1) = x.data[j]
        <5>1. p + 1 + j - 1 = p + j
          BY <1>1
        <5>2. QED
          BY <2>3, <3>2, <5>1
      <4>5. QED
        BY <3>2, <4>2, <4>3, <4>4 DEF Shows, D
    <3>5. QED
      BY <1>2, <3>1, <3>3, <3>4 DEF Complete, Consume, Finds
  <2>5. ASSUME x.type = "$"
        PROVE  /\ BulkLen(i, n) = D /\ HeadLen(i, n) = l + 3 /\ D \in 0 .. MaxBulk - 1
               /\ Short(i, n) <=> rb_size < p + FrameLen(x)
    <3>1. BulkLen(i, n) = D /\ HeadLen(i, n) = l + 3 /\ D \in 0 .. MaxBulk - 1
      BY <1>1, <2>1, <2>2, <2>5, BulkLenRead DEF l, D
    <3>2. Short(i, n) <=> D + 2 > rb_size - p - (l + 3)
      BY <1>1, <2>1, <2>2, <3>1 DEF Short, Remaining
    <3>3. QED
      BY <1>1, <1>2, <2>5, <3>1, <3>2
  <2>6. ~BulkBad(i, n)
    BY <1>1, <2>1, <2>5, LimitAssumption DEF BulkBad
  <2>7. CASE BulkShort(i, n)
    <3>1. x.type = "$" /\ rb_size < p + FrameLen(x)
      BY <2>1, <2>5, <2>7 DEF BulkShort
    <3>2. Wait([anchorpoint_offset |-> prog.anchorpoint_offset + i, prefix |-> "$",
                have_bulk_len |-> TRUE, bulk_len |-> BulkLen(i, n), head_len |-> HeadLen(i, n)])
      BY <2>7 DEF BulkShort
    <3>3. BulkLen(i, n) = D /\ HeadLen(i, n) = HeaderLen(x) /\ prog.anchorpoint_offset + i = 0
      BY <1>1, <2>1, <2>5, <3>1 DEF Saved
    <3>4. /\ pc' = "io" /\ rb_offset' = rb_offset
          /\ prog'.anchorpoint_offset = 0 /\ prog'.prefix = "$"
          /\ prog'.bulk_len = D /\ prog'.head_len = HeaderLen(x)
      BY <3>2, <3>3 DEF Wait
    <3>5. Saved(x)'
      BY <3>1, <3>4 DEF Saved, D
    <3>6. QED
      BY <3>1, <3>4, <3>5 DEF Waits
  <2>8. CASE BulkWhole(i, n)
    <3>1. x.type = "$" /\ ~Short(i, n)
      BY <2>1, <2>8 DEF BulkWhole
    <3>2. /\ BulkLen(i, n) = D /\ HeadLen(i, n) = l + 3 /\ D \in 0 .. MaxBulk - 1
          /\ p + l + 3 + D + 2 <= rb_size /\ FrameLen(x) = l + 3 + D + 2
      BY <1>1, <1>2, <2>5, <3>1
    <3>3. At(p + l + 3 + D) = "CR" /\ At(p + l + 3 + D + 1) = "LF"
      BY <2>3, <3>1, <3>2
    <3>4. Complete(Frame("$", p + l + 3, D, 0), l + 3 + D + 2)
      <4>1. Base + i + n + 3 + BulkLen(i, n) = p + l + 3 + D /\ Base + i + HeadLen(i, n) = p + l + 3
            /\ i + n + 3 + BulkLen(i, n) + 2 = l + 3 + D + 2
        BY <1>1, <2>1, <2>2, <3>2
      <4>2. QED
        BY <2>8, <3>2, <3>3, <4>1 DEF BulkWhole
    <3>5. Shows(outframe', x)
      <4>1. outframe' = Frame("$", p + l + 3, D, 0)
        BY <3>4 DEF Complete
      <4>2. /\ outframe'.type = x.type /\ outframe'.at = p + l + 3 /\ outframe'.len = D
            /\ outframe'.n = x.n
        BY <3>1, <4>1 DEF Frame, Lies, WellFormed
      <4>3. p + l + 3 \in Nat /\ p + l + 3 + D <= rb_size
        BY <1>1, <3>2
      <4>4. \A j \in 1 .. D : At(p + l + 3 + j - 1) = x.data[j]
        BY <2>3, <3>1, <3>2
      <4>5. QED
        BY <4>2, <4>3, <4>4 DEF Shows, D
    <3>6. QED
      BY <3>2, <3>4, <3>5 DEF Complete, Consume, Finds
  <2>9. CASE ArrayHeader(i, n)
    <3>1. x.type = "*"
      BY <2>1, <2>9 DEF ArrayHeader
    <3>2. Num(Base + i + 1, n) = x.n /\ x.n \in 0 .. MaxElems - 1
      <4>1. p + HeaderLen(x) <= rb_size
        BY <1>1, <2>2
      <4>2. Num(p + 1, l) = Value(Line(x))
        BY <1>1, <4>1, NumRead DEF l
      <4>3. Value(Line(x)) = x.n
        BY <3>1, LineOf DEF Lies
      <4>4. QED
        BY <2>1, <2>2, <4>2, <4>3 DEF Lies, FrameItem
    <3>3. Complete(Frame("*", p + 1, l, x.n), l + 3)
      <4>1. i + n + 3 = l + 3
        BY <1>1, <2>1, <2>2
      <4>2. ~(x.n < 0) /\ ~(x.n >= MaxElems)
        BY <3>2, LimitAssumption
      <4>3. QED
        BY <2>1, <2>2, <2>9, <3>2, <4>1, <4>2 DEF ArrayHeader
    <3>4. Shows(outframe', x)
      <4>1. outframe' = Frame("*", p + 1, l, x.n)
        BY <3>3 DEF Complete
      <4>2. QED
        BY <3>1, <4>1 DEF Frame, Shows
    <3>5. QED
      BY <1>2, <3>1, <3>3, <3>4 DEF Complete, Consume, Finds
  <2>10. QED
    BY <1>6, <2>4, <2>6, <2>7, <2>8, <2>9
<1>7. QED
  BY <1>4, <1>5, <1>6 DEF zerocopy_proceed

-----------------------------------------------------------------------------
(* The invariant of a stream of frames.                                    *)

\* How many frames the parser has found.
Taken == Len(frames) + (IF pc = "feed" THEN 1 ELSE 0)

\* The parser stands between two frames, in the buffer and in parser_process.
FramePosition ==
  /\ Taken \in 0 .. Len(sent)
  /\ rb_offset = End(sent, Taken)
  /\ IF Taken = Len(sent) THEN prog.prefix = None /\ prog.anchorpoint_offset = 0
                          ELSE Saved(sent[Taken + 1])

\* The frames found say what was sent.
FramesShow ==
  /\ \A m \in 1 .. Len(frames) : Shows(frames[m], sent[m])
  /\ pc = "feed" => Shows(outframe, sent[Taken])

\* Back from the parser, unless the aggregator has refused a frame, no frame is
\* whole that has not been found.
AllFound == pc = "io" /\ segret = "0" /\ Taken < Len(sent) => rb_size < End(sent, Taken + 1)

FramingInv(Octet) ==
  /\ FramesOnly(sent, Octet)
  /\ wire = Bytes(sent, Len(sent))
  /\ frames \in Seq(FrameType)
  /\ FramePosition /\ FramesShow /\ AllFound

\* The frame after those found lies at rb_offset.
LEMMA NextFrameLies ==
  ASSUME NEW Octet, FramingInv(Octet), Taken # Len(sent)
  PROVE  /\ Taken \in 0 .. Len(sent) - 1 /\ Lies(Octet, sent[Taken + 1], rb_offset)
         /\ End(sent, Taken + 1) = rb_offset + FrameLen(sent[Taken + 1])
<1> DEFINE k == Taken
<1>1. Len(sent) \in Nat
  BY BytesGrow DEF FramingInv
<1>2. k \in 0 .. Len(sent) - 1 /\ rb_offset = End(sent, k) /\ FramesOnly(sent, Octet)
  BY <1>1 DEF FramingInv, FramePosition
<1> HIDE DEF k
<1>3. /\ sent[k + 1] \in FrameItem(Octet) /\ WellFormed(sent[k + 1])
      /\ End(sent, k) \in Nat /\ End(sent, k + 1) = End(sent, k) + FrameLen(sent[k + 1])
      /\ End(sent, k + 1) <= End(sent, Len(sent))
      /\ \A j \in 1 .. FrameLen(sent[k + 1]) :
           Bytes(sent, Len(sent))[End(sent, k) + j] = Encode(sent[k + 1])[j]
  BY <1>2, Placed
<1>4. wire = Bytes(sent, Len(sent)) /\ End(sent, Len(sent)) = Len(wire)
  BY DEF FramingInv, End
<1>5. Lies(Octet, sent[k + 1], rb_offset)
  BY <1>2, <1>3, <1>4 DEF Lies
<1>6. QED
  BY <1>2, <1>3, <1>5 DEF k

\* A frame found goes on saying what it says while the buffer fills.
LEMMA ShowsKept ==
  ASSUME NEW f, NEW x, Shows(f, x), UNCHANGED wire, rb_size \in Nat, rb_size' \in Nat,
         rb_size <= rb_size', f.len \in Nat
  PROVE  Shows(f, x)'
<1>1. CASE x.type = "*"
  BY <1>1 DEF Shows
<1>2. CASE x.type # "*"
  <2>1. /\ f.type = x.type /\ f.n = x.n
        /\ f.at \in Nat /\ f.len = Len(x.data) /\ f.at + f.len <= rb_size
        /\ \A j \in 1 .. f.len : At(f.at + j - 1) = x.data[j]
    BY <1>2 DEF Shows
  <2>2. ASSUME NEW j \in 1 .. f.len PROVE At(f.at + j - 1)' = x.data[j]
    <3>1. f.at + j - 1 < rb_size /\ f.at + j - 1 < rb_size'
      BY <2>1
    <3>2. At(f.at + j - 1)' = At(f.at + j - 1)
      BY <3>1 DEF At
    <3>3. QED
      BY <2>1, <3>2
  <2>3. f.at + f.len <= rb_size'
    BY <2>1
  <2>4. QED
    BY <2>1, <2>2, <2>3 DEF Shows
<1>3. QED
  BY <1>1, <1>2

LEMMA FramingInit ==
  ASSUME NEW Octet, \A s \in Stream : FramesOnly(s, Octet), SInit
  PROVE  FramingInv(Octet)
<1>1. /\ FramesOnly(sent, Octet) /\ wire = Bytes(sent, Len(sent)) /\ frames = <<>>
      /\ rb_size = 0 /\ rb_offset = 0 /\ prog = NoProg /\ pc = "io"
  BY DEF SInit, PInit
<1>2. Len(sent) \in Nat /\ Bytes(sent, 0) = <<>>
  BY <1>1, BytesGrow
<1>3. Taken = 0 /\ End(sent, 0) = 0
  BY <1>1, <1>2 DEF Taken, End
<1>4. \A x : Saved(x)
  BY <1>1 DEF Saved, NoProg
<1>5. FramePosition
  BY <1>1, <1>2, <1>3, <1>4 DEF FramePosition, NoProg
<1>6. FramesShow
  BY <1>1 DEF FramesShow
<1>7. AllFound
  <2>1. SUFFICES ASSUME 0 < Len(sent) PROVE 0 < End(sent, 1)
    BY <1>1, <1>3 DEF AllFound
  <2>2. 0 \in 0 .. Len(sent) - 1 /\ 0 + 1 = 1
    BY <1>2, <2>1
  <2>3. /\ sent[0 + 1] \in FrameItem(Octet) /\ WellFormed(sent[0 + 1])
        /\ End(sent, 0 + 1) = End(sent, 0) + FrameLen(sent[0 + 1])
    BY <1>1, <2>2, Placed
  <2> DEFINE x == sent[0 + 1]
  <2> HIDE DEF x
  <2>4. Len(Line(x)) \in Nat /\ Len(x.data) \in Nat
    BY <2>3, EncodeBytes DEF x
  <2>5. FrameLen(x) \in Nat /\ FrameLen(x) > 0
    <3> DEFINE l == Len(Line(x))
               d == Len(x.data)
    <3>1. FrameLen(x) = IF x.type = "$" THEN l + 3 + d + 2 ELSE l + 3
      BY DEF FrameLen, HeaderLen
    <3>2. l \in Nat /\ d \in Nat
      BY <2>4
    <3> HIDE DEF l, d
    <3>3. QED
      BY <3>1, <3>2
  <2>6. End(sent, 1) = 0 + FrameLen(x)
    BY <1>3, <2>2, <2>3 DEF x
  <2>7. QED
    <3> DEFINE n == FrameLen(x)
    <3> HIDE DEF n
    <3>1. n \in Nat /\ n > 0 /\ End(sent, 1) = 0 + n
      BY <2>5, <2>6 DEF n
    <3>2. QED
      BY <3>1
<1>8. frames \in Seq(FrameType)
  BY <1>1
<1>9. QED
  BY <1>1, <1>5, <1>6, <1>7, <1>8 DEF FramingInv

LEMMA ReceiveFraming ==
  ASSUME NEW Octet, ParserInv, FramingInv(Octet), Receive, UNCHANGED svars
  PROVE  FramingInv(Octet)'
<1>1. /\ UNCHANGED <<wire, sent, rb_offset, prog, outframe, frames>>
      /\ pc = "io" /\ pc' = "parse"
  BY DEF Receive
<1>2. rb_size \in Nat /\ rb_size' \in Nat /\ rb_size <= rb_size' /\ frames \in Seq(FrameType)
  BY DEF Receive, ParserInv, ParserTypeOK, FramingInv
<1>3. Taken' = Taken
  BY <1>1 DEF Taken
<1>4. FramePosition'
  BY <1>1, <1>3 DEF FramingInv, FramePosition, Saved, End
<1>5. FramesShow'
  <2>1. ASSUME NEW m \in 1 .. Len(frames) PROVE Shows(frames[m], sent[m])'
    <3>1. PICK f \in FrameType : f = frames[m]
      BY <1>2, ElementOfSeq
    <3>2. PICK x : x = sent[m]
      OBVIOUS
    <3>3. Shows(f, x) /\ f.len \in Nat
      BY <3>1, <3>2 DEF FramingInv, FramesShow, FrameType
    <3>4. Shows(f, x)'
      BY <1>1, <1>2, <3>3, ShowsKept
    <3>5. f = frames'[m] /\ x = sent'[m]
      BY <1>1, <3>1, <3>2
    <3>6. QED
      BY <3>4, <3>5
  <2>2. QED
    BY <1>1, <2>1 DEF FramesShow
<1>6. AllFound'
  BY <1>1 DEF AllFound
<1>7. QED
  BY <1>1, <1>4, <1>5, <1>6 DEF FramingInv

\* Behind the last frame the parser finds nothing.
LEMMA NothingLeft ==
  ASSUME ParserInv, zerocopy_proceed, prog.prefix = None, prog.anchorpoint_offset = 0,
         rb_offset >= rb_size
  PROVE  Wait(prog)
<1>1. Base = rb_offset /\ rb_offset \in Nat /\ rb_size \in Nat
  BY DEF Base, ParserInv, ParserTypeOK
<1>2. ASSUME NEW i \in 0 .. rb_size PROVE ~Anchored(i)
  BY <1>1 DEF Anchored
<1>3. NoPrefix
  BY <1>2 DEF zerocopy_proceed, NoLine
<1>4. QED
  BY <1>3 DEF NoPrefix

LEMMA ProceedFraming ==
  ASSUME NEW Octet, ParserInv, FramingInv(Octet), zerocopy_proceed, UNCHANGED svars
  PROVE  FramingInv(Octet)'
<1>0. PICK k : k = Len(frames)
  OBVIOUS
<1>1. UNCHANGED <<wire, sent, rb_size, frames>> /\ pc = "parse"
  BY DEF zerocopy_proceed
<1>2. k \in Nat /\ Taken = k /\ Len(sent) \in Nat /\ k \in 0 .. Len(sent) /\ rb_offset = End(sent, k)
  <2>1. k \in Nat
    BY <1>0, LenProperties DEF FramingInv
  <2>2. Taken = k
    BY <1>0, <1>1, <2>1 DEF Taken
  <2>3. QED
    BY <2>1, <2>2, BytesGrow DEF FramingInv, FramePosition
<1>3. Taken' = IF pc' = "feed" THEN k + 1 ELSE k
  BY <1>0, <1>1, <1>2 DEF Taken
<1>4. \A m : End(sent, m)' = End(sent, m)
  BY <1>1 DEF End
<1>5. \A f, x : Shows(f, x)' <=> Shows(f, x)
  <2>1. \A j : At(j)' = At(j)
    BY <1>1 DEF At
  <2>2. QED
    BY <1>1, <2>1 DEF Shows
<1>6. /\ \A m \in 1 .. k : Shows(frames[m], sent[m])
      /\ \A m \in 1 .. k : Shows(frames[m], sent[m])'
  <2>1. \A m \in 1 .. k : Shows(frames[m], sent[m])
    BY <1>0 DEF FramingInv, FramesShow
  <2>2. ASSUME NEW m \in 1 .. k PROVE Shows(frames[m], sent[m])'
    <3>1. PICK f, x : f = frames[m] /\ x = sent[m]
      OBVIOUS
    <3>2. Shows(f, x)'
      BY <1>5, <2>1, <3>1
    <3>3. f = frames'[m] /\ x = sent'[m]
      BY <1>1, <3>1
    <3>4. QED
      BY <3>2, <3>3
  <2>3. QED
    BY <2>1, <2>2
<1>7. FramesOnly(sent, Octet)' /\ (wire = Bytes(sent, Len(sent)))' /\ (frames \in Seq(FrameType))'
  BY <1>1 DEF FramingInv
<1>8. CASE k = Len(sent)
  <2>1. prog.prefix = None /\ prog.anchorpoint_offset = 0
    BY <1>2, <1>8 DEF FramingInv, FramePosition
  <2>2. rb_offset >= rb_size
    <3>1. rb_offset = Len(wire)
      BY <1>2, <1>8 DEF FramingInv, End
    <3>2. QED
      BY <3>1 DEF ParserInv, ParserTypeOK
  <2>3. prog' = prog /\ rb_offset' = rb_offset /\ pc' = "io"
    BY <2>1, <2>2, NothingLeft DEF Wait
  <2>4. Taken' = k
    BY <1>3, <2>3
  <2>5. FramePosition'
    BY <1>1, <1>2, <1>4, <1>8, <2>1, <2>3, <2>4 DEF FramePosition
  <2>6. FramesShow'
    BY <1>0, <1>1, <1>6, <2>3 DEF FramesShow
  <2>7. AllFound'
    BY <1>1, <1>2, <1>8, <2>4 DEF AllFound
  <2>8. QED
    BY <1>7, <2>5, <2>6, <2>7 DEF FramingInv
<1>9. CASE k # Len(sent)
  <2> DEFINE x == sent[k + 1]
  <2>1. /\ k \in 0 .. Len(sent) - 1 /\ Lies(Octet, x, rb_offset)
        /\ End(sent, k + 1) = rb_offset + FrameLen(x)
    BY <1>2, <1>9, NextFrameLies
  <2>2. Saved(x)
    BY <1>2, <1>9 DEF FramingInv, FramePosition
  <2>3. PICK y : y = x
    OBVIOUS
  <2>4. Waits(y) \/ Finds(y)
    BY <2>1, <2>2, <2>3, ParseFrame
  <2>5. y = sent'[k + 1]
    BY <1>1, <2>3
  <2> HIDE DEF x
  <2>6. CASE Waits(y)
    <3>1. /\ pc' = "io" /\ rb_size < rb_offset + FrameLen(y)
          /\ rb_offset' = rb_offset /\ Saved(y)' /\ Taken' = k
      BY <1>3, <2>6 DEF Waits
    <3>2. FramePosition'
      <4>1. k \in 0 .. Len(sent') /\ rb_offset' = End(sent, k)' /\ k # Len(sent')
        BY <1>1, <1>2, <1>4, <1>9, <3>1
      <4>2. QED
        BY <2>5, <3>1, <4>1 DEF FramePosition
    <3>3. FramesShow'
      BY <1>0, <1>1, <1>6, <3>1 DEF FramesShow
    <3>4. AllFound'
      <4>1. rb_size' < End(sent, k + 1)'
        BY <1>1, <1>4, <2>1, <2>3, <3>1
      <4>2. QED
        BY <3>1, <4>1 DEF AllFound
    <3>5. QED
      BY <1>7, <3>2, <3>3, <3>4 DEF FramingInv
  <2>7. CASE Finds(y)
    <3>1. /\ pc' = "feed" /\ rb_offset' = rb_offset + FrameLen(y) /\ prog' = NoProg
          /\ Shows(outframe', y) /\ Taken' = k + 1
      BY <1>3, <2>7 DEF Finds
    <3>2. FramePosition'
      <4>1. k + 1 \in 0 .. Len(sent') /\ rb_offset' = End(sent, k + 1)'
        BY <1>1, <1>2, <1>4, <2>1, <2>3, <3>1
      <4>2. prog'.prefix = None /\ prog'.anchorpoint_offset = 0 /\ ~prog'.have_bulk_len
        BY <3>1 DEF NoProg
      <4>3. ASSUME NEW z PROVE Saved(z)'
        BY <4>2 DEF Saved
      <4>4. QED
        BY <3>1, <4>1, <4>2, <4>3 DEF FramePosition
    <3>3. FramesShow'
      <4>1. PICK f : f = outframe'
        OBVIOUS
      <4>2. Shows(f, y)'
        BY <1>5, <3>1, <4>1
      <4>3. Shows(outframe, sent[Taken])'
        BY <2>5, <3>1, <4>1, <4>2
      <4>4. QED
        BY <1>0, <1>1, <1>6, <4>3 DEF FramesShow
    <3>4. AllFound'
      BY <3>1 DEF AllFound
    <3>5. QED
      BY <1>7, <3>2, <3>3, <3>4 DEF FramingInv
  <2>8. QED
    BY <2>4, <2>6, <2>7
<1>10. QED
  BY <1>8, <1>9

LEMMA HandOnFraming ==
  ASSUME NEW Octet, ParserInv, FramingInv(Octet), segment_proceed
  PROVE  FramingInv(Octet)'
<1> DEFINE k == Len(frames)
<1>1. /\ UNCHANGED <<wire, sent, rb_size, rb_offset, prog, outframe>> /\ pc = "feed"
      /\ frames' = Append(frames, outframe)
      /\ (pc' = "io" /\ segret' = "-EPROTO") \/ pc' = "parse"
  BY DEF segment_proceed, HandOn
<1>2. k \in Nat /\ frames \in Seq(FrameType) /\ outframe \in FrameType
  BY LenProperties DEF FramingInv, ParserInv, ParserTypeOK, FrameType
<1>3. /\ frames' \in Seq(FrameType) /\ Len(frames') = k + 1
      /\ \A m \in 1 .. k : frames'[m] = frames[m]
      /\ frames'[k + 1] = outframe
  BY <1>1, <1>2, AppendProperties
<1> HIDE DEF k
<1>4. Taken = k + 1 /\ Taken' = Taken
  <2>1. pc' # "feed"
    BY <1>1
  <2>2. QED
    BY <1>1, <1>2, <1>3, <2>1 DEF Taken, k
<1>5. FramePosition'
  <2>1. \A m : End(sent, m)' = End(sent, m)
    BY <1>1 DEF End
  <2>2. \A x : Saved(x)' <=> Saved(x)
    BY <1>1 DEF Saved
  <2>3. PICK t, x : t = Taken /\ x = sent[t + 1]
    OBVIOUS
  <2>4. /\ t \in 0 .. Len(sent) /\ rb_offset = End(sent, t)
        /\ IF t = Len(sent) THEN prog.prefix = None /\ prog.anchorpoint_offset = 0 ELSE Saved(x)
    BY <2>3 DEF FramingInv, FramePosition
  <2>5. t = Taken' /\ x = sent'[t + 1] /\ End(sent, t)' = End(sent, t) /\ (Saved(x)' <=> Saved(x))
    BY <1>1, <1>4, <2>1, <2>2, <2>3
  <2>6. QED
    BY <1>1, <2>4, <2>5 DEF FramePosition
<1>6. FramesShow'
  <2>1. \A f, x : Shows(f, x)' <=> Shows(f, x)
    <3>1. \A j : At(j)' = At(j)
      BY <1>1 DEF At
    <3>2. QED
      BY <1>1, <3>1 DEF Shows
  <2>2. /\ \A m \in 1 .. k : Shows(frames[m], sent[m])
        /\ Shows(outframe, sent[k + 1])
    BY <1>1, <1>4 DEF FramingInv, FramesShow, k
  <2>3. ASSUME NEW m \in 1 .. k + 1 PROVE Shows(frames[m], sent[m])'
    <3>1. PICK f, x : f = frames'[m] /\ x = sent[m]
      OBVIOUS
    <3>2. Shows(f, x)
      BY <1>2, <1>3, <2>2, <3>1
    <3>3. Shows(f, x)'
      BY <2>1, <3>2
    <3>4. x = sent'[m]
      BY <1>1, <3>1
    <3>5. QED
      BY <3>1, <3>3, <3>4
  <2>4. pc' # "feed"
    BY <1>1
  <2>5. QED
    BY <1>3, <2>3, <2>4 DEF FramesShow
<1>7. AllFound'
  BY <1>1 DEF AllFound
<1>8. QED
  BY <1>1, <1>3, <1>5, <1>6, <1>7 DEF FramingInv

LEMMA FramingStep ==
  ASSUME NEW Octet, ParserInv, FramingInv(Octet), [SNext]_gvars
  PROVE  FramingInv(Octet)'
<1>1. CASE Receive /\ UNCHANGED svars
  BY <1>1, ReceiveFraming
<1>2. CASE zerocopy_proceed /\ UNCHANGED svars
  BY <1>2, ProceedFraming
<1>3. CASE segment_proceed
  BY <1>3, HandOnFraming
<1>4. CASE UNCHANGED gvars
  BY <1>4 DEF gvars, FramingInv, FramePosition, FramesShow, AllFound, Taken, Shows, Saved, At, End
<1>5. QED
  BY <1>1, <1>2, <1>3, <1>4 DEF SNext

\* On a stream of frames the parser stands between two frames after every call,
\* and has found each frame that is whole.
THEOREM FramingInvariant ==
  ASSUME NEW Octet, \A s \in Stream : FramesOnly(s, Octet)
  PROVE  SSpec => [](ParserInv /\ FramingInv(Octet))
<1>1. SInit => ParserInv /\ FramingInv(Octet)
  BY ParserInitInv, FramingInit
<1>2. ParserInv /\ SegmentInv /\ FramingInv(Octet) /\ [SNext]_gvars => FramingInv(Octet)'
  BY FramingStep
<1>3. QED
  BY <1>1, <1>2, SegmentInvariant, PTL DEF SSpec

-----------------------------------------------------------------------------
(* The refinement.                                                         *)

\* What a frame says is what was sent.
LEMMA ContentsShown ==
  ASSUME NEW Octet, NEW x \in FrameItem(Octet), WellFormed(x), NEW f, Shows(f, x)
  PROVE  Contents(f) = x
<1>1. /\ f.type = x.type /\ f.n = x.n /\ x.data \in Seq(Octet) /\ Len(x.data) \in Nat
      /\ x = [type |-> x.type, data |-> x.data, n |-> x.n]
  BY DEF Shows, FrameItem
<1>2. CASE x.type = "*"
  BY <1>1, <1>2 DEF Contents, Item, WellFormed
<1>3. CASE x.type # "*"
  <2>1. x.data = [j \in 1 .. Len(x.data) |-> x.data[j]]
    BY <1>1, LenProperties
  <2>2. f.len = Len(x.data) /\ \A j \in 1 .. f.len : At(f.at + j - 1) = x.data[j]
    BY <1>3 DEF Shows
  <2>3. [j \in 1 .. f.len |-> At(f.at + j - 1)] = x.data
    BY <2>1, <2>2
  <2>4. QED
    BY <1>1, <1>3, <2>3 DEF Contents, Item
<1>4. QED
  BY <1>2, <1>3

GotFits(Octet) ==
  /\ Len(frames) \in 0 .. Len(sent) /\ Len(sent) \in Nat
  /\ pc = "feed" => Len(frames) < Len(sent)
  /\ Got = [m \in 1 .. Len(frames) |-> sent[m]]
  /\ Got \in Seq(FrameItem(Octet)) /\ Len(Got) = Len(frames)
  /\ sent \in Seq(FrameItem(Octet))

\* The frames handed on are the first frames sent.
LEMMA GotIsSent ==
  ASSUME NEW Octet
  PROVE  FramingInv(Octet) => GotFits(Octet)
<1> SUFFICES ASSUME FramingInv(Octet) PROVE GotFits(Octet)
  OBVIOUS
<1>1. /\ Len(frames) \in Nat /\ Len(sent) \in Nat /\ sent \in Seq(FrameItem(Octet))
      /\ \A m \in 1 .. Len(sent) : WellFormed(sent[m])
  BY LenProperties DEF FramingInv, FramesOnly
<1>2. Len(frames) \in 0 .. Len(sent) /\ (pc = "feed" => Len(frames) < Len(sent))
  BY <1>1 DEF FramingInv, FramePosition, Taken
<1>3. ASSUME NEW m \in 1 .. Len(frames)
      PROVE  Contents(frames[m]) = sent[m] /\ sent[m] \in FrameItem(Octet)
  <2>1. m \in 1 .. Len(sent)
    BY <1>1, <1>2
  <2>2. sent[m] \in FrameItem(Octet) /\ WellFormed(sent[m])
    BY <1>1, <2>1, ElementOfSeq
  <2>3. Shows(frames[m], sent[m])
    BY DEF FramingInv, FramesShow
  <2>4. QED
    BY <2>2, <2>3, ContentsShown
<1>4. Got = [m \in 1 .. Len(frames) |-> sent[m]]
  BY <1>3 DEF Got
<1> DEFINE n == Len(frames)
<1> HIDE DEF n
<1>5. n \in Nat /\ Got = [m \in 1 .. n |-> sent[m]] /\ \A m \in 1 .. n : sent[m] \in FrameItem(Octet)
  BY <1>1, <1>3, <1>4 DEF n
<1>6. Got \in Seq(FrameItem(Octet)) /\ Len(Got) = n
  BY <1>5
<1>7. QED
  BY <1>1, <1>2, <1>4, <1>6 DEF n, GotFits

\* One more of the items sent is the next item, appended.
LEMMA OneMore ==
  ASSUME NEW S, NEW q \in Seq(S), NEW n \in Nat, n < Len(q), Len(q) \in Nat,
         NEW g, g = [m \in 1 .. n |-> q[m]], NEW t, t = [m \in 1 .. n + 1 |-> q[m]]
  PROVE  Len(g) = n /\ t = Append(g, q[n + 1])
<1>1. \A m \in 1 .. n + 1 : q[m] \in S
  BY ElementOfSeq
<1>2. g \in Seq(S) /\ Len(g) = n /\ t \in Seq(S) /\ Len(t) = n + 1 /\ q[n + 1] \in S
  BY <1>1
<1>3. PICK a : a = Append(g, q[n + 1])
  OBVIOUS
<1>4. a \in Seq(S) /\ Len(a) = n + 1 /\ (\A m \in 1 .. n : a[m] = g[m]) /\ a[n + 1] = q[n + 1]
  BY <1>2, <1>3, AppendProperties
<1>5. \A m \in 1 .. n + 1 : t[m] = a[m]
  BY <1>4
<1>6. t = a
  BY <1>2, <1>4, <1>5, SeqEqual
<1>7. QED
  BY <1>2, <1>3, <1>6

LEMMA FrameDelivered ==
  ASSUME NEW Octet, FramingInv(Octet), FramingInv(Octet)', [SNext]_gvars
  PROVE  [Channel!Deliver]_(Channel!vars)
<1>0. GotFits(Octet) /\ GotFits(Octet)'
  <2>1. GotFits(Octet)
    BY GotIsSent
  <2>2. FramingInv(Octet)' => GotFits(Octet)'
    BY GotIsSent, PTL
  <2>3. QED
    BY <2>1, <2>2
<1>1. CASE frames' = frames
  <2>1. UNCHANGED sent
    BY DEF SNext, Receive, zerocopy_proceed, segment_proceed, HandOn, gvars
  <2>2. Got' = Got
    BY <1>0, <1>1, <2>1 DEF GotFits
  <2>3. QED
    BY <2>1, <2>2 DEF Channel!vars
<1>2. CASE segment_proceed
  <2>1. UNCHANGED sent /\ frames' = Append(frames, outframe) /\ pc = "feed"
    BY <1>2 DEF segment_proceed, HandOn
  <2>2. PICK n, g, t, q : n = Len(frames) /\ g = Got /\ t = Got' /\ q = sent
    OBVIOUS
  <2>3. n \in Nat /\ n < Len(q) /\ Len(q) \in Nat /\ q \in Seq(FrameItem(Octet)) /\ Len(frames') = n + 1
    BY <1>0, <2>1, <2>2, AppendProperties DEF FramingInv, GotFits
  <2>4. g = [m \in 1 .. n |-> q[m]] /\ t = [m \in 1 .. n + 1 |-> q[m]]
    BY <1>0, <2>1, <2>2, <2>3 DEF GotFits
  <2>5. Len(g) = n /\ t = Append(g, q[n + 1])
    BY <2>3, <2>4, OneMore
  <2>6. Channel!Deliver
    BY <2>1, <2>2, <2>3, <2>5 DEF Channel!Deliver
  <2>7. QED
    BY <2>6
<1>3. QED
  BY <1>1, <1>2 DEF SNext, Receive, zerocopy_proceed, gvars

\* For every stream of frames, of data of any length, and however it is cut into
\* reads: the frames handed on are those sent, in order, none twice, none torn,
\* with exactly their data.
THEOREM FramesExactCorrect ==
  ASSUME NEW Octet, \A s \in Stream : FramesOnly(s, Octet)
  PROVE  SSpec => FramesExact
<1>1. SInit => Channel!Init
  <2>1. SInit => frames = <<>>
    BY DEF SInit, PInit
  <2>2. frames = <<>> => Got = <<>>
    BY DEF Got
  <2>3. QED
    BY <2>1, <2>2 DEF Channel!Init
<1>2. FramingInv(Octet) /\ FramingInv(Octet)' /\ [SNext]_gvars => [Channel!Deliver]_(Channel!vars)
  BY FrameDelivered
<1>3. QED
  BY <1>1, <1>2, FramingInvariant, PTL DEF SSpec, FramesExact, Channel!Spec

-----------------------------------------------------------------------------
(* Where the commands of a stream start.                                   *)

\* How many commands start before item m.
Count(s, m) == Cardinality({h \in Starts(s) : h < m})

LEMMA CountGrows ==
  ASSUME NEW s, Len(s) \in Nat
  PROVE  /\ Starts(s) \in SUBSET (1 .. Len(s)) /\ IsFiniteSet(Starts(s))
         /\ \A m \in Nat : Count(s, m) \in Nat /\ Count(s, m) <= Cardinality(Starts(s))
         /\ \A l, m \in Nat : l <= m => Count(s, l) <= Count(s, m)
         /\ \A m \in Nat : Count(s, m + 1) = IF m \in Starts(s) THEN Count(s, m) + 1
                                                                ELSE Count(s, m)
         /\ Count(s, 1) = 0 /\ Count(s, Len(s) + 1) = Cardinality(Starts(s))
<1> DEFINE Early(m) == {h \in Starts(s) : h < m}
<1>1. Starts(s) \in SUBSET (1 .. Len(s)) /\ IsFiniteSet(1 .. Len(s))
  BY FS_Interval DEF Starts
<1>2. IsFiniteSet(Starts(s))
  BY <1>1, FS_Subset
<1>3. ASSUME NEW m \in Nat
      PROVE  IsFiniteSet(Early(m)) /\ Count(s, m) \in Nat /\ Count(s, m) <= Cardinality(Starts(s))
  <2>1. Early(m) \in SUBSET Starts(s)
    OBVIOUS
  <2>2. IsFiniteSet(Early(m)) /\ Cardinality(Early(m)) <= Cardinality(Starts(s))
    BY <1>2, <2>1, FS_Subset
  <2>3. Cardinality(Early(m)) \in Nat
    BY <2>2, FS_CardinalityType
  <2>4. QED
    BY <2>2, <2>3 DEF Count
<1>4. ASSUME NEW l \in Nat, NEW m \in Nat, l <= m PROVE Count(s, l) <= Count(s, m)
  <2>1. Early(l) \in SUBSET Early(m)
    BY <1>1, <1>4
  <2>2. Cardinality(Early(l)) <= Cardinality(Early(m))
    BY <1>3, <2>1, FS_Subset
  <2>3. QED
    BY <2>2 DEF Count
<1>5. ASSUME NEW m \in Nat
      PROVE  Count(s, m + 1) = IF m \in Starts(s) THEN Count(s, m) + 1 ELSE Count(s, m)
  <2>1. CASE m \in Starts(s)
    <3>1. Early(m + 1) = Early(m) \cup {m} /\ m \notin Early(m)
      BY <1>1, <2>1
    <3>2. Cardinality(Early(m) \cup {m}) = Cardinality(Early(m)) + 1
      BY <1>3, <3>1, FS_AddElement
    <3>3. QED
      BY <2>1, <3>1, <3>2 DEF Count
  <2>2. CASE m \notin Starts(s)
    <3>1. Early(m + 1) = Early(m)
      BY <1>1, <2>2
    <3>2. QED
      BY <2>2, <3>1 DEF Count
  <2>3. QED
    BY <2>1, <2>2
<1>6. Count(s, 1) = 0
  <2>1. Early(1) = {}
    BY <1>1
  <2>2. QED
    BY <2>1, FS_EmptySet DEF Count
<1>7. Count(s, Len(s) + 1) = Cardinality(Starts(s))
  <2>1. Early(Len(s) + 1) = Starts(s)
    BY <1>1
  <2>2. QED
    BY <2>1 DEF Count
<1>8. QED
  BY <1>1, <1>2, <1>3, <1>4, <1>5, <1>6, <1>7

\* Command c starts where c - 1 commands have started before, and only there.
LEMMA StartOfIs ==
  ASSUME NEW s, Len(s) \in Nat, NEW m \in Starts(s)
  PROVE  StartOf(s, Count(s, m) + 1) = m /\ Count(s, m) + 1 \in 1 .. Cardinality(Starts(s))
<1>0. /\ Starts(s) \in SUBSET Nat
      /\ \A k \in Nat : Count(s, k) \in Nat /\ Count(s, k) <= Cardinality(Starts(s))
      /\ \A l, k \in Nat : l <= k => Count(s, l) <= Count(s, k)
      /\ \A k \in Starts(s) : k \in Nat /\ Count(s, k + 1) = Count(s, k) + 1
  <2>1. Starts(s) \in SUBSET (1 .. Len(s)) /\ IsFiniteSet(Starts(s))
    BY CountGrows, Zenon
  <2>2. Starts(s) \in SUBSET Nat /\ Cardinality(Starts(s)) \in Nat
    BY <2>1, FS_CardinalityType
  <2>3. \A k \in Starts(s) : Count(s, k + 1) = Count(s, k) + 1
    BY <2>2, CountGrows, Zenon
  <2>4. QED
    BY <2>2, <2>3, CountGrows, Zenon
<1>1. m \in Nat /\ Count(s, m) \in Nat /\ Count(s, m + 1) = Count(s, m) + 1
      /\ Count(s, m + 1) <= Cardinality(Starts(s))
  BY <1>0
<1>2. ASSUME NEW k \in Starts(s), Count(s, k) = Count(s, m) PROVE k = m
  <2>1. k \in Nat /\ Count(s, k + 1) = Count(s, k) + 1
    BY <1>0
  <2>2. CASE k < m
    <3>1. Count(s, k + 1) <= Count(s, m)
      BY <1>0, <1>1, <2>1, <2>2
    <3>2. QED
      BY <1>1, <1>2, <2>1, <3>1
  <2>3. CASE m < k
    <3>1. Count(s, m + 1) <= Count(s, k)
      BY <1>0, <1>1, <2>1, <2>3
    <3>2. QED
      BY <1>1, <1>2, <2>1, <3>1
  <2>4. QED
    BY <1>1, <2>1, <2>2, <2>3
<1> DEFINE Chosen(k) == k \in Starts(s) /\ Count(s, k) = (Count(s, m) + 1) - 1
<1>3. StartOf(s, Count(s, m) + 1) = CHOOSE k : Chosen(k)
  BY Zenon DEF StartOf, Count
<1>4. Chosen(m)
  BY <1>1
<1>5. \A k : Chosen(k) => k = m
  BY <1>1, <1>2
<1> HIDE DEF Chosen
<1>6. (CHOOSE k : Chosen(k)) = m
  BY <1>4, <1>5
<1>7. Count(s, m) + 1 \in 1 .. Cardinality(Starts(s))
  <2>1. Cardinality(Starts(s)) \in Nat
    BY CountGrows, FS_CardinalityType, Zenon
  <2>2. QED
    BY <1>1, <2>1
<1>8. QED
  BY <1>3, <1>6, <1>7, Zenon

\* Every command starts somewhere.
LEMMA StartExists ==
  ASSUME NEW s, Len(s) \in Nat, NEW c \in 1 .. Cardinality(Starts(s))
  PROVE  StartOf(s, c) \in Starts(s) /\ Count(s, StartOf(s, c)) = c - 1
<1> DEFINE S == {m \in Nat : Count(s, m + 1) >= c}
<1>0. /\ \A m \in Nat : Count(s, m) \in Nat
      /\ \A m \in Nat : Count(s, m + 1) = IF m \in Starts(s) THEN Count(s, m) + 1
                                                             ELSE Count(s, m)
      /\ Count(s, 1) = 0 /\ Count(s, Len(s) + 1) = Cardinality(Starts(s))
      /\ Cardinality(Starts(s)) \in Nat
  BY CountGrows, FS_CardinalityType, Zenon
<1>1. Len(s) \in S
  BY <1>0
<1>2. PICK m \in S : \A k \in S : m <= k
  BY <1>1, LeastNumber
<1>3. m # 0
  BY <1>0, <1>2
<1>4. ~(Count(s, m) >= c) /\ Count(s, m) \in Nat
  <2>1. PICK k \in Nat : k + 1 = m
    BY <1>2, <1>3
  <2>2. k \notin S
    BY <1>2, <2>1
  <2>3. QED
    BY <1>0, <2>1, <2>2
<1>5. m \in Starts(s) /\ Count(s, m) = c - 1
  <2>1. m \in Nat /\ Count(s, m + 1) >= c
    BY <1>2
  <2>2. Count(s, m + 1) = IF m \in Starts(s) THEN Count(s, m) + 1 ELSE Count(s, m)
    BY <1>0, <2>1
  <2>3. QED
    BY <1>4, <2>1, <2>2
<1>6. StartOf(s, c) = m
  <2>1. c = Count(s, m) + 1
    BY <1>4, <1>5
  <2>2. QED
    BY <1>5, <2>1, StartOfIs
<1>7. QED
  BY <1>5, <1>6

\* A command's rest lies in the stream and starts no other, and the next command
\* starts behind it.
LEMMA NextStart ==
  ASSUME NEW Octet, NEW s, CommandsOnly(s, Octet), NEW m \in Starts(s)
  PROVE  /\ Rest(s, m) \in Nat /\ m \in Nat \ {0} /\ m + Rest(s, m) <= Len(s)
         /\ \A k \in m + 1 .. m + Rest(s, m) : k \notin Starts(s) /\ s[k].type # "*"
         /\ Count(s, m + Rest(s, m) + 1) = Count(s, m) + 1
         /\ m + Rest(s, m) + 1 <= Len(s) => m + Rest(s, m) + 1 \in Starts(s)
<1> DEFINE r == Rest(s, m)
<1>1. /\ Len(s) \in Nat /\ m \in 1 .. Len(s)
      /\ \A k \in 1 .. Len(s) : s[k] \in FrameItem(Octet) /\ Rest(s, k) \in Nat
  <2>1. Len(s) \in Nat /\ \A k \in 1 .. Len(s) : s[k] \in FrameItem(Octet)
    BY BytesGrow DEF CommandsOnly
  <2>2. \A k \in 1 .. Len(s) : s[k].n \in Nat
    BY <2>1, LimitAssumption DEF FrameItem
  <2>3. QED
    BY <2>1, <2>2 DEF Rest, Starts
<1>2. r \in Nat /\ m + r <= Len(s) /\ \A k \in m + 1 .. m + r : s[k].type # "*"
  BY <1>1 DEF CommandsOnly, Rest
<1>3. \A k \in m + 1 .. m + r : k \notin Starts(s)
  BY <1>1, <1>2 DEF Starts
<1>4. {h \in Starts(s) : h < m + r + 1} = {h \in Starts(s) : h < m + 1}
  <2>1. \A h \in Starts(s) : h \in 1 .. Len(s)
    BY DEF Starts
  <2>2. ASSUME NEW h \in Starts(s) PROVE h < m + r + 1 <=> h < m + 1
    <3>1. ~(h \in m + 1 .. m + r)
      BY <1>3
    <3>2. QED
      BY <1>1, <1>2, <2>1, <3>1
  <2> HIDE DEF r
  <2>3. QED
    BY <2>2
<1>5. Count(s, m + r + 1) = Count(s, m + 1) /\ Count(s, m + 1) = Count(s, m) + 1
  <2>1. Count(s, m + 1) = Count(s, m) + 1
    BY <1>1, CountGrows
  <2>2. QED
    BY <1>4, <2>1 DEF Count
<1>6. ASSUME m + r + 1 <= Len(s), NEW h \in 1 .. m + r
      PROVE  m + r + 1 > h + Rest(s, h)
  <2>1. h \in 1 .. Len(s) /\ Rest(s, h) \in Nat
    BY <1>1, <1>2, <1>6
  <2>2. CASE h < m
    <3>1. m > h + Rest(s, h)
      BY <1>1, <2>1, <2>2 DEF Starts
    <3>2. QED
      BY <1>1, <1>2, <2>1, <3>1
  <2>3. CASE h = m
    BY <1>1, <1>2, <2>3
  <2>4. CASE h > m
    <3>1. Rest(s, h) = 0
      BY <1>1, <1>2, <2>1, <2>4 DEF Rest
    <3>2. QED
      BY <1>1, <1>2, <2>1, <3>1
  <2>5. QED
    BY <1>1, <2>1, <2>2, <2>3, <2>4
<1>7. m + r + 1 <= Len(s) => m + r + 1 \in Starts(s)
  BY <1>1, <1>2, <1>6 DEF Starts
<1>8. QED
  BY <1>1, <1>2, <1>3, <1>5, <1>7

-----------------------------------------------------------------------------
(* The aggregator on a stream of commands.                                 *)

\* The frame an element was made of, and what an element or a command says.
Whole(e)       == Frame(e.type, e.data, e.len, 0)
Holds(e, x)    == Shows(Whole(e), x)
Took(argv, xs) == /\ argv \in Seq(ElementType) /\ Len(argv) = Len(xs)
                  /\ \A m \in 1 .. Len(xs) : Holds(argv[m], xs[m])

\* In an array, the elements so far are those behind its header; outside, the
\* next frame starts a command.
InArray ==
  \E h \in Starts(sent) :
    /\ sent[h].type = "*" /\ stx.expected_count = sent[h].n
    /\ Len(frames) = h + stx.element_count
    /\ Len(commands) = Count(sent, h)
    /\ \A j \in 0 .. stx.element_count - 1 : Holds(stx.elements[j], sent[h + 1 + j])

Between ==
  /\ Len(commands) = Count(sent, Len(frames) + 1)
  /\ Len(frames) < Len(sent) => Len(frames) + 1 \in Starts(sent)

Gathers == IF stx.in_array THEN InArray ELSE Between

CommandsShow ==
  /\ commands \in Seq(Seq(ElementType))
  /\ \A c \in 1 .. Len(commands) : Took(commands[c], ArgvSent(sent, StartOf(sent, c)))

CommandInv(Octet) == CommandsOnly(sent, Octet) /\ segret = "0" /\ CommandsShow /\ Gathers

\* A length below 2^16 is not cut.
LEMMA NotCut == ASSUME NEW n \in Nat, n < LenRange PROVE n % LenRange = n
<1>1. PICK c \in Nat \ {0} : c = LenRange
  BY LenAssumption
<1>2. n \div c \in Nat /\ n % c \in 0 .. c - 1 /\ n = c * (n \div c) + (n % c)
  OBVIOUS
<1>3. n \div c = 0
  BY <1>1, <1>2
<1>4. QED
  BY <1>1, <1>2, <1>3

LEMMA ElementHolds ==
  ASSUME NEW x, NEW f \in FrameType, Shows(f, x), x.type # "*", Len(x.data) < LenRange, x.n = 0
  PROVE  Holds(Element(f), x)
<1>1. f.len \in Nat /\ f.len = Len(x.data) /\ f.n = 0 /\ f.type = x.type
  BY DEF FrameType, Shows
<1>2. f.len % LenRange = f.len
  BY <1>1, NotCut
<1>3. /\ Whole(Element(f)).type = f.type /\ Whole(Element(f)).at = f.at
      /\ Whole(Element(f)).len = f.len /\ Whole(Element(f)).n = 0
  BY <1>2 DEF Whole, Element, Frame
<1>4. QED
  BY <1>1, <1>3 DEF Holds, Shows

\* What an element says does not change.
LEMMA HoldsKept ==
  ASSUME NEW e \in ElementType, NEW x, Holds(e, x), UNCHANGED wire,
         rb_size \in Nat, rb_size' \in Nat, rb_size <= rb_size'
  PROVE  Holds(e, x)'
<1>1. PICK f : f = Whole(e)
  OBVIOUS
<1>2. f.len \in Nat
  BY <1>1, LenAssumption DEF Whole, Frame, ElementType
<1>3. Shows(f, x)
  BY <1>1 DEF Holds
<1>4. Shows(f, x)'
  BY <1>2, <1>3, ShowsKept
<1>5. QED
  BY <1>1, <1>4 DEF Holds

LEMMA TookKept ==
  ASSUME NEW argv, NEW xs, Took(argv, xs), UNCHANGED wire,
         rb_size \in Nat, rb_size' \in Nat, rb_size <= rb_size'
  PROVE  Took(argv, xs)'
<1>1. ASSUME NEW m \in 1 .. Len(xs) PROVE Holds(argv[m], xs[m])'
  <2>1. PICK e, x : e = argv[m] /\ x = xs[m]
    OBVIOUS
  <2>2. Holds(e, x) /\ argv \in Seq(ElementType) /\ m \in 1 .. Len(argv)
    BY <2>1 DEF Took
  <2>3. e \in ElementType
    BY <2>1, <2>2, ElementOfSeq
  <2>4. Holds(e, x)'
    BY <2>2, <2>3, HoldsKept
  <2>5. QED
    BY <2>1, <2>4
<1>2. QED
  BY <1>1 DEF Took

LEMMA CommandInit ==
  ASSUME NEW Octet, \A s \in Stream : CommandsOnly(s, Octet), SInit
  PROVE  CommandInv(Octet)
<1>1. CommandsOnly(sent, Octet) /\ Len(sent) \in Nat
  BY BytesGrow DEF SInit, PInit, CommandsOnly
<1>2. ~stx.in_array /\ segret = "0" /\ commands = <<>> /\ frames = <<>>
  BY DEF SInit, PInit, NewSegment
<1>3. Len(commands) = 0 /\ Len(frames) = 0 /\ commands \in Seq(Seq(ElementType))
  BY <1>2
<1>4. Count(sent, 1) = 0
  BY <1>1, CountGrows, Zenon
<1>5. 0 < Len(sent) => 1 \in Starts(sent)
  BY <1>1 DEF Starts
<1>6. Between
  BY <1>3, <1>4, <1>5 DEF Between
<1>7. CommandsShow
  BY <1>3 DEF CommandsShow
<1>8. QED
  BY <1>1, <1>2, <1>6, <1>7 DEF CommandInv, Gathers

\* Reading and parsing leave the commands as they are.
LEMMA ReadCommands ==
  ASSUME NEW Octet, ParserInv, ParserInv', SegmentInv, CommandInv(Octet),
         ((Receive \/ zerocopy_proceed) /\ UNCHANGED svars) \/ UNCHANGED gvars
  PROVE  CommandInv(Octet)'
<1>1. /\ UNCHANGED <<wire, sent, frames, stx, segret, commands>>
      /\ rb_size \in Nat /\ rb_size' \in Nat /\ rb_size <= rb_size'
  <2>1. UNCHANGED <<wire, sent, frames, stx, segret, commands>>
    BY DEF Receive, zerocopy_proceed, svars, gvars
  <2>2. rb_size \in Nat /\ rb_size' \in Nat
    BY DEF ParserInv, ParserTypeOK
  <2>3. rb_size <= rb_size'
    BY <2>2 DEF Receive, zerocopy_proceed, svars, gvars, ParserInv
  <2>4. QED
    BY <2>1, <2>2, <2>3
<1>2. CommandsShow'
  <2>1. ASSUME NEW c \in 1 .. Len(commands) PROVE Took(commands[c], ArgvSent(sent, StartOf(sent, c)))'
    <3>1. PICK a, xs : a = commands[c] /\ xs = ArgvSent(sent, StartOf(sent, c))
      OBVIOUS
    <3>2. Took(a, xs)
      BY <3>1 DEF CommandInv, CommandsShow
    <3>3. Took(a, xs)'
      BY <1>1, <3>2, TookKept
    <3>4. a = commands'[c] /\ xs = ArgvSent(sent', StartOf(sent', c))
      BY <1>1, <3>1
    <3>5. QED
      BY <3>3, <3>4
  <2>2. QED
    BY <1>1, <2>1 DEF CommandInv, CommandsShow
<1>3. Gathers'
  <2>1. CASE stx.in_array
    <3>1. PICK h \in Starts(sent) :
            /\ sent[h].type = "*" /\ stx.expected_count = sent[h].n
            /\ Len(frames) = h + stx.element_count
            /\ Len(commands) = Count(sent, h)
            /\ \A j \in 0 .. stx.element_count - 1 : Holds(stx.elements[j], sent[h + 1 + j])
      BY <2>1 DEF CommandInv, Gathers, InArray
    <3>2. ASSUME NEW j \in 0 .. stx.element_count - 1
          PROVE  Holds(stx.elements[j], sent[h + 1 + j])'
      <4>1. PICK e, x : e = stx.elements[j] /\ x = sent[h + 1 + j]
        OBVIOUS
      <4>2. e \in ElementType
        <5>1. stx.elements \in [0 .. MaxElems - 1 -> ElementType] /\ stx.element_count \in 0 .. MaxElems
          BY DEF SegmentInv, SegmentType
        <5>2. j \in 0 .. MaxElems - 1
          BY <5>1, LimitAssumption
        <5>3. QED
          BY <4>1, <5>1, <5>2
      <4>3. Holds(e, x)
        BY <3>1, <4>1
      <4>4. Holds(e, x)'
        BY <1>1, <4>2, <4>3, HoldsKept
      <4>5. e = stx'.elements[j] /\ x = sent'[h + 1 + j]
        BY <1>1, <4>1
      <4>6. QED
        BY <4>4, <4>5
    <3>3. QED
      BY <1>1, <2>1, <3>1, <3>2 DEF Gathers, InArray
  <2>2. CASE ~stx.in_array
    BY <1>1, <2>2 DEF CommandInv, Gathers, Between
  <2>3. QED
    BY <2>1, <2>2
<1>4. QED
  BY <1>1, <1>2, <1>3 DEF CommandInv

\* When a command is whole it is the next command sent, and another may start.
LEMMA CommandTaken ==
  ASSUME NEW Octet, CommandInv(Octet), NEW h \in Starts(sent), Len(commands) = Count(sent, h),
         NEW argv, Took(argv, ArgvSent(sent, h)), UNCHANGED <<wire, sent, rb_size>>,
         commands' = Append(commands, argv), Len(frames') = h + Rest(sent, h)
  PROVE  CommandsShow' /\ Between'
<1>1. PICK n, s : n = Len(commands) /\ s = sent
  OBVIOUS
<1>2. argv \in Seq(ElementType) /\ commands \in Seq(Seq(ElementType)) /\ n \in Nat
  BY <1>1, LenProperties DEF Took, CommandInv, CommandsShow
<1>3. /\ commands' \in Seq(Seq(ElementType)) /\ Len(commands') = n + 1
      /\ \A c \in 1 .. n : commands'[c] = commands[c]
      /\ commands'[n + 1] = argv
  BY <1>1, <1>2, AppendProperties
<1>4. StartOf(s, n + 1) = h
  <2>1. Len(s) \in Nat
    BY <1>1, BytesGrow DEF CommandInv, CommandsOnly
  <2>2. n + 1 = Count(s, h) + 1
    BY <1>1
  <2>3. QED
    BY <1>1, <2>1, <2>2, StartOfIs
<1>5. ASSUME NEW a, NEW xs, Took(a, xs) PROVE Took(a, xs)'
  <2>1. \A j : At(j)' = At(j)
    BY DEF At
  <2>2. QED
    BY <1>5, <2>1 DEF Took, Holds, Shows
<1>6. ASSUME NEW c \in 1 .. n + 1 PROVE Took(commands[c], ArgvSent(sent, StartOf(sent, c)))'
  <2>1. PICK a, xs : a = commands'[c] /\ xs = ArgvSent(s, StartOf(s, c))
    OBVIOUS
  <2>2. CASE c \in 1 .. n
    <3>1. Took(a, xs)
      BY <1>1, <1>3, <2>1, <2>2 DEF CommandInv, CommandsShow
    <3>2. QED
      BY <1>1, <1>5, <2>1, <3>1
  <2>3. CASE c = n + 1
    <3>1. Took(a, xs)
      BY <1>1, <1>3, <1>4, <2>1, <2>3
    <3>2. QED
      BY <1>1, <1>5, <2>1, <3>1
  <2>4. c \in 1 .. n \/ c = n + 1
    BY <1>2
  <2>5. QED
    BY <2>2, <2>3, <2>4, Zenon
<1>7. CommandsShow'
  BY <1>3, <1>6 DEF CommandsShow
<1>8. /\ Count(s, h + Rest(s, h) + 1) = n + 1
      /\ h + Rest(s, h) + 1 <= Len(s) => h + Rest(s, h) + 1 \in Starts(s)
      /\ h + Rest(s, h) \in Nat /\ Len(s) \in Nat
  <2>1. CommandsOnly(s, Octet) /\ Len(s) \in Nat
    BY <1>1, BytesGrow DEF CommandInv, CommandsOnly
  <2>2. /\ Rest(s, h) \in Nat /\ h \in Nat
        /\ Count(s, h + Rest(s, h) + 1) = Count(s, h) + 1
        /\ h + Rest(s, h) + 1 <= Len(s) => h + Rest(s, h) + 1 \in Starts(s)
    BY <1>1, <2>1, NextStart
  <2>3. QED
    BY <1>1, <2>1, <2>2
<1>9. Between'
  <2>1. PICK l : l = h + Rest(s, h)
    OBVIOUS
  <2>2. /\ l \in Nat /\ Len(s) \in Nat /\ Count(s, l + 1) = n + 1
        /\ l < Len(s) => l + 1 \in Starts(s)
    BY <1>8, <2>1
  <2>3. Len(frames') = l /\ sent' = s
    BY <1>1, <2>1
  <2>4. QED
    BY <1>3, <2>2, <2>3 DEF Between
<1>10. QED
  BY <1>7, <1>9

LEMMA BegunFields ==
  ASSUME SegmentInv
  PROVE  /\ Begun.element_count = 0 /\ Begun.expected_count = outframe.n
         /\ Begun.in_array <=> outframe.n # 0
         /\ Begun.consumed <=> outframe.n = 0
  BY DEF SegmentInv, SegmentType, Begun

LEMMA StoredFields ==
  ASSUME SegmentInv
  PROVE  /\ Stored.element_count = Opened.element_count + 1
         /\ Stored.expected_count = Opened.expected_count
         /\ Stored.in_array <=> Opened.element_count + 1 # Opened.expected_count
         /\ Stored.consumed <=> Opened.element_count + 1 = Opened.expected_count
         /\ Stored.elements = [Opened.elements EXCEPT ![Opened.element_count] = Element(outframe)]
<1>1. Opened \in SegmentType
  BY OpenedHasSlot
<1> DEFINE o == Opened
           e == Element(outframe)
<1>2. Stored = [o EXCEPT !.elements[o.element_count] = e, !.element_count = o.element_count + 1,
                         !.consumed = o.element_count + 1 = o.expected_count,
                         !.in_array = o.element_count + 1 # o.expected_count]
  BY DEF Stored
<1>3. o \in SegmentType
  BY <1>1
<1> HIDE DEF o, e
<1>4. QED
  BY <1>2, <1>3 DEF SegmentType, o, e

LEMMA CommandsKept ==
  ASSUME NEW Octet, CommandInv(Octet), UNCHANGED <<wire, sent, rb_size, commands>>
  PROVE  CommandsShow'
<1>1. \A a, xs : Took(a, xs)' <=> Took(a, xs)
  <2>1. \A j : At(j)' = At(j)
    BY DEF At
  <2>2. QED
    BY <2>1 DEF Took, Holds, Shows
<1>2. ASSUME NEW c \in 1 .. Len(commands)
      PROVE  Took(commands[c], ArgvSent(sent, StartOf(sent, c)))'
  <2>1. PICK a, xs : a = commands[c] /\ xs = ArgvSent(sent, StartOf(sent, c))
    OBVIOUS
  <2>2. Took(a, xs)
    BY <2>1 DEF CommandInv, CommandsShow
  <2>3. a = commands'[c] /\ xs = ArgvSent(sent', StartOf(sent', c))
    BY <2>1
  <2>4. QED
    BY <1>1, <2>2, <2>3
<1>3. QED
  BY <1>2 DEF CommandInv, CommandsShow

\* The header of an array starts a command; an empty one is whole.
LEMMA HeaderTaken ==
  ASSUME NEW Octet, SegmentInv, CommandInv(Octet), ~stx.in_array,
         NEW h \in Starts(sent), Len(frames) + 1 = h,
         sent[h].type = "*", outframe.n = sent[h].n, outframe.n \in Nat, stx' = Begun,
         UNCHANGED <<wire, sent, rb_size>>, Len(frames') = h,
         commands' = IF stx'.consumed THEN Append(commands, Argv(stx')) ELSE commands
  PROVE  CommandsShow' /\ Gathers'
<1>1. /\ stx'.element_count = 0 /\ stx'.expected_count = outframe.n
      /\ stx'.in_array <=> outframe.n # 0
      /\ stx'.consumed <=> outframe.n = 0
  BY BegunFields
<1>2. Len(commands) = Count(sent, h)
  BY DEF CommandInv, Gathers, Between
<1>3. CASE outframe.n = 0
  <2>1. Rest(sent, h) = 0 /\ h \in Nat
    <3>1. Len(sent) \in Nat
      BY BytesGrow DEF CommandInv, CommandsOnly
    <3>2. QED
      BY <1>3, <3>1 DEF Rest, Starts
  <2>2. PICK argv : argv = Argv(stx')
    OBVIOUS
  <2>3. argv = <<>>
    BY <1>1, <2>2 DEF Argv
  <2>4. ArgvSent(sent, h) = <<>>
    BY <1>3, <2>1, SubSeqEmpty DEF ArgvSent
  <2>5. Took(argv, ArgvSent(sent, h))
    BY <2>3, <2>4 DEF Took
  <2>6. commands' = Append(commands, argv) /\ Len(frames') = h + Rest(sent, h)
    BY <1>1, <1>3, <2>1, <2>2
  <2>7. CommandsShow' /\ Between'
    BY <1>2, <2>5, <2>6, CommandTaken
  <2>8. QED
    BY <1>1, <1>3, <2>7 DEF Gathers
<1>4. CASE outframe.n # 0
  <2>1. UNCHANGED commands
    BY <1>1, <1>4
  <2>3. CommandsShow'
    BY <2>1, CommandsKept
  <2>4. Len(frames') = h + 0 /\ h \in Nat
    <3>1. Len(sent) \in Nat
      BY BytesGrow DEF CommandInv, CommandsOnly
    <3>2. QED
      BY <3>1 DEF Starts
  <2>5. h \in Starts(sent)' /\ Len(commands') = Count(sent, h)' /\ sent'[h] = sent[h]
    BY <1>2, <2>1
  <2>6. InArray'
    BY <1>1, <2>4, <2>5 DEF InArray
  <2>7. QED
    BY <1>1, <1>4, <2>3, <2>6 DEF Gathers
<1>5. QED
  BY <1>3, <1>4

\* What a frame of a stream of commands is, once it is an element.
LEMMA NextElement ==
  ASSUME NEW Octet, CommandsOnly(sent, Octet), NEW m \in 1 .. Len(sent), sent[m].type # "*",
         outframe \in FrameType, Shows(outframe, sent[m]),
         UNCHANGED <<wire, sent, rb_size>>
  PROVE  Element(outframe) \in ElementType /\ Holds(Element(outframe), sent[m])
<1>1. sent[m].n = 0 /\ Len(sent[m].data) < LenRange
  <2>1. WellFormed(sent[m])
    BY DEF CommandsOnly, FramesOnly
  <2>2. QED
    BY <2>1 DEF CommandsOnly, WellFormed
<1>2. QED
  BY <1>1, ElementHolds, ElementFits

\* An element of an array goes behind those before it; the last completes it.
LEMMA ElementTaken ==
  ASSUME NEW Octet, SegmentInv, CommandInv(Octet), stx.in_array, Len(frames) \in Nat,
         outframe \in FrameType, Shows(outframe, sent[Len(frames) + 1]), stx' = Stored,
         UNCHANGED <<wire, sent, rb_size>>, Len(frames') = Len(frames) + 1,
         commands' = IF stx'.consumed THEN Append(commands, Argv(stx')) ELSE commands
  PROVE  CommandsShow' /\ Gathers'
<1>1. PICK h \in Starts(sent) :
        /\ sent[h].type = "*" /\ stx.expected_count = sent[h].n
        /\ Len(frames) = h + stx.element_count
        /\ Len(commands) = Count(sent, h)
        /\ \A j \in 0 .. stx.element_count - 1 : Holds(stx.elements[j], sent[h + 1 + j])
  BY DEF CommandInv, Gathers, InArray
<1>2. PICK c, n, els : c = stx.element_count /\ n = sent[h].n /\ els = stx.elements
  OBVIOUS
<1>3. PICK e : e = Element(outframe)
  OBVIOUS
<1>4. /\ c \in 0 .. MaxElems - 1 /\ c \in Nat /\ n \in Nat /\ c < n /\ n <= MaxElems
      /\ els \in [0 .. MaxElems - 1 -> ElementType]
  <2>1. /\ c \in 0 .. MaxElems /\ n \in 0 .. 255 /\ c < n /\ n <= MaxElems
    BY <1>1, <1>2 DEF SegmentInv, SlotFree
  <2>2. els \in [0 .. MaxElems - 1 -> ElementType]
    BY <1>2 DEF SegmentInv, SegmentType
  <2>3. MaxElems \in Nat
    BY LimitAssumption
  <2> QED
    BY <2>1, <2>2, <2>3
<1>5. Opened = stx
  BY DEF Opened
<1>6. /\ stx'.element_count = c + 1 /\ stx'.expected_count = n
      /\ stx'.in_array <=> c + 1 # n
      /\ stx'.consumed <=> c + 1 = n
      /\ stx'.elements = [els EXCEPT ![c] = e]
  BY <1>1, <1>2, <1>3, <1>5, StoredFields
<1>7. /\ Rest(sent, h) = n /\ h \in Nat \ {0} /\ h + n <= Len(sent) /\ Len(sent) \in Nat
      /\ \A k \in h + 1 .. h + n : sent[k].type # "*"
      /\ CommandsOnly(sent, Octet)
  <2>1. CommandsOnly(sent, Octet) /\ Len(sent) \in Nat
    BY BytesGrow DEF CommandInv, CommandsOnly
  <2>2. Rest(sent, h) = n
    BY <1>1, <1>2 DEF Rest
  <2>3. QED
    BY <2>1, <2>2, NextStart
<1>8. e \in ElementType /\ Holds(e, sent[h + 1 + c])
  <2>1. PICK k : k = h + 1 + c
    OBVIOUS
  <2>2. k \in 1 .. Len(sent) /\ k \in h + 1 .. h + n /\ k = Len(frames) + 1
    <3>1. Len(frames) = h + c
      BY <1>1, <1>2
    <3>2. h \in Nat \ {0} /\ c \in Nat /\ n \in Nat /\ c < n /\ h + n <= Len(sent) /\ Len(sent) \in Nat
      BY <1>4, <1>7
    <3>3. QED
      BY <2>1, <3>1, <3>2
  <2>3. sent[k].type # "*" /\ Shows(outframe, sent[k])
    BY <1>7, <2>2
  <2>4. QED
    BY <1>3, <1>7, <2>1, <2>2, <2>3, NextElement
<1>9. ASSUME NEW j \in 0 .. c
      PROVE  stx'.elements[j] \in ElementType /\ Holds(stx'.elements[j], sent[h + 1 + j])
  <2>1. CASE j = c
    BY <1>4, <1>6, <1>8, <2>1
  <2>2. CASE j # c
    <3>1. j \in 0 .. c - 1 /\ j \in 0 .. MaxElems - 1
      BY <1>4, <2>2, LimitAssumption
    <3>2. stx'.elements[j] = els[j] /\ els[j] \in ElementType
      BY <1>4, <1>6, <2>2, <3>1
    <3>3. Holds(els[j], sent[h + 1 + j])
      BY <1>1, <1>2, <3>1
    <3>4. QED
      BY <3>2, <3>3
  <2>3. QED
    BY <2>1, <2>2
<1>10. CASE c + 1 # n
  <2>1. UNCHANGED commands
    BY <1>6, <1>10
  <2>2. CommandsShow'
    BY <2>1, CommandsKept
  <2>3. ASSUME NEW j \in 0 .. stx'.element_count - 1
        PROVE  Holds(stx.elements[j], sent[h + 1 + j])'
    <3>1. PICK d, x : d = stx'.elements[j] /\ x = sent[h + 1 + j]
      OBVIOUS
    <3>2. Holds(d, x)
      BY <1>4, <1>6, <1>9, <3>1
    <3>3. Holds(d, x)'
      <4>1. \A i : At(i)' = At(i)
        BY DEF At
      <4>2. QED
        BY <3>2, <4>1 DEF Holds, Shows
    <3>4. x = sent'[h + 1 + j]
      BY <3>1
    <3>5. QED
      BY <3>1, <3>3, <3>4
  <2>4. /\ h \in Starts(sent)' /\ sent'[h].type = "*" /\ stx'.expected_count = sent'[h].n
        /\ Len(frames') = h + stx'.element_count /\ Len(commands') = Count(sent, h)'
    <3>1. Len(frames') = h + stx'.element_count
      BY <1>1, <1>2, <1>4, <1>6, <1>7
    <3>2. Len(commands') = Count(sent', h) /\ sent' = sent
      BY <1>1, <2>1
    <3>3. QED
      BY <1>1, <1>2, <1>6, <3>1, <3>2
  <2>5. InArray'
    BY <2>3, <2>4 DEF InArray
  <2>6. QED
    BY <1>6, <1>10, <2>2, <2>5 DEF Gathers
<1>11. CASE c + 1 = n
  <2>1. PICK argv : argv = Argv(stx')
    OBVIOUS
  <2>2. argv = [m \in 1 .. n |-> stx'.elements[m - 1]]
    BY <1>6, <1>11, <2>1 DEF Argv
  <2>3. ASSUME NEW m \in 1 .. n
        PROVE  argv[m] \in ElementType /\ Holds(argv[m], sent[h + m])
    <3>1. PICK j \in 0 .. c : j = m - 1
      BY <1>4, <1>11
    <3>2. m - 1 = j /\ h + 1 + j = h + m
      BY <1>7, <3>1
    <3>3. argv[m] = stx'.elements[j]
      BY <2>2, <3>2
    <3>4. QED
      BY <1>9, <3>2, <3>3
  <2>4. argv \in Seq(ElementType) /\ Len(argv) = n
    <3>1. n \in Nat /\ argv \in [1 .. n -> ElementType]
      BY <1>4, <2>2, <2>3
    <3>2. argv \in Seq(ElementType)
      BY <3>1, SeqDef
    <3>3. QED
      BY <3>1, <3>2, LenProperties
  <2>5. /\ ArgvSent(sent, h) = SubSeq(sent, h + 1, h + n)
        /\ Len(SubSeq(sent, h + 1, h + n)) = n
        /\ \A m \in 1 .. n : SubSeq(sent, h + 1, h + n)[m] = sent[h + m]
    <3>1. ArgvSent(sent, h) = SubSeq(sent, h + 1, h + n)
      BY <1>1, <1>2 DEF ArgvSent
    <3>2. \A m \in h + 1 .. h + n : sent[m] \in FrameItem(Octet)
      <4>1. sent \in Seq(FrameItem(Octet))
        BY <1>7 DEF CommandsOnly, FramesOnly
      <4>2. \A m \in 1 .. Len(sent) : sent[m] \in FrameItem(Octet)
        BY <4>1, ElementOfSeq, Zenon
      <4>3. QED
        BY <1>4, <1>7, <4>2
    <3>3. PICK a \in Int, b \in Int : a = h + 1 /\ b = h + n
      BY <1>4, <1>7
    <3>4. \A m \in a .. b : sent[m] \in FrameItem(Octet)
      BY <3>2, <3>3
    <3>5. /\ Len(SubSeq(sent, a, b)) = IF a <= b THEN b - a + 1 ELSE 0
          /\ \A m \in 1 .. b - a + 1 : SubSeq(sent, a, b)[m] = sent[a + m - 1]
      BY <3>4, SubSeqProperties
    <3>6. b - a + 1 = n /\ a <= b /\ \A m \in 1 .. n : a + m - 1 = h + m
      BY <1>4, <1>7, <3>3
    <3>7. QED
      BY <3>1, <3>3, <3>5, <3>6
  <2>6. Took(argv, ArgvSent(sent, h))
    BY <2>3, <2>4, <2>5 DEF Took
  <2>7. commands' = Append(commands, argv) /\ Len(frames') = h + Rest(sent, h)
    BY <1>1, <1>2, <1>4, <1>6, <1>7, <1>11, <2>1
  <2>8. CommandsShow' /\ Between'
    BY <1>1, <2>6, <2>7, CommandTaken
  <2>9. QED
    BY <1>6, <1>11, <2>8 DEF Gathers
<1>12. QED
  BY <1>10, <1>11

\* A frame outside an array is a command.
LEMMA SingleTaken ==
  ASSUME NEW Octet, SegmentInv, CommandInv(Octet), ~stx.in_array,
         NEW h \in Starts(sent), Len(frames) + 1 = h, sent[h].type # "*",
         outframe \in FrameType, Shows(outframe, sent[h]), stx' = Stored,
         UNCHANGED <<wire, sent, rb_size>>, Len(frames') = h,
         commands' = IF stx'.consumed THEN Append(commands, Argv(stx')) ELSE commands
  PROVE  CommandsShow' /\ Gathers'
<1>1. PICK e, x : e = Element(outframe) /\ x = sent[h]
  OBVIOUS
<1>2. h \in 1 .. Len(sent) /\ h \in Nat /\ CommandsOnly(sent, Octet) /\ Rest(sent, h) = 0
  <2>1. Len(sent) \in Nat /\ CommandsOnly(sent, Octet)
    BY BytesGrow DEF CommandInv, CommandsOnly
  <2>2. QED
    BY <2>1 DEF Starts, Rest
<1>3. e \in ElementType /\ Holds(e, x)
  BY <1>1, <1>2, NextElement
<1>4. /\ Opened.element_count = 0 /\ Opened.expected_count = 1
      /\ Opened.elements \in [0 .. MaxElems - 1 -> ElementType]
  <2>1. Opened \in SegmentType
    BY OpenedHasSlot
  <2>2. Opened = [stx EXCEPT !.expected_count = 1, !.element_count = 0]
    BY DEF Opened
  <2>3. QED
    BY <2>1, <2>2 DEF SegmentInv, SegmentType
<1>5. /\ stx'.element_count = 1 /\ ~stx'.in_array /\ stx'.consumed
      /\ stx'.elements[0] = e
  <2>1. /\ Stored.element_count = 1 /\ ~Stored.in_array /\ Stored.consumed
    BY <1>4, StoredFields
  <2>2. Stored.elements = [Opened.elements EXCEPT ![0] = e]
    BY <1>1, <1>4, StoredFields
  <2>3. 0 \in 0 .. MaxElems - 1
    BY LimitAssumption
  <2>4. Stored.elements[0] = e
    BY <1>4, <2>2, <2>3
  <2>5. QED
    BY <2>1, <2>4
<1>6. PICK argv : argv = Argv(stx')
  OBVIOUS
<1>7. argv = <<e>>
  <2>1. argv = [m \in 1 .. 1 |-> stx'.elements[m - 1]]
    BY <1>5, <1>6 DEF Argv
  <2>2. \A m \in 1 .. 1 : stx'.elements[m - 1] = e
    BY <1>5
  <2>3. argv = [m \in 1 .. 1 |-> e]
    BY <2>1, <2>2
  <2>4. QED
    BY <2>3
<1>8. Took(argv, ArgvSent(sent, h))
  <2>1. ArgvSent(sent, h) = <<x>>
    BY <1>1 DEF ArgvSent
  <2>2. QED
    BY <1>3, <1>7, <2>1 DEF Took
<1>9. commands' = Append(commands, argv) /\ Len(frames') = h + Rest(sent, h)
  BY <1>2, <1>5, <1>6
<1>10. Len(commands) = Count(sent, h)
  BY DEF CommandInv, Gathers, Between
<1>11. CommandsShow' /\ Between'
  BY <1>8, <1>9, <1>10, CommandTaken
<1>12. QED
  BY <1>5, <1>11 DEF Gathers

\* segment_proceed: no frame of a stream of commands is refused, and each goes
\* where it belongs.
LEMMA SegmentCommands ==
  ASSUME NEW Octet, ParserInv, SegmentInv, FramingInv(Octet), CommandInv(Octet), segment_proceed
  PROVE  CommandInv(Octet)'
<1>1. PICK h : h = Len(frames) + 1
  OBVIOUS
<1>2. /\ UNCHANGED <<wire, sent, rb_size>> /\ pc = "feed" /\ frames' = Append(frames, outframe)
  BY DEF segment_proceed, HandOn
<1>3. /\ Len(frames) \in Nat /\ outframe \in FrameType /\ Len(frames') = h
      /\ outframe.n \in Nat /\ outframe.n <= MaxElems
  <2>1. outframe \in FrameType /\ frames \in Seq(FrameType)
    BY DEF ParserInv, ParserTypeOK, FrameType, FramingInv
  <2>2. Len(frames) \in Nat /\ Len(frames') = Len(frames) + 1
    BY <1>2, <2>1, LenProperties, AppendProperties
  <2>3. outframe.n \in 0 .. MaxElems - 1
    BY <2>1 DEF FrameType
  <2>4. QED
    BY <1>1, <2>1, <2>2, <2>3, LimitAssumption
<1>4. Taken = h /\ h \in 1 .. Len(sent) /\ Len(sent) \in Nat /\ CommandsOnly(sent, Octet)
  <2>1. CommandsOnly(sent, Octet) /\ Len(sent) \in Nat
    BY BytesGrow DEF CommandInv, CommandsOnly
  <2>2. Taken = h
    BY <1>1, <1>2, <1>3 DEF Taken
  <2>3. QED
    BY <1>1, <1>3, <2>1, <2>2 DEF FramingInv, FramePosition
<1>5. Shows(outframe, sent[h]) /\ outframe.type = sent[h].type /\ outframe.n = sent[h].n
  <2>1. Shows(outframe, sent[h])
    BY <1>2, <1>4 DEF FramingInv, FramesShow
  <2>2. QED
    BY <2>1 DEF Shows
<1>6. stx.in_array => outframe.type # "*"
  <2>1. SUFFICES ASSUME stx.in_array PROVE sent[h].type # "*"
    BY <1>5
  <2>2. PICK a \in Starts(sent) :
          /\ sent[a].type = "*" /\ stx.expected_count = sent[a].n
          /\ Len(frames) = a + stx.element_count
    BY <2>1 DEF CommandInv, Gathers, InArray
  <2>3. stx.element_count \in Nat /\ stx.element_count < stx.expected_count
    BY <2>1, LimitAssumption DEF SegmentInv, SlotFree
  <2>4. /\ a \in Nat /\ Rest(sent, a) = sent[a].n /\ Rest(sent, a) \in Nat
        /\ \A k \in a + 1 .. a + Rest(sent, a) : sent[k].type # "*"
    BY <1>4, <2>2, NextStart DEF Rest
  <2>5. h \in a + 1 .. a + Rest(sent, a)
    BY <1>1, <2>2, <2>3, <2>4
  <2>6. QED
    BY <2>4, <2>5
<1>7. ~Nested
  BY <1>3, <1>6, LimitAssumption DEF Nested
<1>8. /\ segret' = "0" /\ stx' = IF outframe.type = "*" THEN Begun ELSE Stored
      /\ commands' = IF stx'.consumed THEN Append(commands, Argv(stx')) ELSE commands
  BY <1>7 DEF segment_proceed
<1>9. CommandsShow' /\ Gathers'
  <2>1. CASE stx.in_array
    <3>1. stx' = Stored
      BY <1>6, <1>8, <2>1
    <3>2. Shows(outframe, sent[Len(frames) + 1]) /\ Len(frames') = Len(frames) + 1
      BY <1>1, <1>3, <1>5
    <3>3. QED
      BY <1>2, <1>3, <1>8, <2>1, <3>1, <3>2, ElementTaken
  <2>2. CASE ~stx.in_array
    <3>1. h \in Starts(sent)
      BY <1>1, <1>3, <1>4, <2>2 DEF CommandInv, Gathers, Between
    <3>2. CASE outframe.type = "*"
      <4>1. stx' = Begun
        BY <1>8, <3>2
      <4>2. QED
        BY <1>1, <1>2, <1>3, <1>5, <1>8, <2>2, <3>1, <3>2, <4>1, HeaderTaken
    <3>3. CASE outframe.type # "*"
      <4>1. stx' = Stored
        BY <1>8, <3>3
      <4>2. QED
        BY <1>1, <1>2, <1>3, <1>5, <1>8, <2>2, <3>1, <3>3, <4>1, SingleTaken
    <3>4. QED
      BY <3>2, <3>3
  <2>3. QED
    BY <2>1, <2>2
<1>10. CommandsOnly(sent, Octet)'
  BY <1>2, <1>4
<1>11. QED
  BY <1>8, <1>9, <1>10 DEF CommandInv

LEMMA CommandStep ==
  ASSUME NEW Octet, ParserInv, ParserInv', SegmentInv, FramingInv(Octet), CommandInv(Octet),
         [SNext]_gvars
  PROVE  CommandInv(Octet)'
<1>1. CASE segment_proceed
  BY <1>1, SegmentCommands
<1>2. CASE ((Receive \/ zerocopy_proceed) /\ UNCHANGED svars) \/ UNCHANGED gvars
  BY <1>2, ReadCommands
<1>3. QED
  BY <1>1, <1>2 DEF SNext

\* On a stream of commands the aggregator refuses nothing, and what it has
\* gathered is the beginning of the command the next frame belongs to.
THEOREM CommandInvariant ==
  ASSUME NEW Octet, \A s \in Stream : CommandsOnly(s, Octet)
  PROVE  SSpec => [](ParserInv /\ SegmentInv /\ FramingInv(Octet) /\ CommandInv(Octet))
<1>1. \A s \in Stream : FramesOnly(s, Octet)
  BY DEF CommandsOnly
<1>2. SInit => CommandInv(Octet)
  BY CommandInit
<1>3. /\ ParserInv /\ ParserInv' /\ SegmentInv /\ FramingInv(Octet) /\ CommandInv(Octet)
      /\ [SNext]_gvars
      => CommandInv(Octet)'
  BY CommandStep
<1>4. SSpec => [](ParserInv /\ SegmentInv)
  BY SegmentInvariant
<1>5. SSpec => [](ParserInv /\ FramingInv(Octet))
  BY <1>1, FramingInvariant
<1>6. QED
  BY <1>2, <1>3, <1>4, <1>5, PTL DEF SSpec

-----------------------------------------------------------------------------
(* What follows for commands.                                              *)

\* On a stream of commands no frame whose last byte is in the buffer is held
\* back when the driver waits for I/O.
THEOREM NoFrameHeldBackCorrect ==
  ASSUME NEW Octet, \A s \in Stream : CommandsOnly(s, Octet)
  PROVE  SSpec => []NoFrameHeldBack
<1>1. ASSUME ParserInv, FramingInv(Octet), CommandInv(Octet) PROVE NoFrameHeldBack
  <2>1. SUFFICES ASSUME pc = "io", NEW m \in 1 .. Len(sent), End(sent, m) <= rb_size,
                        ~(m <= Len(frames))
                 PROVE  FALSE
    BY DEF NoFrameHeldBack, End
  <2>2. PICK k : k = Len(frames)
    OBVIOUS
  <2>3. k \in Nat /\ Len(sent) \in Nat /\ FramesOnly(sent, Octet)
    BY <1>1, <2>2, BytesGrow, LenProperties DEF FramingInv
  <2>4. k + 1 \in 0 .. Len(sent) /\ m \in k + 1 .. Len(sent) /\ Taken = k
    BY <2>1, <2>2, <2>3 DEF Taken
  <2>5. rb_size < End(sent, k + 1)
    BY <1>1, <2>1, <2>3, <2>4 DEF FramingInv, AllFound, CommandInv
  <2>6. PICK l : l = k + 1
    OBVIOUS
  <2>7. End(sent, l) <= End(sent, m) /\ End(sent, l) \in Nat /\ End(sent, m) \in Nat
    BY <2>3, <2>4, <2>6, BytesPrefix
  <2>8. rb_size \in Nat
    BY <1>1 DEF ParserInv, ParserTypeOK
  <2>9. QED
    BY <2>1, <2>5, <2>6, <2>7, <2>8
<1>2. ParserInv /\ FramingInv(Octet) /\ CommandInv(Octet) => NoFrameHeldBack
  BY <1>1
<1>3. QED
  BY <1>2, CommandInvariant, PTL

\* No command is held back once its last frame has been handed on.
THEOREM NoCommandHeldBackCorrect ==
  ASSUME NEW Octet, \A s \in Stream : CommandsOnly(s, Octet)
  PROVE  SSpec => []NoCommandHeldBack
<1>1. ASSUME SegmentInv, FramingInv(Octet), CommandInv(Octet) PROVE NoCommandHeldBack
  <2>1. SUFFICES ASSUME NEW c \in 1 .. Cardinality(Starts(sent)), NEW m, m = StartOf(sent, c),
                        Len(frames) >= m + Rest(sent, m), ~(Len(commands) >= c)
                 PROVE  FALSE
    BY DEF NoCommandHeldBack
  <2>2. PICK l, s, d : l = Len(frames) /\ s = sent /\ d = Len(commands)
    OBVIOUS
  <2>3. l \in Nat /\ d \in Nat /\ Len(s) \in Nat /\ CommandsOnly(s, Octet)
    <3>1. Len(s) \in Nat /\ CommandsOnly(s, Octet)
      BY <1>1, <2>2, BytesGrow DEF CommandInv, CommandsOnly
    <3>2. QED
      BY <1>1, <2>2, <3>1, LenProperties DEF FramingInv, CommandInv, CommandsShow
  <2>4. /\ m \in Starts(s) /\ Count(s, m) = c - 1 /\ c \in 1 .. Cardinality(Starts(s))
        /\ l >= m + Rest(s, m) /\ d < c
    <3>1. c \in Nat
      OBVIOUS
    <3>2. QED
      BY <2>1, <2>2, <2>3, <3>1, StartExists
  <2>5. /\ m \in Nat /\ Rest(s, m) \in Nat /\ c \in Nat
        /\ Count(s, m + Rest(s, m) + 1) = c
    BY <2>3, <2>4, NextStart
  <2>6. CASE stx.in_array
    <3>1. PICK h \in Starts(s) : /\ s[h].type = "*" /\ stx.expected_count = s[h].n
                                 /\ l = h + stx.element_count /\ d = Count(s, h)
      BY <1>1, <2>2, <2>6 DEF CommandInv, Gathers, InArray
    <3>2. stx.element_count \in Nat /\ stx.element_count < stx.expected_count
      BY <1>1, <2>6, LimitAssumption DEF SegmentInv, SlotFree
    <3>3. /\ h \in Nat /\ Rest(s, h) = stx.expected_count /\ Rest(s, h) \in Nat
          /\ \A k \in h + 1 .. h + Rest(s, h) : k \notin Starts(s)
          /\ Count(s, h + Rest(s, h) + 1) = d + 1
      BY <2>3, <3>1, NextStart DEF Rest
    <3>4. m <= h
      <4>1. m \notin h + 1 .. h + Rest(s, h)
        BY <2>4, <3>3
      <4>2. l < h + Rest(s, h) /\ l \in Nat /\ h \in Nat /\ Rest(s, h) \in Nat
        BY <2>3, <3>1, <3>2, <3>3
      <4>3. m \in Nat /\ m <= l
        BY <2>3, <2>4, <2>5
      <4>4. QED
        BY <4>1, <4>2, <4>3
    <3>5. CASE m = h
      BY <2>4, <2>5, <3>1, <3>2, <3>3, <3>5
    <3>6. CASE m < h
      <4>1. Count(s, m + 1) = Count(s, m) + 1 /\ Count(s, m + 1) <= Count(s, h)
        <5>1. m + 1 \in Nat /\ m + 1 <= h
          BY <2>5, <3>3, <3>6
        <5>2. QED
          BY <2>3, <2>4, <2>5, <3>3, <5>1, CountGrows, Zenon
      <4>2. QED
        BY <2>3, <2>4, <2>5, <3>1, <4>1
    <3>7. QED
      BY <2>5, <3>3, <3>4, <3>5, <3>6
  <2>7. CASE ~stx.in_array
    <3>1. d = Count(s, l + 1)
      BY <1>1, <2>2, <2>7 DEF CommandInv, Gathers, Between
    <3>2. m + Rest(s, m) + 1 \in Nat /\ l + 1 \in Nat /\ m + Rest(s, m) + 1 <= l + 1
      BY <2>3, <2>4, <2>5
    <3>3. Count(s, m + Rest(s, m) + 1) <= Count(s, l + 1)
      BY <2>3, <3>2, CountGrows, Zenon
    <3>4. QED
      BY <2>3, <2>4, <2>5, <3>1, <3>3
  <2>8. QED
    BY <2>6, <2>7
<1>2. SegmentInv /\ FramingInv(Octet) /\ CommandInv(Octet) => NoCommandHeldBack
  BY <1>1
<1>3. QED
  BY <1>2, CommandInvariant, PTL

\* The arguments of a command are frames that are no headers.
LEMMA ArgvItems ==
  ASSUME NEW Octet, NEW s, CommandsOnly(s, Octet), NEW m \in Starts(s)
  PROVE  /\ ArgvSent(s, m) \in Seq(FrameItem(Octet))
         /\ \A k \in 1 .. Len(ArgvSent(s, m)) :
              WellFormed(ArgvSent(s, m)[k]) /\ ArgvSent(s, m)[k].type # "*"
<1>1. /\ m \in Nat \ {0} /\ Rest(s, m) \in Nat /\ m + Rest(s, m) <= Len(s) /\ Len(s) \in Nat
      /\ \A k \in m + 1 .. m + Rest(s, m) : s[k].type # "*"
      /\ \A k \in 1 .. Len(s) : s[k] \in FrameItem(Octet) /\ WellFormed(s[k])
  BY NextStart, BytesGrow DEF CommandsOnly
<1>2. CASE s[m].type = "*"
  <2>1. PICK a, b, n : a = m + 1 /\ b = m + s[m].n /\ n = s[m].n
    OBVIOUS
  <2>2. n \in Nat /\ a \in Int /\ b \in Int /\ b - a + 1 = n /\ m + n <= Len(s)
    BY <1>1, <1>2, <2>1 DEF Rest
  <2>3. \A k \in a .. b : s[k] \in FrameItem(Octet) /\ WellFormed(s[k]) /\ s[k].type # "*"
    <3>1. a \in 1 .. Len(s) + 1 /\ b <= Len(s) /\ \A k \in a .. b : s[k].type # "*"
      BY <1>1, <1>2, <2>1, <2>2 DEF Rest
    <3>2. \A k \in a .. b : k \in 1 .. Len(s)
      BY <1>1, <2>2, <3>1
    <3>3. QED
      BY <1>1, <3>1, <3>2
  <2>4. /\ SubSeq(s, a, b) \in Seq(FrameItem(Octet))
        /\ Len(SubSeq(s, a, b)) = IF a <= b THEN b - a + 1 ELSE 0
        /\ \A k \in 1 .. b - a + 1 : SubSeq(s, a, b)[k] = s[a + k - 1]
    BY <2>2, <2>3, SubSeqProperties
  <2>5. ArgvSent(s, m) = SubSeq(s, a, b)
    BY <1>2, <2>1 DEF ArgvSent
  <2>6. ASSUME NEW k \in 1 .. Len(SubSeq(s, a, b))
        PROVE  WellFormed(SubSeq(s, a, b)[k]) /\ SubSeq(s, a, b)[k].type # "*"
    <3>1. k \in 1 .. n /\ a + k - 1 \in a .. b
      BY <1>1, <2>1, <2>2, <2>4
    <3>2. QED
      BY <2>2, <2>3, <2>4, <3>1
  <2>7. QED
    BY <2>4, <2>5, <2>6
<1>3. CASE s[m].type # "*"
  <2>1. ArgvSent(s, m) = <<s[m]>> /\ m \in 1 .. Len(s)
    BY <1>1, <1>3 DEF ArgvSent
  <2>2. QED
    BY <1>1, <1>3, <2>1
<1>4. QED
  BY <1>2, <1>3

\* What the elements of a command say is what was sent.
LEMMA CommandRead ==
  ASSUME NEW Octet, NEW xs \in Seq(FrameItem(Octet)), NEW argv, Took(argv, xs),
         \A k \in 1 .. Len(xs) : WellFormed(xs[k]) /\ xs[k].type # "*"
  PROVE  [m \in 1 .. Len(argv) |-> ElementContents(argv[m])] = xs
<1>1. argv \in Seq(ElementType) /\ Len(argv) = Len(xs) /\ Len(xs) \in Nat
      /\ xs = [m \in 1 .. Len(xs) |-> xs[m]]
  BY LenProperties DEF Took
<1>2. ASSUME NEW m \in 1 .. Len(xs) PROVE ElementContents(argv[m]) = xs[m]
  <2>1. PICK e, x : e = argv[m] /\ x = xs[m]
    OBVIOUS
  <2>2. x \in FrameItem(Octet) /\ WellFormed(x) /\ x.type # "*" /\ Holds(e, x)
    BY <2>1, ElementOfSeq DEF Took
  <2>3. PICK f : f = Whole(e)
    OBVIOUS
  <2>4. Contents(f) = x /\ f.type = x.type
    BY <2>2, <2>3, ContentsShown DEF Holds, Shows
  <2>5. ElementContents(e) = Contents(f)
    <3>1. f.type = e.type /\ f.at = e.data /\ f.len = e.len /\ f.n = 0
      BY <2>3 DEF Whole, Frame
    <3>2. Contents(f) = Item(f.type, [j \in 1 .. f.len |-> At(f.at + j - 1)], f.n)
      BY <2>2, <2>4 DEF Contents
    <3>3. QED
      BY <3>1, <3>2 DEF ElementContents
  <2>6. QED
    BY <2>1, <2>4, <2>5
<1>3. QED
  BY <1>1, <1>2

CommandsFit(Octet) ==
  /\ CommandsGot = [c \in 1 .. Len(commands) |-> CommandsSent[c]]
  /\ Len(commands) \in Nat /\ Len(commands) <= Len(CommandsSent)
  /\ commands \in Seq(Seq(ElementType))
  /\ Len(CommandsSent) \in Nat /\ CommandsSent \in Seq(Seq(FrameItem(Octet)))

\* The commands taken are the first commands sent.
LEMMA CommandsAreSent ==
  ASSUME NEW Octet
  PROVE  FramingInv(Octet) /\ CommandInv(Octet) => CommandsFit(Octet)
<1> SUFFICES ASSUME FramingInv(Octet), CommandInv(Octet) PROVE CommandsFit(Octet)
  OBVIOUS
<1>1. PICK s, l, d, n : s = sent /\ l = Len(frames) /\ d = Len(commands) /\ n = Cardinality(Starts(s))
  OBVIOUS
<1>2. /\ CommandsOnly(s, Octet) /\ Len(s) \in Nat /\ l \in Nat /\ d \in Nat
      /\ commands \in Seq(Seq(ElementType))
  <2>1. Len(s) \in Nat /\ CommandsOnly(s, Octet)
    BY <1>1, BytesGrow DEF CommandInv, CommandsOnly
  <2>2. QED
    BY <1>1, <2>1, LenProperties DEF FramingInv, CommandInv, CommandsShow
<1>3. n \in Nat /\ d <= n
  <2>1. n \in Nat /\ \A m \in Nat : Count(s, m) <= n
    BY <1>1, <1>2, CountGrows, FS_CardinalityType, Zenon
  <2>2. CASE stx.in_array
    <3>1. PICK h \in Starts(s) : d = Count(s, h)
      BY <1>1, <2>2 DEF CommandInv, Gathers, InArray
    <3>2. h \in Nat
      BY <1>2, NextStart
    <3>3. QED
      BY <2>1, <3>1, <3>2
  <2>3. CASE ~stx.in_array
    <3>1. d = Count(s, l + 1) /\ l + 1 \in Nat
      BY <1>1, <1>2, <2>3 DEF CommandInv, Gathers, Between
    <3>2. QED
      BY <2>1, <3>1
  <2>4. QED
    BY <2>2, <2>3, <2>1
<1>4. ASSUME NEW c \in 1 .. n
      PROVE  /\ ArgvSent(s, StartOf(s, c)) \in Seq(FrameItem(Octet))
             /\ \A k \in 1 .. Len(ArgvSent(s, StartOf(s, c))) :
                  /\ WellFormed(ArgvSent(s, StartOf(s, c))[k])
                  /\ ArgvSent(s, StartOf(s, c))[k].type # "*"
  <2>1. StartOf(s, c) \in Starts(s)
    BY <1>1, <1>2, StartExists
  <2>2. QED
    BY <1>2, <2>1, ArgvItems
<1>5. PICK q : q = CommandsSent
  OBVIOUS
<1>6. q = [c \in 1 .. n |-> ArgvSent(s, StartOf(s, c))]
  BY <1>1, <1>5 DEF CommandsSent
<1>7. q \in Seq(Seq(FrameItem(Octet))) /\ Len(q) = n
  BY <1>3, <1>4, <1>6
<1>8. ASSUME NEW c \in 1 .. d
      PROVE  [m \in 1 .. Len(commands[c]) |-> ElementContents(commands[c][m])] = q[c]
  <2>1. c \in 1 .. n
    BY <1>2, <1>3
  <2>2. PICK a, xs : a = commands[c] /\ xs = ArgvSent(s, StartOf(s, c))
    OBVIOUS
  <2>3. Took(a, xs) /\ q[c] = xs
    BY <1>1, <1>6, <2>1, <2>2 DEF CommandInv, CommandsShow
  <2>4. [m \in 1 .. Len(a) |-> ElementContents(a[m])] = xs
    BY <1>4, <2>1, <2>2, <2>3, CommandRead
  <2>5. QED
    BY <2>2, <2>3, <2>4
<1>9. CommandsGot = [c \in 1 .. d |-> q[c]]
  BY <1>1, <1>8 DEF CommandsGot
<1>10. QED
  BY <1>1, <1>2, <1>3, <1>5, <1>7, <1>9 DEF CommandsFit

LEMMA CommandDelivered ==
  ASSUME NEW Octet, FramingInv(Octet) /\ CommandInv(Octet), (FramingInv(Octet) /\ CommandInv(Octet))',
         [SNext]_gvars
  PROVE  [Commands!Deliver]_(Commands!vars)
<1>0. CommandsFit(Octet) /\ CommandsFit(Octet)'
  <2>1. CommandsFit(Octet)
    BY CommandsAreSent
  <2>2. (FramingInv(Octet) /\ CommandInv(Octet))' => CommandsFit(Octet)'
    BY CommandsAreSent, PTL
  <2>3. QED
    BY <2>1, <2>2
<1>1. UNCHANGED CommandsSent
  <2>1. UNCHANGED sent
    BY DEF SNext, Receive, zerocopy_proceed, segment_proceed, HandOn, gvars
  <2>2. QED
    BY <2>1 DEF CommandsSent
<1>2. CASE UNCHANGED commands
  <2>1. UNCHANGED CommandsGot
    BY <1>0, <1>1, <1>2 DEF CommandsFit
  <2>2. QED
    BY <1>1, <2>1 DEF Commands!vars
<1>3. CASE \E a : commands' = Append(commands, a)
  <2>1. PICK n, g, t, q : n = Len(commands) /\ g = CommandsGot /\ t = CommandsGot' /\ q = CommandsSent
    OBVIOUS
  <2>2. PICK a : commands' = Append(commands, a)
    BY <1>3
  <2>3. Len(commands') = n + 1
    BY <1>0, <2>1, <2>2 DEF CommandsFit
  <2>4. n \in Nat /\ n < Len(q) /\ Len(q) \in Nat /\ q \in Seq(Seq(FrameItem(Octet)))
    BY <1>0, <1>1, <2>1, <2>3 DEF CommandsFit
  <2>5. g = [c \in 1 .. n |-> q[c]] /\ t = [c \in 1 .. n + 1 |-> q[c]]
    BY <1>0, <1>1, <2>1, <2>3 DEF CommandsFit
  <2>6. Len(g) = n /\ t = Append(g, q[n + 1])
    BY <2>4, <2>5, OneMore
  <2>7. Commands!Deliver
    BY <1>1, <2>1, <2>4, <2>6 DEF Commands!Deliver
  <2>8. QED
    BY <2>7
<1>4. QED
  BY <1>2, <1>3 DEF SNext, segment_proceed, svars, gvars

\* For every stream of commands, however it is cut into reads: the commands
\* taken are those sent, in order, each with exactly its arguments.
THEOREM CommandsExactCorrect ==
  ASSUME NEW Octet, \A s \in Stream : CommandsOnly(s, Octet)
  PROVE  SSpec => CommandsExact
<1>1. SInit => Commands!Init
  <2>1. SInit => commands = <<>>
    BY DEF SInit
  <2>2. commands = <<>> => CommandsGot = <<>>
    BY DEF CommandsGot
  <2>3. QED
    BY <2>1, <2>2 DEF Commands!Init
<1>2. /\ FramingInv(Octet) /\ CommandInv(Octet)
      /\ (FramingInv(Octet) /\ CommandInv(Octet))' /\ [SNext]_gvars
      => [Commands!Deliver]_(Commands!vars)
  BY CommandDelivered
<1>3. QED
  BY <1>1, <1>2, CommandInvariant, PTL DEF SSpec, CommandsExact, Commands!Spec

-----------------------------------------------------------------------------
(* Numbers: what is read off a line is the sum its digits stand for.       *)

\* The powers of ten.
LEMMA PowersAre ==
  /\ Pow10 \in [Nat -> Nat] /\ Pow10[0] = 1
  /\ \A k \in Nat : Pow10[k + 1] = 10 * Pow10[k] /\ Pow10[k] >= 1
<1> DEFINE step == [x \in Nat \X Nat |-> 10 * x[1]]
           By(g) == g = [k \in Nat |-> IF k = 0 THEN 1 ELSE 10 * g[k - 1]]
<1>1. step \in [Nat \X Nat -> Nat] /\ \A a, k \in Nat : step[<<a, k>>] = 10 * a
  OBVIOUS
<1> HIDE DEF step
<1>2. PICK g \in [Nat -> Nat] : AllSteps(g, 1, step)
  <2>1. 1 \in Nat
    OBVIOUS
  <2> QED
    BY <1>1, <2>1, NatRecursion, Zenon
<1>3. By(g)
  <2>1. ASSUME NEW k \in Nat PROVE g[k] = IF k = 0 THEN 1 ELSE 10 * g[k - 1]
    <3>1. g[k] = IF k = 0 THEN 1 ELSE step[<<g[k - 1], k>>]
      BY <1>2 DEF AllSteps
    <3>2. k # 0 => g[k - 1] \in Nat
      OBVIOUS
    <3> QED
      BY <1>1, <3>1, <3>2
  <2> QED
    BY <2>1
<1> HIDE DEF By
<1>4. By(Pow10)
  BY <1>3, Zenon DEF Pow10, By
<1>5. DOMAIN Pow10 = Nat /\ \A k \in Nat : Pow10[k] = IF k = 0 THEN 1 ELSE 10 * Pow10[k - 1]
  BY <1>4, Zenon DEF By
<1>6. Pow10 = [k \in Nat |-> Pow10[k]]
  BY <1>4 DEF By
<1>7. ASSUME NEW k \in Nat PROVE Pow10[k + 1] = 10 * Pow10[k]
  BY <1>5
<1> DEFINE S == {k \in Nat : Pow10[k] \in Nat /\ Pow10[k] >= 1}
<1>8. S = Nat
  <2>1. 0 \in S
    BY <1>5
  <2>2. \A k \in S : k + 1 \in S
    BY <1>7
  <2>3. S \in SUBSET Nat
    OBVIOUS
  <2> HIDE DEF S
  <2> QED
    BY <2>1, <2>2, <2>3, NatSetInduction
<1>9. \A k \in Nat : Pow10[k] \in Nat /\ Pow10[k] >= 1
  BY <1>8
<1>10. Pow10 \in [Nat -> Nat]
  BY <1>6, <1>9
<1> QED
  BY <1>5, <1>7, <1>9, <1>10

LEMMA PowersGrow ==
  ASSUME NEW m \in Nat, NEW k \in Nat, m <= k
  PROVE  Pow10[m] <= Pow10[k]
<1> DEFINE S == {e \in Nat : Pow10[m] <= Pow10[m + e]}
<1>1. 0 \in S
  BY PowersAre
<1>2. ASSUME NEW e \in Nat, e \in S PROVE e + 1 \in S
  <2>1. PICK n \in Nat : n = m + e
    OBVIOUS
  <2>2. Pow10[n + 1] = 10 * Pow10[n] /\ Pow10[n] \in Nat /\ Pow10[m] \in Nat
    BY PowersAre
  <2>3. Pow10[m] <= Pow10[n]
    BY <1>2, <2>1
  <2>4. Pow10[m] <= Pow10[n + 1] /\ n + 1 = m + (e + 1)
    BY <2>1, <2>2, <2>3
  <2> QED
    BY <2>4
<1>3. S = Nat
  <2>1. S \in SUBSET Nat
    OBVIOUS
  <2> HIDE DEF S
  <2>2. \A e \in S : e + 1 \in S
    BY <1>2, <2>1
  <2> QED
    BY <1>1, <2>1, <2>2, NatSetInduction
<1>4. k - m \in Nat /\ m + (k - m) = k
  OBVIOUS
<1> QED
  BY <1>3, <1>4

\* The digits up to the j-th, read from the left.
Digits10(h, s) ==
  /\ h[0] = 0
  /\ \A j \in 1 .. Len(s) : h[j] = h[j - 1] * 10 + DigitValue(s[j])

DecimalSum(s, g) ==
  g = [j \in 0 .. Len(s) |->
         IF j = 0 THEN 0 ELSE g[j - 1] + DigitValue(s[j]) * Pow10[Len(s) - j]]

\* s is n digits.
Number(s, n) == Len(s) = n /\ \A j \in 1 .. n : DigitValue(s[j]) \in 0 .. 9

LEMMA ReadFromLeft ==
  ASSUME NEW s, NEW n \in Nat, Number(s, n)
  PROVE  \E h \in [0 .. n -> Nat] : Digits10(h, s)
<1> DEFINE step == [p \in Nat \X (1 .. n) |-> p[1] * 10 + DigitValue(s[p[2]])]
<1>1. step \in [Nat \X (1 .. n) -> Nat]
  BY DEF Number
<1>2. \A a \in Nat, j \in 1 .. n : step[<<a, j>>] = a * 10 + DigitValue(s[j])
  OBVIOUS
<1> HIDE DEF step
<1>3. PICK h \in [0 .. n -> Nat] : Steps(h, 0, step, n)
  <2>1. 0 \in Nat
    OBVIOUS
  <2> QED
    BY <1>1, <2>1, Recursion, ZenonT(30)
<1>4. h[0] = 0
  <2>1. 0 \in 0 .. n
    OBVIOUS
  <2> QED
    BY <1>3, <2>1 DEF Steps
<1>5. ASSUME NEW j \in 1 .. n PROVE h[j] = h[j - 1] * 10 + DigitValue(s[j])
  <2>1. j \in 0 .. n /\ j # 0 /\ j - 1 \in 0 .. n
    OBVIOUS
  <2>2. h[j] = step[<<h[j - 1], j>>]
    BY <1>3, <2>1 DEF Steps
  <2> QED
    BY <1>2, <1>3, <2>1, <2>2
<1> QED
  BY <1>3, <1>4, <1>5 DEF Digits10, Number

\* The sum of the digits and the number read from the left are one.
LEMMA DecimalIs ==
  ASSUME NEW s, NEW n \in Nat, Number(s, n), NEW h \in [0 .. n -> Nat], Digits10(h, s)
  PROVE  Decimal(s) = h[n]
<1> DEFINE new == [j \in 0 .. n |-> h[j] * Pow10[n - j]]
<1>1. ASSUME NEW j \in 1 .. n
      PROVE  h[j] * Pow10[n - j] = h[j - 1] * Pow10[n - (j - 1)] + DigitValue(s[j]) * Pow10[n - j]
  <2>1. PICK p \in Nat : p = Pow10[n - j]
    BY PowersAre
  <2>2. Pow10[n - (j - 1)] = 10 * p
    <3>1. n - j \in Nat /\ n - (j - 1) = (n - j) + 1
      OBVIOUS
    <3> QED
      BY <2>1, <3>1, PowersAre
  <2>3. PICK a \in Nat, d \in Nat : a = h[j - 1] /\ d = DigitValue(s[j])
    <3>1. j - 1 \in 0 .. n
      OBVIOUS
    <3> QED
      BY <3>1 DEF Number
  <2>4. h[j] = a * 10 + d
    BY <2>3 DEF Digits10, Number
  <2>5. (a * 10 + d) * p = a * (10 * p) + d * p
    OBVIOUS
  <2> QED
    BY <2>1, <2>2, <2>3, <2>4, <2>5
<1>2. ASSUME NEW j \in 0 .. n
      PROVE  new[j] = IF j = 0 THEN 0 ELSE new[j - 1] + DigitValue(s[j]) * Pow10[n - j]
  <2>1. CASE j = 0
    <3>1. h[0] * Pow10[n - 0] = 0
      <4>1. Pow10[n - 0] \in Nat /\ h[0] = 0
        BY PowersAre DEF Digits10
      <4> QED
        BY <4>1
    <3> QED
      BY <2>1, <3>1
  <2>2. CASE j # 0
    <3>1. j \in 1 .. n /\ j - 1 \in 0 .. n
      BY <2>2
    <3> QED
      BY <1>1, <2>2, <3>1
  <2> QED
    BY <2>1, <2>2
<1>3. DOMAIN new = 0 .. n /\ new = [j \in 0 .. n |-> new[j]]
  OBVIOUS
<1>4. new[n] = h[n]
  <2>1. Pow10[n - n] = 1 /\ n \in 0 .. n
    BY PowersAre
  <2>2. new[n] = h[n] * Pow10[n - n]
    BY <2>1
  <2> QED
    BY <2>1, <2>2
<1> HIDE DEF new
<1>5. DecimalSum(s, new)
  <2>1. Len(s) = n
    BY DEF Number
  <2>2. new = [j \in 0 .. n |-> IF j = 0 THEN 0 ELSE new[j - 1] + DigitValue(s[j]) * Pow10[n - j]]
    BY <1>2, <1>3
  <2> QED
    BY <2>1, <2>2, Zenon DEF DecimalSum
<1> DEFINE c == CHOOSE g : DecimalSum(s, g)
<1>6. DecimalSum(s, c)
  BY <1>5, Zenon
<1>7. Decimal(s) = c[n]
  <2>1. Len(s) = n
    BY DEF Number
  <2> QED
    BY <2>1, Zenon DEF Decimal, DecimalSum
<1> HIDE DEF c
<1>8. \A j \in 0 .. n : c[j] = IF j = 0 THEN 0 ELSE c[j - 1] + DigitValue(s[j]) * Pow10[n - j]
  BY <1>6, Zenon DEF DecimalSum, Number
<1> DEFINE S == {j \in Nat : j <= n => c[j] = new[j]}
<1>9. S = Nat
  <2>1. 0 \in S
    BY <1>2, <1>8
  <2>2. ASSUME NEW j \in Nat, j \in S PROVE j + 1 \in S
    <3>1. CASE j + 1 <= n
      <4>1. PICK k \in 1 .. n : k = j + 1
        BY <3>1
      <4>2. k - 1 = j /\ k \in 0 .. n /\ k # 0 /\ c[j] = new[j]
        BY <2>2, <3>1, <4>1
      <4>3. c[k] = c[j] + DigitValue(s[k]) * Pow10[n - k]
        BY <1>8, <4>2
      <4>4. new[k] = new[j] + DigitValue(s[k]) * Pow10[n - k]
        BY <1>2, <4>2
      <4> QED
        BY <4>1, <4>2, <4>3, <4>4
    <3> QED
      BY <3>1
  <2>3. S \in SUBSET Nat
    OBVIOUS
  <2> HIDE DEF S
  <2>4. \A j \in S : j + 1 \in S
    BY <2>2, <2>3
  <2> QED
    BY <2>1, <2>3, <2>4, NatSetInduction
<1>10. c[n] = new[n]
  <2>1. n \in S
    BY <1>9
  <2> QED
    BY <2>1
<1> QED
  BY <1>4, <1>7, <1>10

\* j digits are below the j-th power of ten.
LEMMA BelowPower ==
  ASSUME NEW s, NEW n \in Nat, Number(s, n), NEW h \in [0 .. n -> Nat], Digits10(h, s),
         NEW k \in 0 .. n
  PROVE  h[k] < Pow10[k]
<1> DEFINE S == {j \in Nat : j <= n => h[j] < Pow10[j]}
<1>1. 0 \in S
  BY PowersAre DEF Digits10
<1>2. ASSUME NEW j \in Nat, j \in S PROVE j + 1 \in S
  <2>1. CASE j + 1 <= n
    <3>1. PICK i \in 1 .. n : i = j + 1
      BY <2>1
    <3>2. i - 1 = j /\ j \in 0 .. n /\ h[j] < Pow10[j]
      BY <1>2, <2>1, <3>1
    <3>3. h[i] = h[j] * 10 + DigitValue(s[i]) /\ DigitValue(s[i]) \in 0 .. 9
      BY <3>2 DEF Digits10, Number
    <3>4. Pow10[i] = 10 * Pow10[j] /\ Pow10[j] \in Nat /\ h[j] \in Nat
      BY <3>1, <3>2, PowersAre
    <3>5. h[i] < Pow10[i]
      <4>1. PICK v \in Nat, p \in Nat, d \in 0 .. 9 : v = h[j] /\ p = Pow10[j] /\ d = DigitValue(s[i])
        BY <3>3, <3>4
      <4>2. v < p
        BY <3>2, <4>1, Zenon
      <4>3. v * 10 + d < 10 * p
        BY <4>2
      <4> QED
        BY <3>3, <3>4, <4>1, <4>3, Zenon
    <3> QED
      BY <3>1, <3>5
  <2> QED
    BY <2>1
<1>3. S = Nat
  <2>1. S \in SUBSET Nat
    OBVIOUS
  <2> HIDE DEF S
  <2>2. \A j \in S : j + 1 \in S
    BY <1>2, <2>1
  <2> QED
    BY <1>1, <2>1, <2>2, NatSetInduction
<1>4. k \in S
  BY <1>3
<1> QED
  BY <1>4

\* The loop of try_parser_num holds the digits read, or has found that they are
\* too many: it looks for an overflow early enough, and takes nothing for one.
Held(a, v) == a = IF v <= LLMax THEN v ELSE -1

LEMMA StepHolds ==
  ASSUME NEW s, NEW n \in Nat, Number(s, n), NEW h \in [0 .. n -> Nat], Digits10(h, s),
         NEW j \in 1 .. n, IsDigit(s[j]), NEW a, Held(a, h[j - 1])
  PROVE  Held(NumStep(s, a, j), h[j])
<1>1. PICK v \in Nat, d \in 0 .. 9, M \in Nat :
        v = h[j - 1] /\ d = DigitValue(s[j]) /\ M = LLMax
  <2>1. j - 1 \in 0 .. n
    OBVIOUS
  <2> QED
    BY <2>1, NumberAssumption DEF Number
<1>2. h[j] = v * 10 + d
  BY <1>1 DEF Digits10, Number
<1>3. a = IF v <= M THEN v ELSE -1
  BY <1>1 DEF Held
<1>4. j <= CheckFrom => v * 10 + d <= M
  <2>1. CASE j <= CheckFrom
    <3>1. j \in 0 .. n /\ j \in Nat
      OBVIOUS
    <3>2. h[j] < Pow10[j]
      BY <3>1, BelowPower
    <3>3. Pow10[j] <= Pow10[CheckFrom]
      BY <2>1, <3>1, NumberAssumption, PowersGrow
    <3>4. Pow10[j] \in Nat /\ Pow10[CheckFrom] \in Nat
      BY <3>1, NumberAssumption, PowersAre
    <3> QED
      BY <1>1, <1>2, <3>2, <3>3, <3>4, RoomAssumption
  <2> QED
    BY <2>1
<1>5. NumStep(s, a, j) = IF a < 0 \/ (j > CheckFrom /\ a > (M - d) \div 10) THEN -1 ELSE a * 10 + d
  BY <1>1 DEF NumStep
<1>6. CASE v <= M
  <2>1. a = v /\ ~(a < 0)
    BY <1>3, <1>6
  <2>2. v > (M - d) \div 10 <=> v * 10 + d > M
    OBVIOUS
  <2>3. NumStep(s, a, j) = IF v * 10 + d <= M THEN v * 10 + d ELSE -1
    <3>1. CASE v * 10 + d <= M
      BY <1>5, <2>1, <2>2, <3>1
    <3>2. CASE ~(v * 10 + d <= M)
      <4>1. j > CheckFrom
        BY <1>4, <3>2, NumberAssumption
      <4> QED
        BY <1>5, <2>1, <2>2, <3>2, <4>1
    <3> QED
      BY <3>1, <3>2
  <2> QED
    BY <1>1, <1>2, <2>3 DEF Held
<1>7. CASE ~(v <= M)
  <2>1. NumStep(s, a, j) = -1
    BY <1>3, <1>5, <1>7
  <2>2. ~(v * 10 + d <= M)
    BY <1>7
  <2> QED
    BY <1>1, <1>2, <2>1, <2>2 DEF Held
<1> QED
  BY <1>6, <1>7

\* What the loop computes of digits, and of anything else.
LEMMA ValueOfDigits ==
  ASSUME NEW s, NEW n \in Nat, Len(s) = n, \A j \in 1 .. n : IsDigit(s[j])
  PROVE  Held(Value(s), Decimal(s))
<1>1. Number(s, n)
  <2>1. ASSUME NEW j \in 1 .. n PROVE DigitValue(s[j]) \in 0 .. 9
    <3>1. PICK e \in 1 .. 10 : Digit[e] = s[j]
      BY DEF IsDigit
    <3>2. e - 1 \in 0 .. 9 /\ (e - 1) + 1 = e
      OBVIOUS
    <3> QED
      BY <3>1, <3>2, DigitRead
  <2> QED
    BY <2>1 DEF Number
<1>2. PICK h \in [0 .. n -> Nat] : Digits10(h, s)
  BY <1>1, ReadFromLeft
<1>3. PICK g : g = Loop(s)
  OBVIOUS
<1>4. g[0] = 0 /\ Value(s) = g[n] /\ \A j \in 1 .. n : g[j] = NumStep(s, g[j - 1], j)
  BY <1>3, ValueIsLoop
<1> DEFINE S == {j \in Nat : j <= n => Held(g[j], h[j])}
<1>5. 0 \in S
  <2>1. Held(0, 0)
    BY NumberAssumption DEF Held
  <2> QED
    BY <1>2, <1>4, <2>1 DEF Digits10
<1>6. ASSUME NEW j \in Nat, j \in S PROVE j + 1 \in S
  <2>1. CASE j + 1 <= n
    <3>1. PICK k \in 1 .. n : k = j + 1
      BY <2>1
    <3>2. k - 1 = j /\ Held(g[k - 1], h[k - 1])
      BY <1>6, <2>1, <3>1
    <3>3. Held(NumStep(s, g[k - 1], k), h[k])
      BY <1>1, <1>2, <3>2, StepHolds
    <3>4. Held(g[k], h[k])
      BY <1>4, <3>3
    <3> QED
      BY <3>1, <3>4
  <2> QED
    BY <2>1
<1>7. S = Nat
  <2>1. S \in SUBSET Nat
    OBVIOUS
  <2> HIDE DEF S
  <2>2. \A j \in S : j + 1 \in S
    BY <1>6, <2>1
  <2> QED
    BY <1>5, <2>1, <2>2, NatSetInduction
<1>8. Held(g[n], h[n])
  <2>1. n \in S
    BY <1>7
  <2> QED
    BY <2>1
<1> QED
  BY <1>1, <1>2, <1>4, <1>8, DecimalIs

LEMMA ValueOfOthers ==
  ASSUME NEW s, NEW n \in Nat, Len(s) = n, NEW i \in 1 .. n, ~IsDigit(s[i])
  PROVE  Value(s) = -1
<1>1. PICK g : g = Loop(s)
  OBVIOUS
<1>2. Value(s) = g[n] /\ \A j \in 1 .. n : g[j] = NumStep(s, g[j - 1], j)
  BY <1>1, ValueIsLoop
<1> DEFINE S == {e \in Nat : i + e <= n => g[i + e] = -1}
<1>3. 0 \in S
  BY <1>2 DEF NumStep
<1>4. ASSUME NEW e \in Nat, e \in S PROVE e + 1 \in S
  <2>1. CASE i + (e + 1) <= n
    <3>1. PICK k \in 1 .. n : k = i + (e + 1)
      BY <2>1
    <3>2. k - 1 = i + e /\ g[k - 1] = -1
      BY <1>4, <2>1, <3>1
    <3>3. g[k] = -1
      BY <1>2, <3>2 DEF NumStep
    <3> QED
      BY <3>1, <3>3
  <2> QED
    BY <2>1
<1>5. S = Nat
  <2>1. S \in SUBSET Nat
    OBVIOUS
  <2> HIDE DEF S
  <2>2. \A e \in S : e + 1 \in S
    BY <1>4, <2>1
  <2> QED
    BY <1>3, <2>1, <2>2, NatSetInduction
<1>6. PICK e \in Nat : i + e = n
  <2>1. n - i \in Nat /\ i + (n - i) = n
    OBVIOUS
  <2> QED
    BY <2>1
<1>7. g[n] = -1
  <2>1. g[i + e] = -1
    <3>1. e \in S
      BY <1>5, Zenon
    <3>2. i + e <= n
      BY <1>6
    <3> QED
      BY <3>1, <3>2
  <2> QED
    BY <1>6, <2>1
<1> QED
  BY <1>2, <1>7

LEMMA LinesReadExactly == ParserInv => NumExact
<1> SUFFICES ASSUME ParserInv, NEW i \in 0 .. rb_size, NEW n \in 0 .. rb_size
             PROVE  LET d == [j \in 1 .. n |-> At(Base + i + j)] IN
                      Num(Base + i + 1, n) =
                        IF (\A j \in 1 .. n : IsDigit(d[j])) /\ Decimal(d) <= LLMax
                          THEN Decimal(d) ELSE -1
  BY DEF NumExact
<1> DEFINE d == [j \in 1 .. n |-> At(Base + i + j)]
<1>1. rb_size \in Nat /\ rb_offset \in Nat /\ prog.anchorpoint_offset \in Nat
  BY DEF ParserInv, ParserTypeOK
<1>2. n \in Nat /\ i \in Nat /\ Base \in Nat
  BY <1>1 DEF Base
<1>3. Num(Base + i + 1, n) = Value(d)
  <2>1. \A j \in 1 .. n : Base + i + 1 + j - 1 = Base + i + j
    BY <1>2
  <2>2. [j \in 1 .. n |-> At(Base + i + 1 + j - 1)] = d
    BY <2>1
  <2> QED
    BY <2>2, Zenon DEF Num
<1>4. Len(d) = n
  <2>1. d \in [1 .. n -> {d[j] : j \in 1 .. n}]
    OBVIOUS
  <2> HIDE DEF d
  <2> QED
    BY <1>2, <2>1, LenProperties
<1>5. CASE \A j \in 1 .. n : IsDigit(d[j])
  <2> HIDE DEF d
  <2>1. Held(Value(d), Decimal(d))
    BY <1>2, <1>4, <1>5, ValueOfDigits
  <2> QED
    BY <1>3, <1>5, <2>1, Zenon DEF Held, d
<1>6. CASE \E j \in 1 .. n : ~IsDigit(d[j])
  <2> HIDE DEF d
  <2>1. Value(d) = -1
    BY <1>2, <1>4, <1>6, ValueOfOthers
  <2> QED
    BY <1>3, <1>6, <2>1, Zenon DEF d
<1> QED
  BY <1>5, <1>6

(* However a stream is cut into reads, and whatever its bytes, the number on a *)
(* line is the sum of resp2parser.h:138 where its bytes are digits and the sum *)
(* has room in a long long, and refused otherwise: the overflow test of        *)
(* try_parser_positive_num_str_64 begins early enough and divides rightly.     *)
THEOREM NumExactCorrect == SSpec => []NumExact
BY LinesReadExactly, SegmentInvariant, PTL

=============================================================================
