----------------------------- MODULE Resp2Parser -----------------------------
(***************************************************************************)
(* zerocopy_proceed of include/resp2parser.h: the framing layer that cuts  *)
(* the bytes of one connection into RESP2 frames, whatever the chunks they *)
(* arrive in.                                                              *)
(*                                                                         *)
(* The client sends the stream wire; the first rb_size bytes of it are in  *)
(* read_buffer (which is never compacted, so the byte at offset j of the   *)
(* buffer is wire[j + 1]) and zeros follow them.  A pointer into the       *)
(* buffer is its offset.  The driver is the loop of the comment at         *)
(* `struct parser_context`: on each I/O event it calls zerocopy_proceed    *)
(* and hands each frame on, until the parser waits or reports an error.    *)
(***************************************************************************)
EXTENDS Integers, Sequences

CONSTANTS Stream,     \* what clients send: sequences of items
          MaxBulk,    \* BUFFER_SIZE_MAX
          MaxElems,   \* MAX_ARRAY_ELEMENTS
          LLMax,      \* LLONG_MAX
          CheckFrom   \* the digit, from 0, from which overflow is looked for

VARIABLES wire,       \* the bytes the client sends
          sent,       \* the items they encode
          rb_size,    \* how many bytes are in the read buffer
          rb_offset,  \* how many the parser has consumed
          state,      \* COMPLETE or WAITING
          prog,       \* parser_process: progress within the frame waited for
          ret,        \* what the last call returned
          outframe,   \* the last frame
          pc,         \* the driver: waits for I/O, parses, hands on a frame
          frames      \* the frames handed on

pvars == <<wire, sent, rb_size, rb_offset, state, prog, ret, outframe, pc, frames>>

Simple == {"+", "-", ":"}
Prefix == Simple \cup {"$", "*"}
None   == "none"
Digit  == <<"0", "1", "2", "3", "4", "5", "6", "7", "8", "9">>

\* A cleared parser_process.
NoProg == [anchorpoint_offset |-> 0, prefix |-> None, have_bulk_len |-> FALSE,
           bulk_len |-> 0, head_len |-> 0]

\* A frame of type `type` whose len data bytes start at offset `at`; n is the
\* array length an array header announces (nothing reads it of other frames).
Frame(type, at, len, n) == [type |-> type, at |-> at, len |-> len, n |-> n]
NoFrame == Frame(None, 0, 0, 0)

-----------------------------------------------------------------------------
(* What the client sends: frames, and stray bytes between them.            *)

CRLF   == <<"CR", "LF">>
Dec(n) == LET d[m \in 0 .. n] == IF m < 10 THEN <<Digit[m + 1]>>
                                 ELSE Append(d[m \div 10], Digit[(m % 10) + 1])
          IN  d[n]

Item(type, data, n) == [type |-> type, data |-> data, n |-> n]

Encode(x) == CASE x.type \in Simple -> <<x.type>> \o x.data \o CRLF
               [] x.type = "$"      -> <<"$">> \o Dec(Len(x.data)) \o CRLF \o x.data \o CRLF
               [] x.type = "*"      -> <<"*">> \o Dec(x.n) \o CRLF
               [] OTHER             -> x.data

\* The bytes of the first m of the items s.
Bytes(s, m) == LET b[j \in 0 .. Len(s)] == IF j = 0 THEN <<>> ELSE b[j - 1] \o Encode(s[j])
               IN  b[m]

\* An item that is a frame, of data bytes from Octet: a line has no CR LF in it,
\* and lengths are within the limits of the parser.
FrameItem(Octet) == [type : Prefix, data : Seq(Octet), n : 0 .. MaxElems - 1]
WellFormed(x) ==
  /\ x.type \in Simple => \A j \in 1 .. Len(x.data) - 1 : ~(x.data[j] = "CR" /\ x.data[j + 1] = "LF")
  /\ x.type = "$" => Len(x.data) < MaxBulk
  /\ IF x.type = "*" THEN x.data = <<>> ELSE x.n = 0

\* A stream of frames alone.
FramesOnly(s, Octet) == s \in Seq(FrameItem(Octet)) /\ \A m \in 1 .. Len(s) : WellFormed(s[m])

ASSUME StreamAssumption == \A x \in Stream : Len(Bytes(x, Len(x))) \in Nat
ASSUME LimitAssumption  == MaxBulk \in Nat \ {0} /\ MaxElems \in 1 .. 255
ASSUME NumberAssumption == /\ LLMax \in Nat /\ CheckFrom \in Nat
                           /\ MaxBulk <= LLMax /\ MaxElems <= LLMax

\* What is not looked for cannot happen: every number of CheckFrom digits has room.
Pow10[k \in Nat] == IF k = 0 THEN 1 ELSE 10 * Pow10[k - 1]
ASSUME RoomAssumption == Pow10[CheckFrom] <= LLMax + 1

-----------------------------------------------------------------------------
(* Reading the buffer.                                                     *)

\* The byte at an offset.  When on_read runs, at least half of the buffer is
\* spare, and it is zero (epollrun's calloc).
At(j) == IF j < rb_size THEN wire[j + 1] ELSE "NUL"

\* Mutant: a lone CR ends the line.
CRLFAtCR(a, n) ==
  /\ a + n + 1 < rb_size
  /\ At(a + n) = "CR"
  /\ \A m \in 0 .. n - 1 : At(a + m) # "CR"

\* get_next_crlf_memchr_inline: the first CR LF from offset a on is n bytes away.
CRLFAt(a, n) ==
  /\ a + n + 1 < rb_size
  /\ At(a + n) = "CR" /\ At(a + n + 1) = "LF"
  /\ \A m \in 0 .. n - 1 : ~(At(a + m) = "CR" /\ At(a + m + 1) = "LF")

NoCRLF(a) == \A n \in 0 .. rb_size : ~CRLFAt(a, n)

DigitValue(b) == CHOOSE d \in 0 .. 9 : Digit[d + 1] = b
IsDigit(b)    == \E d \in 1 .. 10 : Digit[d] = b

\* Mutant: overflow is looked for one digit too late.
ValueLate(s) ==
  LET acc[j \in 0 .. Len(s)] ==
        IF j = 0 THEN 0
        ELSE IF \/ acc[j - 1] < 0 \/ ~IsDigit(s[j])
                \/ j > CheckFrom + 1 /\ acc[j - 1] > (LLMax - DigitValue(s[j])) \div 10
          THEN -1
          ELSE acc[j - 1] * 10 + DigitValue(s[j])
  IN  acc[Len(s)]

\* try_parser_num: the value of the bytes s, or -1 where they are no number or
\* one that has no room in a long long.
Value(s) ==
  LET acc[j \in 0 .. Len(s)] ==
        IF j = 0 THEN 0
        ELSE IF \/ acc[j - 1] < 0 \/ ~IsDigit(s[j])
                \/ j > CheckFrom /\ acc[j - 1] > (LLMax - DigitValue(s[j])) \div 10
          THEN -1
          ELSE acc[j - 1] * 10 + DigitValue(s[j])
  IN  acc[Len(s)]

Num(a, len) == Value([j \in 1 .. len |-> At(a + j - 1)])

-----------------------------------------------------------------------------
(* zerocopy_proceed.  Its two halves, for COMPLETE and for WAITING, do the  *)
(* same with a fresh and with a saved parser_process; in COMPLETE the       *)
(* saved one is clear.                                                      *)

Base == rb_offset + prog.anchorpoint_offset

\* The frame's prefix is i bytes from Base: it was saved, or this is the first
\* prefix byte found.
Anchored(i) ==
  IF prog.prefix # None
    THEN i = 0
    ELSE /\ Base + i < rb_size
         /\ At(Base + i) \in Prefix
         /\ \A j \in 0 .. i - 1 : At(Base + j) \notin Prefix

PrefixAt(i) == IF prog.prefix # None THEN prog.prefix ELSE At(Base + i)

\* The three exits: waitingout, errorpprotocol and compleout.
Wait(p) ==
  /\ state' = "WAITING"
  /\ prog' = p
  /\ ret' = "0"
  /\ pc' = "io"
  /\ UNCHANGED <<rb_offset, outframe>>

\* Mutant: the parser_process is not cleared.
ConsumeKeepsProg(consumed) ==
  /\ state' = "COMPLETE"
  /\ prog' = prog
  /\ rb_offset' = rb_offset + consumed

Consume(consumed) ==
  /\ state' = "COMPLETE"
  /\ prog' = NoProg
  /\ rb_offset' = rb_offset + consumed

Fail(err, consumed) ==
  /\ Consume(consumed)
  /\ ret' = err
  /\ pc' = "io"
  /\ UNCHANGED outframe

Complete(f, consumed) ==
  /\ Consume(consumed)
  /\ ret' = "0"
  /\ outframe' = f
  /\ pc' = "feed"

\* No byte of the rest is a prefix.
NoPrefix ==
  /\ prog.prefix = None
  /\ \A j \in Base .. rb_size - 1 : At(j) \notin Prefix
  /\ Wait(prog)

\* A prefix, but its line has no end yet.
NoLine ==
  \E i \in 0 .. rb_size :
    /\ Anchored(i)
    /\ NoCRLF(Base + i + 1)
    /\ Wait([prog EXCEPT !.prefix = PrefixAt(i)])

SimpleFrame(i, n) ==
  /\ PrefixAt(i) \in Simple
  /\ Complete(Frame(PrefixAt(i), Base + i + 1, n, 0), i + n + 3)

\* `$`: the length comes from the line, or from the last call.
BulkLen(i, n)  == IF prog.have_bulk_len THEN prog.bulk_len ELSE Num(Base + i + 1, n)
HeadLen(i, n)  == IF prog.have_bulk_len THEN prog.head_len ELSE i + n + 3

\* Mutants: the line is not deducted; data that just fits is not enough.
RemainingWithLine(i, n) == rb_size - rb_offset - i
ShortOrExact(i, n)      == BulkLen(i, n) + 2 >= rb_size - rb_offset - (i + n + 3)

\* What follows the line, and whether the data and its CRLF are not all there.
Remaining(i, n) == rb_size - rb_offset - (i + n + 3)
Short(i, n)     == BulkLen(i, n) + 2 > Remaining(i, n)

BulkBad(i, n) ==
  /\ PrefixAt(i) = "$"
  /\ \/ BulkLen(i, n) < 0 /\ Fail("-EPROTO", i + n + 3)
     \/ BulkLen(i, n) >= MaxBulk /\ Fail("-EMSGSIZE", i + n + 3)

BulkShort(i, n) ==
  /\ PrefixAt(i) = "$"
  /\ BulkLen(i, n) \in 0 .. MaxBulk - 1
  /\ Short(i, n)
  /\ Wait([anchorpoint_offset |-> prog.anchorpoint_offset + i, prefix |-> "$",
           have_bulk_len |-> TRUE, bulk_len |-> BulkLen(i, n), head_len |-> HeadLen(i, n)])

BulkWhole(i, n) ==
  /\ PrefixAt(i) = "$"
  /\ BulkLen(i, n) \in 0 .. MaxBulk - 1
  /\ ~Short(i, n)
  /\ LET end == Base + i + n + 3 + BulkLen(i, n) IN
       IF At(end) = "CR" /\ At(end + 1) = "LF"
         THEN Complete(Frame("$", Base + i + HeadLen(i, n), BulkLen(i, n), 0),
                       i + n + 3 + BulkLen(i, n) + 2)
         ELSE Fail("-EPROTO", i + n + 3 + BulkLen(i, n) + 2)

ArrayHeader(i, n) ==
  /\ PrefixAt(i) = "*"
  /\ LET arraylen == Num(Base + i + 1, n) IN
       \/ arraylen < 0 /\ Fail("-EPROTO", i + n + 3)
       \/ arraylen >= MaxElems /\ Fail("-EMSGSIZE", i + n + 3)
       \/ /\ arraylen \in 0 .. MaxElems - 1
          /\ Complete(Frame("*", Base + i + 1, n, arraylen), i + n + 3)

zerocopy_proceed ==
  /\ pc = "parse"
  /\ \/ NoPrefix
     \/ NoLine
     \/ \E i, n \in 0 .. rb_size :
          /\ Anchored(i) /\ CRLFAt(Base + i + 1, n)
          /\ \/ SimpleFrame(i, n)
             \/ BulkBad(i, n) \/ BulkShort(i, n) \/ BulkWhole(i, n)
             \/ ArrayHeader(i, n)
  /\ UNCHANGED <<wire, sent, rb_size, frames>>

-----------------------------------------------------------------------------
(* The driver: read, then zerocopy_proceed until it waits or fails.  Segment *)
(* has the rest of its loop: it hands each frame to segment_proceed.         *)

PInit ==
  /\ sent \in Stream
  /\ wire = Bytes(sent, Len(sent))
  /\ rb_size = 0 /\ rb_offset = 0
  /\ state = "COMPLETE"
  /\ prog = NoProg
  /\ ret = "0"
  /\ outframe = NoFrame
  /\ pc = "io"
  /\ frames = <<>>

\* read() brings the next bytes, however many, and on_read runs.
Receive ==
  /\ pc = "io"
  /\ rb_size' \in rb_size + 1 .. Len(wire)
  /\ pc' = "parse"
  /\ UNCHANGED <<wire, sent, rb_offset, state, prog, ret, outframe, frames>>

HandOn ==
  /\ pc = "feed"
  /\ frames' = Append(frames, outframe)
  /\ UNCHANGED <<wire, sent, rb_size, rb_offset, state, prog, ret, outframe>>

-----------------------------------------------------------------------------
(* Properties.                                                             *)

\* Every variable has its type, and a parser that waits for nothing has saved
\* nothing.
ParserTypeOK ==
  /\ rb_size \in 0 .. Len(wire) /\ rb_offset \in Nat
  /\ state \in {"COMPLETE", "WAITING"}
  /\ prog \in [anchorpoint_offset : Nat, prefix : Prefix \cup {None},
               have_bulk_len : BOOLEAN, bulk_len : 0 .. MaxBulk - 1, head_len : Nat]
  /\ ret \in {"0", "-EPROTO", "-EMSGSIZE"}
  /\ outframe \in [type : Prefix \cup {None}, at : Nat, len : Nat, n : 0 .. MaxElems - 1]
  /\ pc \in {"io", "parse", "feed"}
  /\ state = "COMPLETE" => prog = NoProg

\* zerocopy_proceed's own sanity check ("offset > size" is fatal), for every
\* byte stream: no path, resumed or not, consumes a byte that has not arrived;
\* and a saved prefix has arrived, or the unsigned count of the bytes behind it
\* would wrap around and memchr search beyond the buffer.
OffsetInBuffer == rb_offset <= rb_size /\ (prog.prefix # None => Base < rb_size)

\* What decimal digits say: the sum in the comment above try_parser_positive_num_str_64.
Decimal(d) == LET sum[j \in 0 .. Len(d)] ==
                    IF j = 0 THEN 0 ELSE sum[j - 1] + DigitValue(d[j]) * Pow10[Len(d) - j]
              IN  sum[Len(d)]

\* try_parser_positive_num_str_64 gives the number on a line its value, however
\* many zeros it begins with, and refuses everything else: it neither overflows
\* a long long, nor takes a number that fits for one that does not.
NumExact ==
  pc = "parse" =>
    \A i, n \in 0 .. rb_size :
      Anchored(i) /\ CRLFAt(Base + i + 1, n) /\ PrefixAt(i) \in {"$", "*"} =>
        LET d == [j \in 1 .. n |-> At(Base + i + j)] IN
          Num(Base + i + 1, n) =
            IF (\A j \in 1 .. n : IsDigit(d[j])) /\ Decimal(d) <= LLMax THEN Decimal(d) ELSE -1

\* What a frame says.
Contents(f) == Item(f.type, IF f.type = "*" THEN <<>> ELSE [j \in 1 .. f.len |-> At(f.at + j - 1)],
                    f.n)

Got == [m \in 1 .. Len(frames) |-> Contents(frames[m])]

Channel == INSTANCE FrameChannel WITH got <- Got

\* However a stream of frames is cut into reads, the frames handed on are those
\* sent: in order, none twice, none torn, with exactly their data.
FramesExact == Channel!Spec

\* No frame is held back: once a frame's last byte is in the buffer, the driver
\* does not go back to waiting for I/O without having handed it on.
NoFrameHeldBack ==
  pc = "io" => \A m \in 1 .. Len(sent) :
                 Len(Bytes(sent, m)) <= rb_size => m <= Len(frames)

\* include/resp2parser.h on head_len: "the length of $<len>\r\n".
HeadLenIsHeader == prog.have_bulk_len => CRLFAt(Base + 1, prog.head_len - 3)

=============================================================================
