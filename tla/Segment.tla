------------------------------- MODULE Segment -------------------------------
(***************************************************************************)
(* segment_proceed of include/resp2parser.h behind the framing layer: it   *)
(* gathers the frames of one command, an array of at most MAX_ARRAY_       *)
(* ELEMENTS flat elements or a single frame, into segment_context.  The    *)
(* driver takes a command as soon as `consumed` says it is whole.          *)
(***************************************************************************)
EXTENDS Resp2Parser, FiniteSets

CONSTANT LenRange  \* how many values element.len has: 2^16

ASSUME LenAssumption == LenRange \in Nat \ {0}

VARIABLES stx,      \* simple_segment_context
          segret,   \* what the last segment_proceed returned
          commands  \* the commands taken: sequences of elements

svars == <<stx, segret, commands>>
gvars == <<wire, sent, rb_size, rb_offset, state, prog, ret, outframe, pc, frames,
           stx, segret, commands>>

\* A frame stored in elements[]; `len` is a uint16_t.
Element(f) == [type |-> f.type, len |-> f.len % LenRange, data |-> f.at]
NoElement  == [type |-> None, len |-> 0, data |-> 0]

NewSegment == [element_count |-> 0, expected_count |-> 0, consumed |-> FALSE, in_array |-> FALSE,
               elements |-> [j \in 0 .. MaxElems - 1 |-> NoElement]]

Nested == outframe.type = "*" /\ (stx.in_array \/ outframe.n > MaxElems)

\* Mutant: the header does not start the count again.
BegunKeepsCount == [stx EXCEPT !.expected_count = outframe.n,
                               !.in_array = outframe.n # 0, !.consumed = outframe.n = 0]

\* The header of an array; an empty one is a whole command.
Begun == [stx EXCEPT !.expected_count = outframe.n, !.element_count = 0,
                     !.in_array = outframe.n # 0, !.consumed = outframe.n = 0]

\* Mutant: the counts of the last command are still there.
OpenedStale == stx

\* A frame outside an array is a command of one element.
Opened == IF stx.in_array
            THEN stx
            ELSE [stx EXCEPT !.expected_count = 1, !.element_count = 0]

\* Mutant: a command is whole only after one element too many.
StoredLate ==
  LET c == Opened.element_count IN
    [Opened EXCEPT !.elements[c] = Element(outframe),
                   !.element_count = c + 1,
                   !.consumed = c = Opened.expected_count,
                   !.in_array = c # Opened.expected_count]

Stored ==
  LET c == Opened.element_count IN
    [Opened EXCEPT !.elements[c] = Element(outframe),
                   !.element_count = c + 1,
                   !.consumed = c + 1 = Opened.expected_count,
                   !.in_array = c + 1 # Opened.expected_count]

Argv(s) == [m \in 1 .. s.element_count |-> s.elements[m - 1]]

\* The driver gives the frame to segment_proceed; it leaves its loop on an error.
segment_proceed ==
  /\ HandOn
  /\ \/ Nested /\ segret' = "-EPROTO" /\ pc' = "io" /\ UNCHANGED stx
     \/ /\ ~Nested
        /\ segret' = "0" /\ pc' = "parse"
        /\ stx' = IF outframe.type = "*" THEN Begun ELSE Stored
  /\ commands' = IF segret' = "0" /\ stx'.consumed THEN Append(commands, Argv(stx')) ELSE commands

SInit == PInit /\ stx = NewSegment /\ segret = "0" /\ commands = <<>>

SNext == \/ (Receive \/ zerocopy_proceed) /\ UNCHANGED svars
         \/ segment_proceed

SSpec == SInit /\ [][SNext]_gvars

-----------------------------------------------------------------------------
(* Properties.                                                             *)

\* Whatever frames come, elements[] has a free slot for the next element of
\* the command in progress, and the counters fit their uint8_t.
SlotFree ==
  /\ stx.element_count \in 0 .. MaxElems /\ stx.expected_count \in 0 .. 255
  /\ stx.in_array => /\ stx.element_count < stx.expected_count
                     /\ stx.expected_count <= MaxElems

(* The commands of a stream s of flat arrays and single frames.            *)

\* A stream of commands alone: its arrays are whole and none is in another, and
\* no data is too long for element.len.
CommandsOnly(s, Octet) ==
  /\ FramesOnly(s, Octet)
  /\ \A m \in 1 .. Len(s) :
       /\ Len(s[m].data) < LenRange
       /\ s[m].type = "*" => /\ m + s[m].n <= Len(s)
                             /\ \A k \in m + 1 .. m + s[m].n : s[k].type # "*"

\* How many items after item m belong to its command.
Rest(s, m)       == IF s[m].type = "*" THEN s[m].n ELSE 0
Starts(s)        == {m \in 1 .. Len(s) : \A h \in 1 .. m - 1 : m > h + Rest(s, h)}
StartOf(s, c)    == CHOOSE m \in Starts(s) : Cardinality({h \in Starts(s) : h < m}) = c - 1
ArgvSent(s, m)   == IF s[m].type = "*" THEN SubSeq(s, m + 1, m + s[m].n) ELSE <<s[m]>>
CommandsSent     == [c \in 1 .. Cardinality(Starts(sent)) |-> ArgvSent(sent, StartOf(sent, c))]

ElementContents(e) == Item(e.type, [j \in 1 .. e.len |-> At(e.data + j - 1)], 0)
CommandsGot        == [c \in 1 .. Len(commands) |->
                         [m \in 1 .. Len(commands[c]) |-> ElementContents(commands[c][m])]]

Commands == INSTANCE FrameChannel WITH sent <- CommandsSent, got <- CommandsGot

\* Whatever the reads, the commands taken are the commands sent, in order, each
\* with exactly its arguments: no element of one command ends up in another.
CommandsExact == Commands!Spec

\* No command is held back once its last frame has been handed on.
NoCommandHeldBack ==
  pc = "io" => \A c \in 1 .. Cardinality(Starts(sent)) :
                 LET m == StartOf(sent, c) IN
                   Len(frames) >= m + Rest(sent, m) => Len(commands) >= c

=============================================================================
