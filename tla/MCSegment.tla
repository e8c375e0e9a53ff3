------------------------------ MODULE MCSegment ------------------------------
(* Small instances of Segment, and of the parser in it, for TLC.           *)
EXTENDS Segment, TLC

H(n)  == Item("*", <<>>, n)
B     == Item("+", <<"1">>, 0)
Empty == Item("$", <<>>, 0)

\* Frames of every type: empty ones, data that looks like protocol, a length
\* of two digits.
Items == {B, Item("+", <<"x", "CR">>, 0), Item("-", <<>>, 0), Item(":", <<"1">>, 0), Empty,
          Item("$", <<"CR", "LF">>, 0), Item("$", <<"$", "1">>, 0),
          Item("$", [j \in 1 .. 10 |-> "x"], 0)}

\* Commands: single frames and arrays of up to two elements; and two or three of them.
Command == {<<H(0)>>} \cup {<<x>> : x \in Items} \cup {<<H(1), x>> : x \in Items}
           \cup {<<H(2), x, y>> : x, y \in {B, Empty, Item("$", <<"CR", "LF">>, 0)}}
Brief   == {<<H(0)>>, <<B>>, <<H(1), Empty>>, <<H(2), Empty, B>>}
Flat    == {c \o d : c \in Command, d \in Brief} \cup {d \o c : c \in Command, d \in Brief}
           \cup {c \o d \o e : c, d, e \in Brief}

\* They are streams of commands, as the proofs assume.
Octets == {"x", "1", "$", "CR", "LF"}
ASSUME FlatAssumption == \A s \in Flat : CommandsOnly(s, Octets)

\* Any bytes at all, as one item that is no frame.
Noise(S, n) == {<<Item("noise", d, 0)>> : d \in [1 .. n -> S]}
AnyBytes    == Noise({"$", "0", "CR", "LF"}, 6) \cup Noise({"+", "*", "1", "CR", "LF"}, 5)
               \cup Noise({"$", "1", "CR", "LF"}, 5)

\* Frames in any order, nested headers and arrays that never end included.
AnyFrames   == [1 .. 4 -> {H(0), H(1), H(2), B}]

\* A bulk string behind stray bytes, and something behind it.
Strays      == {<<Item("noise", [j \in 1 .. m |-> "x"], 0), Item("$", [j \in 1 .. d |-> "1"], 0), B>> :
                  m \in 1 .. 4, d \in 0 .. 3}

\* Lines whose number is at, or near, the bound of a long long.
Lines(S)    == {<<Item("noise", <<"$">> \o d \o CRLF, 0)>> : d \in S}
Numbers     == Lines([1 .. 3 -> {"1", "2", "7", "8"}]
                     \cup {<<"0", "1", "2", "7">>, <<"0", "1", "2", "8">>, <<"1", "2", "7", "0">>})

Anything    == AnyBytes \cup AnyFrames \cup Strays \cup Numbers

\* A stray byte before a frame.
Stray == {<<Item("noise", <<"x">>, 0), x>> : x \in Items}
=============================================================================
