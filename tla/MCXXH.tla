---- MODULE MCXXH ----
(* The hash families and XXH3's vector loops side by side: a behaviour is one *)
(* of them.                                                                    *)
EXTENDS XXH32, XXH64, XXH3Stream, XXH3Vectors, Bitwise

\* Every length up to two blocks and a byte, then up to a block and a byte and at
\* the limits of two.
Pieces32(n) == IF n = 0 THEN 0..33 ELSE 0..17 \cup {32, 33}
Pieces64(n) == IF n = 0 THEN 0..65 ELSE 0..33 \cup {64, 65}

\* First pieces at the limits of the short, middle and long lengths; later ones
\* at those of a stripe, the buffer and a block of the smaller secret.
Pieces3(n) ==
  IF n = 0
  THEN {1, 3, 4, 8, 9, 16, 17, 32, 33, 48, 64, 65, 97, 128, 129, 161, 192, 239, 240,
        241, 256, 257, 600}
  ELSE {1, 63, 64, 192, 257, 700}

Untouched32 == from32 + given32 = 0
Untouched64 == from64 + given64 = 0
Untouched3  == calls = 0
UntouchedV  == mixes = 0

XorBits(x, y) == x ^^ y

\* Words of 8 bits, the patterns far from regular.
Stripe(a, b)  == [lane \in 0..7 |-> (a + lane * b) % 256]
MixedStripes  == {<<Stripe(255, 0)>>, <<Stripe(0, 16)>>,
                  <<Stripe(3, 91), Stripe(240, 17), Stripe(128, 31)>>}
ScrambledWords == [i \in 0..23 |-> (184 + 77 * i + i * i) % 256]

Init == XXH32_Init /\ XXH64_Init /\ XXH3_Init /\ Vectors_Init

Next ==
  \/ /\ XXH32_Next
     /\ Untouched64 /\ Untouched3 /\ UntouchedV
     /\ UNCHANGED <<xxh64vars, xxh3vars, vectorvars>>
  \/ /\ XXH64_Next
     /\ Untouched32 /\ Untouched3 /\ UntouchedV
     /\ UNCHANGED <<xxh32vars, xxh3vars, vectorvars>>
  \/ /\ XXH3_Next
     /\ Untouched32 /\ Untouched64 /\ UntouchedV
     /\ UNCHANGED <<xxh32vars, xxh64vars, vectorvars>>
  \/ /\ Vectors_Next
     /\ Untouched32 /\ Untouched64 /\ Untouched3
     /\ UNCHANGED <<xxh32vars, xxh64vars, xxh3vars>>

Spec == Init /\ [][Next]_<<xxh32vars, xxh64vars, xxh3vars, vectorvars>>
====
