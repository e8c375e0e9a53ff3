---- MODULE XXHInput ----
(* Memory as the hash functions of xxhash.h use it: a sequence of bytes read   *)
(* in words and written by memcpy.  A byte of the input is its position in    *)
(* everything the caller ever gave, so two inputs are equal byte for byte     *)
(* exactly when their sequences are, whatever the bytes' values.              *)
EXTENDS Naturals, Sequences

CONSTANT Seeds   \* the seeds callers use; 0 stands for none in XXH3

ASSUME SeedsAssumption == Seeds \subseteq Nat /\ 0 \in Seeds

\* The n bytes of input that follow position `from`.
Input(from, n) == [i \in 1..n |-> from + i]

\* A word of n bytes read at mem + at.
Read(mem, at, n) == [i \in 1..n |-> mem[at + i]]

\* memcpy(mem + at, bytes, Len(bytes)); the bytes after it keep what they held.
Copy(mem, at, bytes) ==
  [i \in 1..Len(mem) |->
     IF i \in at + 1 .. at + Len(bytes) THEN bytes[i - at] ELSE mem[i]]

\* A memory of n bytes the code has zeroed; no input byte is 0.
Zeroed(n) == [i \in 1..n |-> 0]
====
