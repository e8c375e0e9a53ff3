------------------------------- MODULE MCCmd -------------------------------
(* Small instances of Cmd for TLC.                                         *)
EXTENDS Cmd, TLC

CONSTANTS k1, k2, k3

\* Three keys whose home is the last slot of two; k1 and k2 have the very same hash.
ClashHash == [k \in Key |-> CASE k = k1 -> 3 [] k = k2 -> 3 [] OTHER -> 1]
\* k1 and k2 have one hash, and k3 never meets them from four slots on.  The hashes
\* are wider than the capacities.
PairHash  == [k \in Key |-> IF k = k3 THEN 196 ELSE 66]
\* Keys of one home slot and different hashes.
HomeHash  == [k \in Key |-> CASE k = k1 -> 3 [] k = k2 -> 7 [] OTHER -> 11]
SameLen   == [k \in Key |-> 1]
Perms     == Permutations(Ptr)

\* The expiry time is an argument of SET and EXPIRED only.
AllCalls  == {c \in [op : Op, key : Key, expired : Expira] :
                c.expired # 0 => c.op \in {"SET", "EXPIRED"}}
\* k1 and k2, which share their slots, are neither removed nor do they expire.
KeepCalls == {c \in AllCalls : c.key = k3 \/ (c.op \in {"SET", "GET"} /\ c.expired = 0)}

\* So k3 is the one loose key, in slots of its own at each capacity.
ASSUME KeepAssumption == Calls = KeepCalls => NonZeroHash /\ LooseApart /\ Loose = {k3}
=============================================================================
