------------------------------- MODULE MCLent -------------------------------
(* What a GET lends.  GET returns the pointer in the table, not a copy; this *)
(* history of the pointers it has returned tells which of them callers may   *)
(* still hold.                                                               *)
EXTENDS MCCmd

VARIABLE lent  \* what GET has returned since an otake last ended the loans

LentInit == CmdInit /\ lent = {}

\* The step by which a command returns to the client.
Ends(op) == call.op = op /\ pc' = "idle"

\* GET lends what it returns.  DEL runs otake, where the header lets the life of
\* a pointer end; every other step leaves the loans alone.
LentNext ==
  /\ CmdNext
  /\ lent' = IF Ends("GET") THEN lent \cup ({ret'} \ {NULL})
             ELSE IF Ends("DEL") THEN {} ELSE lent

LentSpec == LentInit /\ [][LentNext]_<<vars, lent>>

\* include/ohashtable.h, of oget: "Pointer valid until next otake() or table
\* destroy".  So what GET has lent stays allocated until the next DEL.
LentUntilTake == lent \subseteq vheap
=============================================================================
