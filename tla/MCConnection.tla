----------------------------- MODULE MCConnection -----------------------------
(* Small instances of Connection for TLC, with the streams of MCSegment.   *)
EXTENDS Connection, MCSegment
=============================================================================
