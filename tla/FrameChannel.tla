---------------------------- MODULE FrameChannel ----------------------------
(***************************************************************************)
(* What framing promises: the receiver gets the items sent, one at a time  *)
(* and in order.                                                           *)
(***************************************************************************)
EXTENDS Integers, Sequences

VARIABLES sent,  \* what is sent
          got    \* what has been received

vars == <<sent, got>>

Init == got = <<>>

Deliver == /\ Len(got) < Len(sent)
           /\ got' = Append(got, sent[Len(got) + 1])
           /\ UNCHANGED sent

Spec == Init /\ [][Deliver]_vars

=============================================================================
