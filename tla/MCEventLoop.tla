----------------------------- MODULE MCEventLoop -----------------------------
(* Small instances of EventLoop for TLC: every constant is in the .cfg.    *)
EXTENDS EventLoop, TLC
=============================================================================
