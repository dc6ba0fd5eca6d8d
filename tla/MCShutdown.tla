----------------------------- MODULE MCShutdown -----------------------------
(* Shutdown with two threads in the backend pool. *)
EXTENDS Shutdown

CONSTANTS b1, b2

TwoThreads == {b1, b2}

=============================================================================
