----------------------------- MODULE MCWatchdog -----------------------------
(* Small watchdogs for TLC.                                                *)
EXTENDS Watchdog

CONSTANTS j1, j2, j3
=============================================================================
