---------------------------- MODULE MCThreadPool ----------------------------
(* Small thread pools for TLC.                                             *)
EXTENDS ThreadPool

CONSTANT c1

(* One of the jobs has no deadline. *)
FirstOfC1 == {<<c1, 1>>}
=============================================================================
