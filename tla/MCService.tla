----------------------------- MODULE MCService -----------------------------
(* Service for TLC: a small number of backend threads, any two of which    *)
(* are alike.                                                              *)
EXTENDS Service, TLC

ThreadSymmetry == Permutations(BackendThreads)

(* Subsets of the metrics, for Disabled and MayHang. *)
NoMetric == {}
Gpu == {GPUTR}
Cpu == {CPUFR, CPUTR}
AllMetrics == Requests
=============================================================================
