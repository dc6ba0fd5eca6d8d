---------------------------- MODULE RefreshCycle ----------------------------
(***************************************************************************)
(* What the daemon promises of each metric it shows: polls start a cycle   *)
(* only for a metric that has none, every cycle samples the sensor once    *)
(* and then reports that sample once, and the cycles of different metrics  *)
(* do not disturb each other.                                              *)
(***************************************************************************)
CONSTANT Metrics

VARIABLE phase

Init == phase = [m \in Metrics |-> "idle"]

Advance(m, from, to) ==
  /\ phase[m] = from
  /\ phase' = [phase EXCEPT ![m] = to]

Dispatch(m) == Advance(m, "idle", "sampling")
Sampled(m) == Advance(m, "sampling", "reporting")
Reported(m) == Advance(m, "reporting", "idle")

Next == \E m \in Metrics : Dispatch(m) \/ Sampled(m) \/ Reported(m)

Spec == Init /\ [][Next]_phase
=============================================================================
