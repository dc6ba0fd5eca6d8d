--------------------------- MODULE MCGpuThermald ----------------------------
(* A temperature limit of 10 degrees and 5 W of power range for TLC, so    *)
(* that every range of the controller takes a few cycles to saturate.      *)
EXTENDS GpuThermald

FewTemps == {5, 9, 10, 12, 15}
TwoPresets == {4000, 6000}
UnsetOrTooMuch == {Unset, 9000}
=============================================================================
