------------------------------ MODULE Sensors ------------------------------
(***************************************************************************)
(* sensors.c: the tables of lm-sensors' subfeatures the temperatures are   *)
(* read from.                                                              *)
(*                                                                         *)
(* The k-th feature of coretemp has the subfeature number k - 1, as if its *)
(* input were its only one; a temperature is told by the number it is read *)
(* from.  The sensors of the cores are stored at the core's id and counted *)
(* one by one; the struct that holds table and count starts out as zeros.  *)
(***************************************************************************)
EXTENDS Machine, SequencesExt

VARIABLES
  libsensors,   \* is lm-sensors initialized
  coretemp,     \* [ids, num], subfeature of each core and their count
  feature,      \* the feature of coretemp that is looked at next
  nouveau       \* nouveau_sensor_detected

sensors == <<libsensors, coretemp, feature, nouveau>>

SensorsInit ==
  /\ libsensors = FALSE
  /\ coretemp = [ids |-> [core \in 0 .. TableSize - 1 |-> 0], num |-> 0]
  /\ feature = 1
  /\ nouveau = FALSE

(* sensors_show initializes lm-sensors for itself; main() ignores an error. *)
sensors_show ==
  \/ /\ Goto("info sensors", "info chips")
     /\ libsensors' = TRUE
     /\ UNCHANGED <<machine, faults, overrun, coretemp, feature, nouveau>>
  \/ /\ Goto("info sensors", "info disks") /\ Fault
     /\ UNCHANGED <<machine, overrun, sensors>>
  \/ /\ Goto("info chips", "info disks")
     /\ libsensors' = FALSE
     /\ UNCHANGED <<machine, faults, overrun, coretemp, feature, nouveau>>

-----------------------------------------------------------------------------
(* sensors_coretemp_init                                                   *)

CoretempFails ==
  /\ Goto("coretemp", "exited")
  /\ \/ Fault /\ UNCHANGED libsensors           \* sensors_init
     \/ ~Chip("coretemp") /\ libsensors' = TRUE /\ UNCHANGED faults
  /\ UNCHANGED <<machine, overrun, coretemp, feature, nouveau>>

CoretempFound ==
  /\ Goto("coretemp", "features")
  /\ Chip("coretemp")
  /\ libsensors' = TRUE
  /\ UNCHANGED <<machine, faults, overrun, coretemp, feature, nouveau>>

Feature == machine.features[feature]
AtFeature == phase = "features" /\ feature <= Len(machine.features)

SkipFeature ==
  /\ AtFeature
  /\ Feature.core = NoCore
  /\ feature' = feature + 1
  /\ UNCHANGED <<machine, phase, faults, overrun, libsensors, coretemp, nouveau>>

(* The field behind the table is the count itself. *)
AddFeature ==
  /\ AtFeature
  /\ Feature.core # NoCore /\ Feature.input
  /\ \/ /\ Feature.core < TableSize
        /\ coretemp' = [coretemp EXCEPT !.ids[Feature.core] = feature - 1,
                                        !.num = @ + 1]
        /\ UNCHANGED overrun
     \/ /\ Feature.core >= TableSize
        /\ coretemp' = [coretemp EXCEPT
             !.num = (IF Feature.core = TableSize THEN feature - 1 ELSE @) + 1]
        /\ overrun' = overrun \cup {"coretemp"}
  /\ feature' = feature + 1
  /\ UNCHANGED <<machine, phase, faults, libsensors, nouveau>>

(* A core without an input ends the loop, and the daemon. *)
FeatureFails ==
  /\ AtFeature
  /\ Feature.core # NoCore /\ ~Feature.input
  /\ phase' = "exited"
  /\ libsensors' = FALSE
  /\ UNCHANGED <<machine, faults, overrun, coretemp, feature, nouveau>>

FeaturesDone ==
  /\ Goto("features", "names")
  /\ feature > Len(machine.features)
  /\ UNCHANGED <<machine, faults, overrun, sensors>>

(***************************************************************************)
(* sensors_coretemp_read, called until it sets the core to -1: the loop    *)
(* counts from 0, reads core 0 even if there is none, and never asks       *)
(* whether the core's entry was filled or is one of the table.  Behind it  *)
(* are the count and the rest of the struct.                               *)
(***************************************************************************)
SubfeatureId(core) ==
  IF core < TableSize THEN coretemp.ids[core]
  ELSE IF core = TableSize THEN coretemp.num
  ELSE machine.past

CoreReadings ==
  IF machine.features = <<>> THEN <<>>
  ELSE [i \in 1 .. (IF coretemp.num = 0 THEN 1 ELSE coretemp.num) |->
          SubfeatureId(i - 1)]

(***************************************************************************)
(* sensors_nouveau_init leaves the initialization of lm-sensors to the     *)
(* coretemp one: without it no chip is detected.                           *)
(***************************************************************************)
sensors_nouveau_init ==
  libsensors /\ Chip("nouveau") /\ ~Chip("nouveau, no input")

sensors_nouveau_read(temp) == IF nouveau THEN temp ELSE NULL

SensorsStep ==
  \/ sensors_show \/ CoretempFails \/ CoretempFound
  \/ SkipFeature \/ AddFeature \/ FeatureFails \/ FeaturesDone

=============================================================================
