---------------------------- MODULE GpuThermald -----------------------------
(***************************************************************************)
(* The GPU thermal daemon, gpu-thermald.c: a loop that every five seconds  *)
(* reads the GPU's temperature and sets the limit of its power with a      *)
(* modified PID controller, until a signal ends it.                        *)
(*                                                                         *)
(* Power is in milliwatts and temperature in degrees, as in the code.  The *)
(* controller's factors make every term an integer up to the rounding of   *)
(* doubles, which is left out.  The NVML library is external: a call may   *)
(* fail, which the loop does not look at; MaxFaults bounds how often.  The *)
(* temperature is free: what the power does to it is no part of the code.  *)
(*                                                                         *)
(* A definition whose name ends in an underscore and a remark is a mutated *)
(* form of the one that follows it; nothing uses it.                       *)
(***************************************************************************)
EXTENDS Integers

CONSTANTS
  Temps,         \* temperatures the GPU may have
  TempLimit,     \* options.temp_limit
  PowerMin,      \* gpu_power.powerLimitMin
  PowerMax,      \* gpu_power.powerLimitMax
  Presets,       \* power limits the GPU may have before the daemon starts
  PowerOptions,  \* values options.power_limit may have, Unset among them
  Unset,
  Machines,      \* values of slow to look at
  MaxFaults      \* bound on failing NVML calls

ASSUME PowerAssumption ==
  /\ PowerMin \in Nat /\ PowerMax \in Nat /\ PowerMin <= PowerMax
  /\ Presets \subseteq PowerMin..PowerMax
  /\ Unset \notin Nat
  /\ PowerOptions \subseteq Nat \cup {Unset}

ASSUME TempAssumption == Temps \subseteq Nat /\ TempLimit \in Nat

ASSUME EnvironmentAssumption == Machines \subseteq BOOLEAN /\ MaxFaults \in Nat

VARIABLES
  slow,              \* NVML calls may take more than TEMP_CTRL_DELTAT seconds
  power_option,      \* options.power_limit, or Unset
  pc,
  gpuTemp,           \* the GPU's temperature
  gpuLimit,          \* the GPU's power limit
  powerLimitActual,
  temp,              \* as last read; what its memory held before
  power_limit, power_limit_prev,
  err_integral,
  alarm,
  faults

given == <<slow, power_option>>
gpu == <<gpuTemp, gpuLimit>>
control == <<powerLimitActual, temp, power_limit, power_limit_prev, err_integral>>
vars == <<given, pc, gpu, control, alarm, faults>>

Fault == faults < MaxFaults /\ faults' = faults + 1

-----------------------------------------------------------------------------
(* pid_control                                                             *)

(* 10 * LAMBDA is 9. *)
NoControl(t) == 10 * t <= 9 * TempLimit
Emergency(t) == t > TempLimit

(* Both range's P factor is 1500.0, and none for (almost) no control. *)
Proportional(t) == IF NoControl(t) THEN 0 ELSE 150 * (9 * TempLimit - 10 * t)

(* The factor of the I term, times TEMP_CTRL_DELTAT. *)
Integral_noEmergency(t) ==
  IF NoControl(t) THEN 0
  ELSE IF Emergency(t) THEN err_integral
  ELSE err_integral + 20 * (TempLimit - t)
Integral_neverUnwinds(t) ==
  IF Emergency(t) THEN err_integral + 200 * (TempLimit - t)
  ELSE IF NoControl(t) THEN err_integral
  ELSE err_integral + 20 * (TempLimit - t)
Integral(t) ==
  LET cooled == err_integral + 100 * (TempLimit - t)
  IN  IF NoControl(t)
        THEN IF err_integral < 0 /\ cooled <= 0 THEN cooled ELSE 0
      ELSE IF Emergency(t) THEN err_integral + 200 * (TempLimit - t)
      ELSE err_integral + 20 * (TempLimit - t)

Wanted(t) == powerLimitActual + Proportional(t) + Integral(t)

Clamped_noFloor(pl) ==
  IF pl > powerLimitActual THEN powerLimitActual ELSE pl
Clamped(pl) ==
  IF pl > powerLimitActual THEN powerLimitActual
  ELSE IF pl < PowerMin THEN PowerMin ELSE pl

(* The integral stands still while the output is saturated. *)
NextIntegral_windsUp(t) == Integral(t)
NextIntegral(t) ==
  IF Wanted(t) \in PowerMin..powerLimitActual THEN Integral(t) ELSE err_integral

-----------------------------------------------------------------------------

Init ==
  /\ slow \in Machines
  /\ power_option \in PowerOptions
  /\ pc = "initialize"
  /\ gpuTemp \in Temps
  /\ gpuLimit \in Presets
  /\ powerLimitActual = 0
  /\ temp \in Temps
  /\ power_limit = 0 /\ power_limit_prev = 0
  /\ err_integral = 0
  /\ alarm = "off"
  /\ faults = 0

Override_notClamped == power_option
Override ==
  IF power_option < PowerMin THEN PowerMin
  ELSE IF power_option > PowerMax THEN PowerMax ELSE power_option

(* initialize, and main up to its loop.  Any NVML call that fails ends it. *)
initialize ==
  /\ pc = "initialize"
  /\ \/ /\ pc' = "arm"
        /\ powerLimitActual' = IF power_option = Unset THEN gpuLimit ELSE Override
        /\ power_limit_prev' = gpuLimit
        /\ UNCHANGED faults
     \/ /\ Fault
        /\ pc' = "failed"
        /\ UNCHANGED <<powerLimitActual, power_limit_prev>>
  /\ UNCHANGED <<given, gpu, temp, power_limit, err_integral, alarm>>

Arm ==
  /\ pc = "arm"
  /\ alarm' = "armed"
  /\ pc' = "read"
  /\ UNCHANGED <<given, gpu, control, faults>>

(* A read that fails leaves temp as it is. *)
ReadTemperature ==
  /\ pc = "read"
  /\ \/ temp' = gpuTemp /\ UNCHANGED faults
     \/ Fault /\ UNCHANGED temp
  /\ pc' = "control"
  /\ UNCHANGED <<given, gpu, powerLimitActual, power_limit, power_limit_prev,
                 err_integral, alarm>>

pid_control ==
  /\ pc = "control"
  /\ power_limit' = Clamped(Wanted(temp))
  /\ err_integral' = NextIntegral(temp)
  /\ pc' = "set"
  /\ UNCHANGED <<given, gpu, powerLimitActual, temp, power_limit_prev, alarm,
                 faults>>

SetPowerLimit(limit) ==
  \/ gpuLimit' = limit /\ UNCHANGED faults
  \/ Fault /\ UNCHANGED gpuLimit

(* power_limit_prev changes whether the call succeeds or not. *)
ApplyLimit ==
  /\ pc = "set"
  /\ \/ power_limit = power_limit_prev /\ UNCHANGED <<gpuLimit, faults>>
     \/ power_limit # power_limit_prev /\ SetPowerLimit(power_limit)
  /\ power_limit_prev' = power_limit
  /\ pc' = "pause"
  /\ UNCHANGED <<given, gpuTemp, powerLimitActual, temp, power_limit,
                 err_integral, alarm>>

Looping == pc \in {"arm", "read", "control", "set", "pause"}

(***************************************************************************)
(* SIGALRM ends pause.  One that comes before pause, because the calls     *)
(* took so long, ends nothing.                                             *)
(***************************************************************************)
AlarmFires_armedOnce ==
  /\ alarm = "armed"
  /\ pc = "pause" \/ (slow /\ Looping)
  /\ alarm' = "off"
  /\ pc' = IF pc = "pause" THEN "read" ELSE pc
  /\ UNCHANGED <<given, gpu, control, faults>>
AlarmFires ==
  /\ alarm = "armed"
  /\ pc = "pause" \/ (slow /\ Looping)
  /\ alarm' = "off"
  /\ pc' = IF pc = "pause" THEN "arm" ELSE pc
  /\ UNCHANGED <<given, gpu, control, faults>>

(* SIGTERM or Ctrl-C: the handler exits, wherever the loop is. *)
SIGTERM_handler ==
  /\ Looping
  /\ pc' = "exiting"
  /\ UNCHANGED <<given, gpu, control, alarm, faults>>

cleanup_toOutput ==
  /\ pc = "exiting"
  /\ SetPowerLimit(power_limit)
  /\ pc' = "exited"
  /\ alarm' = "off"
  /\ UNCHANGED <<given, gpuTemp, control>>

cleanup ==
  /\ pc = "exiting"
  /\ SetPowerLimit(powerLimitActual)
  /\ pc' = "exited"
  /\ alarm' = "off"
  /\ UNCHANGED <<given, gpuTemp, control>>

TemperatureChanges ==
  /\ gpuTemp' \in Temps
  /\ gpuTemp' # gpuTemp
  /\ UNCHANGED <<given, pc, gpuLimit, control, alarm, faults>>

Loop == Arm \/ ReadTemperature \/ pid_control \/ ApplyLimit

Next ==
  \/ initialize \/ Loop \/ AlarmFires
  \/ SIGTERM_handler \/ cleanup
  \/ TemperatureChanges

Spec == Init /\ [][Next]_vars

(* The process is scheduled, its NVML calls return, its alarm goes off. *)
FairSpec ==
  /\ Spec
  /\ WF_vars(initialize) /\ WF_vars(Loop) /\ WF_vars(cleanup)
  /\ WF_vars(AlarmFires /\ pc = "pause")

-----------------------------------------------------------------------------

TypeOK ==
  /\ slow \in Machines /\ power_option \in PowerOptions
  /\ pc \in {"initialize", "arm", "read", "control", "set", "pause",
             "exiting", "exited", "failed"}
  /\ gpuTemp \in Temps /\ temp \in Temps
  /\ gpuLimit \in Nat
  /\ powerLimitActual \in Nat
  /\ power_limit \in Nat /\ power_limit_prev \in Nat
  /\ err_integral \in Int
  /\ alarm \in {"off", "armed"}
  /\ faults \in 0..MaxFaults

(* Whatever power limit the operator asks for and whatever the controller  *)
(* computes, the GPU is never set to one outside of what it supports, and  *)
(* the controller's is never above the one the daemon may use.             *)
OutputInRange ==
  /\ gpuLimit \in PowerMin..PowerMax
  /\ pc \in {"set", "pause"} => power_limit \in PowerMin..powerLimitActual

(***************************************************************************)
(* The integral never winds up further than the output can follow: not     *)
(* below the width of the power range, so that a GPU that has cooled down  *)
(* gets its power back in bounded time, and not above the P term at the    *)
(* limit, so that one that heats up loses it.                              *)
(***************************************************************************)
IntegralBounded ==
  /\ err_integral <= 150 * TempLimit
  /\ pc \notin {"initialize", "failed"} =>
       err_integral >= PowerMin - powerLimitActual

(* While every call succeeds, the GPU has the limit the loop computed last *)
(* when the loop pauses, and the operator's one when the daemon has ended. *)
GpuFollows ==
  faults = 0 =>
    /\ pc = "pause" => gpuLimit = power_limit
    /\ pc = "exited" => gpuLimit = powerLimitActual

Running == pc \notin {"exiting", "exited", "failed"}

(* The daemon controls the GPU constantly: the pause between two steps of  *)
(* the loop always ends, if NVML calls are quick ...                       *)
ControlsForever == ~slow => []<>(pc = "control" \/ ~Running)

(* ... and in any case: "constantly controlling its power".                *)
AlwaysControlsForever == []<>(pc = "control" \/ ~Running)

Untroubled == ~slow /\ faults = 0
StaysHot == Running /\ ~slow /\ gpuTemp > TempLimit
StaysHotUntroubled == StaysHot /\ Untroubled
StaysCoolUntroubled == Running /\ Untroubled /\ NoControl(gpuTemp)

(* A GPU that stays too hot ends up with the least power it can have, if   *)
(* no NVML call fails: a set that has failed is not repeated while the     *)
(* output stays the same (gpu-thermald.c:243-246).                         *)
HotGetsMinimum == <>[]StaysHotUntroubled => <>[](gpuLimit = PowerMin)

(* A GPU that stays cool ends up with all the power it may have, if no     *)
(* NVML call fails.                                                        *)
CoolGetsMaximum == <>[]StaysCoolUntroubled => <>[](gpuLimit = powerLimitActual)
=============================================================================
