-------------------------- MODULE GpuThermaldProofs --------------------------
(***************************************************************************)
(* For every range of power, temperature limit, power option and number of *)
(* failing calls: the types, the range of the output, the bounds of the    *)
(* integral, and that the GPU follows the controller.                      *)
(***************************************************************************)
EXTENDS GpuThermald, TLAPS

(* initialize is behind. *)
Started == pc \notin {"initialize", "failed"}

(* What the daemon may use is something the GPU supports. *)
ActualInRange == Started => powerLimitActual \in PowerMin..PowerMax

(* power_limit_prev is the GPU's limit as long as no call failed, and the  *)
(* output too once it is applied; the integral starts at zero.             *)
PrevIsCurrent ==
  /\ pc = "initialize" => err_integral = 0
  /\ pc = "pause" => power_limit_prev = power_limit
  /\ faults = 0 /\ Looping => gpuLimit = power_limit_prev

IInv ==
  /\ TypeOK
  /\ ActualInRange
  /\ OutputInRange
  /\ IntegralBounded
  /\ PrevIsCurrent
  /\ GpuFollows

-----------------------------------------------------------------------------

(* The integral may start at zero: the range is never empty.               *)
LEMMA NoGap == ASSUME NEW a \in Int, NEW b \in Int, a <= b PROVE 0 >= a - b
BY SMT

(* The power the override leaves is one the GPU supports: the clamp of     *)
(* main, or the preset limit.                                              *)
LEMMA OverrideInRange ==
  ASSUME power_option \in Nat
  PROVE  Override \in PowerMin..PowerMax
BY PowerAssumption, SMT DEF Override

(* The controller's output is between the least power and what it may use. *)
LEMMA ClampedInRange ==
  ASSUME NEW pl \in Int, powerLimitActual \in Nat,
         powerLimitActual >= PowerMin
  PROVE  Clamped(pl) \in PowerMin..powerLimitActual
BY PowerAssumption, SMT DEF Clamped

(* The terms of pid_control are numbers, the P term is never positive, and *)
(* the I term exceeds 150 * TempLimit only if the integral does.           *)
LEMMA TermsBounded ==
  ASSUME NEW t \in Nat, err_integral \in Int,
         err_integral <= 150 * TempLimit
  PROVE  /\ Proportional(t) \in Int
         /\ Integral(t) \in Int
         /\ Proportional(t) <= 0
         /\ Proportional(t) + Integral(t) <= 0 => Integral(t) <= 150 * TempLimit
<1>0. TempLimit \in Nat
  BY TempAssumption
<1>1. CASE NoControl(t)
  BY <1>0, <1>1, SMT DEF Proportional, Integral, NoControl
<1>2. CASE ~NoControl(t) /\ Emergency(t)
  BY <1>0, <1>2, SMT DEF Proportional, Integral, NoControl, Emergency
<1>3. CASE ~NoControl(t) /\ ~Emergency(t)
  BY <1>0, <1>3, SMT DEF Proportional, Integral, NoControl, Emergency
<1> QED BY <1>1, <1>2, <1>3

(* One step of pid_control keeps the integral between its bounds.          *)
LEMMA NextIntegralBounded ==
  ASSUME NEW t \in Nat, err_integral \in Int, powerLimitActual \in Nat,
         err_integral <= 150 * TempLimit,
         err_integral >= PowerMin - powerLimitActual
  PROVE  /\ NextIntegral(t) \in Int
         /\ NextIntegral(t) <= 150 * TempLimit
         /\ NextIntegral(t) >= PowerMin - powerLimitActual
<1>1. /\ Proportional(t) \in Int
      /\ Integral(t) \in Int
      /\ Proportional(t) <= 0
      /\ Proportional(t) + Integral(t) <= 0 => Integral(t) <= 150 * TempLimit
  BY TermsBounded
<1>2. CASE Wanted(t) \in PowerMin..powerLimitActual
  BY <1>1, <1>2, PowerAssumption, TempAssumption, SMT DEF NextIntegral, Wanted
<1>3. CASE Wanted(t) \notin PowerMin..powerLimitActual
  BY <1>3 DEF NextIntegral
<1> QED BY <1>2, <1>3

-----------------------------------------------------------------------------

LEMMA InitIInv == Init => IInv
BY PowerAssumption, TempAssumption, EnvironmentAssumption, SMT
   DEF Init, IInv, TypeOK, ActualInRange, Started, OutputInRange,
       IntegralBounded, PrevIsCurrent, Looping, GpuFollows

LEMMA NextIInv == IInv /\ [Next]_vars => IInv'
<1> SUFFICES ASSUME IInv, [Next]_vars
             PROVE  IInv'
  OBVIOUS
<1> USE PowerAssumption, TempAssumption, EnvironmentAssumption
<1>1. CASE initialize
  <2>1. IF power_option = Unset THEN gpuLimit \in PowerMin..PowerMax
                               ELSE Override \in PowerMin..PowerMax
    BY OverrideInRange DEF IInv, TypeOK, OutputInRange
  <2>2. CASE pc' = "arm" /\ UNCHANGED faults
    <3>1. /\ powerLimitActual' \in PowerMin..PowerMax
          /\ power_limit_prev' = gpuLimit
      BY <1>1, <2>1, <2>2 DEF initialize
    <3>2. /\ pc = "initialize"
          /\ UNCHANGED <<slow, power_option, gpuTemp, gpuLimit, temp,
                         power_limit, err_integral, alarm>>
      BY <1>1 DEF initialize, given, gpu
    <3>3. err_integral = 0
      BY <3>2 DEF IInv, PrevIsCurrent
    <3>4. TypeOK'
      BY <2>2, <3>1, <3>2, SMT DEF IInv, TypeOK
    <3>5. IntegralBounded'
      <4>1. err_integral' = 0
        BY <3>2, <3>3
      <4>2. 0 <= 150 * TempLimit
        BY SMT
      <4>3. /\ PowerMin \in Int
            /\ powerLimitActual' \in Int
            /\ PowerMin <= powerLimitActual'
        BY <3>1, SMT
      <4>4. 0 >= PowerMin - powerLimitActual'
        BY <4>3, NoGap
      <4> QED BY <4>1, <4>2, <4>4 DEF IntegralBounded
    <3>6. ActualInRange' /\ OutputInRange'
      BY <2>2, <3>1, <3>2 DEF IInv, ActualInRange, OutputInRange
    <3>7. PrevIsCurrent' /\ GpuFollows'
      BY <2>2, <3>1, <3>2, <3>3 DEF PrevIsCurrent, GpuFollows
    <3> QED BY <3>4, <3>5, <3>6, <3>7 DEF IInv
  <2>3. CASE /\ Fault /\ pc' = "failed"
             /\ UNCHANGED <<powerLimitActual, power_limit_prev>>
    BY <1>1, <2>3, SMT
       DEF initialize, given, Fault, gpu, IInv, TypeOK, ActualInRange, Started,
           OutputInRange, IntegralBounded, PrevIsCurrent, Looping, GpuFollows
  <2> QED BY <1>1, <2>2, <2>3 DEF initialize
<1>2. CASE Arm
  BY <1>2, SMT DEF Arm, given, gpu, control, IInv, TypeOK, ActualInRange,
     Started, OutputInRange, IntegralBounded, PrevIsCurrent, Looping, GpuFollows
<1>3. CASE ReadTemperature
  BY <1>3, SMT DEF ReadTemperature, given, Fault, gpu, IInv, TypeOK,
     ActualInRange, Started, OutputInRange, IntegralBounded, PrevIsCurrent,
     Looping, GpuFollows
<1>4. CASE pid_control
  <2>1. /\ temp \in Nat /\ err_integral \in Int /\ powerLimitActual \in Nat
        /\ powerLimitActual >= PowerMin
        /\ err_integral <= 150 * TempLimit
        /\ err_integral >= PowerMin - powerLimitActual
    BY <1>4 DEF pid_control, IInv, TypeOK, ActualInRange, Started,
                IntegralBounded
  <2>2. Wanted(temp) \in Int
    BY <2>1, TermsBounded, SMT DEF Wanted
  <2>3. power_limit' \in PowerMin..powerLimitActual
    BY <1>4, <2>1, <2>2, ClampedInRange DEF pid_control
  <2>4. /\ err_integral' \in Int
        /\ err_integral' <= 150 * TempLimit
        /\ err_integral' >= PowerMin - powerLimitActual
    BY <1>4, <2>1, NextIntegralBounded DEF pid_control
  <2>5. pc = "control" /\ pc' = "set"
        /\ UNCHANGED <<slow, power_option, gpuTemp, gpuLimit, powerLimitActual,
                       temp, power_limit_prev, alarm, faults>>
    BY <1>4 DEF pid_control, given, gpu
  <2> QED
    BY <2>3, <2>4, <2>5, SMT
       DEF IInv, TypeOK, ActualInRange, Started, OutputInRange,
           IntegralBounded, PrevIsCurrent, Looping, GpuFollows
<1>5. CASE ApplyLimit
  BY <1>5, SMT DEF ApplyLimit, given, SetPowerLimit, Fault, IInv, TypeOK,
     ActualInRange, Started, OutputInRange, IntegralBounded, PrevIsCurrent,
     Looping, GpuFollows
<1>6. CASE AlarmFires
  BY <1>6, SMT DEF AlarmFires, given, gpu, control, IInv, TypeOK, ActualInRange,
     Started, OutputInRange, IntegralBounded, PrevIsCurrent, Looping, GpuFollows
<1>7. CASE SIGTERM_handler
  BY <1>7, SMT DEF SIGTERM_handler, given, gpu, control, IInv, TypeOK,
     ActualInRange, Started, OutputInRange, IntegralBounded, PrevIsCurrent,
     Looping, GpuFollows
<1>8. CASE cleanup
  BY <1>8, SMT DEF cleanup, given, SetPowerLimit, Fault, control, IInv, TypeOK,
     ActualInRange, Started, OutputInRange, IntegralBounded, PrevIsCurrent,
     Looping, GpuFollows
<1>9. CASE TemperatureChanges
  BY <1>9, SMT DEF TemperatureChanges, given, control, IInv, TypeOK,
     ActualInRange, Started, OutputInRange, IntegralBounded, PrevIsCurrent,
     Looping, GpuFollows
<1>10. CASE UNCHANGED vars
  BY <1>10 DEF vars, given, gpu, control, IInv, TypeOK, ActualInRange, Started,
     OutputInRange, IntegralBounded, PrevIsCurrent, Looping, GpuFollows
<1> QED
  BY <1>1, <1>2, <1>3, <1>4, <1>5, <1>6, <1>7, <1>8, <1>9, <1>10
     DEF Next, Loop

THEOREM IInvHolds == Spec => []IInv
BY InitIInv, NextIInv, PTL DEF Spec

-----------------------------------------------------------------------------

(* The variables of main and pid_control keep their types; the two limits, *)
(* unsigned in the code, are never computed below zero.                    *)
THEOREM TypeCorrect == Spec => []TypeOK
<1>1. IInv => TypeOK
  BY DEF IInv
<1> QED BY <1>1, IInvHolds, PTL

(* The GPU is never set to a limit it does not support, whatever the       *)
(* option, the temperatures and the failures of NVML.                      *)
THEOREM OutputStaysInRange == Spec => []OutputInRange
<1>1. IInv => OutputInRange
  BY DEF IInv
<1> QED BY <1>1, IInvHolds, PTL

(* The integral of pid_control never winds up.                             *)
THEOREM IntegralStaysBounded == Spec => []IntegralBounded
<1>1. IInv => IntegralBounded
  BY DEF IInv
<1> QED BY <1>1, IInvHolds, PTL

(* While no call fails the GPU has the controller's limit at every pause,  *)
(* and the one the daemon was told to use after its cleanup.               *)
THEOREM GpuAlwaysFollows == Spec => []GpuFollows
<1>1. IInv => GpuFollows
  BY DEF IInv
<1> QED BY <1>1, IInvHolds, PTL
=============================================================================
