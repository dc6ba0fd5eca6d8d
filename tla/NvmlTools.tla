----------------------------- MODULE NvmlTools -----------------------------
(***************************************************************************)
(* nvml-tools.c: loading NVIDIA's management library at run time, as it is *)
(* there only with the proprietary driver, and giving back what has been   *)
(* taken when a call on the way fails.                                     *)
(*                                                                         *)
(* A phase has the name of the call that is due.  machine.nvml names the   *)
(* call that fails; "nvmlDeviceGetCount" fails also when no card is found. *)
(*                                                                         *)
(* A definition whose name ends in an underscore and a remark is a mutated *)
(* form of the one that follows it; nothing uses it.                       *)
(***************************************************************************)
EXTENDS Machine

VARIABLE nvml   \* what is held: "library" (with its handle), "session"

NvmlInit == nvml = {}

(* A call takes the main thread on, or to the label it goes to on failure. *)
Call(here, next, takes, label) ==
  /\ phase = here
  /\ IF machine.nvml = here
     THEN phase' = label /\ nvml' = nvml
     ELSE phase' = next /\ nvml' = nvml \cup takes
  /\ UNCHANGED <<machine, faults, overrun>>

Unwind(label, next, gives) ==
  /\ Goto(label, next)
  /\ nvml' = nvml \ gives
  /\ UNCHANGED <<machine, faults, overrun>>

(* nvml_dll_load: the library first, then each of its functions. *)
Dlopen == Call("dlopen", "dlsym", {"library"}, "no nvml")
LoadSymbols == Call("dlsym", "nvmlInit", {}, "nvml_out_err1")

(* nvml_init *)
OpenSession == Call("nvmlInit", "nvmlDeviceGetCount", {"session"}, "nvml_out_err1")
GetCount_err1 ==
  Call("nvmlDeviceGetCount", "nvmlDeviceGetHandleByIndex", {}, "nvml_out_err1")
GetCount ==
  Call("nvmlDeviceGetCount", "nvmlDeviceGetHandleByIndex", {}, "nvml_out_err2")
GetHandle == Call("nvmlDeviceGetHandleByIndex", "nvml ready", {}, "nvml_out_err2")

nvmlShutdown == Unwind("nvml_out_err2", "nvml_out_err1", {"session"})
nvml_dll_cleanup == Unwind("nvml_out_err1", "no nvml", {"library"})

NvmlStep ==
  \/ Dlopen \/ LoadSymbols \/ OpenSession \/ GetCount \/ GetHandle
  \/ nvmlShutdown \/ nvml_dll_cleanup

=============================================================================
