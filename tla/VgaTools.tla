----------------------------- MODULE VgaTools -----------------------------
(***************************************************************************)
(* vga-tools.c: the list of VGA driver names, and the choice of the way to *)
(* read the GPU's temperature from it.                                     *)
(***************************************************************************)
EXTENDS Sensors, NvmlTools

VARIABLES
  device,       \* the PCI device that is looked at next
  name_list,    \* the names that are written, in order
  toWrite,      \* vga_dev, the names that follow
  size_left,    \* of the text, as vga_driver_name_list counts it
  GPU_get_temperature,
  registered    \* nvml_cleanup runs at exit

gpu == <<device, name_list, toWrite, size_left, GPU_get_temperature, registered>>

(* The name "none" is there before any device. *)
VgaInit ==
  /\ device = 1
  /\ name_list = <<>>
  /\ toWrite = <<"none">>
  /\ size_left = 16
  /\ GPU_get_temperature = NULL
  /\ registered = FALSE

-----------------------------------------------------------------------------
(* vga_driver_name_list                                                    *)

VgaDevices ==
  {i \in DOMAIN machine.pci : machine.pci[i].vga /\ machine.pci[i].driver # NULL}

(* A VGA device with a driver goes before those found so far. *)
process_dir ==
  /\ phase = "names"
  /\ device <= Len(machine.pci)
  /\ toWrite' = IF device \in VgaDevices
                THEN <<machine.pci[device].driver>> \o toWrite ELSE toWrite
  /\ device' = device + 1
  /\ UNCHANGED <<machine, phase, faults, overrun, name_list, size_left,
                 GPU_get_temperature, registered>>

ScanDone ==
  /\ Goto("names", "write names")
  /\ device > Len(machine.pci)
  /\ UNCHANGED <<machine, faults, overrun, gpu>>

(***************************************************************************)
(* The length is unsigned: what is left plus two is, when it is below      *)
(* zero, more than any length.                                             *)
(***************************************************************************)
TooLong(name) == size_left + 2 >= 0 /\ strlen[name] > size_left + 2

Writing == phase = "write names" /\ toWrite # <<>>

GrowList ==
  /\ Writing
  /\ TooLong(Head(toWrite))
  /\ size_left' = size_left + 16
  /\ UNCHANGED <<machine, phase, faults, overrun, device, name_list, toWrite,
                 GPU_get_temperature, registered>>

(* The name, a space and the terminating zero are written. *)
WriteName ==
  /\ Writing
  /\ ~TooLong(Head(toWrite))
  /\ size_left' = size_left - (strlen[Head(toWrite)] + 1)
  /\ overrun' = IF size_left' < 1 THEN overrun \cup {"names"} ELSE overrun
  /\ name_list' = Append(name_list, Head(toWrite))
  /\ toWrite' = Tail(toWrite)
  /\ UNCHANGED <<machine, phase, faults, device, GPU_get_temperature, registered>>

NamesDone ==
  /\ Goto("write names",
          IF "info" \in machine.options THEN "info sensors" ELSE "gpu")
  /\ toWrite = <<>>
  /\ UNCHANGED <<machine, faults, overrun, gpu>>

-----------------------------------------------------------------------------
(* gpu_sensors_init                                                        *)

Listed(driver) == driver \in ToSet(name_list)

(* The first driver of a fixed order that is in the list decides. *)
ChooseReader ==
  /\ Goto("gpu", IF Listed("nvidia") THEN "dlopen" ELSE "running")
  /\ GPU_get_temperature' =
       IF Listed("nvidia") THEN "undefined"
       ELSE IF Listed("nouveau")
       THEN IF sensors_nouveau_init THEN "nouveau" ELSE "undefined"
       ELSE IF Listed("i915") THEN "i915" ELSE "undefined"
  /\ nouveau' = (~Listed("nvidia") /\ Listed("nouveau") /\ sensors_nouveau_init)
  /\ UNCHANGED <<machine, faults, overrun, libsensors, coretemp, feature, device,
                 name_list, toWrite, size_left, registered>>

(* With nvml_init's handle; without one there is no other reader to try. *)
NvmlReady ==
  /\ Goto("nvml ready", "running")
  /\ GPU_get_temperature' = "nvidia"
  /\ registered' = TRUE
  /\ UNCHANGED <<machine, faults, overrun, device, name_list, toWrite, size_left>>

NoNvml ==
  /\ Goto("no nvml", "running")
  /\ UNCHANGED <<machine, faults, overrun, gpu>>

(* nvml_cleanup, when the process exits. *)
nvml_cleanup ==
  /\ Goto("exit handlers", "exited")
  /\ nvml' = IF registered THEN nvml \ {"library", "session"} ELSE nvml
  /\ UNCHANGED <<machine, faults, overrun, gpu>>

(* An integrated GPU is as hot as the hottest core: NULL stands for an error. *)
i915_gpu_get_temperature(temps) ==
  IF temps = <<>> THEN NULL
  ELSE Max({0} \cup Range(temps))

VgaStep ==
  \/ process_dir /\ UNCHANGED <<sensors, nvml>>
  \/ ScanDone /\ UNCHANGED <<sensors, nvml>>
  \/ GrowList /\ UNCHANGED <<sensors, nvml>>
  \/ WriteName /\ UNCHANGED <<sensors, nvml>>
  \/ NamesDone /\ UNCHANGED <<sensors, nvml>>
  \/ ChooseReader /\ UNCHANGED nvml
  \/ NvmlReady /\ UNCHANGED <<sensors, nvml>>
  \/ NoNvml /\ UNCHANGED <<sensors, nvml>>
  \/ nvml_cleanup /\ UNCHANGED sensors
  \/ SensorsStep /\ UNCHANGED <<gpu, nvml>>
  \/ NvmlStep /\ UNCHANGED <<gpu, sensors>>

=============================================================================
