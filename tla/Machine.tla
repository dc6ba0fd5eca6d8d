------------------------------ MODULE Machine ------------------------------
(***************************************************************************)
(* What the service daemon runs on: hardware, kernel and libraries, as the *)
(* answers they give to the calls of vga-tools.c, nvml-tools.c,            *)
(* i2c-tools.c, sensors.c, cpu-freq.c, hdd-info.c and panel.c.  A machine  *)
(* is a record:                                                            *)
(*                                                                         *)
(*   busSource  where I2C busses are listed: "proc", "sysfs" or "none"     *)
(*   busses     the listed busses, [nr, named, answer]: the number, can    *)
(*              its name be read (sysfs), and what trying it finds: "none" *)
(*              (no device file), "busy" (the address is taken), "other"   *)
(*              or "panel" (the signature that is read)                    *)
(*   pci        [vga, driver] of each PCI device with a class              *)
(*   nvml       the call of nvml_init that fails, or "ok"                  *)
(*   chips      the sensor chips lm-sensors detects                        *)
(*   features   the temperature features of coretemp, [core, input]: the   *)
(*              core of its label, NoCore for another label, and has it an *)
(*              input                                                      *)
(*   past       what lies in memory behind the tables of lm-sensors        *)
(*   threads    [core, mhz] of each processor in /proc/cpuinfo, NoCore if  *)
(*              the core id is missing                                     *)
(*   disks      of each ATA disk, does it report a temperature             *)
(*   cpuinfo    can /proc/cpuinfo be opened                                *)
(*   memory     what malloc returns as a table of frequencies              *)
(*   options    the options that matter: "info", "i2c-bus" (given)         *)
(*   bus        the bus that is given                                      *)
(*   metrics    the metrics that are enabled, "postcode" among them         *)
(*   locked     another instance of the daemon holds the lock file         *)
(*                                                                         *)
(* MaxFaults bounds the calls that fail although the machine could do      *)
(* them: allocations, transfers, reads, daemon().                          *)
(***************************************************************************)
EXTENDS Integers, Sequences

CONSTANTS
  Machines, MaxFaults, NULL, NoCore,
  TableSize   \* ATFP_MAX_CPU_CORES, CORETEMP_SUBFEATURE_MAX

ASSUME MachineAssumption ==
  /\ MaxFaults \in Nat
  /\ TableSize \in Nat \ {0}
  /\ NoCore \notin Nat /\ NULL \notin Int

(* The drivers of GPUs: three that the daemon knows, and one with a longer *)
(* name; and the lengths of the names that are put in a list.              *)
Drivers == {"i915", "nvidia", "nouveau", "virtio-pci"}
strlen ==
  [name \in {"none"} \cup Drivers |->
     IF name = "virtio-pci" THEN 10 ELSE IF name = "nouveau" THEN 7
     ELSE IF name = "nvidia" THEN 6 ELSE 4]

ASSUME MachinesAssumption ==
  \A m \in Machines :
    /\ m.busSource \in {"proc", "sysfs", "none"}
    /\ m.busses \in Seq([nr : Nat, named : BOOLEAN,
                         answer : {"none", "busy", "other", "panel"}])
    /\ m.pci \in Seq([vga : BOOLEAN, driver : Drivers \cup {NULL}])
    /\ m.features \in Seq([core : Nat \cup {NoCore}, input : BOOLEAN])
    /\ m.past \in Nat
    /\ m.threads \in Seq([core : Nat \cup {NoCore}, mhz : Nat])
    /\ m.disks \in Seq(BOOLEAN)
    /\ m.cpuinfo \in BOOLEAN
    /\ m.memory \in [0 .. TableSize - 1 -> Int]

VARIABLES
  machine,
  phase,     \* where the main thread is
  faults,
  overrun    \* the tables that have been read or written past their end

Goto(here, next) == phase = here /\ phase' = next

Fault == faults < MaxFaults /\ faults' = faults + 1

MachineInit ==
  /\ machine \in Machines
  /\ phase = "start"
  /\ faults = 0
  /\ overrun = {}

Chip(name) == name \in machine.chips

=============================================================================
