------------------------------ MODULE I2cTools ------------------------------
(***************************************************************************)
(* i2c-tools.c: the table of I2C adapters and the opening of a bus, and    *)
(* the lookup of the front panel's bus on top of it (panel.c).             *)
(*                                                                         *)
(* The table is its allocated size and its entries; the loops over it stop *)
(* at the first entry that was never filled, so one must be left.  Texts   *)
(* are abstracted: an entry is the index of the bus it was read from.      *)
(*                                                                         *)
(* A definition whose name ends in an underscore and a remark is a mutated *)
(* form of the one that follows it; nothing uses it.                       *)
(***************************************************************************)
EXTENDS Machine

CONSTANT Bunch   \* BUNCH, entries by which the table grows

ASSUME BunchAssumption ==
  /\ Bunch \in Nat \ {0}
  /\ NULL \notin [size : Nat, list : Seq(Nat)]

VARIABLES
  adapters,      \* the table, or NULL
  busIndex,      \* the bus that is read, or tried, next
  i2c_bus,       \* options.i2c_bus
  descriptors    \* I2C device files that are open

i2c == <<adapters, busIndex, i2c_bus, descriptors>>

I2cInit == adapters = NULL /\ busIndex = 1 /\ i2c_bus = NULL /\ descriptors = 0

-----------------------------------------------------------------------------
(* gather_i2c_busses                                                       *)

Adapters == Len(adapters.list)

(* A loop over the table finds an unused entry at its end, or runs on. *)
Walked == IF Adapters < adapters.size THEN overrun ELSE overrun \cup {"adapters"}

calloc_adapters ==
  /\ \/ /\ Goto("gather", "read busses")
        /\ adapters' = [size |-> Bunch, list |-> <<>>]
        /\ UNCHANGED faults
     \/ Goto("gather", "lookup") /\ Fault /\ adapters' = NULL
  /\ busIndex' = 1
  /\ UNCHANGED <<machine, overrun, i2c_bus, descriptors>>

(* memset clears what realloc has added to a table of n entries. *)
more_adapters(table, n) == [table EXCEPT !.size = n + Bunch]

WithSpace_late(table) ==
  IF Len(table.list) > 0 /\ Len(table.list) % Bunch = 0
  THEN more_adapters(table, Len(table.list)) ELSE table
WithSpace(table) ==
  LET n == Len(table.list) + 1
  IN  IF n % Bunch = 0 THEN more_adapters(table, n) ELSE table

NextBus(source) ==
  /\ phase = "read busses"
  /\ machine.busSource = source
  /\ busIndex <= Len(machine.busses)
  /\ busIndex' = busIndex + 1

(* No memory for the table or a name: free_adapters, and return NULL. *)
OutOfMemory ==
  /\ Fault
  /\ phase' = "lookup"
  /\ adapters' = NULL
  /\ overrun' = Walked

AddAdapter ==
  \/ /\ adapters' = [WithSpace(adapters) EXCEPT !.list = Append(@, busIndex)]
     /\ overrun' = IF Adapters < WithSpace(adapters).size THEN overrun
                   ELSE overrun \cup {"adapters"}
     /\ UNCHANGED <<phase, faults>>
  \/ OutOfMemory

ProcBus ==
  /\ NextBus("proc")
  /\ AddAdapter
  /\ UNCHANGED <<machine, i2c_bus, descriptors>>

(* An entry of /sys/class/i2c-dev whose name cannot be read is skipped. *)
SysfsBus ==
  /\ NextBus("sysfs")
  /\ IF machine.busses[busIndex].named
     THEN AddAdapter
     ELSE UNCHANGED <<adapters, overrun, phase, faults>>
  /\ UNCHANGED <<machine, i2c_bus, descriptors>>

(* Neither /proc/bus/i2c nor a mounted sysfs leaves the table empty. *)
GatherDone ==
  /\ Goto("read busses", "lookup")
  /\ machine.busSource = "none" \/ busIndex > Len(machine.busses)
  /\ busIndex' = 1
  /\ UNCHANGED <<machine, faults, overrun, adapters, i2c_bus, descriptors>>

-----------------------------------------------------------------------------
(* panel_lookup_i2c_bus                                                    *)

Adapter(k) == machine.busses[adapters.list[k]]

open_i2c_dev(bus) == bus.answer # "none"
set_slave_addr(bus) == bus.answer # "busy"
__panel_open_i2c_device(bus) == open_i2c_dev(bus) /\ set_slave_addr(bus)

(***************************************************************************)
(* A bus that cannot be opened, or whose signature is not the panel's, is  *)
(* passed over; its descriptor is closed either way.                       *)
(***************************************************************************)
TryBus_keepsOpen ==
  /\ phase = "lookup"
  /\ adapters # NULL
  /\ busIndex <= Adapters
  /\ Adapter(busIndex).answer # "panel"
  /\ busIndex' = busIndex + 1
  /\ descriptors' =
       IF open_i2c_dev(Adapter(busIndex))
       THEN descriptors + 1 ELSE descriptors
  /\ UNCHANGED <<machine, phase, faults, overrun, adapters, i2c_bus>>
TryBus ==
  /\ phase = "lookup"
  /\ adapters # NULL
  /\ busIndex <= Adapters
  /\ Adapter(busIndex).answer # "panel"
  /\ busIndex' = busIndex + 1
  /\ UNCHANGED <<machine, phase, faults, overrun, adapters, i2c_bus,
                 descriptors>>

(* options.i2c_bus is the bus of the first adapter with the signature. *)
LookupFinds ==
  /\ Goto("lookup", "daemonize")
  /\ adapters # NULL
  /\ busIndex <= Adapters
  /\ Adapter(busIndex).answer = "panel"
  /\ i2c_bus' = Adapter(busIndex).nr
  /\ adapters' = NULL
  /\ overrun' = Walked
  /\ UNCHANGED <<machine, faults, busIndex, descriptors>>

LookupFails ==
  /\ Goto("lookup", "no panel")
  /\ adapters # NULL
  /\ busIndex > Adapters
  /\ adapters' = NULL
  /\ overrun' = Walked
  /\ UNCHANGED <<machine, faults, busIndex, i2c_bus, descriptors>>

(* free_adapters reads the table it is given, also when there is none. *)
LookupCrashes ==
  /\ Goto("lookup", "crashed")
  /\ adapters = NULL
  /\ UNCHANGED <<machine, faults, overrun, i2c>>

I2cStep ==
  \/ calloc_adapters \/ ProcBus \/ SysfsBus \/ GatherDone
  \/ TryBus \/ LookupFinds \/ LookupFails \/ LookupCrashes

=============================================================================
