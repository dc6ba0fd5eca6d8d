--------------------------- MODULE MetricsProofs ---------------------------
(***************************************************************************)
(* For every machine: the tables of the start-up hold what is put in them, *)
(* the lookup finds the panel's bus, the GPU's reader is ready when it is  *)
(* used, and the panel shows what is measured.  There are two invariants:  *)
(* IInv follows the main thread from phase to phase, and DInv the values   *)
(* on their way from the sensors to the registers of the panel.            *)
(***************************************************************************)
EXTENDS Metrics, TLAPS, FiniteSetTheorems, SequenceTheorems, WellFoundedInduction

Names == {"none"} \cup Drivers

-----------------------------------------------------------------------------
(* The inductive invariant.                                                *)

Typed ==
  /\ machine \in Machines
  /\ faults \in Nat
  /\ busIndex \in Nat \ {0} /\ device \in Nat \ {0} /\ feature \in Nat \ {0}
  /\ adapters \in {NULL} \cup [size : Nat, list : Seq(Nat)]
  /\ name_list \in Seq(Names) /\ toWrite \in Seq(Names)
  /\ size_left \in Int

(* The table of adapters has an entry to spare, and grows by whole bunches. *)
RoomLeft(table) == Len(table.list) < table.size /\ table.size % Bunch = 0

(* The table lists the busses before the n-th, in their order.             *)
InOrder(list) ==
  \A j, k \in 1 .. Len(list) : j < k => list[j] < list[k]
ListsUpTo(list, n) ==
  /\ \A k \in 1 .. Len(list) : list[k] \in ListedBusses /\ list[k] < n
  /\ \A i \in ListedBusses : i < n => \E k \in 1 .. Len(list) : list[k] = i

AdaptersHold ==
  /\ "adapters" \notin overrun
  /\ phase = "read busses" => adapters # NULL
  /\ adapters # NULL => RoomLeft(adapters) /\ InOrder(adapters.list)

Panels == {i \in ListedBusses : machine.busses[i].answer = "panel"}
Given == "i2c-bus" \in machine.options
BusFound ==
  Given \/ \E i \in Panels : /\ \A k \in Panels : i <= k
                             /\ i2c_bus = machine.busses[i].nr

(* All listed busses before busIndex are in the table, then all of them    *)
(* are and those before busIndex have been tried.                          *)
LookupProgress ==
  /\ phase = "read busses" =>
       /\ busIndex <= Len(machine.busses) + 1
       /\ ListsUpTo(adapters.list, busIndex)
  /\ phase = "lookup" /\ adapters # NULL =>
       /\ ListsUpTo(adapters.list, Len(machine.busses) + 1)
       /\ busIndex <= Len(adapters.list) + 1
       /\ \A k \in 1 .. busIndex - 1 : adapters.list[k] \notin Panels
  /\ phase = "lookup" /\ adapters = NULL => faults > 0
  /\ phase = "crashed" => faults > 0
  /\ phase = "no panel" => Panels = {}
  /\ phase \in {"daemonize", "open panel"} => BusFound

BeforePanel == {"start", "gather", "read busses", "lookup", "no panel",
                "crashed", "daemonize", "open panel"}
AfterPanel == {"reset", "coretemp", "features", "gpu", "dlopen", "dlsym",
               "nvmlInit", "nvmlDeviceGetCount", "nvmlDeviceGetHandleByIndex",
               "nvml_out_err1", "nvml_out_err2", "nvml ready", "no nvml",
               "running"}

Serving ==
  \/ phase \in AfterPanel
  \/ phase \in {"names", "write names"} /\ "info" \notin machine.options

(* The panel is open from its reset on, unless the daemon only informs.    *)
PanelOpen ==
  /\ phase \in BeforePanel => descriptors = 0 /\ ~initialized
  /\ Serving => descriptors = 1 /\ initialized /\ BusFound

(* Only one VGA device, whose driver has a name that the text has room for. *)
OneVga ==
  \A i, k \in VgaDevices : i = k /\ strlen[machine.pci[i].driver] <= 9
NamesFit ==
  /\ phase \in BeforePanel \cup {"reset", "coretemp", "features"} =>
       device = 1 /\ size_left = 16 /\ toWrite = <<"none">>
  /\ "names" \in overrun => ~OneVga
  /\ phase = "names" /\ OneVga =>
       /\ size_left = 16
       /\ \/ toWrite = <<"none">> /\ \A i \in VgaDevices : i >= device
          \/ \E i \in VgaDevices :
               i < device /\ toWrite = <<machine.pci[i].driver, "none">>
  /\ phase = "write names" /\ OneVga =>
       \/ toWrite = <<>>
       \/ toWrite = <<"none">> /\ size_left >= 6
       \/ \E d \in Names : /\ toWrite = <<d, "none">> /\ size_left = 16
                           /\ strlen[d] <= 9

(* No driver is lost on the way to the list. *)
NoDriverLost ==
  /\ phase \in {"names", "write names", "gpu"} =>
       \A i \in VgaDevices :
         (phase = "names" => i < device) =>
           machine.pci[i].driver \in ToSet(name_list) \cup ToSet(toWrite)
  /\ phase = "gpu" => toWrite = <<>>

SensorsHold ==
  "coretemp" \in overrun =>
    \E k \in DOMAIN machine.features :
      machine.features[k].core \in Nat \ 0 .. TableSize - 1

(* What is held of NVML from call to call, and which reader is chosen.     *)
Loading == {"dlopen", "dlsym", "nvmlInit", "nvmlDeviceGetCount",
            "nvmlDeviceGetHandleByIndex", "nvml_out_err1", "nvml_out_err2",
            "nvml ready", "no nvml"}
Both == {"library", "session"}
ReaderReady ==
  /\ phase \in Loading => GPU_get_temperature = "undefined"
  /\ phase \notin {"running", "exit handlers", "exited"} => ~registered
  /\ phase \notin (Loading \ {"dlopen", "no nvml"}) \cup {"running", "exit handlers"}
       => nvml = {}
  /\ phase \in {"dlsym", "nvmlInit", "nvml_out_err1"} => nvml = {"library"}
  /\ phase \in {"nvmlDeviceGetCount", "nvmlDeviceGetHandleByIndex",
                "nvml_out_err2", "nvml ready"} => nvml = Both
  /\ phase = "running" =>
       /\ GPU_get_temperature = "nvidia" => nvml = Both /\ registered
       /\ GPU_get_temperature # "nvidia" => nvml = {} /\ ~registered
       /\ GPU_get_temperature = "nouveau" => nouveau /\ libsensors
       /\ GPU_get_temperature = "i915" =>
            \A i \in VgaDevices : machine.pci[i].driver \notin {"nvidia", "nouveau"}
  /\ phase = "exit handlers" => nvml = IF registered THEN Both ELSE {}

IInv ==
  /\ Typed /\ AdaptersHold /\ LookupProgress /\ PanelOpen
  /\ NamesFit /\ NoDriverLost /\ SensorsHold /\ ReaderReady

-----------------------------------------------------------------------------
(* What the panel shows: the invariant behind ShownIsMeasured.  From the   *)
(* sensors, which are read once, to the samples in the queue, the job and  *)
(* the registers, a value on its way to the panel is one that is measured. *)

(* The cores that the features before the n-th are about. *)
CoresBefore(n) == {machine.features[k].core : k \in 1 .. n - 1} \ {NoCore}
InTable(core) == core \in 0 .. TableSize - 1

(* An entry of the table of sensors has the number of its core's sensor,   *)
(* or is zero, and the sensors are counted.                                *)
SensorsRead ==
  /\ coretemp \in [ids : [0 .. TableSize - 1 -> Nat], num : Nat]
  /\ feature <= Len(machine.features) + 1 /\ coretemp.num <= feature - 1
  /\ \A c \in 0 .. TableSize - 1 : c \notin CoresBefore(feature) => coretemp.ids[c] = 0
  /\ \A k \in 1 .. feature - 1 :
       InTable(machine.features[k].core) =>
         coretemp.ids[machine.features[k].core] = k - 1
  /\ "coretemp" \notin overrun =>
       /\ CoresBefore(feature) \subseteq 0 .. TableSize - 1
       /\ IsFiniteSet(CoresBefore(feature))
       /\ coretemp.num = Cardinality(CoresBefore(feature))

(* After their phase all of them are read. *)
AfterFeatures == {"gpu", "running"} \cup Loading
AllRead ==
  \/ phase \in AfterFeatures
  \/ phase \in {"names", "write names"} /\ "info" \notin machine.options
  => feature = Len(machine.features) + 1

Readers == {"nvidia", "nouveau", "i915", "undefined"}
ReaderChosen == phase = "running" => GPU_get_temperature \in Readers

(* Before the loop nothing is shown, and outside of it nothing is queued. *)
Dark ==
  /\ phase \notin {"running", "exit handlers", "exited"} =>
       registers = <<>> /\ valid = {}
  /\ phase # "running" => contexts = <<>> /\ job = NULL
  /\ warmer \in {0, 1}

(* The metrics that are shown by a register and a bit of another: lamps. *)
Shapes == {"temperature", "gpu", "disk"}
Metric == Shapes \cup {"frequency"}
Items == Seq([id : Nat, value : Int \cup {NULL}])
Context == [metric : Metric, items : Items]
Job == [metric : Metric, half : {1, 2}, items : Items]

(* What the panel keeps of a value. *)
Held(metric, value) == IF metric = "frequency" THEN value % 32768 ELSE value % 256
IsMeasured(metric, id, held) ==
  Regular(metric, id) => \E warm \in 0 .. warmer : held = Measured(metric, id, warm)
Sampled(metric, item) ==
  /\ metric \in {"temperature", "frequency"} => item.id <= 7
  /\ metric = "gpu" => item.id = 0
  /\ metric # "disk" => item.value \in Int
  /\ item.id <= 7 /\ item.value \in Int
       => IsMeasured(metric, item.id, Held(metric, item.value))
AllSampled(metric, items) == \A i \in DOMAIN items : Sampled(metric, items[i])

(* What is on its way to the panel was measured. *)
SampledContexts == {c \in Context : AllSampled(c.metric, c.items)}
SampledJobs == {j \in Job : AllSampled(j.metric, j.items)}
Queued == /\ contexts \in Seq(SampledContexts)
          /\ job # NULL => job \in SampledJobs

Address(metric, id) ==
  CASE metric = "temperature" -> ATFP_REG_CPU0T + id
    [] metric = "gpu" -> ATFP_REG_GPUT
    [] metric = "disk" -> ATFP_REG_HDD0T + id
StatusOf(metric) ==
  CASE metric = "temperature" -> ATFP_REG_CPUTS
    [] metric = "gpu" -> ATFP_REG_SENSORT
    [] metric = "disk" -> ATFP_REG_HDDTS
Lamps == ({"temperature", "disk"} \X (0 .. 7)) \cup {<<"gpu", 0>>}
Mask(metric, id) == <<StatusOf(metric), Bit(id)>>

(* A register that is marked has been written, with what was measured. *)
LampMeasured(metric, id) ==
  LET reg == Address(metric, id)
  IN  /\ Mask(metric, id) \in valid => reg \in DOMAIN registers
      /\ reg \in DOMAIN registers => IsMeasured(metric, id, registers[reg])
LampsMeasured == \A lamp \in Lamps : LampMeasured(lamp[1], lamp[2])

(* A frequency whose MSB is written is whole, but for the core whose turn it is. *)
Lsb(core) == ATFP_REG_CPU0F_LSB + 2 * core
Msb(core) == ATFP_REG_CPU0F_MSB + 2 * core
Halves(core) == 256 * (registers[Msb(core)] - 128) + registers[Lsb(core)]
FrequencyMeasured(core) ==
  \/ Msb(core) \notin DOMAIN registers
  \/ /\ Lsb(core) \in DOMAIN registers
     /\ registers[Msb(core)] >= 128
     /\ IsMeasured("frequency", core, Halves(core))
FrequenciesMeasured ==
  phase = "running" /\ faults = 0 =>
    \A core \in 0 .. 7 : BeingWritten("frequency", core) \/ FrequencyMeasured(core)

(* After the first write of a value its register has the byte. *)
HalfWritten ==
  job # NULL /\ job.items # <<>> /\ job.half = 2 =>
    LET writes == Writes(job.metric, Head(job.items))
    IN  /\ writes # <<>>
        /\ writes[1][1] \in DOMAIN registers
        /\ registers[writes[1][1]] = writes[1][2]

(* With more sensors than the table holds cores, a ninth temperature is    *)
(* written to the GPU's register, and nothing is said of the panel.        *)
Fits == coretemp.num <= TableSize
ShownMeasured == Queued /\ LampsMeasured /\ FrequenciesMeasured /\ HalfWritten

DInv == /\ SensorsRead /\ AllRead /\ ReaderChosen /\ Dark
        /\ Fits => ShownMeasured

-----------------------------------------------------------------------------
(* What the machine is, and what no step changes of it.                    *)

LEMMA MachineIs ==
  ASSUME machine \in Machines
  PROVE  /\ machine.busSource \in {"proc", "sysfs", "none"}
         /\ Len(machine.busses) \in Nat
         /\ DOMAIN machine.busses = 1 .. Len(machine.busses)
         /\ ListedBusses \subseteq 1 .. Len(machine.busses)
         /\ Panels \subseteq ListedBusses
         /\ Len(machine.pci) \in Nat
         /\ VgaDevices \subseteq 1 .. Len(machine.pci)
         /\ \A i \in VgaDevices :
              machine.pci[i].driver \in Drivers
         /\ Len(machine.features) \in Nat
         /\ DOMAIN machine.features = 1 .. Len(machine.features)
         /\ \A k \in 1 .. Len(machine.features) :
              machine.features[k].core \in Nat \cup {NoCore}
<1>1. /\ machine.busSource \in {"proc", "sysfs", "none"}
      /\ machine.busses \in Seq([nr : Nat, named : BOOLEAN,
                                 answer : {"none", "busy", "other", "panel"}])
      /\ machine.pci \in Seq([vga : BOOLEAN,
                              driver : Drivers \cup {NULL}])
      /\ machine.features \in Seq([core : Nat \cup {NoCore}, input : BOOLEAN])
  BY MachinesAssumption
<1>2. /\ Len(machine.busses) \in Nat
      /\ DOMAIN machine.busses = 1 .. Len(machine.busses)
      /\ Len(machine.pci) \in Nat
      /\ DOMAIN machine.pci = 1 .. Len(machine.pci)
      /\ Len(machine.features) \in Nat
      /\ DOMAIN machine.features = 1 .. Len(machine.features)
  BY <1>1
<1>3. /\ \A i \in 1 .. Len(machine.pci) :
           machine.pci[i].driver \in Drivers \cup {NULL}
      /\ \A k \in 1 .. Len(machine.features) :
           machine.features[k].core \in Nat \cup {NoCore}
  <2>1. \A i \in 1 .. Len(machine.pci) :
          machine.pci[i] \in [vga : BOOLEAN, driver : Drivers \cup {NULL}]
    BY <1>1, ElementOfSeq
  <2>2. \A k \in 1 .. Len(machine.features) :
          machine.features[k] \in [core : Nat \cup {NoCore}, input : BOOLEAN]
    BY <1>1, ElementOfSeq
  <2> QED BY <2>1, <2>2
<1> QED BY <1>1, <1>2, <1>3 DEF ListedBusses, Panels, VgaDevices

(* A step of the loop does nothing the invariant speaks of but failing. *)
LEMMA LoopStep ==
  ASSUME Loop
  PROVE  /\ phase = "running" /\ phase' = phase
         /\ UNCHANGED <<machine, overrun, i2c, initialized, sensors, nvml, gpu>>
         /\ Fault \/ UNCHANGED faults
<1>1. CASE get_temperature
  BY <1>1 DEF get_temperature, HandOver, panel
<1>2. CASE get_frequency
  BY <1>2 DEF get_frequency, HandOver, panel
<1>3. CASE get_gpu_temperature
  BY <1>3 DEF get_gpu_temperature, HandOver, panel
<1>4. CASE get_hdd_temperature
  BY <1>4 DEF get_hdd_temperature, HandOver, panel
<1>5. CASE TakeContext
  BY <1>5 DEF TakeContext, panel
<1>6. CASE SetValue
  BY <1>6 DEF SetValue
<1>10. CASE SkipValue
  BY <1>10 DEF SkipValue, panel
<1>7. CASE EndJob
  BY <1>7 DEF EndJob, panel
<1>8. CASE really_store_daemon_postcode
  BY <1>8 DEF really_store_daemon_postcode, panel_store_daemon_postcode
<1>9. CASE Warmer
  BY <1>9 DEF Warmer, panel
<1> QED BY <1>1, <1>2, <1>3, <1>4, <1>5, <1>6, <1>7, <1>8, <1>9, <1>10 DEF Loop

LEMMA Constant ==
  ASSUME Next, faults \in Nat
  PROVE  machine' = machine /\ faults' \in Nat /\ faults' >= faults
<1> SUFFICES machine' = machine /\ (Fault \/ UNCHANGED faults)
  BY DEF Fault
<1>1. CASE ProcessOptions \/ ShowDisks \/ daemonize \/ cleanup
  BY <1>1 DEF ProcessOptions, ShowDisks, daemonize, cleanup
<1>2. CASE I2cStep
  BY <1>2 DEF I2cStep, calloc_adapters, ProcBus, SysfsBus, NextBus, AddAdapter,
     OutOfMemory, GatherDone, TryBus, LookupFinds, LookupFails, LookupCrashes
<1>3. CASE panel_open_i2c \/ panel_reset
  BY <1>3 DEF panel_open_i2c, panel_reset
<1>4. CASE SensorsStep
  BY <1>4 DEF SensorsStep, sensors_show, CoretempFails, CoretempFound,
     SkipFeature, AddFeature, FeatureFails, FeaturesDone
<1>5. CASE NvmlStep
  BY <1>5 DEF NvmlStep, Dlopen, LoadSymbols, OpenSession, GetCount, GetHandle,
     nvmlShutdown, nvml_dll_cleanup, Call, Unwind
<1>6. CASE VgaStep /\ ~SensorsStep /\ ~NvmlStep
  BY <1>6 DEF VgaStep, process_dir, ScanDone, GrowList, WriteName, NamesDone,
     ChooseReader, NvmlReady, NoNvml, nvml_cleanup
<1>7. CASE Loop
  BY <1>7, LoopStep
<1> QED BY <1>1, <1>2, <1>3, <1>4, <1>5, <1>6, <1>7 DEF Next, VgaStep

(* What is defined from the machine alone stays what it is. *)
LEMMA SameMachine ==
  ASSUME machine' = machine
  PROVE  /\ ListedBusses' = ListedBusses /\ Panels' = Panels
         /\ VgaDevices' = VgaDevices /\ (OneVga' <=> OneVga)
         /\ (Given' <=> Given)
BY DEF ListedBusses, Panels, VgaDevices, OneVga, Given

-----------------------------------------------------------------------------
(* The table of adapters.                                                  *)

(* A bus is added at the end. *)
LEMMA Added ==
  ASSUME Typed, adapters # NULL,
         adapters' = [WithSpace(adapters) EXCEPT !.list = Append(@, busIndex)]
  PROVE  /\ adapters' \in [size : Nat, list : Seq(Nat)]
         /\ adapters'.list = Append(adapters.list, busIndex)
         /\ adapters'.size = WithSpace(adapters).size
         /\ adapters.list \in Seq(Nat)
<1>1. adapters \in [size : Nat, list : Seq(Nat)] /\ busIndex \in Nat
  BY DEF Typed
<1>2. /\ WithSpace(adapters).list = adapters.list
      /\ WithSpace(adapters) \in [size : Nat, list : Seq(Nat)]
  BY <1>1, BunchAssumption DEF WithSpace, more_adapters
<1>3. PICK table \in [size : Nat, list : Seq(Nat)] : table = WithSpace(adapters)
  BY <1>2
<1>4. adapters' = [table EXCEPT !.list = Append(@, busIndex)]
  BY <1>3
<1>5. table.list = adapters.list
  BY <1>2, <1>3
<1>6. adapters'.list = Append(table.list, busIndex) /\ adapters'.size = table.size
  BY <1>4
<1>7. Append(table.list, busIndex) \in Seq(Nat)
  BY <1>1, <1>5, AppendProperties
<1>8. adapters' \in [size : Nat, list : Seq(Nat)]
  BY <1>4, <1>7
<1> QED BY <1>1, <1>3, <1>5, <1>6, <1>8

LEMMA NextMultiple ==
  ASSUME NEW b \in Nat \ {0}, NEW n \in Nat, n % b = 0
  PROVE  (n + b) % b = 0
<1>1. n = (n \div b) * b /\ n \div b \in Nat
  OBVIOUS
<1>2. PICK q \in Nat : n = q * b
  BY <1>1
<1>3. n + b = (q + 1) * b
  BY <1>2
<1>4. ((q + 1) * b) % b = 0
  OBVIOUS
<1> QED BY <1>3, <1>4

LEMMA RoomIsLeft ==
  ASSUME Typed, adapters # NULL, RoomLeft(adapters)
  PROVE  LET table == WithSpace(adapters)
         IN  Len(adapters.list) + 1 < table.size /\ table.size % Bunch = 0
<1> DEFINE n == Len(adapters.list) + 1
           size == adapters.size
<1>1. adapters \in [size : Nat, list : Seq(Nat)]
  BY DEF Typed
<1>2. n \in Nat /\ size \in Nat /\ n <= size /\ size % Bunch = 0
  BY <1>1 DEF RoomLeft
<1>3. Bunch \in Nat \ {0}
  BY BunchAssumption
<1>4. CASE n % Bunch = 0
  <2>1. WithSpace(adapters).size = n + Bunch
    BY <1>1, <1>4 DEF WithSpace, more_adapters
  <2>2. (n + Bunch) % Bunch = 0
    <3> HIDE DEF n
    <3> QED BY <1>2, <1>3, <1>4, NextMultiple
  <2>3. Len(adapters.list) + 1 < n + Bunch
    BY <1>2, <1>3
  <2> QED BY <2>1, <2>2, <2>3, Zenon
<1>5. CASE n % Bunch # 0
  <2>1. WithSpace(adapters) = adapters
    BY <1>5 DEF WithSpace
  <2>2. n # size
    BY <1>2, <1>5
  <2> QED BY <1>2, <2>1, <2>2
<1> QED BY <1>4, <1>5

LEMMA AddedInOrder ==
  ASSUME NEW old \in Seq(Nat), NEW b \in ListedBusses, b \in Nat,
         ListedBusses \subseteq Nat, InOrder(old), ListsUpTo(old, b)
  PROVE  InOrder(Append(old, b)) /\ ListsUpTo(Append(old, b), b + 1)
<1> DEFINE n == Len(old)
<1>1. PICK new \in Seq(Nat) : new = Append(old, b)
  BY AppendProperties
<1>2. /\ n \in Nat /\ Len(new) = n + 1
      /\ \A k \in 1 .. n : new[k] = old[k] /\ old[k] \in Nat
      /\ new[n + 1] = b
  BY <1>1, AppendProperties, ElementOfSeq
<1>3. /\ \A k \in 1 .. n : old[k] \in ListedBusses /\ old[k] < b
      /\ \A i \in ListedBusses : i < b => \E k \in 1 .. n : old[k] = i
      /\ \A j, k \in 1 .. n : j < k => old[j] < old[k]
  BY DEF ListsUpTo, InOrder
<1> HIDE DEF n
<1>4. \A k \in 1 .. n + 1 : k \in 1 .. n \/ k = n + 1
  BY <1>2
<1>5. \A k \in 1 .. n : k \in 1 .. n + 1 /\ k < n + 1
  BY <1>2
<1>6. \A j, k \in 1 .. n + 1 : j < k => new[j] < new[k]
  <2> SUFFICES ASSUME NEW j \in 1 .. n + 1, NEW k \in 1 .. n + 1, j < k
               PROVE  new[j] < new[k]
    OBVIOUS
  <2>1. j \in 1 .. n
    BY <1>2
  <2>2. CASE k \in 1 .. n
    BY <1>2, <1>3, <2>1, <2>2
  <2>3. CASE k = n + 1
    BY <1>2, <1>3, <2>1, <2>3
  <2> QED BY <1>4, <2>2, <2>3
<1>7. \A k \in 1 .. n + 1 : new[k] \in ListedBusses /\ new[k] < b + 1
  <2>1. ASSUME NEW k \in 1 .. n PROVE new[k] \in ListedBusses /\ new[k] < b + 1
    <3>1. new[k] = old[k] /\ old[k] \in Nat
      BY <1>2
    <3>2. old[k] \in ListedBusses /\ old[k] < b
      BY <1>3
    <3>3. old[k] < b + 1
      BY <3>1, <3>2
    <3> QED BY <3>1, <3>2, <3>3
  <2> QED BY <1>2, <1>4, <2>1
<1>8. ASSUME NEW i \in ListedBusses, i < b + 1
      PROVE  \E k \in 1 .. n + 1 : new[k] = i
  <2>1. CASE i = b
    BY <1>2, <2>1
  <2>2. CASE i < b
    <3>1. PICK k \in 1 .. n : old[k] = i
      BY <1>3, <2>2
    <3> QED BY <1>2, <1>5, <3>1
  <2> QED BY <1>8, <2>1, <2>2
<1>9. Len(new) = n + 1
  BY <1>2
<1> QED BY <1>1, <1>6, <1>7, <1>8, <1>9 DEF InOrder, ListsUpTo

-----------------------------------------------------------------------------
(* What a step elsewhere leaves alone.                                     *)

LEMMA NotOfTheGpu ==
  ASSUME IInv, machine' = machine, UNCHANGED <<sensors, nvml, gpu>>,
         phase \in BeforePanel \cup {"reset"},
         phase' \in BeforePanel \cup {"reset", "coretemp", "exited"},
         overrun' \subseteq overrun \cup {"adapters"}
  PROVE  NamesFit' /\ NoDriverLost' /\ SensorsHold' /\ ReaderReady'
<1>1. /\ device' = device /\ size_left' = size_left /\ toWrite' = toWrite
      /\ nvml' = nvml /\ registered' = registered
  BY DEF gpu
<1>2. NamesFit'
  BY <1>1, SameMachine DEF IInv, NamesFit, BeforePanel
<1>3. NoDriverLost'
  BY DEF NoDriverLost, BeforePanel
<1>4. SensorsHold'
  BY DEF IInv, SensorsHold
<1>5. ReaderReady'
  BY <1>1 DEF IInv, ReaderReady, Loading, BeforePanel
<1> QED BY <1>2, <1>3, <1>4, <1>5

LEMMA NotOfThePanel ==
  ASSUME IInv, machine' = machine, faults' \in Nat, faults' >= faults,
         UNCHANGED <<i2c, initialized>>,
         phase \notin BeforePanel, phase' \notin BeforePanel, Serving' => Serving,
         "adapters" \in overrun' => "adapters" \in overrun
  PROVE  AdaptersHold' /\ LookupProgress' /\ PanelOpen'
<1>1. /\ adapters' = adapters /\ descriptors' = descriptors /\ i2c_bus' = i2c_bus
      /\ initialized' = initialized
  BY DEF i2c
<1>2. AdaptersHold'
  BY <1>1 DEF IInv, AdaptersHold, RoomLeft, InOrder, BeforePanel
<1>3. LookupProgress'
  BY DEF LookupProgress, BeforePanel
<1>4. BusFound' <=> BusFound
  BY <1>1, SameMachine DEF BusFound
<1>5. PanelOpen'
  BY <1>1, <1>4 DEF IInv, PanelOpen
<1> QED BY <1>2, <1>3, <1>5

-----------------------------------------------------------------------------
(* Up to the panel.                                                        *)

LEMMA ProcessOptionsKeeps == IInv /\ ProcessOptions => IInv'
<1> SUFFICES ASSUME IInv, ProcessOptions PROVE IInv'
  OBVIOUS
<1>1. /\ phase = "start" /\ phase' \in {"names", "daemonize", "gather"}
      /\ machine' = machine /\ faults' = faults /\ overrun' = overrun
      /\ adapters' = adapters /\ busIndex' = busIndex /\ descriptors' = descriptors
      /\ initialized' = initialized /\ UNCHANGED <<sensors, nvml, gpu>>
      /\ phase' = "names" <=> "info" \in machine.options
      /\ phase' = "daemonize" => Given
  BY DEF ProcessOptions, Given, panel
<1>2. /\ device' = device /\ feature' = feature /\ size_left' = size_left
      /\ toWrite' = toWrite /\ name_list' = name_list
      /\ nvml' = nvml /\ registered' = registered
  BY <1>1 DEF gpu, sensors
<1>3. Typed'
  BY <1>1, <1>2 DEF IInv, Typed
<1>4. AdaptersHold'
  BY <1>1 DEF IInv, AdaptersHold, RoomLeft, InOrder
<1>5. LookupProgress'
  BY <1>1, SameMachine DEF LookupProgress, BusFound
<1>6. PanelOpen'
  BY <1>1 DEF IInv, PanelOpen, Serving, BeforePanel, AfterPanel
<1>7. NamesFit'
  <2>1. device = 1 /\ size_left = 16 /\ toWrite = <<"none">>
    BY <1>1 DEF IInv, NamesFit, BeforePanel
  <2>2. \A i \in VgaDevices : i >= 1
    BY MachineIs DEF IInv, Typed
  <2> QED BY <1>1, <1>2, <2>1, <2>2, SameMachine DEF IInv, NamesFit
<1>8. NoDriverLost'
  <2>1. device = 1
    BY <1>1 DEF IInv, NamesFit, BeforePanel
  <2>2. \A i \in VgaDevices : ~(i < 1)
    BY MachineIs DEF IInv, Typed
  <2> QED BY <1>1, <1>2, <2>1, <2>2, SameMachine DEF NoDriverLost
<1>9. SensorsHold'
  BY <1>1 DEF IInv, SensorsHold
<1>10. ReaderReady'
  BY <1>1, <1>2 DEF IInv, ReaderReady, Loading
<1> QED BY <1>3, <1>4, <1>5, <1>6, <1>7, <1>8, <1>9, <1>10 DEF IInv

(* A step of the lookup ends in one of its phases. *)
LEMMA I2cMoves ==
  ASSUME I2cStep
  PROVE  /\ phase \in {"gather", "read busses", "lookup"}
         /\ phase' \in {"read busses", "lookup", "daemonize", "no panel", "crashed"}
         /\ machine' = machine /\ descriptors' = descriptors
         /\ overrun' \subseteq overrun \cup {"adapters"}
<1>1. AddAdapter => /\ phase' \in {phase, "lookup"}
                    /\ overrun' \subseteq overrun \cup {"adapters"}
  BY DEF AddAdapter, OutOfMemory, Walked
<1>2. CASE calloc_adapters
  BY <1>2 DEF calloc_adapters, Goto
<1>3. CASE ProcBus
  BY <1>1, <1>3 DEF ProcBus, NextBus
<1>4. CASE SysfsBus
  BY <1>1, <1>4 DEF SysfsBus, NextBus
<1>5. CASE GatherDone
  BY <1>5 DEF GatherDone, Goto
<1>6. CASE TryBus
  BY <1>6 DEF TryBus
<1>7. CASE LookupFinds
  BY <1>7 DEF LookupFinds, Goto, Walked
<1>8. CASE LookupFails
  BY <1>8 DEF LookupFails, Goto, Walked
<1>9. CASE LookupCrashes
  BY <1>9 DEF LookupCrashes, Goto, i2c
<1> QED BY <1>2, <1>3, <1>4, <1>5, <1>6, <1>7, <1>8, <1>9 DEF I2cStep

(* The loops over the table find its unused entry. *)
LEMMA WalkIsSafe ==
  ASSUME IInv, adapters # NULL PROVE Walked = overrun
BY DEF IInv, AdaptersHold, RoomLeft, Walked, Adapters

(* What has been read, as facts of their own. *)
LEMMA Reading ==
  IInv => /\ "adapters" \notin overrun /\ faults \in Nat
          /\ busIndex \in Nat \ {0}
          /\ Len(machine.busses) \in Nat
          /\ DOMAIN machine.busses = 1 .. Len(machine.busses)
          /\ \A i \in ListedBusses : i \in Nat \ {0} /\ i <= Len(machine.busses)
          /\ adapters \in {NULL} \cup [size : Nat, list : Seq(Nat)]
          /\ phase = "read busses" =>
               /\ adapters # NULL /\ adapters \in [size : Nat, list : Seq(Nat)]
               /\ RoomLeft(adapters) /\ InOrder(adapters.list)
               /\ ListsUpTo(adapters.list, busIndex)
               /\ busIndex <= Len(machine.busses) + 1
<1>1. IInv => machine \in Machines
  BY DEF IInv, Typed
<1>2. IInv => /\ "adapters" \notin overrun /\ faults \in Nat
              /\ busIndex \in Nat \ {0}
              /\ adapters \in {NULL} \cup [size : Nat, list : Seq(Nat)]
  BY DEF IInv, Typed, AdaptersHold
<1>3. IInv /\ phase = "read busses" =>
         /\ adapters # NULL /\ adapters \in [size : Nat, list : Seq(Nat)]
         /\ RoomLeft(adapters) /\ InOrder(adapters.list)
         /\ ListsUpTo(adapters.list, busIndex)
         /\ busIndex <= Len(machine.busses) + 1
  BY DEF IInv, Typed, AdaptersHold, LookupProgress
<1>4. machine \in Machines =>
         /\ Len(machine.busses) \in Nat
         /\ DOMAIN machine.busses = 1 .. Len(machine.busses)
         /\ \A i \in ListedBusses : i \in Nat \ {0} /\ i <= Len(machine.busses)
  BY MachineIs
<1> QED BY <1>1, <1>2, <1>3, <1>4

(* The bus that is read next is added, or there is no memory for it. *)
LEMMA AddAdapterKeeps ==
  IInv /\ phase = "read busses" /\ AddAdapter /\ machine' = machine
    /\ busIndex \in ListedBusses /\ busIndex' = busIndex + 1
  => AdaptersHold' /\ LookupProgress'
<1>0. SUFFICES ASSUME IInv, phase = "read busses", AddAdapter, machine' = machine,
                      busIndex \in ListedBusses, busIndex' = busIndex + 1
               PROVE  AdaptersHold' /\ LookupProgress'
  OBVIOUS
<1>1. /\ adapters # NULL /\ adapters \in [size : Nat, list : Seq(Nat)]
      /\ RoomLeft(adapters) /\ InOrder(adapters.list)
      /\ ListsUpTo(adapters.list, busIndex) /\ busIndex \in Nat
      /\ "adapters" \notin overrun /\ faults \in Nat /\ adapters.list \in Seq(Nat)
  BY <1>0, Reading
<1>2. /\ \A i \in ListedBusses : i \in Nat
      /\ Len(machine.busses) \in Nat /\ busIndex <= Len(machine.busses)
  BY <1>0, Reading
<1>3. CASE OutOfMemory
  <2>1. Walked = overrun
    BY <1>0, <1>1, WalkIsSafe
  <2>2. phase' = "lookup" /\ adapters' = NULL /\ overrun' = overrun
    BY <1>3, <2>1 DEF OutOfMemory
  <2>3. faults' > 0
    BY <1>1, <1>3 DEF OutOfMemory, Fault
  <2>4. AdaptersHold'
    BY <1>1, <2>2 DEF AdaptersHold
  <2>5. LookupProgress'
    BY <2>2, <2>3 DEF LookupProgress
  <2> QED BY <2>4, <2>5
<1>4. CASE /\ adapters' = [WithSpace(adapters) EXCEPT !.list = Append(@, busIndex)]
           /\ overrun' = IF Adapters < WithSpace(adapters).size THEN overrun
                         ELSE overrun \cup {"adapters"}
           /\ UNCHANGED <<phase, faults>>
  <2>t. Typed
    BY <1>0 DEF IInv
  <2>1. /\ adapters' \in [size : Nat, list : Seq(Nat)]
        /\ adapters'.list = Append(adapters.list, busIndex)
        /\ adapters'.size = WithSpace(adapters).size
    BY <1>1, <1>4, <2>t, Added
  <2>2. /\ Len(adapters.list) + 1 < WithSpace(adapters).size
        /\ WithSpace(adapters).size % Bunch = 0
    BY <1>1, <2>t, RoomIsLeft
  <2>3. overrun' = overrun
    <3>1. /\ Len(adapters.list) \in Nat
          /\ Len(adapters.list) + 1 < adapters'.size /\ adapters'.size \in Nat
      BY <1>1, <2>1, <2>2
    <3>2. Adapters < WithSpace(adapters).size
      BY <2>1, <3>1 DEF Adapters
    <3> QED BY <1>4, <3>2
  <2>4. RoomLeft(adapters')
    <3>1. Len(adapters'.list) = Len(adapters.list) + 1
      BY <1>1, <2>1, AppendProperties
    <3> QED BY <2>1, <2>2, <3>1 DEF RoomLeft
  <2>5. InOrder(adapters'.list) /\ ListsUpTo(adapters'.list, busIndex + 1)
    <3>1. ListedBusses \subseteq Nat
      BY <1>2
    <3>2. /\ InOrder(Append(adapters.list, busIndex))
          /\ ListsUpTo(Append(adapters.list, busIndex), busIndex + 1)
      BY <1>0, <1>1, <3>1, AddedInOrder
    <3> QED BY <2>1, <3>2
  <2>6. adapters' # NULL
    BY <2>1, BunchAssumption
  <2>7. AdaptersHold'
    BY <1>1, <2>3, <2>4, <2>5, <2>6 DEF AdaptersHold, RoomLeft, InOrder
  <2>8. phase' = "read busses" /\ machine' = machine /\ ListedBusses' = ListedBusses
    BY <1>0, <1>4, SameMachine
  <2>9. busIndex' = busIndex + 1 /\ busIndex + 1 <= Len(machine.busses) + 1
    <3>1. busIndex \in Nat /\ Len(machine.busses) \in Nat
          /\ busIndex <= Len(machine.busses)
      BY <1>1, <1>2, Zenon
    <3>2. busIndex + 1 <= Len(machine.busses) + 1
      BY <3>1
    <3> QED BY <1>0, <3>2, Zenon
  <2>10. (ListsUpTo(adapters.list, busIndex))'
    BY <2>5, <2>8, <2>9 DEF ListsUpTo
  <2>11. LookupProgress'
    BY <2>8, <2>9, <2>10 DEF LookupProgress
  <2> QED BY <2>7, <2>11
<1> QED BY <1>0, <1>3, <1>4 DEF AddAdapter

LEMMA AddAdapterTyped ==
  ASSUME Typed, adapters # NULL, AddAdapter
  PROVE  adapters' \in {NULL} \cup [size : Nat, list : Seq(Nat)]
<1>1. CASE OutOfMemory
  BY <1>1 DEF OutOfMemory
<1>2. CASE adapters' = [WithSpace(adapters) EXCEPT !.list = Append(@, busIndex)]
  BY <1>2, Added
<1> QED BY <1>1, <1>2 DEF AddAdapter

LEMMA callocKeeps == IInv /\ calloc_adapters => AdaptersHold' /\ LookupProgress'
<1>0. SUFFICES ASSUME IInv, calloc_adapters PROVE AdaptersHold' /\ LookupProgress'
  OBVIOUS
<1>1. overrun' = overrun /\ machine' = machine /\ busIndex' = 1
  BY <1>0 DEF calloc_adapters
<1>r. /\ "adapters" \notin overrun /\ faults \in Nat
      /\ busIndex \in Nat \ {0} /\ Len(machine.busses) \in Nat
      /\ DOMAIN machine.busses = 1 .. Len(machine.busses)
      /\ \A i \in ListedBusses : i \in Nat \ {0} /\ i <= Len(machine.busses)
  BY <1>0, Reading, Zenon
<1>2. CASE Goto("gather", "lookup") /\ Fault /\ adapters' = NULL
  <2>1. phase' = "lookup"
    BY <1>2 DEF Goto
  <2>2. faults' > 0
    BY <1>r, <1>2 DEF Fault
  <2>4. AdaptersHold'
    BY <1>1, <1>2, <1>r, <2>1 DEF AdaptersHold
  <2>5. LookupProgress'
    BY <1>2, <2>1, <2>2 DEF LookupProgress
  <2> QED BY <2>4, <2>5
<1>3. CASE Goto("gather", "read busses") /\ adapters' = [size |-> Bunch, list |-> <<>>]
  <2>1. phase' = "read busses"
    BY <1>3 DEF Goto
  <2>2. adapters'.list = <<>> /\ adapters'.size = Bunch /\ Len(<<>>) = 0
    BY <1>3
  <2>3. adapters' # NULL
    <3>1. [size |-> Bunch, list |-> <<>>] \in [size : Nat, list : Seq(Nat)]
      BY BunchAssumption
    <3> QED BY <1>3, <3>1, BunchAssumption
  <2>4. Bunch % Bunch = 0 /\ 0 < Bunch
    BY BunchAssumption
  <2>5. 1 .. 0 = {}
    OBVIOUS
  <2>6. RoomLeft(adapters') /\ InOrder(adapters'.list)
    BY <2>2, <2>4, <2>5 DEF RoomLeft, InOrder
  <2>7. AdaptersHold'
    <3>1. "adapters" \notin overrun'
      BY <1>1, <1>r
    <3> QED BY <2>3, <2>6, <3>1, Zenon DEF AdaptersHold
  <2>8. \A i \in ListedBusses : ~(i < 1)
    BY <1>r
  <2>9. (ListsUpTo(adapters.list, busIndex))'
    <3>1. ListedBusses' = ListedBusses
      BY <1>1, SameMachine
    <3> QED BY <1>1, <2>2, <2>5, <2>8, <3>1 DEF ListsUpTo
  <2>10. 1 <= Len(machine.busses) + 1
    BY <1>r
  <2>11. LookupProgress'
    BY <1>1, <2>1, <2>9, <2>10 DEF LookupProgress
  <2> QED BY <2>7, <2>11
<1> QED BY <1>0, <1>2, <1>3 DEF calloc_adapters

LEMMA BusKeeps == IInv /\ (ProcBus \/ SysfsBus) => AdaptersHold' /\ LookupProgress'
<1>0. SUFFICES ASSUME IInv, ProcBus \/ SysfsBus PROVE AdaptersHold' /\ LookupProgress'
  OBVIOUS
<1>1. /\ phase = "read busses" /\ machine' = machine
      /\ machine.busSource \in {"proc", "sysfs"}
      /\ busIndex <= Len(machine.busses) /\ busIndex' = busIndex + 1
  BY <1>0 DEF ProcBus, SysfsBus, NextBus
<1>2. /\ \/ AddAdapter /\ (machine.busSource = "proc" \/ machine.busses[busIndex].named)
         \/ /\ UNCHANGED <<adapters, overrun, phase, faults>>
            /\ machine.busSource = "sysfs" /\ ~machine.busses[busIndex].named
  BY <1>0 DEF ProcBus, SysfsBus, NextBus
<1>r. /\ "adapters" \notin overrun /\ faults \in Nat
      /\ busIndex \in Nat \ {0} /\ Len(machine.busses) \in Nat
      /\ DOMAIN machine.busses = 1 .. Len(machine.busses)
      /\ \A i \in ListedBusses : i \in Nat \ {0} /\ i <= Len(machine.busses)
  BY <1>0, Reading, Zenon
<1>3. busIndex \in DOMAIN machine.busses
  <2>1. busIndex <= Len(machine.busses)
    BY <1>1, Zenon
  <2> QED BY <1>r, <2>1
<1>4. CASE AddAdapter /\ (machine.busSource = "proc" \/ machine.busses[busIndex].named)
  <2>1. busIndex \in ListedBusses
    BY <1>1, <1>3, <1>4 DEF ListedBusses
  <2> QED BY <1>0, <1>1, <1>4, <2>1, AddAdapterKeeps
<1>5. CASE /\ UNCHANGED <<adapters, overrun, phase, faults>>
           /\ machine.busSource = "sysfs" /\ ~machine.busses[busIndex].named
  <2>1. busIndex \notin ListedBusses
    BY <1>5 DEF ListedBusses
  <2>2. AdaptersHold'
    BY <1>0, <1>5 DEF IInv, AdaptersHold, RoomLeft, InOrder
  <2>3. ListsUpTo(adapters.list, busIndex)
    BY <1>0, <1>1, Reading, Zenon
  <2>4. \A i \in ListedBusses : i < busIndex + 1 <=> i < busIndex
    BY <1>r, <2>1
  <2>5. ListsUpTo(adapters.list, busIndex + 1)
    BY <2>3, <2>4 DEF ListsUpTo
  <2>6. (ListsUpTo(adapters.list, busIndex))'
    BY <1>1, <1>5, <2>5, SameMachine DEF ListsUpTo
  <2>7. busIndex + 1 <= Len(machine.busses) + 1
    <3>1. busIndex <= Len(machine.busses)
      BY <1>1, Zenon
    <3> QED BY <1>r, <3>1
  <2>8. LookupProgress'
    BY <1>1, <1>5, <2>6, <2>7 DEF LookupProgress
  <2> QED BY <2>2, <2>8
<1> QED BY <1>2, <1>4, <1>5

LEMMA GatherDoneKeeps == IInv /\ GatherDone => AdaptersHold' /\ LookupProgress'
<1>0. SUFFICES ASSUME IInv, GatherDone PROVE AdaptersHold' /\ LookupProgress'
  OBVIOUS
<1>1. /\ phase = "read busses" /\ phase' = "lookup" /\ busIndex' = 1
      /\ machine' = machine /\ adapters' = adapters /\ overrun' = overrun
      /\ machine.busSource = "none" \/ busIndex > Len(machine.busses)
  BY <1>0 DEF GatherDone, Goto
<1>2. AdaptersHold'
  BY <1>0, <1>1 DEF IInv, AdaptersHold, RoomLeft, InOrder
<1>r. /\ "adapters" \notin overrun /\ faults \in Nat
      /\ busIndex \in Nat \ {0} /\ Len(machine.busses) \in Nat
      /\ DOMAIN machine.busses = 1 .. Len(machine.busses)
      /\ \A i \in ListedBusses : i \in Nat \ {0} /\ i <= Len(machine.busses)
  BY <1>0, Reading, Zenon
<1>3. ListsUpTo(adapters.list, busIndex) /\ adapters # NULL /\ Len(adapters.list) \in Nat
  <2>1. /\ ListsUpTo(adapters.list, busIndex) /\ adapters # NULL
        /\ adapters \in [size : Nat, list : Seq(Nat)]
    BY <1>0, <1>1, Reading, Zenon
  <2>2. Len(adapters.list) \in Nat
    BY <2>1
  <2> QED BY <2>1, <2>2
<1>4. \A i \in ListedBusses : i < busIndex /\ i < Len(machine.busses) + 1
  <2>1. CASE machine.busSource = "none"
    BY <2>1 DEF ListedBusses
  <2>2. CASE busIndex > Len(machine.busses)
    BY <1>r, <2>2
  <2> QED BY <1>1, <2>1, <2>2
<1>5. ListsUpTo(adapters.list, Len(machine.busses) + 1)
  BY <1>3, <1>4 DEF ListsUpTo
<1>6. (ListsUpTo(adapters.list, Len(machine.busses) + 1))'
  BY <1>1, <1>5, SameMachine DEF ListsUpTo
<1>7. 1 <= Len(adapters.list) + 1 /\ 1 .. 1 - 1 = {}
  BY <1>3
<1>8. LookupProgress'
  BY <1>1, <1>3, <1>6, <1>7 DEF LookupProgress
<1> QED BY <1>2, <1>8

(* The busses before busIndex are not the panel's: the first one that is   *)
(* comes next, or there is none.                                           *)
LEMMA Looked ==
  IInv /\ phase = "lookup" /\ adapters # NULL =>
    /\ adapters \in [size : Nat, list : Seq(Nat)] /\ Len(adapters.list) \in Nat
    /\ busIndex \in Nat \ {0}
    /\ InOrder(adapters.list) /\ Walked = overrun
    /\ \A k \in 1 .. Len(adapters.list) :
         adapters.list[k] \in ListedBusses /\ adapters.list[k] \in Nat
    /\ \A i \in ListedBusses : \E k \in 1 .. Len(adapters.list) : adapters.list[k] = i
    /\ \A k \in 1 .. busIndex - 1 : adapters.list[k] \notin Panels
<1>0. SUFFICES ASSUME IInv, phase = "lookup", adapters # NULL
               PROVE  /\ adapters \in [size : Nat, list : Seq(Nat)]
                      /\ Len(adapters.list) \in Nat
                      /\ busIndex \in Nat \ {0}
                      /\ InOrder(adapters.list) /\ Walked = overrun
                      /\ \A k \in 1 .. Len(adapters.list) :
                           adapters.list[k] \in ListedBusses /\ adapters.list[k] \in Nat
                      /\ \A i \in ListedBusses :
                           \E k \in 1 .. Len(adapters.list) : adapters.list[k] = i
                      /\ \A k \in 1 .. busIndex - 1 : adapters.list[k] \notin Panels
  OBVIOUS
<1>1. adapters \in [size : Nat, list : Seq(Nat)] /\ busIndex \in Nat \ {0}
  BY <1>0 DEF IInv, Typed
<1>2. InOrder(adapters.list) /\ Walked = overrun
  BY <1>0, WalkIsSafe DEF IInv, AdaptersHold
<1>3. /\ ListsUpTo(adapters.list, Len(machine.busses) + 1)
      /\ \A k \in 1 .. busIndex - 1 : adapters.list[k] \notin Panels
  BY <1>0 DEF IInv, LookupProgress
<1>4. /\ \A i \in ListedBusses : i \in Nat \ {0} /\ i <= Len(machine.busses)
      /\ Len(machine.busses) \in Nat
  BY <1>0, Reading, Zenon
<1>5. \A i \in ListedBusses : i < Len(machine.busses) + 1
  BY <1>4
<1>6. /\ \A k \in 1 .. Len(adapters.list) :
           adapters.list[k] \in ListedBusses /\ adapters.list[k] \in Nat
      /\ \A i \in ListedBusses : \E k \in 1 .. Len(adapters.list) : adapters.list[k] = i
  BY <1>3, <1>4, <1>5 DEF ListsUpTo
<1>7. Len(adapters.list) \in Nat
  BY <1>1
<1> QED BY <1>1, <1>2, <1>3, <1>6, <1>7, Zenon

LEMMA TryBusKeeps == IInv /\ TryBus => AdaptersHold' /\ LookupProgress'
<1>0. SUFFICES ASSUME IInv, TryBus PROVE AdaptersHold' /\ LookupProgress'
  OBVIOUS
<1>1. /\ phase = "lookup" /\ phase' = "lookup" /\ adapters # NULL
      /\ machine' = machine /\ adapters' = adapters /\ overrun' = overrun
      /\ faults' = faults
  BY <1>0 DEF TryBus
<1>2. busIndex <= Len(adapters.list) /\ busIndex' = busIndex + 1
  BY <1>0 DEF TryBus, Adapters
<1>3. machine.busses[adapters.list[busIndex]].answer # "panel"
  BY <1>0 DEF TryBus, Adapter
<1>4. /\ busIndex \in Nat \ {0} /\ Len(adapters.list) \in Nat
      /\ \A k \in 1 .. busIndex - 1 : adapters.list[k] \notin Panels
  BY <1>0, <1>1, Looked, Zenon
<1>5. AdaptersHold'
  BY <1>0, <1>1 DEF IInv, AdaptersHold, RoomLeft, InOrder
<1>6. adapters.list[busIndex] \notin Panels
  BY <1>3 DEF Panels
<1>7. \A k \in 1 .. busIndex : adapters.list[k] \notin Panels
  <2>1. \A k \in 1 .. busIndex : k \in 1 .. busIndex - 1 \/ k = busIndex
    BY <1>4
  <2> QED BY <1>4, <1>6, <2>1
<1>8. /\ busIndex + 1 <= Len(adapters.list) + 1
      /\ 1 .. (busIndex + 1) - 1 = 1 .. busIndex
  BY <1>2, <1>4
<1>9. ListsUpTo(adapters.list, Len(machine.busses) + 1)
  BY <1>0, <1>1 DEF IInv, LookupProgress
<1>10. (ListsUpTo(adapters.list, Len(machine.busses) + 1))' /\ Panels' = Panels
  BY <1>1, <1>9, SameMachine DEF ListsUpTo
<1>11. LookupProgress'
  BY <1>1, <1>2, <1>7, <1>8, <1>10 DEF LookupProgress
<1> QED BY <1>5, <1>11

(* The first entry with the panel's signature is that of the first bus.    *)
LEMMA LookupFindsKeeps ==
  IInv /\ LookupFinds => AdaptersHold' /\ LookupProgress' /\ BusFound'
<1>0. SUFFICES ASSUME IInv, LookupFinds
               PROVE  AdaptersHold' /\ LookupProgress' /\ BusFound'
  OBVIOUS
<1>1. /\ phase = "lookup" /\ phase' = "daemonize" /\ adapters # NULL
      /\ machine' = machine /\ adapters' = NULL /\ overrun' = Walked
  BY <1>0 DEF LookupFinds, Goto
<1>2. busIndex <= Len(adapters.list)
  BY <1>0 DEF LookupFinds, Adapters
<1>3. /\ machine.busses[adapters.list[busIndex]].answer = "panel"
      /\ i2c_bus' = machine.busses[adapters.list[busIndex]].nr
  BY <1>0 DEF LookupFinds, Adapter
<1>4. /\ adapters \in [size : Nat, list : Seq(Nat)] /\ Len(adapters.list) \in Nat
      /\ busIndex \in Nat \ {0}
      /\ InOrder(adapters.list) /\ Walked = overrun
      /\ \A k \in 1 .. Len(adapters.list) :
           adapters.list[k] \in ListedBusses /\ adapters.list[k] \in Nat
      /\ \A i \in ListedBusses : \E k \in 1 .. Len(adapters.list) : adapters.list[k] = i
      /\ \A k \in 1 .. busIndex - 1 : adapters.list[k] \notin Panels
  BY <1>0, <1>1, Looked, Zenon
<1>5. AdaptersHold'
  <2>1. "adapters" \notin overrun
    BY <1>0, Reading, Zenon
  <2> QED BY <1>1, <1>4, <2>1 DEF AdaptersHold
<1> DEFINE first == adapters.list[busIndex]
<1>6. busIndex \in 1 .. Len(adapters.list)
  BY <1>2, <1>4
<1>7. first \in Panels /\ first \in Nat
  BY <1>3, <1>4, <1>6 DEF Panels
<1>8. ASSUME NEW i \in Panels PROVE first <= i
  <2>1. PICK k \in 1 .. Len(adapters.list) : adapters.list[k] = i
    BY <1>4 DEF Panels
  <2>2. k \notin 1 .. busIndex - 1
    BY <1>4, <2>1
  <2>3. busIndex = k \/ busIndex < k
    BY <1>4, <1>6, <2>2
  <2>4. CASE busIndex = k
    BY <1>7, <2>1, <2>4
  <2>5. CASE busIndex < k
    <3>1. adapters.list[busIndex] < adapters.list[k]
      BY <1>4, <1>6, <2>5 DEF InOrder
    <3>2. i \in Nat
      BY <1>4, <2>1
    <3> QED BY <1>7, <2>1, <3>1, <3>2
  <2> QED BY <2>3, <2>4, <2>5
<1> HIDE DEF first
<1>9. BusFound'
  <2>1. i2c_bus' = machine'.busses[first].nr /\ Panels' = Panels
    BY <1>1, <1>3, SameMachine DEF first
  <2> QED BY <1>7, <1>8, <2>1 DEF BusFound
<1>10. LookupProgress'
  BY <1>1, <1>9 DEF LookupProgress
<1> QED BY <1>5, <1>9, <1>10

LEMMA LookupEndsKeeps ==
  IInv /\ (LookupFails \/ LookupCrashes) => AdaptersHold' /\ LookupProgress'
<1>0. SUFFICES ASSUME IInv, LookupFails \/ LookupCrashes
               PROVE  AdaptersHold' /\ LookupProgress'
  OBVIOUS
<1>1. CASE LookupFails
  <2>1. /\ phase = "lookup" /\ phase' = "no panel" /\ adapters # NULL
        /\ machine' = machine /\ adapters' = NULL /\ overrun' = Walked
    BY <1>1 DEF LookupFails, Goto
  <2>2. busIndex > Len(adapters.list)
    BY <1>1 DEF LookupFails, Adapters
  <2>3. /\ busIndex \in Nat \ {0} /\ Len(adapters.list) \in Nat /\ Walked = overrun
        /\ \A i \in ListedBusses : \E k \in 1 .. Len(adapters.list) : adapters.list[k] = i
        /\ \A k \in 1 .. busIndex - 1 : adapters.list[k] \notin Panels
    BY <1>0, <2>1, Looked, Zenon
  <2>4. Panels = {}
    <3>1. \A k \in 1 .. Len(adapters.list) : k \in 1 .. busIndex - 1
      BY <2>2, <2>3
    <3>2. \A i \in Panels : i \in ListedBusses
      BY DEF Panels
    <3> QED BY <2>3, <3>1, <3>2
  <2>5. AdaptersHold'
    <3>1. "adapters" \notin overrun
      BY <1>0, Reading, Zenon
    <3> QED BY <2>1, <2>3, <3>1 DEF AdaptersHold
  <2>6. LookupProgress'
    BY <2>1, <2>4, SameMachine DEF LookupProgress
  <2> QED BY <2>5, <2>6
<1>2. CASE LookupCrashes
  <2>1. /\ phase = "lookup" /\ phase' = "crashed" /\ adapters = NULL
        /\ adapters' = adapters /\ overrun' = overrun /\ faults' = faults
    BY <1>2 DEF LookupCrashes, Goto, i2c
  <2>2. faults > 0
    BY <1>0, <2>1 DEF IInv, LookupProgress
  <2>3. AdaptersHold'
    BY <1>0, <2>1 DEF IInv, AdaptersHold, RoomLeft, InOrder
  <2>4. LookupProgress'
    BY <2>1, <2>2 DEF LookupProgress
  <2> QED BY <2>3, <2>4
<1> QED BY <1>0, <1>1, <1>2

LEMMA I2cTyped ==
  IInv /\ I2cStep => /\ adapters' \in {NULL} \cup [size : Nat, list : Seq(Nat)]
                     /\ busIndex' \in Nat \ {0}
<1>0. SUFFICES ASSUME IInv, I2cStep
               PROVE  /\ adapters' \in {NULL} \cup [size : Nat, list : Seq(Nat)]
                      /\ busIndex' \in Nat \ {0}
  OBVIOUS
<1>t. Typed
  BY <1>0 DEF IInv
<1>a. /\ adapters \in {NULL} \cup [size : Nat, list : Seq(Nat)]
      /\ phase = "read busses" => adapters # NULL
  BY <1>0, Reading, Zenon
<1>b. busIndex \in Nat \ {0}
  BY <1>0, Reading, Zenon
<1>c. busIndex + 1 \in Nat \ {0} /\ 1 \in Nat \ {0}
  BY <1>b
<1>2. CASE calloc_adapters
  <2>1. [size |-> Bunch, list |-> <<>>] \in [size : Nat, list : Seq(Nat)]
    BY BunchAssumption
  <2>2. busIndex' = 1
    BY <1>2 DEF calloc_adapters
  <2>3. adapters' = NULL \/ adapters' = [size |-> Bunch, list |-> <<>>]
    BY <1>2 DEF calloc_adapters
  <2> QED BY <1>c, <2>1, <2>2, <2>3, Zenon
<1>3. CASE ProcBus \/ SysfsBus
  <2>1. phase = "read busses" /\ busIndex' = busIndex + 1
        /\ (AddAdapter \/ adapters' = adapters)
    BY <1>3 DEF ProcBus, SysfsBus, NextBus
  <2>2. AddAdapter => adapters' \in {NULL} \cup [size : Nat, list : Seq(Nat)]
    BY <1>t, <1>a, <2>1, AddAdapterTyped, Zenon
  <2> QED BY <1>a, <1>c, <2>1, <2>2, Zenon
<1>4. CASE GatherDone
  <2>1. busIndex' = 1 /\ adapters' = adapters
    BY <1>4 DEF GatherDone
  <2> QED BY <1>a, <1>c, <2>1, Zenon
<1>5. CASE TryBus
  <2>1. busIndex' = busIndex + 1 /\ adapters' = adapters
    BY <1>5 DEF TryBus
  <2> QED BY <1>a, <1>c, <2>1, Zenon
<1>6. CASE LookupFinds \/ LookupFails
  <2>1. busIndex' = busIndex /\ adapters' = NULL
    BY <1>6 DEF LookupFinds, LookupFails
  <2> QED BY <1>b, <2>1, Zenon
<1>7. CASE LookupCrashes
  <2>1. busIndex' = busIndex /\ adapters' = adapters
    BY <1>7 DEF LookupCrashes, i2c
  <2> QED BY <1>a, <1>b, <2>1, Zenon
<1> QED BY <1>0, <1>2, <1>3, <1>4, <1>5, <1>6, <1>7 DEF I2cStep

LEMMA I2cKeeps ==
  IInv /\ Next /\ I2cStep /\ UNCHANGED <<panel, sensors, nvml, gpu, loop>> => IInv'
<1>0. SUFFICES ASSUME IInv, Next, I2cStep, UNCHANGED <<panel, sensors, nvml, gpu, loop>>
               PROVE  IInv'
  OBVIOUS
<1>1. /\ phase \in {"gather", "read busses", "lookup"}
      /\ phase' \in {"read busses", "lookup", "daemonize", "no panel", "crashed"}
      /\ machine' = machine /\ descriptors' = descriptors
      /\ overrun' \subseteq overrun \cup {"adapters"}
  BY <1>0, I2cMoves
<1>2. AdaptersHold' /\ LookupProgress'
  BY <1>0, callocKeeps, BusKeeps, GatherDoneKeeps, TryBusKeeps, LookupFindsKeeps,
     LookupEndsKeeps DEF I2cStep
<1>3. PanelOpen'
  <2>1. initialized' = initialized
    BY <1>0 DEF panel
  <2>2. phase \in BeforePanel /\ phase' \in BeforePanel /\ ~Serving'
    BY <1>1 DEF BeforePanel, AfterPanel, Serving
  <2> QED BY <1>0, <1>1, <2>1, <2>2 DEF IInv, PanelOpen
<1>4. Typed'
  <2>1. faults' \in Nat
    BY <1>0, Constant DEF IInv, Typed
  <2>2. /\ device' = device /\ feature' = feature /\ size_left' = size_left
        /\ toWrite' = toWrite /\ name_list' = name_list
    BY <1>0 DEF gpu, sensors
  <2> QED BY <1>0, <1>1, <2>1, <2>2, I2cTyped DEF IInv, Typed
<1>5. NamesFit' /\ NoDriverLost' /\ SensorsHold' /\ ReaderReady'
  <2>1. phase \in BeforePanel /\ phase' \in BeforePanel
    BY <1>1 DEF BeforePanel
  <2>2. UNCHANGED <<sensors, nvml, gpu>>
    BY <1>0
  <2> QED BY <1>0, <1>1, <2>1, <2>2, NotOfTheGpu
<1> QED BY <1>2, <1>3, <1>4, <1>5 DEF IInv

(* The daemon that leaves holds nothing of NVML. *)
LEMMA ExitKeeps ==
  IInv /\ phase' = "exited" /\ machine' = machine /\ faults' \in Nat /\ nvml' = {}
    /\ UNCHANGED <<overrun, adapters, busIndex, feature, gpu>> => IInv'
<1>0. SUFFICES ASSUME IInv, phase' = "exited", machine' = machine, faults' \in Nat,
                      nvml' = {}, UNCHANGED <<overrun, adapters, busIndex, feature, gpu>>
               PROVE  IInv'
  OBVIOUS
<1>1. /\ device' = device /\ size_left' = size_left /\ toWrite' = toWrite
      /\ name_list' = name_list
  BY <1>0 DEF gpu
<1>2. Typed'
  BY <1>0, <1>1 DEF IInv, Typed
<1>3. AdaptersHold'
  BY <1>0 DEF IInv, AdaptersHold, RoomLeft, InOrder
<1>4. LookupProgress' /\ PanelOpen' /\ NoDriverLost'
  BY <1>0 DEF LookupProgress, PanelOpen, NoDriverLost, Serving, BeforePanel, AfterPanel
<1>5. NamesFit'
  BY <1>0, SameMachine DEF IInv, NamesFit, BeforePanel
<1>6. SensorsHold'
  BY <1>0 DEF IInv, SensorsHold
<1>7. ReaderReady'
  BY <1>0 DEF ReaderReady, Loading
<1> QED BY <1>2, <1>3, <1>4, <1>5, <1>6, <1>7 DEF IInv

LEMMA NvmlUnused ==
  IInv /\ phase \in BeforePanel \cup {"reset", "coretemp", "features", "info sensors",
                                      "info chips", "info disks", "names",
                                      "write names", "gpu"}
  => nvml = {} /\ ~registered
BY DEF IInv, ReaderReady, Loading, BeforePanel

LEMMA ShowDisksKeeps == IInv /\ Next /\ ShowDisks => IInv'
<1>0. SUFFICES ASSUME IInv, Next, ShowDisks PROVE IInv'
  OBVIOUS
<1>1. /\ phase = "info disks" /\ phase' = "exited" /\ machine' = machine
      /\ UNCHANGED <<overrun, adapters, busIndex, feature, gpu, nvml>>
  BY <1>0 DEF ShowDisks, Goto, i2c, sensors
<1>2. faults' \in Nat
  BY <1>0, Constant DEF IInv, Typed
<1>3. nvml' = {}
  BY <1>0, <1>1, NvmlUnused
<1> QED BY <1>0, <1>1, <1>2, <1>3, ExitKeeps

(* From the lock file to the panel's reset. *)
PanelStep ==
  \/ daemonize
  \/ panel_open_i2c /\ UNCHANGED <<sensors, nvml, gpu, loop>>
  \/ panel_reset /\ UNCHANGED <<sensors, nvml, gpu, loop>>

LEMMA PanelStepMoves ==
  PanelStep =>
    /\ machine' = machine /\ UNCHANGED <<sensors, nvml, gpu>>
    /\ overrun' = overrun /\ adapters' = adapters /\ busIndex' = busIndex
    /\ i2c_bus' = i2c_bus
    /\ \/ /\ phase = "daemonize" /\ phase' \in {"open panel", "exited"}
          /\ descriptors' = descriptors /\ initialized' = initialized
       \/ /\ phase = "open panel" /\ phase' = "reset"
          /\ descriptors' = descriptors + 1 /\ initialized' = TRUE
       \/ /\ phase = "open panel" /\ phase' = "exited"
          /\ descriptors' = descriptors /\ initialized' = initialized
       \/ /\ phase = "reset" /\ phase' \in {"coretemp", "exited"}
          /\ descriptors' = descriptors /\ initialized' = initialized
<1>1. CASE daemonize
  BY <1>1 DEF daemonize, Goto, i2c, panel
<1>2. CASE panel_open_i2c /\ UNCHANGED <<sensors, nvml, gpu, loop>>
  BY <1>2 DEF panel_open_i2c
<1>3. CASE panel_reset /\ UNCHANGED <<sensors, nvml, gpu, loop>>
  BY <1>3 DEF panel_reset, Goto, i2c
<1> QED BY <1>1, <1>2, <1>3 DEF PanelStep

LEMMA PanelStepKeeps == IInv /\ Next /\ PanelStep => IInv'
<1>0. SUFFICES ASSUME IInv, Next, PanelStep PROVE IInv'
  OBVIOUS
<1>1. /\ machine' = machine /\ UNCHANGED <<sensors, nvml, gpu>>
      /\ overrun' = overrun /\ adapters' = adapters /\ busIndex' = busIndex
      /\ i2c_bus' = i2c_bus
      /\ \/ /\ phase = "daemonize" /\ phase' \in {"open panel", "exited"}
            /\ descriptors' = descriptors /\ initialized' = initialized
         \/ /\ phase = "open panel" /\ phase' = "reset"
            /\ descriptors' = descriptors + 1 /\ initialized' = TRUE
         \/ /\ phase = "open panel" /\ phase' = "exited"
            /\ descriptors' = descriptors /\ initialized' = initialized
         \/ /\ phase = "reset" /\ phase' \in {"coretemp", "exited"}
            /\ descriptors' = descriptors /\ initialized' = initialized
  BY <1>0, PanelStepMoves
<1>2. faults' \in Nat
  BY <1>0, Constant DEF IInv, Typed
<1>3. Typed'
  <2>1. /\ device' = device /\ feature' = feature /\ size_left' = size_left
        /\ toWrite' = toWrite /\ name_list' = name_list
    BY <1>1 DEF gpu, sensors
  <2> QED BY <1>0, <1>1, <1>2, <2>1 DEF IInv, Typed
<1>4. AdaptersHold'
  <2>1. phase' # "read busses"
    BY <1>1
  <2> QED BY <1>0, <1>1, <2>1 DEF IInv, AdaptersHold, RoomLeft, InOrder
<1>5. BusFound' <=> BusFound
  BY <1>1, SameMachine DEF BusFound
<1>6. LookupProgress'
  <2>1. phase' \in {"open panel", "exited", "reset", "coretemp"}
    BY <1>1
  <2>2. phase' = "open panel" => BusFound
    BY <1>0, <1>1 DEF IInv, LookupProgress
  <2> QED BY <1>5, <2>1, <2>2 DEF LookupProgress
<1>7. PanelOpen'
  <2>1. CASE phase' \in {"open panel", "exited"}
    <3>1. phase' = "open panel" => descriptors' = 0 /\ ~initialized'
      BY <1>0, <1>1 DEF IInv, PanelOpen, BeforePanel
    <3> QED BY <2>1, <3>1 DEF PanelOpen, Serving, BeforePanel, AfterPanel
  <2>2. CASE phase = "open panel" /\ phase' = "reset"
    <3>1. descriptors' = 1 /\ initialized'
      <4>1. descriptors = 0
        BY <1>0, <2>2 DEF IInv, PanelOpen, BeforePanel
      <4>2. phase # "daemonize" /\ phase # "reset" /\ phase' # "exited"
        BY <2>2
      <4>3. descriptors' = descriptors + 1 /\ initialized' = TRUE
        BY <1>1, <4>2, Zenon
      <4>4. 0 + 1 = 1
        OBVIOUS
      <4> QED BY <4>1, <4>3, <4>4, Zenon
    <3>2. BusFound
      BY <1>0, <2>2 DEF IInv, LookupProgress
    <3> QED BY <1>5, <2>2, <3>1, <3>2 DEF PanelOpen, BeforePanel
  <2>3. CASE phase = "reset" /\ phase' = "coretemp"
    <3>1. descriptors = 1 /\ initialized /\ BusFound
      BY <1>0, <2>3 DEF IInv, PanelOpen, Serving, AfterPanel
    <3> QED BY <1>1, <1>5, <2>3, <3>1 DEF PanelOpen, BeforePanel
  <2> QED BY <1>1, <2>1, <2>2, <2>3
<1>8. NamesFit' /\ NoDriverLost' /\ SensorsHold' /\ ReaderReady'
  <2>1. /\ phase \in BeforePanel \cup {"reset"}
        /\ phase' \in BeforePanel \cup {"reset", "coretemp", "exited"}
    BY <1>1 DEF BeforePanel
  <2> QED BY <1>0, <1>1, <2>1, NotOfTheGpu
<1> QED BY <1>3, <1>4, <1>6, <1>7, <1>8 DEF IInv

-----------------------------------------------------------------------------
(* The sensors.                                                            *)

(* A sensor is written past the table only for a core that has no place in it. *)
LEMMA AddFeatureKeeps ==
  IInv /\ AddFeature => /\ SensorsHold'
                        /\ "names" \in overrun' <=> "names" \in overrun
                        /\ "adapters" \in overrun' <=> "adapters" \in overrun
<1>0. SUFFICES ASSUME IInv, AddFeature
               PROVE  /\ SensorsHold'
                      /\ "names" \in overrun' <=> "names" \in overrun
                      /\ "adapters" \in overrun' <=> "adapters" \in overrun
  OBVIOUS
<1>1. /\ machine' = machine /\ feature <= Len(machine.features)
      /\ Feature.core # NoCore
      /\ \/ UNCHANGED overrun
         \/ Feature.core >= TableSize /\ overrun' = overrun \cup {"coretemp"}
  BY <1>0 DEF AddFeature, AtFeature
<1>2. CASE UNCHANGED overrun
  BY <1>0, <1>1, <1>2 DEF IInv, SensorsHold
<1>3. CASE Feature.core >= TableSize /\ overrun' = overrun \cup {"coretemp"}
  <2>1. machine \in Machines /\ feature \in Nat \ {0}
    BY <1>0 DEF IInv, Typed
  <2>2. /\ Len(machine.features) \in Nat
        /\ DOMAIN machine.features = 1 .. Len(machine.features)
        /\ \A k \in 1 .. Len(machine.features) :
             machine.features[k].core \in Nat \cup {NoCore}
    BY <2>1, MachineIs
  <2>3. feature \in 1 .. Len(machine.features)
    BY <1>1, <2>1, <2>2
  <2>4. Feature.core \in Nat
    BY <1>1, <2>2, <2>3 DEF Feature
  <2>5. Feature.core \in Nat \ 0 .. TableSize - 1
    BY <1>3, <2>4, MachineAssumption
  <2> QED BY <1>1, <1>3, <2>2, <2>3, <2>5 DEF SensorsHold, Feature
<1> QED BY <1>1, <1>2, <1>3

LEMMA SensorsMoves ==
  SensorsStep =>
    /\ machine' = machine
    /\ \/ phase \in {"info sensors", "info chips"} /\ phase' \in {"info chips", "info disks"}
       \/ phase = "coretemp" /\ phase' \in {"exited", "features"}
       \/ phase = "features" /\ phase' \in {"features", "exited", "names"}
    /\ AddFeature \/ overrun' = overrun
    /\ feature' \in {feature, feature + 1}
<1>1. CASE sensors_show
  BY <1>1 DEF sensors_show, Goto, sensors
<1>2. CASE CoretempFails
  BY <1>2 DEF CoretempFails, Goto, sensors
<1>3. CASE CoretempFound
  BY <1>3 DEF CoretempFound, Goto
<1>4. CASE SkipFeature
  BY <1>4 DEF SkipFeature, AtFeature
<1>5. CASE AddFeature
  BY <1>5 DEF AddFeature, AtFeature
<1>6. CASE FeatureFails
  BY <1>6 DEF FeatureFails, AtFeature
<1>7. CASE FeaturesDone
  BY <1>7 DEF FeaturesDone, Goto, sensors
<1> QED BY <1>1, <1>2, <1>3, <1>4, <1>5, <1>6, <1>7 DEF SensorsStep

LEMMA SensorsKeeps ==
  IInv /\ Next /\ SensorsStep /\ UNCHANGED <<i2c, panel, gpu, nvml>> => IInv'
<1>0. SUFFICES ASSUME IInv, Next, SensorsStep, UNCHANGED <<i2c, panel, gpu, nvml>>
               PROVE  IInv'
  OBVIOUS
<1>1. /\ machine' = machine
      /\ \/ phase \in {"info sensors", "info chips"} /\ phase' \in {"info chips", "info disks"}
         \/ phase = "coretemp" /\ phase' \in {"exited", "features"}
         \/ phase = "features" /\ phase' \in {"features", "exited", "names"}
      /\ AddFeature \/ overrun' = overrun
      /\ feature' \in {feature, feature + 1}
  BY <1>0, SensorsMoves
<1>2. /\ SensorsHold'
      /\ "names" \in overrun' <=> "names" \in overrun
      /\ "adapters" \in overrun' <=> "adapters" \in overrun
  BY <1>0, <1>1, AddFeatureKeeps DEF IInv, SensorsHold
<1>3. /\ device' = device /\ size_left' = size_left /\ toWrite' = toWrite
      /\ name_list' = name_list /\ registered' = registered
      /\ GPU_get_temperature' = GPU_get_temperature
      /\ adapters' = adapters /\ busIndex' = busIndex /\ initialized' = initialized
  BY <1>0 DEF gpu, i2c, panel
<1>4. faults' \in Nat /\ faults' >= faults
  BY <1>0, Constant DEF IInv, Typed
<1>5. Typed'
  <2>1. feature \in Nat \ {0}
    BY <1>0 DEF IInv, Typed
  <2>2. feature + 1 \in Nat \ {0}
    BY <2>1
  <2>3. feature' \in Nat \ {0}
    BY <1>1, <2>1, <2>2, Zenon
  <2> QED BY <1>0, <1>1, <1>3, <1>4, <2>3 DEF IInv, Typed
<1>6. AdaptersHold' /\ LookupProgress' /\ PanelOpen'
  <2>1. phase \notin BeforePanel /\ phase' \notin BeforePanel
    BY <1>1 DEF BeforePanel
  <2>2. Serving' => Serving
    BY <1>1 DEF Serving, AfterPanel
  <2> QED BY <1>0, <1>1, <1>2, <1>3, <1>4, <2>1, <2>2, NotOfThePanel
<1>7. NamesFit'
  <2>1. "names" \in overrun' => ~OneVga'
    BY <1>0, <1>1, <1>2, SameMachine DEF IInv, NamesFit
  <2>2. CASE phase' \in {"features", "names"}
    <3>1. device = 1 /\ size_left = 16 /\ toWrite = <<"none">>
      BY <1>0, <1>1, <2>2 DEF IInv, NamesFit
    <3>2. \A i \in VgaDevices : i >= 1
      BY <1>0, MachineIs DEF IInv, Typed
    <3> QED BY <1>1, <1>3, <2>1, <2>2, <3>1, <3>2, SameMachine DEF NamesFit, BeforePanel
  <2>3. CASE phase' \in {"info chips", "info disks", "exited"}
    BY <2>1, <2>3 DEF NamesFit, BeforePanel
  <2> QED BY <1>1, <2>2, <2>3
<1>8. NoDriverLost'
  <2>1. CASE phase' = "names"
    <3>1. device' = 1
      BY <1>0, <1>1, <1>3, <2>1 DEF IInv, NamesFit
    <3>2. \A i \in VgaDevices : ~(i < 1)
      BY <1>0, MachineIs DEF IInv, Typed
    <3> QED BY <1>1, <2>1, <3>1, <3>2, SameMachine DEF NoDriverLost
  <2>2. CASE phase' \notin {"names", "write names", "gpu"}
    BY <2>2 DEF NoDriverLost
  <2> QED BY <1>1, <2>1, <2>2
<1>9. ReaderReady'
  <2>1. nvml = {} /\ ~registered
    BY <1>0, <1>1, NvmlUnused
  <2>2. nvml' = {} /\ ~registered'
    BY <1>0, <1>3, <2>1
  <2>3. phase' \in {"info chips", "info disks", "exited", "features", "names"}
    BY <1>1
  <2> QED BY <2>2, <2>3 DEF ReaderReady, Loading
<1> QED BY <1>2, <1>5, <1>6, <1>7, <1>8, <1>9 DEF IInv

-----------------------------------------------------------------------------
(* The list of the drivers.                                                *)

(* The facts a step of the list starts from. *)
LEMMA Listing ==
  IInv => /\ machine \in Machines
          /\ device \in Nat \ {0} /\ size_left \in Int
          /\ toWrite \in Seq(Names) /\ name_list \in Seq(Names)
          /\ VgaDevices \subseteq 1 .. Len(machine.pci) /\ Len(machine.pci) \in Nat
          /\ \A i \in VgaDevices : /\ machine.pci[i].driver \in Names
                                   /\ i \in Nat
<1>1. IInv => /\ machine \in Machines
              /\ device \in Nat \ {0} /\ size_left \in Int
              /\ toWrite \in Seq(Names) /\ name_list \in Seq(Names)
  BY DEF IInv, Typed
<1>2. machine \in Machines =>
        /\ VgaDevices \subseteq 1 .. Len(machine.pci) /\ Len(machine.pci) \in Nat
        /\ \A i \in VgaDevices : machine.pci[i].driver \in Drivers
  BY MachineIs
<1>3. machine \in Machines => \A i \in VgaDevices : /\ machine.pci[i].driver \in Names
                                                    /\ i \in Nat
  BY <1>2 DEF Names
<1> QED BY <1>1, <1>2, <1>3

(* What a step of the list has to show, when it keeps the other variables. *)
LEMMA ListKept ==
  ASSUME IInv, machine' = machine, faults' \in Nat, faults' >= faults,
         UNCHANGED <<i2c, panel, sensors, nvml, GPU_get_temperature, registered>>,
         phase \in {"names", "write names"},
         phase' \in {"names", "write names", "gpu", "info sensors"},
         phase' = "gpu" => "info" \notin machine.options,
         overrun' \subseteq overrun \cup {"names"},
         device' \in Nat \ {0}, size_left' \in Int,
         toWrite' \in Seq(Names), name_list' \in Seq(Names),
         NamesFit', NoDriverLost'
  PROVE  IInv'
<1>1. /\ adapters' = adapters /\ busIndex' = busIndex /\ initialized' = initialized
      /\ feature' = feature /\ nvml' = nvml
  BY DEF i2c, panel, sensors
<1>2. Typed'
  BY <1>1 DEF IInv, Typed
<1>3. AdaptersHold' /\ LookupProgress' /\ PanelOpen'
  <2>1. phase \notin BeforePanel /\ phase' \notin BeforePanel
    BY DEF BeforePanel
  <2>2. Serving' => Serving
    BY DEF Serving, AfterPanel
  <2>3. "adapters" \in overrun' => "adapters" \in overrun
    OBVIOUS
  <2> QED BY <1>1, <2>1, <2>2, <2>3, NotOfThePanel
<1>4. SensorsHold'
  BY DEF IInv, SensorsHold
<1>5. ReaderReady'
  <2>1. nvml = {} /\ ~registered
    BY NvmlUnused
  <2> QED BY <1>1, <2>1 DEF ReaderReady, Loading
<1> QED BY <1>2, <1>3, <1>4, <1>5 DEF IInv

(* A name that goes before others is one of the names to write. *)
LEMMA NameAdded ==
  ASSUME NEW d \in Names, NEW s \in Seq(Names)
  PROVE  /\ <<d>> \o s \in Seq(Names)
         /\ ToSet(s) \subseteq ToSet(<<d>> \o s)
         /\ d \in ToSet(<<d>> \o s)
<1>1. <<d>> \in Seq(Names) /\ Len(<<d>>) = 1 /\ <<d>>[1] = d
  OBVIOUS
<1>2. PICK t \in Seq(Names) : t = <<d>> \o s
  BY <1>1, ConcatProperties
<1>3. /\ Len(t) = 1 + Len(s) /\ t[1] = d
      /\ \A i \in 1 .. Len(s) : t[1 + i] = s[i]
  <2>1. /\ Len(t) = 1 + Len(s)
        /\ \A i \in 1 .. Len(t) : t[i] = IF i <= 1 THEN <<d>>[i] ELSE s[i - 1]
    BY <1>1, <1>2, ConcatProperties
  <2>2. Len(s) \in Nat
    OBVIOUS
  <2>3. \A i \in 1 .. Len(s) : /\ 1 + i \in 1 .. Len(t) /\ ~(1 + i <= 1)
                               /\ (1 + i) - 1 = i
    BY <2>1, <2>2
  <2>4. 1 \in 1 .. Len(t) /\ 1 <= 1
    BY <2>1, <2>2
  <2> QED BY <1>1, <2>1, <2>3, <2>4
<1>4. \A i \in 1 .. Len(s) : 1 + i \in 1 .. Len(t)
  BY <1>3
<1>5. 1 \in 1 .. Len(t)
  BY <1>3
<1>6. DOMAIN t = 1 .. Len(t) /\ DOMAIN s = 1 .. Len(s)
  OBVIOUS
<1>7. ToSet(s) \subseteq ToSet(t)
  BY <1>3, <1>4, <1>6 DEF ToSet
<1>8. d \in ToSet(t)
  BY <1>3, <1>5, <1>6 DEF ToSet
<1> QED BY <1>2, <1>7, <1>8

(* A name that is written is in the list instead. *)
LEMMA NameWritten ==
  ASSUME NEW list \in Seq(Names), NEW s \in Seq(Names), s # <<>>
  PROVE  /\ Append(list, Head(s)) \in Seq(Names) /\ Tail(s) \in Seq(Names)
         /\ ToSet(list) \cup ToSet(s)
              \subseteq ToSet(Append(list, Head(s))) \cup ToSet(Tail(s))
<1>1. /\ Head(s) \in Names /\ Head(s) = s[1]
      /\ Len(s) \in Nat \ {0} /\ Len(list) \in Nat
      /\ DOMAIN s = 1 .. Len(s) /\ DOMAIN list = 1 .. Len(list)
  BY HeadTailProperties
<1>2. PICK rest \in Seq(Names) : rest = Tail(s)
  BY HeadTailProperties
<1>3. /\ Len(rest) = Len(s) - 1
      /\ \A i \in 1 .. Len(rest) : rest[i] = s[i + 1]
  BY <1>2, HeadTailProperties
<1>4. PICK new \in Seq(Names) : new = Append(list, Head(s))
  BY <1>1, AppendProperties
<1>5. /\ Len(new) = Len(list) + 1 /\ new[Len(list) + 1] = Head(s)
      /\ \A i \in 1 .. Len(list) : new[i] = list[i]
  BY <1>1, <1>4, AppendProperties
<1>6. DOMAIN new = 1 .. Len(new) /\ DOMAIN rest = 1 .. Len(rest)
  OBVIOUS
<1>7. ToSet(list) \subseteq ToSet(new)
  <2>1. \A i \in 1 .. Len(list) : i \in 1 .. Len(new)
    BY <1>1, <1>5
  <2> QED BY <1>1, <1>5, <1>6, <2>1 DEF ToSet
<1>8. Head(s) \in ToSet(new)
  <2>1. Len(list) + 1 \in 1 .. Len(new)
    BY <1>1, <1>5
  <2> QED BY <1>5, <1>6, <2>1 DEF ToSet
<1>9. ASSUME NEW i \in 1 .. Len(s) PROVE s[i] \in ToSet(new) \cup ToSet(rest)
  <2>1. CASE i = 1
    BY <1>1, <1>8, <2>1
  <2>2. CASE i # 1
    <3>1. i - 1 \in 1 .. Len(rest) /\ (i - 1) + 1 = i
      BY <1>1, <1>3, <2>2
    <3>2. rest[i - 1] = s[i]
      BY <1>3, <3>1
    <3> QED BY <1>6, <3>1, <3>2 DEF ToSet
  <2> QED BY <2>1, <2>2
<1>10. ToSet(s) \subseteq ToSet(new) \cup ToSet(rest)
  BY <1>1, <1>9 DEF ToSet
<1> QED BY <1>2, <1>4, <1>7, <1>10

LEMMA TwoNames ==
  ASSUME NEW c \in Names, NEW d \in Names PROVE <<c>> \o <<d>> = <<c, d>>
<1>1. <<c>> \in Seq(Names) /\ <<d>> \in Seq(Names) /\ <<c, d>> \in Seq(Names)
  OBVIOUS
<1>2. /\ <<c>> \o <<d>> \in Seq(Names) /\ Len(<<c>> \o <<d>>) = 1 + 1
      /\ \A i \in 1 .. Len(<<c>> \o <<d>>) :
           (<<c>> \o <<d>>)[i] = IF i <= 1 THEN <<c>>[i] ELSE <<d>>[i - 1]
  BY <1>1, ConcatProperties
<1>3. \A i \in 1 .. 2 : i = 1 \/ i = 2
  OBVIOUS
<1>4. PICK s \in Seq(Names) : s = <<c>> \o <<d>>
  BY <1>2
<1>5. Len(s) = 2 /\ s[1] = c /\ s[2] = d
  <2>1. 1 \in 1 .. 1 + 1 /\ 2 \in 1 .. 1 + 1 /\ 1 <= 1 /\ ~(2 <= 1) /\ 2 - 1 = 1
    OBVIOUS
  <2>2. s[1] = <<c>>[1] /\ s[2] = <<d>>[1] /\ Len(s) = 1 + 1
    BY <1>2, <1>4, <2>1
  <2> QED BY <2>2
<1>6. \A i \in 1 .. 2 : s[i] = <<c, d>>[i]
  BY <1>3, <1>5
<1>7. Len(<<c, d>>) = 2
  OBVIOUS
<1> QED BY <1>1, <1>4, <1>5, <1>6, <1>7, SeqEqual

LEMMA process_dirKeeps ==
  IInv /\ Next /\ process_dir /\ UNCHANGED <<i2c, panel, sensors, nvml>> => IInv'
<1>0. SUFFICES ASSUME IInv, Next, process_dir, UNCHANGED <<i2c, panel, sensors, nvml>>
               PROVE  IInv'
  OBVIOUS
<1>1. /\ phase = "names" /\ phase' = phase /\ machine' = machine
      /\ overrun' = overrun /\ size_left' = size_left /\ name_list' = name_list
      /\ UNCHANGED <<GPU_get_temperature, registered>>
      /\ device' = device + 1
      /\ toWrite' = IF device \in VgaDevices
                    THEN <<machine.pci[device].driver>> \o toWrite ELSE toWrite
  BY <1>0 DEF process_dir
<1>l. /\ device \in Nat \ {0} /\ size_left \in Int
      /\ toWrite \in Seq(Names) /\ name_list \in Seq(Names)
      /\ \A i \in VgaDevices : /\ machine.pci[i].driver \in Names
                               /\ i \in Nat
  BY <1>0, Listing, Zenon
<1>2. /\ toWrite' \in Seq(Names)
      /\ ToSet(toWrite) \subseteq ToSet(toWrite')
      /\ device \in VgaDevices => machine.pci[device].driver \in ToSet(toWrite')
  <2>1. CASE device \in VgaDevices
    BY <1>1, <1>l, <2>1, NameAdded
  <2>2. CASE device \notin VgaDevices
    BY <1>1, <1>l, <2>2
  <2> QED BY <2>1, <2>2
<1>3. NoDriverLost'
  <2>1. \A i \in VgaDevices : i < device + 1 => i < device \/ i = device
    BY <1>l
  <2>2. \A i \in VgaDevices : i < device =>
          machine.pci[i].driver \in ToSet(name_list) \cup ToSet(toWrite)
    BY <1>0, <1>1 DEF IInv, NoDriverLost
  <2>3. \A i \in VgaDevices : i < device + 1 =>
          machine.pci[i].driver \in ToSet(name_list) \cup ToSet(toWrite')
    BY <1>2, <2>1, <2>2
  <2>4. VgaDevices' = VgaDevices
    BY <1>1, SameMachine
  <2> QED BY <1>1, <2>3, <2>4 DEF NoDriverLost
<1>4. NamesFit'
  <2>1. "names" \in overrun => ~OneVga
    BY <1>0 DEF IInv, NamesFit
  <2>2. ASSUME OneVga
        PROVE  /\ size_left = 16
               /\ \/ toWrite' = <<"none">> /\ \A i \in VgaDevices : i >= device + 1
                  \/ \E i \in VgaDevices : /\ i < device + 1
                                           /\ toWrite' = <<machine.pci[i].driver, "none">>
    <3>1. /\ size_left = 16
          /\ \/ toWrite = <<"none">> /\ \A i \in VgaDevices : i >= device
             \/ \E i \in VgaDevices :
                  i < device /\ toWrite = <<machine.pci[i].driver, "none">>
      BY <1>0, <1>1, <2>2 DEF IInv, NamesFit
    <3>2. CASE device \in VgaDevices
      <4>1. \A i \in VgaDevices : i = device
        BY <2>2, <3>2 DEF OneVga
      <4>2. ~(device < device) /\ device < device + 1
        BY <1>l
      <4>3. toWrite = <<"none">>
        BY <3>1, <4>1, <4>2
      <4>4. toWrite' = <<machine.pci[device].driver, "none">>
        <5>1. "none" \in Names /\ machine.pci[device].driver \in Names
          BY <1>l, <3>2 DEF Names
        <5> QED BY <1>1, <3>2, <4>3, <5>1, TwoNames
      <4> QED BY <3>1, <3>2, <4>2, <4>4
    <3>3. CASE device \notin VgaDevices
      <4>1. toWrite' = toWrite
        BY <1>1, <3>3
      <4>2. \A i \in VgaDevices : i # device
        BY <3>3
      <4>3. \A i \in VgaDevices : /\ i >= device => i >= device + 1
                                  /\ i < device => i < device + 1
        BY <1>l, <4>2
      <4> QED BY <3>1, <4>1, <4>3
    <3> QED BY <3>2, <3>3
  <2>3. VgaDevices' = VgaDevices /\ (OneVga' <=> OneVga)
    BY <1>1, SameMachine
  <2> QED BY <1>1, <2>1, <2>2, <2>3 DEF NamesFit, BeforePanel
<1>5. device' \in Nat \ {0}
  BY <1>1, <1>l
<1>6. faults' \in Nat /\ faults' >= faults
  BY <1>0, Constant DEF IInv, Typed
<1> QED BY <1>0, <1>1, <1>l, <1>2, <1>3, <1>4, <1>5, <1>6, ListKept

LEMMA ScanDoneKeeps ==
  IInv /\ Next /\ ScanDone /\ UNCHANGED <<i2c, panel, sensors, nvml>> => IInv'
<1>0. SUFFICES ASSUME IInv, Next, ScanDone, UNCHANGED <<i2c, panel, sensors, nvml>>
               PROVE  IInv'
  OBVIOUS
<1>1. /\ phase = "names" /\ phase' = "write names" /\ machine' = machine
      /\ overrun' = overrun /\ device' = device /\ size_left' = size_left
      /\ name_list' = name_list /\ toWrite' = toWrite
      /\ UNCHANGED <<GPU_get_temperature, registered>>
      /\ device > Len(machine.pci)
  BY <1>0 DEF ScanDone, Goto, gpu
<1>l. /\ device \in Nat \ {0} /\ size_left \in Int
      /\ toWrite \in Seq(Names) /\ name_list \in Seq(Names)
      /\ VgaDevices \subseteq 1 .. Len(machine.pci) /\ Len(machine.pci) \in Nat
      /\ \A i \in VgaDevices : /\ machine.pci[i].driver \in Names
                               /\ i \in Nat
  BY <1>0, Listing, Zenon
<1>2. VgaDevices' = VgaDevices /\ (OneVga' <=> OneVga)
  BY <1>1, SameMachine
<1>3. NoDriverLost'
  <2>1. \A i \in VgaDevices : i < device
    <3>1. device > Len(machine.pci)
      BY <1>1, Zenon
    <3>2. device \in Nat /\ Len(machine.pci) \in Nat
      BY <1>l
    <3>3. \A i \in 1 .. Len(machine.pci) : i < device
      BY <3>1, <3>2
    <3> QED BY <1>l, <3>3, Zenon
  <2>2. \A i \in VgaDevices : i < device =>
          machine.pci[i].driver \in ToSet(name_list) \cup ToSet(toWrite)
    BY <1>0, <1>1 DEF IInv, NoDriverLost
  <2>3. \A i \in VgaDevices :
          machine.pci[i].driver \in ToSet(name_list) \cup ToSet(toWrite)
    BY <2>1, <2>2, Zenon
  <2> QED BY <1>1, <1>2, <2>3 DEF NoDriverLost
<1>4. NamesFit'
  <2>1. "names" \in overrun => ~OneVga
    BY <1>0 DEF IInv, NamesFit
  <2>2. ASSUME OneVga
        PROVE  \/ toWrite = <<"none">> /\ size_left >= 6
               \/ \E d \in Names : /\ toWrite = <<d, "none">> /\ size_left = 16
                                   /\ strlen[d] <= 9
    <3>1. /\ size_left = 16
          /\ \/ toWrite = <<"none">>
             \/ \E i \in VgaDevices : toWrite = <<machine.pci[i].driver, "none">>
      BY <1>0, <1>1, <2>2 DEF IInv, NamesFit
    <3>2. 16 >= 6
      OBVIOUS
    <3>3. \A i \in VgaDevices : strlen[machine.pci[i].driver] <= 9
      BY <2>2, Zenon DEF OneVga
    <3> QED BY <1>l, <3>1, <3>2, <3>3, Zenon
  <2> QED BY <1>1, <1>2, <2>1, <2>2 DEF NamesFit, BeforePanel
<1>5. faults' \in Nat /\ faults' >= faults
  BY <1>0, Constant DEF IInv, Typed
<1> QED BY <1>0, <1>1, <1>l, <1>3, <1>4, <1>5, ListKept

(* Of one VGA device: the two names at most have room in the first text. *)
LEMMA RoomForNames ==
  IInv /\ Writing /\ OneVga =>
    /\ ~TooLong(Head(toWrite))
    /\ size_left - (strlen[Head(toWrite)] + 1) >= 1
    /\ \/ Tail(toWrite) = <<>>
       \/ /\ Tail(toWrite) = <<"none">>
          /\ size_left - (strlen[Head(toWrite)] + 1) >= 6
<1>0. SUFFICES ASSUME IInv, Writing, OneVga
               PROVE  /\ ~TooLong(Head(toWrite))
                      /\ size_left - (strlen[Head(toWrite)] + 1) >= 1
                      /\ \/ Tail(toWrite) = <<>>
                         \/ /\ Tail(toWrite) = <<"none">>
                            /\ size_left - (strlen[Head(toWrite)] + 1) >= 6
  OBVIOUS
<1>1. /\ size_left \in Int
      /\ \/ toWrite = <<"none">> /\ size_left >= 6
         \/ \E d \in Names : /\ toWrite = <<d, "none">> /\ size_left = 16
                             /\ strlen[d] <= 9
  BY <1>0 DEF IInv, Typed, NamesFit, Writing
<1>2. /\ strlen["none"] = 4
      /\ \A d \in Names : strlen[d] \in 4 .. 10
  BY DEF strlen, Names, Drivers
<1>3. CASE toWrite = <<"none">> /\ size_left >= 6
  <2>1. Head(toWrite) = "none" /\ Tail(toWrite) = <<>>
    BY <1>3
  <2> QED BY <1>1, <1>2, <1>3, <2>1 DEF TooLong
<1>4. ASSUME NEW d \in Names, toWrite = <<d, "none">>, size_left = 16, strlen[d] <= 9
      PROVE  /\ ~TooLong(Head(toWrite))
             /\ size_left - (strlen[Head(toWrite)] + 1) >= 1
             /\ size_left - (strlen[Head(toWrite)] + 1) >= 6
             /\ Tail(toWrite) = <<"none">>
  <2>1. Head(toWrite) = d /\ Tail(toWrite) = <<"none">>
    BY <1>4
  <2> QED BY <1>2, <1>4, <2>1 DEF TooLong
<1> QED BY <1>1, <1>3, <1>4, Zenon

LEMMA GrowListKeeps ==
  IInv /\ Next /\ GrowList /\ UNCHANGED <<i2c, panel, sensors, nvml>> => IInv'
<1>0. SUFFICES ASSUME IInv, Next, GrowList, UNCHANGED <<i2c, panel, sensors, nvml>>
               PROVE  IInv'
  OBVIOUS
<1>1. /\ Writing /\ TooLong(Head(toWrite))
      /\ phase = "write names" /\ phase' = phase /\ machine' = machine
      /\ overrun' = overrun /\ device' = device /\ size_left' = size_left + 16
      /\ name_list' = name_list /\ toWrite' = toWrite
      /\ UNCHANGED <<GPU_get_temperature, registered>>
  BY <1>0 DEF GrowList, Writing
<1>l. /\ device \in Nat \ {0} /\ size_left \in Int
      /\ toWrite \in Seq(Names) /\ name_list \in Seq(Names)
  BY <1>0, Listing, Zenon
<1>2. VgaDevices' = VgaDevices /\ (OneVga' <=> OneVga)
  BY <1>1, SameMachine
<1>3. NoDriverLost'
  BY <1>0, <1>1, <1>2 DEF IInv, NoDriverLost
<1>4. NamesFit'
  <2>1. ~OneVga
    BY <1>0, <1>1, RoomForNames
  <2> QED BY <1>1, <1>2, <2>1 DEF NamesFit, BeforePanel
<1>5. faults' \in Nat /\ faults' >= faults
  BY <1>0, Constant DEF IInv, Typed
<1>6. size_left' \in Int
  <2>1. size_left + 16 \in Int
    BY <1>l
  <2> QED BY <1>1, <2>1, Zenon
<1> QED BY <1>0, <1>1, <1>l, <1>3, <1>4, <1>5, <1>6, ListKept

LEMMA WriteNameKeeps ==
  IInv /\ Next /\ WriteName /\ UNCHANGED <<i2c, panel, sensors, nvml>> => IInv'
<1>0. SUFFICES ASSUME IInv, Next, WriteName, UNCHANGED <<i2c, panel, sensors, nvml>>
               PROVE  IInv'
  OBVIOUS
<1>1. /\ Writing /\ phase = "write names" /\ phase' = phase /\ machine' = machine
      /\ device' = device /\ size_left' = size_left - (strlen[Head(toWrite)] + 1)
      /\ overrun' = IF size_left' < 1 THEN overrun \cup {"names"} ELSE overrun
      /\ name_list' = Append(name_list, Head(toWrite)) /\ toWrite' = Tail(toWrite)
      /\ UNCHANGED <<GPU_get_temperature, registered>>
      /\ toWrite # <<>>
  BY <1>0 DEF WriteName, Writing
<1>l. /\ device \in Nat \ {0} /\ size_left \in Int
      /\ toWrite \in Seq(Names) /\ name_list \in Seq(Names)
  BY <1>0, Listing, Zenon
<1>2. VgaDevices' = VgaDevices /\ (OneVga' <=> OneVga)
  BY <1>1, SameMachine
<1>3. /\ name_list' \in Seq(Names) /\ toWrite' \in Seq(Names)
      /\ ToSet(name_list) \cup ToSet(toWrite)
           \subseteq ToSet(name_list') \cup ToSet(toWrite')
  BY <1>1, <1>l, NameWritten
<1>4. NoDriverLost'
  <2>1. \A i \in VgaDevices :
          machine.pci[i].driver \in ToSet(name_list) \cup ToSet(toWrite)
    BY <1>0, <1>1 DEF IInv, NoDriverLost
  <2>2. \A i \in VgaDevices :
          machine.pci[i].driver \in ToSet(name_list') \cup ToSet(toWrite')
    BY <1>3, <2>1
  <2> QED BY <1>1, <1>2, <2>2 DEF NoDriverLost
<1>5. size_left' \in Int
  <2>1. Head(toWrite) \in Names
    BY <1>1, <1>l, HeadTailProperties, Zenon
  <2>2. strlen[Head(toWrite)] \in Int
    BY <2>1 DEF strlen, Names, Drivers
  <2>3. size_left - (strlen[Head(toWrite)] + 1) \in Int
    BY <1>l, <2>2
  <2> QED BY <1>1, <2>3, Zenon
<1>6. NamesFit'
  <2>1. "names" \in overrun => ~OneVga
    BY <1>0 DEF IInv, NamesFit
  <2>2. ASSUME OneVga
        PROVE  /\ size_left' >= 1
               /\ \/ toWrite' = <<>>
                  \/ toWrite' = <<"none">> /\ size_left' >= 6
    <3> DEFINE left == size_left - (strlen[Head(toWrite)] + 1)
    <3>1. Writing
      BY <1>1, Zenon
    <3>2. size_left' = left /\ toWrite' = Tail(toWrite)
      BY <1>1, Zenon
    <3>3. /\ left >= 1
          /\ \/ Tail(toWrite) = <<>>
             \/ Tail(toWrite) = <<"none">> /\ left >= 6
      BY <1>0, <2>2, <3>1, RoomForNames, Zenon
    <3> HIDE DEF left
    <3> QED BY <3>2, <3>3
  <2>3. size_left' >= 1 => ~(size_left' < 1)
    BY <1>5
  <2>4. "names" \in overrun' => ~OneVga
    BY <1>1, <2>1, <2>2, <2>3
  <2> QED BY <1>1, <1>2, <2>2, <2>4 DEF NamesFit, BeforePanel
<1>7. faults' \in Nat /\ faults' >= faults
  BY <1>0, Constant DEF IInv, Typed
<1>8. overrun' \subseteq overrun \cup {"names"}
  BY <1>1
<1> QED BY <1>0, <1>1, <1>l, <1>3, <1>4, <1>5, <1>6, <1>7, <1>8, ListKept

LEMMA NamesDoneKeeps ==
  IInv /\ Next /\ NamesDone /\ UNCHANGED <<i2c, panel, sensors, nvml>> => IInv'
<1>0. SUFFICES ASSUME IInv, Next, NamesDone, UNCHANGED <<i2c, panel, sensors, nvml>>
               PROVE  IInv'
  OBVIOUS
<1>1. /\ phase = "write names" /\ machine' = machine /\ toWrite = <<>>
      /\ phase' \in {"info sensors", "gpu"}
      /\ phase' = "gpu" => "info" \notin machine.options
      /\ overrun' = overrun /\ device' = device /\ size_left' = size_left
      /\ name_list' = name_list /\ toWrite' = toWrite
      /\ UNCHANGED <<GPU_get_temperature, registered>>
  BY <1>0 DEF NamesDone, Goto, gpu
<1>l. /\ device \in Nat \ {0} /\ size_left \in Int
      /\ toWrite \in Seq(Names) /\ name_list \in Seq(Names)
  BY <1>0, Listing, Zenon
<1>2. VgaDevices' = VgaDevices /\ (OneVga' <=> OneVga)
  BY <1>1, SameMachine
<1>3. NoDriverLost'
  BY <1>0, <1>1, <1>2 DEF IInv, NoDriverLost
<1>4. NamesFit'
  <2>1. "names" \in overrun => ~OneVga
    BY <1>0 DEF IInv, NamesFit
  <2> QED BY <1>1, <1>2, <2>1 DEF NamesFit, BeforePanel
<1>5. faults' \in Nat /\ faults' >= faults
  BY <1>0, Constant DEF IInv, Typed
<1> QED BY <1>0, <1>1, <1>l, <1>3, <1>4, <1>5, ListKept

-----------------------------------------------------------------------------
(* The reader of the GPU's temperature.                                    *)

(* What such a step has to show: it keeps the tables and the panel. *)
LEMMA ReaderKept ==
  ASSUME IInv, machine' = machine, faults' \in Nat, faults' >= faults,
         UNCHANGED <<i2c, initialized, feature, overrun, device, name_list,
                     toWrite, size_left>>,
         phase \in Loading \cup {"gpu"}, phase' \in Loading \cup {"running"},
         ReaderReady'
  PROVE  IInv'
<1>1. adapters' = adapters /\ busIndex' = busIndex
  BY DEF i2c
<1>2. Typed'
  BY <1>1 DEF IInv, Typed
<1>3. AdaptersHold' /\ LookupProgress' /\ PanelOpen'
  <2>1. phase \notin BeforePanel /\ phase' \notin BeforePanel
    BY DEF BeforePanel, Loading
  <2>2. Serving
    BY DEF Serving, AfterPanel, Loading
  <2>3. "adapters" \in overrun' => "adapters" \in overrun
    OBVIOUS
  <2> QED BY <2>1, <2>2, <2>3, NotOfThePanel
<1>4. NamesFit'
  BY SameMachine DEF IInv, NamesFit, BeforePanel, Loading
<1>5. NoDriverLost'
  BY DEF NoDriverLost, Loading
<1>6. SensorsHold'
  BY DEF IInv, SensorsHold
<1> QED BY <1>2, <1>3, <1>4, <1>5, <1>6 DEF IInv

(* With an integrated GPU chosen there is no other one. *)
LEMMA ChooseReaderKeeps ==
  IInv /\ Next /\ ChooseReader /\ UNCHANGED <<i2c, panel, nvml>> => IInv'
<1>0. SUFFICES ASSUME IInv, Next, ChooseReader, UNCHANGED <<i2c, panel, nvml>>
               PROVE  IInv'
  OBVIOUS
<1>1. /\ phase = "gpu" /\ phase' \in {"dlopen", "running"} /\ machine' = machine
      /\ UNCHANGED <<overrun, libsensors, feature, device, name_list, toWrite,
                     size_left, registered>>
      /\ UNCHANGED <<i2c, initialized, nvml>>
  BY <1>0 DEF ChooseReader, Goto, panel
<1>2. faults' \in Nat /\ faults' >= faults
  BY <1>0, Constant DEF IInv, Typed
<1>3. /\ phase' = "dlopen" => GPU_get_temperature' = "undefined"
      /\ GPU_get_temperature' # "nvidia"
      /\ GPU_get_temperature' = "nouveau" => nouveau' = TRUE /\ libsensors
      /\ GPU_get_temperature' = "i915" => ~Listed("nvidia") /\ ~Listed("nouveau")
  BY <1>0 DEF ChooseReader, Goto, sensors_nouveau_init
<1>4. nvml = {} /\ ~registered
  BY <1>0, <1>1, NvmlUnused
<1>5. GPU_get_temperature' = "i915" =>
        \A i \in VgaDevices : machine.pci[i].driver \notin {"nvidia", "nouveau"}
  <2>1. \A i \in VgaDevices : Listed(machine.pci[i].driver)
    <3>1. toWrite = <<>>
      BY <1>0, <1>1 DEF IInv, NoDriverLost
    <3>2. ToSet(<<>>) = {}
      BY DEF ToSet
    <3>3. \A i \in VgaDevices :
            machine.pci[i].driver \in ToSet(name_list) \cup ToSet(toWrite)
      BY <1>0, <1>1 DEF IInv, NoDriverLost
    <3> QED BY <3>1, <3>2, <3>3 DEF Listed
  <2> QED BY <1>3, <2>1
<1>6. VgaDevices' = VgaDevices
  BY <1>1, SameMachine
<1>7. ReaderReady'
  <2>1. nvml' = {} /\ ~registered' /\ libsensors' = libsensors
    BY <1>1, <1>4
  <2>2. GPU_get_temperature' = "i915" =>
          \A i \in VgaDevices' : machine'.pci[i].driver \notin {"nvidia", "nouveau"}
    BY <1>1, <1>5, <1>6
  <2>3. CASE phase' = "dlopen"
    BY <1>3, <2>1, <2>3 DEF ReaderReady, Loading
  <2>4. CASE phase' = "running"
    BY <1>3, <2>1, <2>2, <2>4 DEF ReaderReady, Loading
  <2> QED BY <1>1, <2>3, <2>4
<1> QED BY <1>0, <1>1, <1>2, <1>7, ReaderKept DEF Loading

(* The calls of NVML: each phase holds what the calls before it have taken. *)
LEMMA NvmlMoves ==
  IInv /\ NvmlStep =>
    /\ machine' = machine /\ overrun' = overrun
    /\ phase \in Loading \ {"nvml ready", "no nvml"} /\ phase' \in Loading \ {"dlopen"}
    /\ phase' \in {"dlsym", "nvmlInit", "nvml_out_err1"} => nvml' = {"library"}
    /\ phase' \in {"nvmlDeviceGetCount", "nvmlDeviceGetHandleByIndex",
                   "nvml_out_err2", "nvml ready"} => nvml' = Both
    /\ phase' = "no nvml" => nvml' = {}
<1>0. SUFFICES ASSUME IInv, NvmlStep
      PROVE  /\ machine' = machine /\ overrun' = overrun
             /\ phase \in Loading \ {"nvml ready", "no nvml"}
             /\ phase' \in Loading \ {"dlopen"}
             /\ phase' \in {"dlsym", "nvmlInit", "nvml_out_err1"} => nvml' = {"library"}
             /\ phase' \in {"nvmlDeviceGetCount", "nvmlDeviceGetHandleByIndex",
                            "nvml_out_err2", "nvml ready"} => nvml' = Both
             /\ phase' = "no nvml" => nvml' = {}
  OBVIOUS
<1>1. CASE Dlopen
  <2>1. phase = "dlopen" => nvml = {}
    BY <1>0 DEF IInv, ReaderReady, Loading
  <2> QED BY <1>1, <2>1 DEF Dlopen, Call, Loading
<1>2. CASE LoadSymbols
  <2>1. phase = "dlsym" => nvml = {"library"}
    BY <1>0 DEF IInv, ReaderReady
  <2> QED BY <1>2, <2>1 DEF LoadSymbols, Call, Loading
<1>3. CASE OpenSession
  <2>1. phase = "nvmlInit" => nvml = {"library"}
    BY <1>0 DEF IInv, ReaderReady
  <2> QED BY <1>3, <2>1 DEF OpenSession, Call, Loading, Both
<1>4. CASE GetCount
  <2>1. phase = "nvmlDeviceGetCount" => nvml = Both
    BY <1>0 DEF IInv, ReaderReady
  <2> QED BY <1>4, <2>1 DEF GetCount, Call, Loading
<1>5. CASE GetHandle
  <2>1. phase = "nvmlDeviceGetHandleByIndex" => nvml = Both
    BY <1>0 DEF IInv, ReaderReady
  <2> QED BY <1>5, <2>1 DEF GetHandle, Call, Loading
<1>6. CASE nvmlShutdown
  <2>1. phase = "nvml_out_err2" => nvml = Both
    BY <1>0 DEF IInv, ReaderReady
  <2> QED BY <1>6, <2>1 DEF nvmlShutdown, Unwind, Goto, Loading, Both
<1>7. CASE nvml_dll_cleanup
  <2>1. phase = "nvml_out_err1" => nvml = {"library"}
    BY <1>0 DEF IInv, ReaderReady
  <2> QED BY <1>7, <2>1 DEF nvml_dll_cleanup, Unwind, Goto, Loading
<1> QED BY <1>0, <1>1, <1>2, <1>3, <1>4, <1>5, <1>6, <1>7 DEF NvmlStep

LEMMA NvmlKeeps ==
  IInv /\ Next /\ NvmlStep /\ UNCHANGED <<i2c, panel, sensors, gpu>> => IInv'
<1>0. SUFFICES ASSUME IInv, Next, NvmlStep, UNCHANGED <<i2c, panel, sensors, gpu>>
               PROVE  IInv'
  OBVIOUS
<1>1. /\ machine' = machine /\ overrun' = overrun
      /\ phase \in Loading \ {"nvml ready", "no nvml"} /\ phase' \in Loading \ {"dlopen"}
      /\ phase' \in {"dlsym", "nvmlInit", "nvml_out_err1"} => nvml' = {"library"}
      /\ phase' \in {"nvmlDeviceGetCount", "nvmlDeviceGetHandleByIndex",
                     "nvml_out_err2", "nvml ready"} => nvml' = Both
      /\ phase' = "no nvml" => nvml' = {}
  BY <1>0, NvmlMoves
<1>2. /\ UNCHANGED <<i2c, initialized, feature, overrun, device, name_list, toWrite,
                     size_left>>
      /\ UNCHANGED <<registered, GPU_get_temperature>>
  BY <1>0, <1>1 DEF panel, sensors, gpu
<1>3. faults' \in Nat /\ faults' >= faults
  BY <1>0, Constant DEF IInv, Typed
<1>4. ReaderReady'
  <2>1. GPU_get_temperature = "undefined" /\ ~registered
    BY <1>0, <1>1 DEF IInv, ReaderReady, Loading
  <2> QED BY <1>1, <1>2, <2>1 DEF ReaderReady, Loading
<1> QED BY <1>0, <1>1, <1>2, <1>3, <1>4, ReaderKept

LEMMA NvmlEndsKeeps ==
  IInv /\ Next /\ (NvmlReady \/ NoNvml) /\ UNCHANGED <<i2c, panel, sensors, nvml>>
  => IInv'
<1>0. SUFFICES ASSUME IInv, Next, NvmlReady \/ NoNvml,
                      UNCHANGED <<i2c, panel, sensors, nvml>>
               PROVE  IInv'
  OBVIOUS
<1>1. phase \in {"nvml ready", "no nvml"} /\ phase' = "running"
  BY <1>0 DEF NvmlReady, NoNvml, Goto
<1>u. /\ machine' = machine
      /\ UNCHANGED <<i2c, initialized, feature, overrun, device, name_list, toWrite,
                     size_left>>
  BY <1>0 DEF NvmlReady, NoNvml, panel, sensors, gpu
<1>2. faults' \in Nat /\ faults' >= faults
  BY <1>0, Constant DEF IInv, Typed
<1>3. ASSUME NvmlReady PROVE ReaderReady'
  <2>1. GPU_get_temperature' = "nvidia" /\ registered' = TRUE /\ nvml' = nvml
    BY <1>0, <1>3 DEF NvmlReady
  <2>2. nvml = Both
    BY <1>0, <1>3 DEF NvmlReady, Goto, IInv, ReaderReady
  <2> QED BY <1>1, <2>1, <2>2 DEF ReaderReady, Loading
<1>4. ASSUME NoNvml PROVE ReaderReady'
  <2>1. /\ GPU_get_temperature' = GPU_get_temperature /\ registered' = registered
        /\ nvml' = nvml /\ phase = "no nvml"
    BY <1>0, <1>4 DEF NoNvml, Goto, gpu
  <2>2. GPU_get_temperature = "undefined" /\ nvml = {} /\ ~registered
    BY <1>0, <2>1 DEF IInv, ReaderReady, Loading
  <2> QED BY <1>1, <2>1, <2>2 DEF ReaderReady, Loading
<1>5. phase \in Loading \cup {"gpu"} /\ phase' \in Loading \cup {"running"}
  BY <1>1 DEF Loading
<1>6. ReaderReady'
  BY <1>0, <1>3, <1>4
<1> QED BY <1>0, <1>u, <1>2, <1>5, <1>6, ReaderKept

-----------------------------------------------------------------------------
(* The loop, and the end.                                                  *)

LEMMA nvml_cleanupKeeps ==
  IInv /\ Next /\ nvml_cleanup /\ UNCHANGED <<i2c, panel, sensors>> => IInv'
<1>0. SUFFICES ASSUME IInv, Next, nvml_cleanup, UNCHANGED <<i2c, panel, sensors>>
               PROVE  IInv'
  OBVIOUS
<1>1. /\ phase = "exit handlers" /\ phase' = "exited" /\ machine' = machine
      /\ UNCHANGED <<overrun, adapters, busIndex, feature, gpu>>
      /\ nvml' = IF registered THEN nvml \ Both ELSE nvml
  BY <1>0 DEF nvml_cleanup, Goto, i2c, sensors, Both
<1>2. faults' \in Nat
  BY <1>0, Constant DEF IInv, Typed
<1>3. nvml' = {}
  BY <1>0, <1>1 DEF IInv, ReaderReady
<1> QED BY <1>0, <1>1, <1>2, <1>3, ExitKeeps

LEMMA cleanupKeeps == IInv /\ Next /\ cleanup => IInv'
<1>0. SUFFICES ASSUME IInv, Next, cleanup PROVE IInv'
  OBVIOUS
<1>1. /\ phase = "running" /\ phase' = "exit handlers" /\ machine' = machine
      /\ overrun' = overrun /\ adapters' = adapters /\ busIndex' = busIndex
      /\ feature' = feature /\ UNCHANGED <<nvml, gpu>>
  BY <1>0 DEF cleanup, Goto
<1>2. /\ device' = device /\ size_left' = size_left /\ toWrite' = toWrite
      /\ name_list' = name_list /\ registered' = registered
  BY <1>1 DEF gpu
<1>3. faults' \in Nat
  BY <1>0, Constant DEF IInv, Typed
<1>4. Typed'
  BY <1>0, <1>1, <1>2, <1>3 DEF IInv, Typed
<1>5. AdaptersHold'
  BY <1>0, <1>1 DEF IInv, AdaptersHold, RoomLeft, InOrder
<1>6. LookupProgress' /\ PanelOpen' /\ NoDriverLost'
  BY <1>1 DEF LookupProgress, PanelOpen, NoDriverLost, Serving, BeforePanel, AfterPanel
<1>7. NamesFit'
  BY <1>0, <1>1, SameMachine DEF IInv, NamesFit, BeforePanel
<1>8. SensorsHold'
  BY <1>0, <1>1 DEF IInv, SensorsHold
<1>9. ReaderReady'
  <2>1. nvml = IF registered THEN Both ELSE {}
    BY <1>0, <1>1 DEF IInv, ReaderReady
  <2> QED BY <1>1, <1>2, <2>1 DEF ReaderReady, Loading
<1> QED BY <1>4, <1>5, <1>6, <1>7, <1>8, <1>9 DEF IInv

LEMMA LoopKeeps ==
  IInv /\ phase' = phase /\ faults' \in Nat
    /\ (phase = "running" \/ faults' = faults)
    /\ UNCHANGED <<machine, overrun, i2c, initialized, sensors, nvml, gpu>> => IInv'
<1>0. SUFFICES ASSUME IInv, phase' = phase, faults' \in Nat,
                 phase = "running" \/ faults' = faults,
                 UNCHANGED <<machine, overrun, i2c, initialized, sensors, nvml, gpu>>
               PROVE  IInv'
  OBVIOUS
<1>1. /\ machine' = machine /\ overrun' = overrun /\ initialized' = initialized
      /\ adapters' = adapters /\ busIndex' = busIndex /\ i2c_bus' = i2c_bus
      /\ descriptors' = descriptors
      /\ feature' = feature /\ nouveau' = nouveau /\ libsensors' = libsensors
      /\ nvml' = nvml
      /\ device' = device /\ name_list' = name_list /\ toWrite' = toWrite
      /\ size_left' = size_left /\ registered' = registered
      /\ GPU_get_temperature' = GPU_get_temperature
  BY <1>0 DEF i2c, sensors, gpu
<1>2. /\ ListedBusses' = ListedBusses /\ Panels' = Panels
      /\ VgaDevices' = VgaDevices /\ (OneVga' <=> OneVga)
      /\ (BusFound' <=> BusFound)
  BY <1>1, SameMachine DEF BusFound
<1>3. Typed'
  BY <1>0, <1>1 DEF IInv, Typed
<1>4. AdaptersHold'
  BY <1>0, <1>1 DEF IInv, AdaptersHold, RoomLeft, InOrder
<1>5. LookupProgress'
  <2>1. ASSUME phase = "running" PROVE LookupProgress'
    BY <1>0, <2>1 DEF LookupProgress
  <2>2. ASSUME faults' = faults PROVE LookupProgress'
    BY <1>0, <1>1, <1>2, <2>2 DEF IInv, LookupProgress, ListsUpTo
  <2> QED BY <1>0, <2>1, <2>2
<1>6. PanelOpen'
  <2>1. Serving' => Serving
    BY <1>0, <1>1 DEF Serving
  <2>2. CASE phase \in BeforePanel
    <3>1. descriptors' = 0 /\ ~initialized'
      BY <1>0, <1>1, <2>2 DEF IInv, PanelOpen
    <3>2. ~Serving'
      BY <1>0, <2>2 DEF Serving, BeforePanel, AfterPanel
    <3> QED BY <3>1, <3>2 DEF PanelOpen
  <2>3. CASE phase \notin BeforePanel
    <3>1. Serving => descriptors' = 1 /\ initialized' /\ BusFound'
      BY <1>0, <1>1, <1>2 DEF IInv, PanelOpen
    <3> QED BY <1>0, <2>1, <2>3, <3>1 DEF PanelOpen
  <2> QED BY <2>2, <2>3
<1>7. NamesFit'
  BY <1>0, <1>1, <1>2 DEF IInv, NamesFit
<1>8. NoDriverLost'
  BY <1>0, <1>1, <1>2 DEF IInv, NoDriverLost
<1>9. SensorsHold'
  BY <1>0, <1>1 DEF IInv, SensorsHold
<1>10. ReaderReady'
  BY <1>0, <1>1, <1>2 DEF IInv, ReaderReady
<1> QED BY <1>3, <1>4, <1>5, <1>6, <1>7, <1>8, <1>9, <1>10 DEF IInv

LEMMA InitIInv == Init => IInv
<1>0. SUFFICES ASSUME Init PROVE IInv
  OBVIOUS
<1>1. /\ machine \in Machines /\ phase = "start" /\ faults = 0 /\ overrun = {}
      /\ adapters = NULL /\ busIndex = 1 /\ descriptors = 0 /\ initialized = FALSE
      /\ feature = 1 /\ nvml = {} /\ device = 1 /\ name_list = <<>>
      /\ toWrite = <<"none">> /\ size_left = 16 /\ registered = FALSE
  BY <1>0 DEF Init, MachineInit, I2cInit, PanelInit, SensorsInit, NvmlInit, VgaInit
<1>2. Typed
  BY <1>1 DEF Typed, Names
<1>3. AdaptersHold /\ LookupProgress /\ PanelOpen
  BY <1>1 DEF AdaptersHold, LookupProgress, PanelOpen, Serving, BeforePanel, AfterPanel
<1>4. NamesFit /\ NoDriverLost /\ SensorsHold
  BY <1>1 DEF NamesFit, NoDriverLost, SensorsHold
<1>5. ReaderReady
  BY <1>1 DEF ReaderReady, Loading
<1> QED BY <1>2, <1>3, <1>4, <1>5 DEF IInv

LEMMA NextKeepsIInv == IInv /\ [Next]_vars => IInv'
<1>0. SUFFICES ASSUME IInv, [Next]_vars PROVE IInv'
  OBVIOUS
<1>1. CASE UNCHANGED vars
  <2>1. /\ phase' = phase /\ faults' = faults
        /\ UNCHANGED <<machine, overrun, i2c, initialized, sensors, nvml, gpu>>
    BY <1>1 DEF vars, panel
  <2>2. faults' \in Nat
    BY <1>0, <2>1 DEF IInv, Typed
  <2> QED BY <1>0, <2>1, <2>2, LoopKeeps
<1>2. CASE Next
  <2>1. CASE ProcessOptions
    BY <1>0, <2>1, ProcessOptionsKeeps
  <2>2. CASE ShowDisks
    BY <1>0, <1>2, <2>2, ShowDisksKeeps
  <2>3. CASE \/ daemonize
             \/ panel_open_i2c /\ UNCHANGED <<sensors, nvml, gpu, loop>>
             \/ panel_reset /\ UNCHANGED <<sensors, nvml, gpu, loop>>
    BY <1>0, <1>2, <2>3, PanelStepKeeps DEF PanelStep
  <2>4. CASE cleanup
    BY <1>0, <1>2, <2>4, cleanupKeeps
  <2>5. CASE I2cStep /\ UNCHANGED <<panel, sensors, nvml, gpu, loop>>
    BY <1>0, <1>2, <2>5, I2cKeeps
  <2>6. CASE VgaStep /\ UNCHANGED <<i2c, panel, loop>>
    <3>1. UNCHANGED <<i2c, panel>>
      BY <2>6
    <3>2. CASE process_dir /\ UNCHANGED <<sensors, nvml>>
      BY <1>0, <1>2, <3>1, <3>2, process_dirKeeps
    <3>3. CASE ScanDone /\ UNCHANGED <<sensors, nvml>>
      BY <1>0, <1>2, <3>1, <3>3, ScanDoneKeeps
    <3>4. CASE GrowList /\ UNCHANGED <<sensors, nvml>>
      BY <1>0, <1>2, <3>1, <3>4, GrowListKeeps
    <3>5. CASE WriteName /\ UNCHANGED <<sensors, nvml>>
      BY <1>0, <1>2, <3>1, <3>5, WriteNameKeeps
    <3>6. CASE NamesDone /\ UNCHANGED <<sensors, nvml>>
      BY <1>0, <1>2, <3>1, <3>6, NamesDoneKeeps
    <3>7. CASE ChooseReader /\ UNCHANGED nvml
      BY <1>0, <1>2, <3>1, <3>7, ChooseReaderKeeps
    <3>8. CASE (NvmlReady \/ NoNvml) /\ UNCHANGED <<sensors, nvml>>
      BY <1>0, <1>2, <3>1, <3>8, NvmlEndsKeeps
    <3>9. CASE nvml_cleanup /\ UNCHANGED sensors
      BY <1>0, <1>2, <3>1, <3>9, nvml_cleanupKeeps
    <3>10. CASE SensorsStep /\ UNCHANGED <<gpu, nvml>>
      BY <1>0, <1>2, <3>1, <3>10, SensorsKeeps
    <3>11. CASE NvmlStep /\ UNCHANGED <<gpu, sensors>>
      BY <1>0, <1>2, <3>1, <3>11, NvmlKeeps
    <3> QED BY <2>6, <3>2, <3>3, <3>4, <3>5, <3>6, <3>7, <3>8, <3>9, <3>10, <3>11
            DEF VgaStep
  <2>7. CASE Loop
    <3>1. /\ phase = "running" /\ phase' = phase
          /\ UNCHANGED <<machine, overrun, i2c, initialized, sensors, nvml, gpu>>
      BY <2>7, LoopStep
    <3>2. faults' \in Nat
      BY <1>0, <1>2, Constant DEF IInv, Typed
    <3> QED BY <1>0, <3>1, <3>2, LoopKeeps
  <2> QED BY <1>2, <2>1, <2>2, <2>3, <2>4, <2>5, <2>6, <2>7 DEF Next
<1> QED BY <1>0, <1>1, <1>2

(* The invariant holds of every reachable state. *)
LEMMA Invariance == Spec => []IInv
<1>1. Init => IInv
  BY InitIInv
<1>2. IInv /\ [Next]_vars => IInv'
  BY NextKeepsIInv
<1> QED BY <1>1, <1>2, PTL DEF Spec

-----------------------------------------------------------------------------
(* The frequencies of the cores.                                           *)

(* A set of numbers that is not empty has a least one. *)
LEMMA LeastOf ==
  ASSUME NEW T \in SUBSET Nat, T # {}
  PROVE  \E m \in T : \A k \in T : m <= k
<1>1. PICK m \in T : \A k \in T : ~(<<k, m>> \in OpToRel(<, Nat))
  BY NatLessThanWellFounded, WFMin
<1>2. \A k \in T : ~(k < m)
  BY <1>1 DEF OpToRel
<1> QED BY <1>2

(* What is parsed after each block. *)
IsParse(parsed, n, threads, memory) ==
  parsed = [k \in 0 .. n |->
              IF k = 0 THEN NewParser(memory, TableSize)
              ELSE ParseBlock(parsed[k - 1], threads[k], TableSize)]

LEMMA ParseExists ==
  ASSUME NEW threads, NEW memory, NEW n \in Nat
  PROVE  \E parsed : IsParse(parsed, n, threads, memory)
<1> DEFINE Fails == {k \in Nat : ~\E parsed : IsParse(parsed, k, threads, memory)}
<1>1. SUFFICES ASSUME Fails # {} PROVE FALSE
  OBVIOUS
<1>2. PICK m \in Fails : \A k \in Fails : m <= k
  BY <1>1, LeastOf
<1>3. m \in Nat /\ ~\E parsed : IsParse(parsed, m, threads, memory)
  OBVIOUS
<1>4. CASE m = 0
  <2> DEFINE parsed == [k \in 0 .. 0 |-> NewParser(memory, TableSize)]
  <2>1. IsParse(parsed, 0, threads, memory)
    BY DEF IsParse
  <2> QED BY <1>3, <1>4, <2>1
<1>5. CASE m # 0
  <2>1. m - 1 \in Nat /\ m - 1 \notin Fails
    BY <1>2, <1>3, <1>5
  <2>2. PICK before : IsParse(before, m - 1, threads, memory)
    BY <2>1
  <2> DEFINE last == ParseBlock(before[m - 1], threads[m], TableSize)
  <2> HIDE DEF last
  <2> DEFINE parsed == [k \in 0 .. m |-> IF k = m THEN last ELSE before[k]]
  <2>3. /\ DOMAIN before = 0 .. m - 1
        /\ \A k \in 0 .. m - 1 :
             before[k] = IF k = 0 THEN NewParser(memory, TableSize)
                         ELSE ParseBlock(before[k - 1], threads[k], TableSize)
    BY <2>2 DEF IsParse
  <2>4. \A k \in 0 .. m : k # 0 => parsed[k - 1] = before[k - 1]
    BY <1>3
  <2>5. \A k \in 0 .. m :
          parsed[k] = IF k = 0 THEN NewParser(memory, TableSize)
                      ELSE ParseBlock(parsed[k - 1], threads[k], TableSize)
    <3>1. \A k \in 0 .. m : k # m => k \in 0 .. m - 1
      BY <1>3
    <3>2. parsed[m] = ParseBlock(parsed[m - 1], threads[m], TableSize)
      BY <1>3, <1>5, <2>4 DEF last
    <3> QED BY <1>5, <2>3, <2>4, <3>1, <3>2
  <2>6. IsParse(parsed, m, threads, memory)
    BY <2>5 DEF IsParse
  <2> QED BY <1>3, <2>6
<1> QED BY <1>4, <1>5

LEMMA ParseIs ==
  ASSUME NEW threads, NEW memory, Len(threads) \in Nat
  PROVE  \E parsed :
           /\ IsParse(parsed, Len(threads), threads, memory)
           /\ parse_cpuinfo(threads, TableSize, memory)
                = ParseLine(parsed[Len(threads)], Line("end of file", 0), TableSize)
<1>1. PICK some : IsParse(some, Len(threads), threads, memory)
  BY ParseExists
<1> DEFINE parsed ==
      CHOOSE p : p = [n \in 0 .. Len(threads) |->
                        IF n = 0 THEN NewParser(memory, TableSize)
                        ELSE ParseBlock(p[n - 1], threads[n], TableSize)]
<1>2. IsParse(parsed, Len(threads), threads, memory)
  BY <1>1 DEF IsParse
<1>3. parse_cpuinfo(threads, TableSize, memory)
        = ParseLine(parsed[Len(threads)], Line("end of file", 0), TableSize)
  BY DEF parse_cpuinfo
<1> QED BY <1>2, <1>3

Parsers ==
  [inBlock : BOOLEAN, missing : SUBSET MissingData, core : Nat, mhz : Nat,
   table : [0 .. TableSize - 1 -> Int], real_num_cores : Nat]
Processors ==
  {threads \in Seq([core : Nat \cup {NoCore}, mhz : Nat]) :
     \A i \in 1 .. Len(threads) : threads[i].mhz >= 5}

Zeros(table) == {c \in 0 .. TableSize - 1 : table[c] = 0}

(* The table after the blocks of the first n threads: an entry that was    *)
(* zero has the frequency of the first thread of its core, and the others  *)
(* are as they were.                                                       *)
Tabled(table, num, cleared, threads, n) ==
  /\ table \in [0 .. TableSize - 1 -> Int]
  /\ \A c \in 0 .. TableSize - 1 : cleared[c] # 0 => table[c] = cleared[c]
  /\ \A c \in Zeros(cleared) :
       (\A i \in 1 .. n : threads[i].core # c) => table[c] = 0
  /\ \A i \in 1 .. n :
       /\ threads[i].core \in Zeros(cleared)
       /\ \A k \in 1 .. i - 1 : threads[k].core # threads[i].core
       => table[threads[i].core] = roundf(threads[i].mhz)
  /\ num = Cardinality(Zeros(cleared) \ Zeros(table))

LEMMA RoundfType ==
  ASSUME NEW mhz \in Nat, mhz >= 5
  PROVE  roundf(mhz) \in Nat \ {0}
BY DEF roundf

(* The number of entries that are filled. *)
LEMMA OneFilled ==
  ASSUME NEW table, NEW new, NEW cleared, NEW c \in Zeros(cleared),
         c \in Zeros(table), Zeros(new) = Zeros(table) \ {c}
  PROVE  /\ Cardinality(Zeros(cleared) \ Zeros(new))
              = Cardinality(Zeros(cleared) \ Zeros(table)) + 1
         /\ Cardinality(Zeros(cleared) \ Zeros(table)) \in Nat
<1> DEFINE filled == Zeros(cleared) \ Zeros(table)
<1>1. Zeros(cleared) \ Zeros(new) = filled \cup {c}
  BY DEF Zeros
<1>2. c \notin filled
  BY DEF Zeros
<1>3. IsFiniteSet(0 .. TableSize - 1)
  BY MachineAssumption, FS_Interval
<1>4. IsFiniteSet(filled)
  BY <1>3, FS_Subset DEF Zeros
<1> HIDE DEF filled
<1>5. Cardinality(filled \cup {c}) = Cardinality(filled) + 1 /\ Cardinality(filled) \in Nat
  BY <1>2, <1>4, FS_AddElement, FS_CardinalityType
<1> QED BY <1>1, <1>5 DEF filled

LEMMA FilledAtMost ==
  ASSUME NEW table, NEW cleared
  PROVE  /\ Cardinality(Zeros(cleared) \ Zeros(table)) \in Nat
         /\ Cardinality(Zeros(cleared) \ Zeros(table)) <= TableSize
<1>1. IsFiniteSet(0 .. TableSize - 1) /\ Cardinality(0 .. TableSize - 1) = TableSize
  BY MachineAssumption, FS_Interval
<1>2. Zeros(cleared) \ Zeros(table) \subseteq 0 .. TableSize - 1
  BY DEF Zeros
<1> QED BY <1>1, <1>2, FS_Subset, FS_CardinalityType

LEMMA ProcessorIs ==
  ASSUME NEW threads \in Processors, NEW i \in 1 .. Len(threads)
  PROVE  /\ threads[i].core \in Nat \cup {NoCore}
         /\ threads[i].mhz \in Nat /\ threads[i].mhz >= 5
<1> DEFINE S == [core : Nat \cup {NoCore}, mhz : Nat]
<1>0. threads \in Seq(S)
  BY DEF Processors
<1>1. threads[i] \in S
  <2> HIDE DEF S
  <2> QED BY <1>0
<1>2. threads[i].mhz >= 5
  BY DEF Processors
<1> QED BY <1>1, <1>2

(* One more thread. *)
LEMMA OneMoreThread ==
  ASSUME NEW cleared, NEW threads \in Processors, NEW n \in 1 .. Len(threads),
         NEW table, NEW num, Tabled(table, num, cleared, threads, n - 1),
         NEW new, NEW newNum,
         LET c == threads[n].core
         IN  IF c \in 0 .. TableSize - 1 /\ table[c] = 0
             THEN /\ new = [table EXCEPT ![c] = roundf(threads[n].mhz)]
                  /\ newNum = num + 1
             ELSE new = table /\ newNum = num
  PROVE  Tabled(new, newNum, cleared, threads, n)
<1> DEFINE c == threads[n].core
<1>1. /\ c \in Nat \cup {NoCore} /\ threads[n].mhz \in Nat /\ threads[n].mhz >= 5
      /\ n \in Nat \ {0}
  <2>1. Len(threads) \in Nat
    BY DEF Processors
  <2> QED BY <2>1, ProcessorIs
<1>2. PICK v : v = roundf(threads[n].mhz)
  OBVIOUS
<1>3. v \in Nat \ {0}
  BY <1>1, <1>2, RoundfType
<1>4. /\ table \in [0 .. TableSize - 1 -> Int]
      /\ \A k \in 0 .. TableSize - 1 : cleared[k] # 0 => table[k] = cleared[k]
      /\ \A k \in Zeros(cleared) :
           (\A i \in 1 .. n - 1 : threads[i].core # k) => table[k] = 0
      /\ \A i \in 1 .. n - 1 :
           /\ threads[i].core \in Zeros(cleared)
           /\ \A k \in 1 .. i - 1 : threads[k].core # threads[i].core
           => table[threads[i].core] = roundf(threads[i].mhz)
      /\ num = Cardinality(Zeros(cleared) \ Zeros(table))
  BY DEF Tabled
<1>5. \A i \in 1 .. n : i \in 1 .. n - 1 \/ i = n
  BY <1>1
<1>n. 1 .. n - 1 \subseteq 1 .. n /\ n \in 1 .. n
  BY <1>1
<1> HIDE DEF c
<1>6. CASE c \in 0 .. TableSize - 1 /\ table[c] = 0
  <2>1. new = [table EXCEPT ![c] = v] /\ newNum = num + 1
    BY <1>2, <1>6 DEF c
  <2>2. c \in Zeros(cleared)
    BY <1>4, <1>6 DEF Zeros
  <2>3. new \in [0 .. TableSize - 1 -> Int]
    <3>1. table \in [0 .. TableSize - 1 -> Int] /\ v \in Int
      BY <1>3, <1>4
    <3> QED BY <2>1, <3>1
  <2>4. \A k \in 0 .. TableSize - 1 : cleared[k] # 0 => new[k] = cleared[k]
    BY <1>4, <1>6, <2>1
  <2>5. \A k \in Zeros(cleared) :
          (\A i \in 1 .. n : threads[i].core # k) => new[k] = 0
    <3>1. SUFFICES ASSUME NEW k \in Zeros(cleared),
                          \A i \in 1 .. n : threads[i].core # k
                   PROVE  new[k] = 0
      OBVIOUS
    <3>2. k # c /\ table[k] = 0 /\ k \in 0 .. TableSize - 1
      BY <1>4, <1>n, <3>1 DEF c, Zeros
    <3> QED BY <1>4, <2>1, <3>2
  <2>6. \A i \in 1 .. n :
          /\ threads[i].core \in Zeros(cleared)
          /\ \A k \in 1 .. i - 1 : threads[k].core # threads[i].core
          => new[threads[i].core] = roundf(threads[i].mhz)
    <3>1. SUFFICES ASSUME NEW i \in 1 .. n, threads[i].core \in Zeros(cleared),
                          \A k \in 1 .. i - 1 : threads[k].core # threads[i].core
                   PROVE  new[threads[i].core] = roundf(threads[i].mhz)
      OBVIOUS
    <3>2. CASE i = n
      BY <1>2, <1>4, <1>6, <2>1, <3>2 DEF c
    <3>3. CASE i \in 1 .. n - 1
      <4>1. table[threads[i].core] = roundf(threads[i].mhz)
        BY <1>4, <3>1, <3>3
      <4>2. roundf(threads[i].mhz) # 0
        <5>1. i \in 1 .. Len(threads)
          BY <1>1, <3>1 DEF Processors
        <5>2. threads[i].mhz \in Nat /\ threads[i].mhz >= 5
          BY <5>1, ProcessorIs
        <5> QED BY <5>2, RoundfType
      <4>3. threads[i].core # c
        BY <1>6, <4>1, <4>2
      <4> QED BY <1>4, <2>1, <3>1, <4>1, <4>3 DEF Zeros
    <3> QED BY <1>5, <3>2, <3>3
  <2>7. newNum = Cardinality(Zeros(cleared) \ Zeros(new))
    <3>1. /\ table \in [0 .. TableSize - 1 -> Int] /\ v \in Int \ {0}
          /\ num = Cardinality(Zeros(cleared) \ Zeros(table))
      BY <1>3, <1>4
    <3>2. c \in Zeros(table) /\ Zeros(new) = Zeros(table) \ {c}
      BY <1>6, <2>1, <3>1 DEF Zeros
    <3>3. Cardinality(Zeros(cleared) \ Zeros(new))
            = Cardinality(Zeros(cleared) \ Zeros(table)) + 1
      BY <2>2, <3>1, <3>2, OneFilled
    <3>4. Cardinality(Zeros(cleared) \ Zeros(new)) = num + 1
      BY <3>1, <3>3
    <3> QED BY <2>1, <3>4
  <2> QED BY <2>3, <2>4, <2>5, <2>6, <2>7 DEF Tabled
<1>7. CASE ~(c \in 0 .. TableSize - 1 /\ table[c] = 0)
  <2>1. new = table /\ newNum = num
    BY <1>7 DEF c
  <2>2. \A k \in Zeros(cleared) :
          (\A i \in 1 .. n : threads[i].core # k) => new[k] = 0
    BY <1>4, <1>n, <2>1
  <2>3. ASSUME c \in Zeros(cleared), \A k \in 1 .. n - 1 : threads[k].core # c
        PROVE  FALSE
    BY <1>4, <1>7, <2>3 DEF Zeros
  <2>4. \A i \in 1 .. n :
          /\ threads[i].core \in Zeros(cleared)
          /\ \A k \in 1 .. i - 1 : threads[k].core # threads[i].core
          => new[threads[i].core] = roundf(threads[i].mhz)
    BY <1>4, <1>5, <2>1, <2>3 DEF c
  <2> QED BY <1>4, <2>1, <2>2, <2>4 DEF Tabled
<1> QED BY <1>6, <1>7

(* A parser between two blocks: the last one is read, not yet ended. *)
AfterBlock(parser, cleared, threads, n) ==
  /\ parser \in Parsers
  /\ n = 0 => /\ parser.inBlock = FALSE
              /\ Tabled(parser.table, parser.real_num_cores, cleared, threads, 0)
  /\ n > 0 => /\ parser.inBlock = TRUE
              /\ parser.mhz = threads[n].mhz
              /\ IF threads[n].core = NoCore THEN parser.missing # {}
                 ELSE parser.missing = {} /\ parser.core = threads[n].core
              /\ Tabled(parser.table, parser.real_num_cores, cleared, threads, n - 1)

LEMMA BlockEnds ==
  ASSUME NEW cleared, NEW threads \in Processors, NEW n \in 1 .. Len(threads),
         NEW parser, AfterBlock(parser, cleared, threads, n),
         NEW ended, ended = EndOfBlock(parser, TableSize)
  PROVE  /\ ended \in Parsers /\ ended.inBlock = TRUE /\ ended.missing = MissingData
         /\ Tabled(ended.table, ended.real_num_cores, cleared, threads, n)
<1>1. /\ n \in Nat \ {0}
      /\ threads[n].core \in Nat \cup {NoCore}
      /\ threads[n].mhz \in Nat /\ threads[n].mhz >= 5
  <2>1. Len(threads) \in Nat
    BY DEF Processors
  <2> QED BY <2>1, ProcessorIs
<1>2. /\ parser \in Parsers
      /\ parser.inBlock = TRUE
      /\ parser.mhz = threads[n].mhz
      /\ threads[n].core = NoCore => parser.missing # {}
      /\ threads[n].core # NoCore => parser.missing = {} /\ parser.core = threads[n].core
      /\ Tabled(parser.table, parser.real_num_cores, cleared, threads, n - 1)
  BY <1>1 DEF AfterBlock
<1>3. /\ parser.table \in [0 .. TableSize - 1 -> Int] /\ parser.real_num_cores \in Nat
      /\ parser.core \in Nat /\ TableSize \in Nat /\ NoCore \notin Nat
  BY <1>2, MachineAssumption DEF Parsers
<1>4. roundf(threads[n].mhz) \in Int
  BY <1>1, RoundfType
<1> DEFINE Sets == /\ parser.missing = {}
                   /\ parser.core < TableSize
                   /\ parser.table[parser.core] = 0
<1>5. CASE Sets
  <2>1. ended = [parser EXCEPT !.missing = MissingData,
                               !.table[parser.core] = roundf(parser.mhz),
                               !.real_num_cores = @ + 1]
    BY <1>5 DEF EndOfBlock
  <2>2. threads[n].core # NoCore /\ parser.core = threads[n].core
    BY <1>2, <1>5
  <2>3. /\ ended \in Parsers /\ ended.inBlock = TRUE /\ ended.missing = MissingData
        /\ ended.table = [parser.table EXCEPT ![parser.core] = roundf(parser.mhz)]
        /\ ended.real_num_cores = parser.real_num_cores + 1
    <3>1. PICK new : new = [parser.table EXCEPT ![parser.core] = roundf(parser.mhz)]
      OBVIOUS
    <3>2. new \in [0 .. TableSize - 1 -> Int]
      BY <1>2, <1>3, <1>4, <3>1
    <3>3. ended = [inBlock |-> parser.inBlock, missing |-> MissingData,
                   core |-> parser.core, mhz |-> parser.mhz, table |-> new,
                   real_num_cores |-> parser.real_num_cores + 1]
      BY <1>2, <2>1, <3>1 DEF Parsers
    <3>4. parser.inBlock \in BOOLEAN /\ parser.core \in Nat /\ parser.mhz \in Nat
      BY <1>2 DEF Parsers
    <3>5. /\ ended \in Parsers /\ ended.inBlock = TRUE /\ ended.missing = MissingData
          /\ ended.table = new /\ ended.real_num_cores = parser.real_num_cores + 1
      BY <1>2, <1>3, <3>2, <3>3, <3>4 DEF Parsers
    <3> QED BY <3>1, <3>5
  <2>4. threads[n].core \in 0 .. TableSize - 1 /\ parser.table[threads[n].core] = 0
    BY <1>3, <1>5, <2>2
  <2> QED BY <1>2, <2>2, <2>3, <2>4, OneMoreThread
<1>6. CASE ~Sets
  <2>1. ended = [parser EXCEPT !.missing = MissingData]
    BY <1>6 DEF EndOfBlock
  <2>2. /\ ended \in Parsers /\ ended.inBlock = TRUE /\ ended.missing = MissingData
        /\ ended.table = parser.table
        /\ ended.real_num_cores = parser.real_num_cores
    BY <1>2, <2>1 DEF Parsers
  <2>3. ~(threads[n].core \in 0 .. TableSize - 1 /\ parser.table[threads[n].core] = 0)
    <3>1. CASE threads[n].core = NoCore
      BY <1>3, <3>1
    <3>2. CASE threads[n].core # NoCore
      BY <1>2, <1>3, <1>6, <3>2
    <3> QED BY <3>1, <3>2
  <2> QED BY <1>2, <2>2, <2>3, OneMoreThread
<1> QED BY <1>5, <1>6

(* The lines of one block, after those before it. *)
LEMMA NextBlock ==
  ASSUME NEW cleared, NEW threads \in Processors, NEW n \in 1 .. Len(threads),
         NEW parser, AfterBlock(parser, cleared, threads, n - 1)
  PROVE  AfterBlock(ParseBlock(parser, threads[n], TableSize), cleared, threads, n)
<1>1. /\ n \in Nat \ {0} /\ Len(threads) \in Nat
      /\ threads[n].core \in Nat \cup {NoCore}
      /\ threads[n].mhz \in Nat /\ threads[n].mhz >= 5
  <2>1. Len(threads) \in Nat
    BY DEF Processors
  <2> QED BY <2>1, ProcessorIs
<1> DEFINE begun == ParseLine(parser, Line("processor", 0), TableSize)
           timed == ParseLine(begun, Line("cpu MHz", threads[n].mhz), TableSize)
           named == ParseLine(timed, Line("core id", threads[n].core), TableSize)
<1>2. /\ begun \in Parsers /\ begun.inBlock = TRUE /\ begun.missing = MissingData
      /\ Tabled(begun.table, begun.real_num_cores, cleared, threads, n - 1)
  <2>1. CASE n = 1
    <3>1. /\ parser \in Parsers /\ parser.inBlock = FALSE
          /\ Tabled(parser.table, parser.real_num_cores, cleared, threads, 0)
      BY <2>1 DEF AfterBlock
    <3>2. begun = [parser EXCEPT !.inBlock = TRUE, !.missing = MissingData]
      BY <3>1 DEF ParseLine, Line
    <3>3. /\ begun \in Parsers /\ begun.inBlock = TRUE /\ begun.missing = MissingData
          /\ begun.table = parser.table /\ begun.real_num_cores = parser.real_num_cores
      BY <3>1, <3>2 DEF Parsers
    <3> QED BY <2>1, <3>1, <3>3
  <2>2. CASE n # 1
    <3>1. n - 1 \in 1 .. Len(threads)
      BY <1>1, <2>2
    <3>2. parser.inBlock = TRUE
      BY <1>1, <3>1 DEF AfterBlock
    <3>3. begun = EndOfBlock(parser, TableSize)
      BY <3>2 DEF ParseLine, Line
    <3> QED BY <3>1, <3>3, BlockEnds
  <2> QED BY <2>1, <2>2
<1> HIDE DEF begun
<1>3. /\ timed \in Parsers /\ timed.inBlock = TRUE /\ timed.mhz = threads[n].mhz
      /\ timed.missing = {"core id"}
      /\ timed.table = begun.table /\ timed.real_num_cores = begun.real_num_cores
  <2>1. timed = [begun EXCEPT !.mhz = threads[n].mhz, !.missing = @ \ {"cpu MHz"}]
    BY <1>2 DEF ParseLine, Line
  <2> HIDE DEF timed
  <2>2. timed.missing = begun.missing \ {"cpu MHz"}
    BY <1>2, <2>1 DEF Parsers
  <2>3. timed.missing = {"core id"}
    BY <1>2, <2>2 DEF MissingData
  <2> QED BY <1>1, <1>2, <2>1, <2>3 DEF Parsers, MissingData
<1> HIDE DEF timed
<1>4. CASE threads[n].core = NoCore
  <2>1. ParseBlock(parser, threads[n], TableSize) = timed
    BY <1>4 DEF ParseBlock, begun, timed
  <2> QED BY <1>1, <1>2, <1>3, <1>4, <2>1 DEF AfterBlock
<1>5. CASE threads[n].core # NoCore
  <2>1. ParseBlock(parser, threads[n], TableSize) = named
    BY <1>5 DEF ParseBlock, begun, timed
  <2>2. named = [timed EXCEPT !.core = threads[n].core, !.missing = @ \ {"core id"}]
    BY <1>3 DEF ParseLine, Line
  <2> HIDE DEF named
  <2>3. /\ named \in Parsers /\ named.inBlock = TRUE /\ named.mhz = threads[n].mhz
        /\ named.core = threads[n].core /\ named.missing = {}
        /\ named.table = timed.table /\ named.real_num_cores = timed.real_num_cores
    BY <1>1, <1>3, <1>5, <2>2 DEF Parsers
  <2> QED BY <1>1, <1>2, <1>3, <1>5, <2>1, <2>3 DEF AfterBlock
<1> QED BY <1>4, <1>5

(* The whole file. *)
LEMMA FileParsed ==
  ASSUME NEW threads \in Processors, NEW memory \in [0 .. TableSize - 1 -> Int]
  PROVE  LET parser == parse_cpuinfo(threads, TableSize, memory)
         IN  Tabled(parser.table, parser.real_num_cores, Cleared(memory, TableSize),
                    threads, Len(threads))
<1>1. Len(threads) \in Nat
  BY DEF Processors
<1>2. PICK parsed :
        /\ IsParse(parsed, Len(threads), threads, memory)
        /\ parse_cpuinfo(threads, TableSize, memory)
             = ParseLine(parsed[Len(threads)], Line("end of file", 0), TableSize)
  BY <1>1, ParseIs
<1>3. \A n \in 0 .. Len(threads) :
        parsed[n] = IF n = 0 THEN NewParser(memory, TableSize)
                    ELSE ParseBlock(parsed[n - 1], threads[n], TableSize)
  BY <1>2 DEF IsParse
<1> DEFINE cleared == Cleared(memory, TableSize)
           first == NewParser(memory, TableSize)
<1>4. AfterBlock(first, cleared, threads, 0)
  <2>1. cleared \in [0 .. TableSize - 1 -> Int]
    BY DEF Cleared
  <2>2. Cardinality(Zeros(cleared) \ Zeros(cleared)) = 0
    <3>1. Zeros(cleared) \ Zeros(cleared) = {}
      OBVIOUS
    <3> QED BY <3>1, FS_EmptySet
  <2>3. /\ first.inBlock = FALSE /\ first.table = cleared /\ first.real_num_cores = 0
        /\ first = [inBlock |-> FALSE, missing |-> {}, core |-> 0, mhz |-> 0,
                    table |-> cleared, real_num_cores |-> 0]
    BY DEF NewParser
  <2> HIDE DEF cleared, first
  <2>4. first \in Parsers
    BY <2>1, <2>3 DEF Parsers
  <2>5. Tabled(cleared, 0, cleared, threads, 0)
    BY <2>1, <2>2 DEF Tabled, Zeros
  <2> QED BY <2>3, <2>4, <2>5 DEF AfterBlock
<1> DEFINE Bad == {n \in 0 .. Len(threads) : ~AfterBlock(parsed[n], cleared, threads, n)}
<1> HIDE DEF cleared, first
<1>5. Bad = {}
  <2>1. SUFFICES ASSUME Bad # {} PROVE FALSE
    OBVIOUS
  <2>2. Bad \in SUBSET Nat
    BY <1>1
  <2>3. PICK m \in Bad : \A k \in Bad : m <= k
    BY <2>1, <2>2, LeastOf
  <2>4. m \in 0 .. Len(threads) /\ ~AfterBlock(parsed[m], cleared, threads, m)
    BY <2>3
  <2>5. m # 0
    BY <1>1, <1>3, <1>4, <2>4 DEF first
  <2>6. m - 1 \in 0 .. Len(threads) /\ m - 1 \notin Bad /\ m \in 1 .. Len(threads)
    BY <1>1, <2>3, <2>4, <2>5
  <2>7. AfterBlock(parsed[m - 1], cleared, threads, m - 1)
    BY <2>6
  <2>8. parsed[m] = ParseBlock(parsed[m - 1], threads[m], TableSize)
    BY <1>3, <2>4, <2>5
  <2> QED BY <2>4, <2>6, <2>7, <2>8, NextBlock
<1>6. AfterBlock(parsed[Len(threads)], cleared, threads, Len(threads))
  BY <1>1, <1>5
<1> DEFINE last == parsed[Len(threads)]
           parser == ParseLine(last, Line("end of file", 0), TableSize)
<1>7. Tabled(parser.table, parser.real_num_cores, cleared, threads, Len(threads))
  <2>1. CASE Len(threads) = 0
    <3>1. last.inBlock = FALSE /\ Tabled(last.table, last.real_num_cores, cleared, threads, 0)
      BY <1>6, <2>1 DEF AfterBlock
    <3>2. parser = last
      BY <3>1 DEF ParseLine, Line
    <3> QED BY <2>1, <3>1, <3>2
  <2>2. CASE Len(threads) # 0
    <3>1. last.inBlock = TRUE /\ Len(threads) \in 1 .. Len(threads)
      BY <1>1, <1>6, <2>2 DEF AfterBlock
    <3>2. parser = EndOfBlock(last, TableSize)
      BY <3>1 DEF ParseLine, Line
    <3> QED BY <1>6, <3>1, <3>2, BlockEnds
  <2> QED BY <2>1, <2>2
<1> QED BY <1>2, <1>7 DEF cleared

(***************************************************************************)
(* cpu_freq_get_list never has more entries than the table, and the entry  *)
(* of a core is what the file says of its first thread, if it was zero.    *)
(***************************************************************************)
LEMMA Frequencies ==
  ASSUME NEW threads \in Processors, NEW memory \in [0 .. TableSize - 1 -> Int],
         NEW opened \in BOOLEAN, NEW list, list = cpu_freq_get_list(threads, opened, memory)
  PROVE  /\ list \in Seq(Int) /\ Len(list) \in Nat /\ Len(list) <= TableSize
         /\ DOMAIN list = 1 .. Len(list)
         /\ opened = FALSE => \A i \in DOMAIN list : list[i] = memory[i - 1]
         /\ opened = TRUE => \E table, num :
              /\ Tabled(table, num, Cleared(memory, TableSize), threads, Len(threads))
              /\ Len(list) = num
              /\ \A i \in DOMAIN list : list[i] = table[i - 1]
<1> DEFINE parser == parse_cpuinfo(threads, TableSize, memory)
           num == IF opened THEN parser.real_num_cores ELSE TableSize
<1>1. Tabled(parser.table, parser.real_num_cores, Cleared(memory, TableSize),
             threads, Len(threads))
  BY FileParsed
<1>2. list = [i \in 1 .. num |-> IF opened THEN parser.table[i - 1] ELSE memory[i - 1]]
  BY DEF cpu_freq_get_list
<1> HIDE DEF parser
<1>3. /\ parser.real_num_cores \in Nat /\ parser.real_num_cores <= TableSize
      /\ parser.table \in [0 .. TableSize - 1 -> Int]
  BY <1>1, FilledAtMost DEF Tabled
<1>4. num \in Nat /\ num <= TableSize /\ TableSize \in Nat
  BY <1>3, MachineAssumption
<1> HIDE DEF num
<1>5. \A i \in 1 .. num : i - 1 \in 0 .. TableSize - 1
  BY <1>4
<1>6. list \in [1 .. num -> Int]
  BY <1>2, <1>3, <1>5
<1>7. list \in Seq(Int) /\ Len(list) = num /\ DOMAIN list = 1 .. num
  BY <1>4, <1>6
<1>8. \A i \in 1 .. num : list[i] = IF opened THEN parser.table[i - 1] ELSE memory[i - 1]
  BY <1>2
<1>9. opened = TRUE => num = parser.real_num_cores
  BY DEF num
<1> QED BY <1>1, <1>4, <1>7, <1>8, <1>9

-----------------------------------------------------------------------------
(* The steps of the loop, and those that are not.                          *)

LEMMA NvmlLoading ==
  ASSUME NvmlStep
  PROVE  phase \in Loading /\ phase' \in Loading /\ overrun' = overrun
<1>1. \A here, next, takes, label : Call(here, next, takes, label) =>
        phase = here /\ phase' \in {next, label} /\ overrun' = overrun
  BY DEF Call
<1>2. \A label, next, gives : Unwind(label, next, gives) =>
        phase = label /\ phase' = next /\ overrun' = overrun
  BY DEF Unwind, Goto
<1>3. CASE Dlopen \/ LoadSymbols \/ OpenSession \/ GetCount \/ GetHandle
  BY <1>1, <1>3 DEF Dlopen, LoadSymbols, OpenSession, GetCount, GetHandle, Loading
<1>4. CASE nvmlShutdown \/ nvml_dll_cleanup
  BY <1>4 DEF nvmlShutdown, nvml_dll_cleanup, Unwind, Goto, Loading
<1> QED BY <1>3, <1>4 DEF NvmlStep

(* A step that is not one of the loop. *)
LEMMA Elsewhere ==
  ASSUME Next, ~Loop
  PROVE  /\ phase \in {"running", "exit handlers", "exited"} =>
              /\ \/ /\ phase = "running" /\ phase' = "exit handlers"
                    /\ job' = NULL /\ contexts' = <<>>
                 \/ /\ phase = "exit handlers" /\ phase' = "exited"
                    /\ UNCHANGED <<contexts, job>>
              /\ UNCHANGED <<registers, valid, overrun, faults, GPU_get_temperature>>
         /\ phase \notin {"running", "exit handlers", "exited"} =>
              /\ \/ registers' = registers /\ valid' = valid
                 \/ registers' = <<>> /\ valid' = {}
              /\ phase' # "exit handlers"
              /\ UNCHANGED <<contexts, job>>
         /\ warmer' = warmer
<1>1. CASE ProcessOptions \/ ShowDisks \/ daemonize
  BY <1>1 DEF ProcessOptions, ShowDisks, daemonize, Goto, panel, loop
<1>2. CASE cleanup
  BY <1>2 DEF cleanup, Goto, gpu
<1>3. CASE I2cStep /\ UNCHANGED <<panel, sensors, nvml, gpu, loop>>
  BY <1>3, I2cMoves DEF panel, loop
<1>4. CASE panel_open_i2c /\ UNCHANGED <<sensors, nvml, gpu, loop>>
  BY <1>4 DEF panel_open_i2c, panel, loop
<1>5. CASE panel_reset /\ UNCHANGED <<sensors, nvml, gpu, loop>>
  BY <1>5 DEF panel_reset, Goto, panel, loop
<1>6. CASE VgaStep /\ UNCHANGED <<i2c, panel, loop>>
  <2>1. CASE process_dir \/ ScanDone \/ GrowList \/ WriteName \/ NamesDone
    BY <1>6, <2>1 DEF process_dir, ScanDone, GrowList, WriteName, Writing, NamesDone,
       Goto, panel, loop
  <2>2. CASE ChooseReader \/ NvmlReady \/ NoNvml
    BY <1>6, <2>2 DEF ChooseReader, NvmlReady, NoNvml, Goto, panel, loop
  <2>3. CASE nvml_cleanup
    BY <1>6, <2>3 DEF nvml_cleanup, Goto, panel, loop, gpu
  <2>4. CASE SensorsStep
    BY <1>6, <2>4 DEF SensorsStep, sensors_show, CoretempFails, CoretempFound,
       SkipFeature, AddFeature, FeatureFails, FeaturesDone, AtFeature, Goto, panel, loop
  <2>5. CASE NvmlStep
    BY <1>6, <2>5, NvmlLoading DEF Loading, panel, loop
  <2> QED BY <1>6, <2>1, <2>2, <2>3, <2>4, <2>5 DEF VgaStep
<1> QED BY <1>1, <1>2, <1>3, <1>4, <1>5, <1>6 DEF Next

(* The sensors are read by steps of their own. *)
AfterRead ==
  \/ phase \in AfterFeatures
  \/ phase \in {"names", "write names"} /\ "info" \notin machine.options

LEMMA NotTheSensors ==
  ASSUME Next, machine' = machine
  PROVE  /\ ~SensorsStep => /\ coretemp' = coretemp /\ feature' = feature
                            /\ "coretemp" \in overrun' <=> "coretemp" \in overrun
         /\ AfterRead' => AfterRead \/ FeaturesDone
<1> USE DEF AfterRead, AfterFeatures, Loading
<1>1. CASE ProcessOptions \/ ShowDisks \/ daemonize
  BY <1>1 DEF ProcessOptions, ShowDisks, daemonize, Goto, sensors
<1>2. CASE cleanup
  BY <1>2 DEF cleanup, Goto
<1>3. CASE I2cStep /\ UNCHANGED <<panel, sensors, nvml, gpu, loop>>
  <2>1. "coretemp" \in overrun' <=> "coretemp" \in overrun
    BY <1>3 DEF I2cStep, calloc_adapters, ProcBus, SysfsBus, AddAdapter,
       OutOfMemory, GatherDone, TryBus, LookupFinds, LookupFails, LookupCrashes, Walked
  <2> QED BY <1>3, <2>1, I2cMoves DEF sensors
<1>4. CASE panel_open_i2c /\ UNCHANGED <<sensors, nvml, gpu, loop>>
  BY <1>4 DEF panel_open_i2c, sensors
<1>5. CASE panel_reset /\ UNCHANGED <<sensors, nvml, gpu, loop>>
  BY <1>5 DEF panel_reset, Goto, sensors
<1>6. CASE VgaStep /\ UNCHANGED <<i2c, panel, loop>>
  <2>1. CASE (process_dir \/ ScanDone \/ GrowList) /\ UNCHANGED sensors
    BY <2>1 DEF process_dir, ScanDone, GrowList, Writing, Goto, sensors
  <2>6. CASE (WriteName \/ NamesDone) /\ UNCHANGED sensors
    BY <2>6 DEF WriteName, Writing, NamesDone, Goto, sensors
  <2>2. CASE ChooseReader
    BY <2>2 DEF ChooseReader, Goto
  <2>7. CASE (NvmlReady \/ NoNvml) /\ UNCHANGED sensors
    BY <2>7 DEF NvmlReady, NoNvml, Goto, sensors
  <2>3. CASE nvml_cleanup /\ UNCHANGED sensors
    BY <2>3 DEF nvml_cleanup, Goto, sensors
  <2>4. CASE SensorsStep
    BY <2>4 DEF SensorsStep, sensors_show, CoretempFails, CoretempFound,
       SkipFeature, AddFeature, FeatureFails, FeaturesDone, AtFeature, Goto
  <2>5. CASE NvmlStep /\ UNCHANGED sensors
    BY <2>5, NvmlLoading DEF sensors
  <2> QED BY <1>6, <2>1, <2>2, <2>3, <2>4, <2>5, <2>6, <2>7 DEF VgaStep
<1>7. CASE Loop
  BY <1>7, LoopStep DEF sensors
<1> QED BY <1>1, <1>2, <1>3, <1>4, <1>5, <1>6, <1>7 DEF Next

LEMMA NextKeepsReader ==
  ASSUME Next, IInv, ReaderChosen PROVE ReaderChosen'
<1>1. CASE Loop
  BY <1>1, LoopStep DEF ReaderChosen, gpu
<1>2. CASE ~Loop /\ phase' = "running"
  <2>1. ChooseReader \/ NvmlReady \/ NoNvml
    <3>1. ~(ProcessOptions \/ ShowDisks \/ daemonize \/ cleanup)
      BY <1>2 DEF ProcessOptions, ShowDisks, daemonize, cleanup, Goto
    <3>2. ~I2cStep /\ ~panel_open_i2c /\ ~panel_reset
      BY <1>2, I2cMoves DEF panel_open_i2c, panel_reset, Goto
    <3>3. ~(process_dir \/ ScanDone \/ GrowList \/ WriteName \/ NamesDone \/ nvml_cleanup)
      BY <1>2 DEF process_dir, ScanDone, GrowList, WriteName, Writing, NamesDone,
         nvml_cleanup, Goto
    <3>4. ~SensorsStep
      BY <1>2 DEF SensorsStep, sensors_show, CoretempFails, CoretempFound,
         SkipFeature, AddFeature, FeatureFails, FeaturesDone, AtFeature, Goto
    <3>5. ~NvmlStep
      BY <1>2, NvmlLoading DEF Loading
    <3> QED BY <1>2, <3>1, <3>2, <3>3, <3>4, <3>5 DEF Next, VgaStep
  <2>2. CASE ChooseReader
    BY <2>2 DEF ChooseReader, ReaderChosen, Readers
  <2>3. CASE NvmlReady
    BY <2>3 DEF NvmlReady, ReaderChosen, Readers
  <2>4. CASE NoNvml
    BY <2>4 DEF NoNvml, gpu, Goto, IInv, ReaderReady, Loading, ReaderChosen, Readers
  <2> QED BY <2>1, <2>2, <2>3, <2>4
<1> QED BY <1>1, <1>2 DEF ReaderChosen

-----------------------------------------------------------------------------
(* The sensors are read.                                                   *)

(* The features, as facts about the machine that the assumptions give. *)
LEMMA FeaturesAre ==
  ASSUME machine \in Machines
  PROVE  /\ Len(machine.features) \in Nat
         /\ DOMAIN machine.features = 1 .. Len(machine.features)
         /\ \A k \in 1 .. Len(machine.features) :
              machine.features[k].core \in Nat \cup {NoCore}
         /\ \A i, k \in 1 .. Len(machine.features) :
              machine.features[i].core = machine.features[k].core
                /\ machine.features[i].core # NoCore => i = k
         /\ \A i \in 1 .. Len(machine.features) : CoreTemp(i - 1, 1) < 256
         /\ machine.features = <<>> <=> Len(machine.features) = 0
<1>1. /\ Len(machine.features) \in Nat
      /\ DOMAIN machine.features = 1 .. Len(machine.features)
      /\ \A k \in 1 .. Len(machine.features) :
           machine.features[k].core \in Nat \cup {NoCore}
  BY MachineIs
<1>2. machine.features \in Seq([core : Nat \cup {NoCore}, input : BOOLEAN])
  BY MachinesAssumption
<1>3. machine.features = <<>> <=> Len(machine.features) = 0
  BY <1>2, EmptySeq
<1> QED BY <1>1, <1>3, PanelAssumption

LEMMA NextCore ==
  ASSUME feature \in Nat \ {0}
  PROVE  CoresBefore(feature + 1)
           = CoresBefore(feature) \cup ({Feature.core} \ {NoCore})
<1>1. \A k : k \in 1 .. feature + 1 - 1 <=> k \in 1 .. feature - 1 \/ k = feature
  OBVIOUS
<1> QED BY <1>1 DEF CoresBefore, Feature

LEMMA SkipFeatureReads ==
  ASSUME IInv, SensorsRead, SkipFeature PROVE SensorsRead'
<1>1. /\ feature \in Nat \ {0} /\ machine \in Machines
      /\ feature' = feature + 1 /\ coretemp' = coretemp /\ machine' = machine
      /\ overrun' = overrun /\ feature <= Len(machine.features)
      /\ machine.features[feature].core = NoCore
  BY DEF IInv, Typed, SkipFeature, AtFeature, Feature
<1>2. CoresBefore(feature + 1) = CoresBefore(feature)
  BY <1>1, NextCore DEF Feature
<1>3. (CoresBefore(feature))' = CoresBefore(feature)
  BY <1>1, <1>2 DEF CoresBefore
<1>4. \A k \in 1 .. feature + 1 - 1 : k \in 1 .. feature - 1 \/ k = feature
  BY <1>1
<1>5. ~InTable(NoCore)
  BY MachineAssumption DEF InTable
<1>6. \A k \in 1 .. feature + 1 - 1 :
        InTable(machine.features[k].core) =>
          coretemp.ids[machine.features[k].core] = k - 1
  <2>1. \A k \in 1 .. feature - 1 :
          InTable(machine.features[k].core) =>
            coretemp.ids[machine.features[k].core] = k - 1
    BY DEF SensorsRead
  <2> QED BY <1>1, <1>4, <1>5, <2>1, Zenon
<1>7. feature' <= Len(machine'.features) + 1 /\ coretemp'.num <= feature' - 1
  <2>1. coretemp.num \in Nat /\ coretemp.num <= feature - 1
    BY DEF SensorsRead
  <2>2. Len(machine.features) \in Nat
    BY <1>1, FeaturesAre
  <2> QED BY <1>1, <2>1, <2>2
<1>8. \A c : InTable(c)' <=> InTable(c)
  BY DEF InTable
<1> QED BY <1>1, <1>3, <1>6, <1>7, <1>8 DEF SensorsRead, InTable

(* A core has one sensor, so that what is counted is cores. *)
LEMMA AddFeatureReads ==
  ASSUME IInv, SensorsRead, AddFeature PROVE SensorsRead'
<1> DEFINE core == machine.features[feature].core
           before == CoresBefore(feature)
<1>1. /\ feature \in Nat \ {0} /\ machine \in Machines
      /\ feature' = feature + 1 /\ machine' = machine
      /\ feature <= Len(machine.features) /\ core # NoCore
      /\ TableSize \in Nat \ {0}
  BY MachineAssumption DEF IInv, Typed, AddFeature, AtFeature, Feature
<1>0. Len(machine.features) \in Nat /\ feature \in 1 .. Len(machine.features)
  BY <1>1, FeaturesAre
<1>2. /\ core \in Nat
      /\ \A i, k \in 1 .. Len(machine.features) :
           machine.features[i].core = machine.features[k].core
             /\ machine.features[i].core # NoCore => i = k
  BY <1>0, <1>1, FeaturesAre, Zenon
<1>3. (CoresBefore(feature))' = before \cup {core}
  <2>1. CoresBefore(feature + 1) = before \cup {core}
    BY <1>1, NextCore DEF Feature
  <2> QED BY <1>1, <2>1 DEF CoresBefore
<1>4. core \notin before
  BY <1>0, <1>1, <1>2 DEF CoresBefore
<1>5. \A k \in 1 .. feature + 1 - 1 : k \in 1 .. feature - 1 \/ k = feature
  BY <1>1
<1>6. \A k \in 1 .. feature - 1 : machine.features[k].core # core
  BY <1>0, <1>1, <1>2
<1>7. PICK ids \in [0 .. TableSize - 1 -> Nat], num \in Nat :
        coretemp = [ids |-> ids, num |-> num]
  BY DEF SensorsRead
<1>8. /\ num <= feature - 1
      /\ \A c \in 0 .. TableSize - 1 : c \notin before => ids[c] = 0
      /\ \A k \in 1 .. feature - 1 :
           InTable(machine.features[k].core) => ids[machine.features[k].core] = k - 1
      /\ "coretemp" \notin overrun =>
           /\ before \subseteq 0 .. TableSize - 1 /\ IsFiniteSet(before)
           /\ num = Cardinality(before)
  BY <1>7 DEF SensorsRead
<1> HIDE DEF before
<1>9. CASE core < TableSize
  <2>1. /\ overrun' = overrun
        /\ coretemp' = [coretemp EXCEPT !.ids[core] = feature - 1, !.num = @ + 1]
    BY <1>1, <1>2, <1>9 DEF AddFeature, Feature
  <2>11. feature - 1 \in Nat
    BY <1>1
  <2>12. [ids EXCEPT ![core] = feature - 1] \in [0 .. TableSize - 1 -> Nat]
    BY <2>11
  <2>2. PICK new \in [0 .. TableSize - 1 -> Nat] :
          new = [ids EXCEPT ![core] = feature - 1]
    BY <2>12, Zenon
  <2>3. coretemp' = [ids |-> new, num |-> num + 1]
    BY <1>7, <2>1, <2>2
  <2>4. core \in 0 .. TableSize - 1
    BY <1>1, <1>2, <1>9
  <2>5. new[core] = feature - 1 /\ \A c \in 0 .. TableSize - 1 : c # core => new[c] = ids[c]
    BY <2>2, <2>4
  <2>6. \A c \in 0 .. TableSize - 1 : c \notin before \cup {core} => new[c] = 0
    BY <1>8, <2>5
  <2>7. \A k \in 1 .. feature + 1 - 1 :
          InTable(machine.features[k].core) => new[machine.features[k].core] = k - 1
    BY <1>5, <1>6, <1>8, <2>5 DEF InTable
  <2>8. "coretemp" \notin overrun =>
          /\ before \cup {core} \subseteq 0 .. TableSize - 1
          /\ IsFiniteSet(before \cup {core})
          /\ num + 1 = Cardinality(before \cup {core})
    BY <1>4, <1>8, <2>4, FS_AddElement
  <2>9. feature + 1 <= Len(machine.features) + 1 /\ num + 1 <= feature + 1 - 1
    BY <1>0, <1>1, <1>2, <1>8
  <2>10. [ids |-> new, num |-> num + 1] \in [ids : [0 .. TableSize - 1 -> Nat], num : Nat]
    BY <1>7, <2>2
  <2>13. coretemp'.ids = new /\ coretemp'.num = num + 1
    BY <2>3
  <2>14. /\ coretemp' \in [ids : [0 .. TableSize - 1 -> Nat], num : Nat]
         /\ feature' <= Len(machine.features) + 1 /\ coretemp'.num <= feature' - 1
    BY <1>1, <2>3, <2>9, <2>10, <2>13
  <2>20. \A c \in 0 .. TableSize - 1 : c \notin (CoresBefore(feature))' => coretemp'.ids[c] = 0
    BY <1>3, <2>6, <2>13
  <2>21. \A k \in 1 .. feature' - 1 :
           InTable(machine'.features[k].core) =>
             coretemp'.ids[machine'.features[k].core] = k - 1
    <3>1. feature' - 1 = feature + 1 - 1 /\ machine'.features = machine.features
      BY <1>1
    <3>2. PICK list : list = machine.features /\ list = machine'.features
      BY <3>1
    <3>3. PICK last : last = feature + 1 - 1 /\ last = feature' - 1
      BY <3>1
    <3>4. PICK table : table = coretemp'.ids /\ table = new
      BY <2>13
    <3>5. \A k \in 1 .. last : InTable(list[k].core) => table[list[k].core] = k - 1
      BY <2>7, <3>2, <3>3, <3>4
    <3> QED BY <3>2, <3>3, <3>4, <3>5
  <2>22. "coretemp" \notin overrun' =>
           /\ (CoresBefore(feature))' \subseteq 0 .. TableSize - 1
           /\ IsFiniteSet((CoresBefore(feature))')
           /\ coretemp'.num = Cardinality((CoresBefore(feature))')
    BY <1>3, <2>1, <2>8, <2>13
  <2>23. feature' <= Len(machine'.features) + 1
    BY <1>1, <2>14
  <2> QED BY <2>14, <2>20, <2>21, <2>22, <2>23 DEF SensorsRead, InTable
<1>10. CASE core >= TableSize
  <2>1. /\ "coretemp" \in overrun'
        /\ coretemp' = [coretemp EXCEPT
             !.num = (IF core = TableSize THEN feature - 1 ELSE @) + 1]
    BY <1>1, <1>2, <1>10 DEF AddFeature, Feature
  <2>2. PICK n \in Nat : n = (IF core = TableSize THEN feature - 1 ELSE num) + 1
    BY <1>1, <1>7
  <2>3. coretemp' = [ids |-> ids, num |-> n]
    BY <1>7, <2>1, <2>2
  <2>4. n <= feature + 1 - 1 /\ feature + 1 <= Len(machine.features) + 1
    BY <1>0, <1>1, <1>2, <1>7, <1>8, <2>2
  <2>5. ~InTable(core)
    BY <1>1, <1>2, <1>10 DEF InTable
  <2>6. \A k \in 1 .. feature + 1 - 1 :
          InTable(machine.features[k].core) => ids[machine.features[k].core] = k - 1
    BY <1>5, <1>8, <2>5
  <2>7. \A c \in 0 .. TableSize - 1 : c \notin before \cup {core} => ids[c] = 0
    BY <1>8
  <2>8. [ids |-> ids, num |-> n] \in [ids : [0 .. TableSize - 1 -> Nat], num : Nat]
    BY <1>7, <2>2
  <2>9. coretemp'.ids = ids /\ coretemp'.num = n
    BY <2>3
  <2>10. /\ coretemp' \in [ids : [0 .. TableSize - 1 -> Nat], num : Nat]
         /\ feature' <= Len(machine.features) + 1 /\ coretemp'.num <= feature' - 1
    BY <1>1, <2>3, <2>4, <2>8, <2>9
  <2>20. \A c \in 0 .. TableSize - 1 : c \notin (CoresBefore(feature))' => coretemp'.ids[c] = 0
    BY <1>3, <2>7, <2>9
  <2>21. \A k \in 1 .. feature' - 1 :
           InTable(machine'.features[k].core) =>
             coretemp'.ids[machine'.features[k].core] = k - 1
    <3>1. feature' = feature + 1 /\ machine' = machine /\ feature \in Nat
      BY <1>1
    <3>2. ASSUME NEW k \in 1 .. feature' - 1, InTable(machine'.features[k].core)
          PROVE  coretemp'.ids[machine'.features[k].core] = k - 1
      <4>1. k \in 1 .. feature + 1 - 1
        BY <3>1, <3>2
      <4>2. InTable(machine.features[k].core)
        BY <3>1, <3>2
      <4>3. ids[machine.features[k].core] = k - 1
        BY <2>6, <4>1, <4>2
      <4> QED BY <2>9, <3>1, <4>3
    <3> QED BY <3>2
  <2>22. "coretemp" \notin overrun' =>
           /\ (CoresBefore(feature))' \subseteq 0 .. TableSize - 1
           /\ IsFiniteSet((CoresBefore(feature))')
           /\ coretemp'.num = Cardinality((CoresBefore(feature))')
    BY <1>3, <2>1
  <2>23. feature' <= Len(machine'.features) + 1
    BY <1>1, <2>10
  <2> QED BY <2>10, <2>20, <2>21, <2>22, <2>23 DEF SensorsRead, InTable
<1> QED BY <1>1, <1>2, <1>9, <1>10

LEMMA SameSensors ==
  ASSUME SensorsRead, coretemp' = coretemp, feature' = feature, machine' = machine,
         "coretemp" \in overrun' <=> "coretemp" \in overrun
  PROVE  SensorsRead'
<1>1. (CoresBefore(feature))' = CoresBefore(feature)
  BY DEF CoresBefore
<1> QED BY <1>1 DEF SensorsRead, InTable

LEMMA NextKeepsSensors ==
  ASSUME Next, IInv, SensorsRead PROVE SensorsRead'
<1>1. machine' = machine
  BY Constant DEF IInv, Typed
<1>2. CASE ~SensorsStep
  BY <1>1, <1>2, NotTheSensors, SameSensors
<1>3. CASE SensorsStep
  <2>1. CASE sensors_show \/ CoretempFails \/ CoretempFound \/ FeatureFails \/ FeaturesDone
    <3>1. coretemp' = coretemp /\ feature' = feature /\ overrun' = overrun
      BY <2>1 DEF sensors_show, CoretempFails, CoretempFound, FeatureFails, FeaturesDone,
         sensors
    <3> QED BY <1>1, <3>1, SameSensors
  <2> QED BY <1>3, <2>1, SkipFeatureReads, AddFeatureReads DEF SensorsStep
<1> QED BY <1>2, <1>3

LEMMA NextKeepsAllRead ==
  ASSUME Next, IInv, SensorsRead, AllRead PROVE AllRead'
<1>1. machine' = machine /\ Len(machine.features) \in Nat /\ feature \in Nat
  BY Constant, FeaturesAre DEF IInv, Typed
<1>2. SUFFICES ASSUME AfterRead' PROVE feature' = Len(machine.features) + 1
  BY <1>1 DEF AllRead, AfterRead
<1>3. CASE FeaturesDone
  <2>1. feature' = feature /\ feature > Len(machine.features)
    BY <1>3 DEF FeaturesDone, sensors
  <2>2. feature <= Len(machine.features) + 1
    BY DEF SensorsRead
  <2> QED BY <1>1, <2>1, <2>2
<1>4. CASE ~FeaturesDone
  <2>1. AfterRead /\ feature = Len(machine.features) + 1
    BY <1>1, <1>2, <1>4, NotTheSensors DEF AllRead, AfterRead
  <2>2. ~SensorsStep
    <3>1. SUFFICES ASSUME SensorsStep PROVE FALSE
      OBVIOUS
    <3>2. phase \in {"info sensors", "info chips", "coretemp", "features"}
      BY <3>1, SensorsMoves
    <3> QED BY <2>1, <3>2 DEF AfterRead, AfterFeatures, Loading
  <2> QED BY <1>1, <2>1, <2>2, NotTheSensors
<1> QED BY <1>3, <1>4

LEMMA NextKeepsDark ==
  ASSUME Next, Dark PROVE Dark'
<1>1. CASE Loop
  <2>1. phase = "running" /\ phase' = phase
    BY <1>1, LoopStep
  <2>2. warmer' = warmer \/ warmer' = 1
    BY <1>1 DEF Loop, get_temperature, get_frequency, get_gpu_temperature,
       get_hdd_temperature, HandOver, TakeContext, SkipValue, SetValue, EndJob,
       really_store_daemon_postcode, Warmer, loop
  <2> QED BY <2>1, <2>2 DEF Dark
<1>2. CASE ~Loop
  BY <1>2, Elsewhere DEF Dark
<1> QED BY <1>1, <1>2

-----------------------------------------------------------------------------
(* What the temperatures of the cores are, once the sensors have been read.*)

(* In the loop the sensors have been read. *)
Ready == /\ IInv /\ SensorsRead /\ AllRead /\ ReaderChosen /\ Dark /\ Fits
         /\ phase = "running"

LEMMA ReadyMachine ==
  ASSUME Ready
  PROVE  /\ machine \in Machines /\ feature = Len(machine.features) + 1
         /\ warmer \in {0, 1} /\ faults \in Nat
         /\ TableSize \in Nat \ {0} /\ TableSize <= 8
BY PanelAssumption, MachineAssumption
   DEF Ready, IInv, Typed, AllRead, AfterFeatures, Dark

(* The entry of a core has the number of its sensor. *)
LEMMA SensorOfCore ==
  ASSUME Ready
  PROVE  /\ CoresBefore(feature) = Cores(machine.features)
         /\ \A c \in 0 .. TableSize - 1 :
              coretemp.ids[c] = IF c \in Cores(machine.features)
                                THEN FirstOf(machine.features, c) - 1 ELSE 0
         /\ \A c \in Cores(machine.features) :
              /\ FirstOf(machine.features, c) \in 1 .. Len(machine.features)
              /\ machine.features[FirstOf(machine.features, c)].core = c
<1> DEFINE F == machine.features
<1>1. /\ Len(F) \in Nat /\ DOMAIN F = 1 .. Len(F)
      /\ \A i, k \in 1 .. Len(F) :
           F[i].core = F[k].core /\ F[i].core # NoCore => i = k
      /\ feature = Len(F) + 1
  BY ReadyMachine, FeaturesAre
<1>2. CoresBefore(feature) = Cores(F)
  <2>1. 1 .. feature - 1 = DOMAIN F
    BY <1>1
  <2> QED BY <2>1 DEF CoresBefore, Cores
<1>3. ASSUME NEW c \in Cores(F)
      PROVE  FirstOf(F, c) \in 1 .. Len(F) /\ F[FirstOf(F, c)].core = c
  <2>1. PICK k \in 1 .. Len(F) : F[k].core = c /\ c # NoCore
    BY <1>1, <1>3 DEF Cores
  <2>2. \A j \in 1 .. k - 1 : F[j].core # c
    BY <1>1, <2>1
  <2>3. k \in DOMAIN F /\ F[k].core = c /\ \A j \in 1 .. k - 1 : F[j].core # c
    BY <1>1, <2>1, <2>2
  <2>4. FirstOf(F, c) \in DOMAIN F /\ F[FirstOf(F, c)].core = c
    BY <2>3 DEF FirstOf
  <2> QED BY <1>1, <2>4
<1>4. ASSUME NEW c \in 0 .. TableSize - 1, c \in Cores(F)
      PROVE  coretemp.ids[c] = FirstOf(F, c) - 1
  <2>1. FirstOf(F, c) \in 1 .. feature - 1 /\ F[FirstOf(F, c)].core = c
    BY <1>1, <1>3, <1>4
  <2>2. InTable(c)
    BY <1>4 DEF InTable
  <2>3. \A k \in 1 .. feature - 1 : InTable(F[k].core) => coretemp.ids[F[k].core] = k - 1
    BY DEF Ready, SensorsRead
  <2> QED BY <2>1, <2>2, <2>3
<1>5. ASSUME NEW c \in 0 .. TableSize - 1, c \notin Cores(F)
      PROVE  coretemp.ids[c] = 0
  BY <1>2, <1>5 DEF Ready, SensorsRead
<1> QED BY <1>2, <1>3, <1>4, <1>5

(* As many cores are read as are counted, at least the first one. *)
LEMMA Counted ==
  ASSUME Ready
  PROVE  coretemp.num \in Nat /\ coretemp.num <= TableSize
BY DEF Ready, SensorsRead, Fits

(* The temperatures that are sampled: those of the cores with a sensor, and *)
(* of the others that of the first sensor.                                  *)
LEMMA Temperatures ==
  ASSUME Ready
  PROVE  \E n \in 0 .. TableSize :
           /\ CoreTemps \in Seq(Nat) /\ Len(CoreTemps) = n /\ DOMAIN CoreTemps = 1 .. n
           /\ n = IF machine.features = <<>> THEN 0
                  ELSE IF coretemp.num = 0 THEN 1 ELSE coretemp.num
           /\ \A i \in 1 .. n :
                /\ i - 1 \in Cores(machine.features)
                     => CoreTemps[i] = MeasuredTemperature(i - 1, warmer)
                /\ CoreTemps[i] < 256
<1> DEFINE F == machine.features
           n == IF F = <<>> THEN 0 ELSE IF coretemp.num = 0 THEN 1 ELSE coretemp.num
           ids == coretemp.ids
<1>1. /\ machine \in Machines /\ feature = Len(F) + 1 /\ warmer \in {0, 1}
      /\ TableSize \in Nat \ {0} /\ Len(F) \in Nat
      /\ F = <<>> <=> Len(F) = 0
      /\ \A i \in 1 .. Len(F) : CoreTemp(i - 1, 1) < 256
  BY ReadyMachine, FeaturesAre
<1>2. n \in 0 .. TableSize
  BY <1>1, Counted
<1>3. \A i \in 1 .. n : i - 1 \in 0 .. TableSize - 1
  BY <1>1, <1>2
<1>4. DOMAIN CoreReadings = 1 .. n /\ \A i \in 1 .. n : CoreReadings[i] = ids[i - 1]
  <2>1. CASE F = <<>>
    BY <2>1 DEF CoreReadings
  <2>2. CASE F # <<>>
    <3>1. CoreReadings = [i \in 1 .. n |-> SubfeatureId(i - 1)]
      BY <2>2 DEF CoreReadings
    <3>2. \A i \in 1 .. n : i - 1 < TableSize
      BY <1>1, <1>3
    <3> QED BY <3>1, <3>2 DEF SubfeatureId
  <2> QED BY <2>1, <2>2
<1> HIDE DEF n
<1>5. /\ CoreTemps = [i \in 1 .. n |-> CoreTemp(ids[i - 1], warmer)]
  BY <1>4 DEF CoreTemps
<1>6. ASSUME NEW i \in 1 .. n
      PROVE  /\ i - 1 \in Cores(F)
                  => CoreTemp(ids[i - 1], warmer) = MeasuredTemperature(i - 1, warmer)
             /\ CoreTemp(ids[i - 1], warmer) \in Nat
             /\ CoreTemp(ids[i - 1], warmer) < 256
  <2>1. ids[i - 1] = IF i - 1 \in Cores(F) THEN FirstOf(F, i - 1) - 1 ELSE 0
    BY <1>3, SensorOfCore
  <2>2. i - 1 \in Cores(F) =>
          CoreTemp(ids[i - 1], warmer) = MeasuredTemperature(i - 1, warmer)
    BY <2>1 DEF MeasuredTemperature
  <2>3. Len(F) > 0
    <3>1. F # <<>>
      BY DEF n
    <3> QED BY <1>1, <3>1
  <2>4. PICK k \in 1 .. Len(F) : ids[i - 1] = k - 1
    <3>1. CASE i - 1 \in Cores(F)
      BY <2>1, <3>1, SensorOfCore
    <3>2. CASE i - 1 \notin Cores(F)
      <4>1. 1 \in 1 .. Len(F)
        BY <1>1, <2>3
      <4>2. ids[i - 1] = 1 - 1
        BY <2>1, <3>2
      <4> QED BY <4>1, <4>2
    <3> QED BY <3>1, <3>2
  <2>5. CoreTemp(k - 1, 1) < 256 /\ k \in Nat
    BY <1>1
  <2>6. CoreTemp(k - 1, warmer) \in Nat /\ CoreTemp(k - 1, warmer) < 256
    BY <1>1, <2>5 DEF CoreTemp
  <2> QED BY <2>2, <2>4, <2>6
<1>7. CoreTemps \in Seq(Nat) /\ Len(CoreTemps) = n /\ DOMAIN CoreTemps = 1 .. n
      /\ \A i \in 1 .. n : CoreTemps[i] = CoreTemp(ids[i - 1], warmer)
  <2>1. [i \in 1 .. n |-> CoreTemp(ids[i - 1], warmer)] \in [1 .. n -> Nat]
    BY <1>6
  <2>2. n \in Nat
    BY <1>2
  <2>3. CoreTemps \in [1 .. n -> Nat]
    BY <1>5, <2>1
  <2>4. CoreTemps \in Seq(Nat)
    BY <2>2, <2>3, IsASeq
  <2> QED BY <1>5, <2>2, <2>3, <2>4
<1> QED BY <1>2, <1>6, <1>7 DEF n

(* Values become the items of a context. *)
LEMMA IndexItems ==
  ASSUME NEW metric, NEW values \in Seq(Int \cup {NULL}),
         \A i \in 1 .. Len(values) : Sampled(metric, Item(i - 1, values[i]))
  PROVE  ByIndex(values) \in Items /\ AllSampled(metric, ByIndex(values))
<1> DEFINE n == Len(values)
           S == [id : Nat, value : Int \cup {NULL}]
<1>1. n \in Nat /\ DOMAIN values = 1 .. n
  OBVIOUS
<1>2. ByIndex(values) = [i \in 1 .. n |-> Item(i - 1, values[i])]
  BY <1>1 DEF ByIndex
<1>3. \A i \in 1 .. n : Item(i - 1, values[i]) \in S
  <2>1. \A i \in 1 .. n : values[i] \in Int \cup {NULL} /\ i - 1 \in Nat
    BY <1>1
  <2> QED BY <2>1 DEF Item
<1> HIDE DEF n, S
<1>4. ByIndex(values) \in [1 .. n -> S]
  BY <1>2, <1>3
<1>5. ByIndex(values) \in Seq(S)
  BY <1>1, <1>4, IsASeq
<1>6. AllSampled(metric, ByIndex(values))
  BY <1>2 DEF AllSampled, n
<1> QED BY <1>5, <1>6 DEF Items, S

(* Cores whose ids have no gap are as many as are counted. *)
LEMMA ConsecutiveCores ==
  ASSUME Ready, "coretemp" \notin overrun, Consecutive(Cores(machine.features))
  PROVE  /\ machine.features # <<>>
         /\ Cores(machine.features) = 0 .. coretemp.num - 1
         /\ coretemp.num \in Nat \ {0} /\ coretemp.num <= TableSize
<1> DEFINE F == machine.features
           cores == Cores(F)
           n == Cardinality(cores)
<1>1. /\ Len(F) \in Nat /\ DOMAIN F = 1 .. Len(F)
      /\ F = <<>> <=> Len(F) = 0
  BY ReadyMachine, FeaturesAre
<1>2. cores # {} /\ cores = 0 .. n - 1
  BY DEF Consecutive
<1>3. F # <<>>
  <2>1. PICK k \in 1 .. Len(F) : F[k].core \in cores
    BY <1>1, <1>2 DEF Cores
  <2> QED BY <1>1, <2>1
<1>4. coretemp.num = n
  BY SensorOfCore DEF Ready, SensorsRead
<1>5. coretemp.num \in Nat /\ coretemp.num <= TableSize
  BY Counted
<1>6. coretemp.num # 0
  BY <1>2, <1>4, <1>5
<1> QED BY <1>2, <1>3, <1>4, <1>5, <1>6

LEMMA TemperatureSampled ==
  ASSUME Ready
  PROVE  /\ CoreTemps \in Seq(Int \cup {NULL}) /\ Len(CoreTemps) \in Nat
         /\ \A i \in 1 .. Len(CoreTemps) :
              Sampled("temperature", Item(i - 1, CoreTemps[i]))
<1>1. PICK n \in 0 .. TableSize :
        /\ CoreTemps \in Seq(Nat) /\ Len(CoreTemps) = n
        /\ n = IF machine.features = <<>> THEN 0
               ELSE IF coretemp.num = 0 THEN 1 ELSE coretemp.num
        /\ \A i \in 1 .. n :
             /\ i - 1 \in Cores(machine.features)
                  => CoreTemps[i] = MeasuredTemperature(i - 1, warmer)
             /\ CoreTemps[i] < 256
  BY Temperatures
<1>2. n \in Nat /\ n <= 8 /\ warmer \in 0 .. warmer
  BY ReadyMachine
<1>3. CoreTemps \in Seq(Int \cup {NULL})
  BY <1>1, SeqMonotonic
<1>4. ASSUME NEW i \in 1 .. n PROVE Sampled("temperature", Item(i - 1, CoreTemps[i]))
  <2> DEFINE temp == CoreTemps[i]
  <2>1. temp \in Nat /\ temp < 256
    BY <1>1, <1>2
  <2>2. temp % 256 = temp
    <3> HIDE DEF temp
    <3> QED BY <2>1
  <2>3. ASSUME Regular("temperature", i - 1) PROVE i - 1 \in Cores(machine.features)
    <3>1. SUFFICES ASSUME Consecutive(Cores(machine.features)), "coretemp" \notin overrun
                   PROVE  i - 1 \in Cores(machine.features)
      BY <2>3 DEF Regular
    <3>2. /\ machine.features # <<>>
          /\ Cores(machine.features) = 0 .. coretemp.num - 1
          /\ coretemp.num \in Nat \ {0}
      BY <3>1, ConsecutiveCores
    <3>3. n = coretemp.num
      BY <1>1, <3>2
    <3> QED BY <3>2, <3>3
  <2>4. Regular("temperature", i - 1) =>
          Held("temperature", temp) = Measured("temperature", i - 1, warmer)
    BY <1>1, <2>2, <2>3 DEF Held, Measured
  <2>5. IsMeasured("temperature", i - 1, Held("temperature", temp))
    BY <1>2, <2>4 DEF IsMeasured
  <2>6. i - 1 <= 7
    BY <1>2
  <2> QED BY <2>1, <2>5, <2>6 DEF Sampled, Item
<1> QED BY <1>1, <1>2, <1>3, <1>4

LEMMA ThreadsAre ==
  ASSUME Ready
  PROVE  /\ Threads(warmer) \in Processors
         /\ Len(machine.threads) \in Nat
         /\ DOMAIN machine.threads = 1 .. Len(machine.threads)
         /\ Len(Threads(warmer)) = Len(machine.threads)
         /\ \A i \in 1 .. Len(machine.threads) :
              /\ Threads(warmer)[i].core = machine.threads[i].core
              /\ Threads(warmer)[i].mhz \in Nat
              /\ Threads(warmer)[i].mhz < 303000 /\ Threads(warmer)[i].mhz >= 5
<1> DEFINE S == [core : Nat \cup {NoCore}, mhz : Nat]
           T == machine.threads
           n == Len(T)
<1>0. machine \in Machines /\ warmer \in {0, 1}
  BY ReadyMachine
<1>1. T \in Seq(S) /\ n \in Nat /\ DOMAIN T = 1 .. n
  <2>1. T \in Seq(S)
    BY <1>0, MachinesAssumption
  <2> HIDE DEF S, T
  <2> QED BY <2>1 DEF n
<1>2. ASSUME NEW i \in 1 .. n
      PROVE  /\ T[i] \in S /\ T[i].mhz >= 5 /\ T[i].mhz < 300000
             /\ T[i].mhz \in Nat
  <2>1. T[i] \in S
    <3> HIDE DEF S, T
    <3> QED BY <1>1
  <2> QED BY <1>0, <1>1, <2>1, PanelAssumption
<1>3. Threads(warmer) = [i \in 1 .. n |-> [T[i] EXCEPT !.mhz = @ + 3000 * warmer]]
  BY <1>1 DEF Threads
<1>4. ASSUME NEW i \in 1 .. n
      PROVE  /\ [T[i] EXCEPT !.mhz = @ + 3000 * warmer] \in S
             /\ [T[i] EXCEPT !.mhz = @ + 3000 * warmer].core = T[i].core
             /\ [T[i] EXCEPT !.mhz = @ + 3000 * warmer].mhz = T[i].mhz + 3000 * warmer
             /\ T[i].mhz + 3000 * warmer \in Nat
             /\ T[i].mhz + 3000 * warmer < 303000 /\ T[i].mhz + 3000 * warmer >= 5
  <2>1. PICK mhz \in Nat : mhz = T[i].mhz
    BY <1>2
  <2>2. mhz + 3000 * warmer \in Nat /\ mhz + 3000 * warmer < 303000
          /\ mhz + 3000 * warmer >= 5
    BY <1>0, <1>2, <2>1
  <2>3. PICK t \in S : t = T[i]
    BY <1>2
  <2>4. [t EXCEPT !.mhz = @ + 3000 * warmer]
          = [core |-> t.core, mhz |-> mhz + 3000 * warmer]
    BY <2>1, <2>3
  <2> QED BY <2>1, <2>2, <2>3, <2>4
<1> HIDE DEF n
<1>5. Threads(warmer) \in [1 .. n -> S]
  <2> HIDE DEF S
  <2> QED BY <1>3, <1>4
<1>6. Threads(warmer) \in Seq(S) /\ Len(Threads(warmer)) = n
  <2>1. Threads(warmer) \in Seq(S)
    <3> HIDE DEF S
    <3> QED BY <1>1, <1>5, IsASeq
  <2>2. DOMAIN Threads(warmer) = 1 .. n
    BY <1>3
  <2> HIDE DEF S
  <2> QED BY <1>1, <2>1, <2>2, LenProperties
<1>7. \A i \in 1 .. n :
        /\ Threads(warmer)[i].core = T[i].core
        /\ Threads(warmer)[i].mhz \in Nat
        /\ Threads(warmer)[i].mhz < 303000 /\ Threads(warmer)[i].mhz >= 5
  BY <1>3, <1>4
<1>8. Threads(warmer) \in Processors
  BY <1>6, <1>7 DEF Processors
<1> QED BY <1>1, <1>6, <1>7, <1>8 DEF n

-----------------------------------------------------------------------------
(* Threads and frequencies.                                                *)

LEMMA ThreadOfCore ==
  ASSUME Ready, NEW c \in Cores(machine.threads)
  PROVE  \E k \in 1 .. Len(machine.threads) :
           /\ k = FirstOf(machine.threads, c) /\ machine.threads[k].core = c
           /\ \A j \in 1 .. k - 1 : machine.threads[j].core # c
<1> DEFINE T == machine.threads
           At == {i \in 1 .. Len(T) : T[i].core = c}
<1>1. Len(T) \in Nat /\ DOMAIN T = 1 .. Len(T)
  BY ThreadsAre
<1>2. At \in SUBSET Nat /\ At # {}
  BY <1>1 DEF Cores
<1>3. PICK k \in At : \A j \in At : k <= j
  <2> HIDE DEF At
  <2> QED BY <1>2, LeastOf
<1>4. \A j \in 1 .. k - 1 : T[j].core # c
  BY <1>1, <1>3
<1>5. k \in DOMAIN T /\ T[k].core = c /\ \A j \in 1 .. k - 1 : T[j].core # c
  BY <1>1, <1>3, <1>4
<1>6. /\ FirstOf(T, c) \in DOMAIN T /\ T[FirstOf(T, c)].core = c
      /\ \A j \in 1 .. FirstOf(T, c) - 1 : T[j].core # c
  BY <1>5 DEF FirstOf
<1> QED BY <1>1, <1>6

LEMMA ThreadCoresFinite ==
  ASSUME Ready PROVE IsFiniteSet(Cores(machine.threads))
<1> DEFINE T == machine.threads
           cores == Cores(T)
           at == [c \in cores |-> FirstOf(T, c)]
<1>1. Len(T) \in Nat
  BY ThreadsAre
<1>2. IsFiniteSet(1 .. Len(T))
  <2>1. 1 \in Int /\ Len(T) \in Int
    BY <1>1
  <2> QED BY <2>1, FS_Interval
<1>3. \A c \in cores : FirstOf(T, c) \in 1 .. Len(T) /\ T[FirstOf(T, c)].core = c
  BY ThreadOfCore
<1>4. at \in [cores -> 1 .. Len(T)]
  BY <1>3
<1>5. \A c, d \in cores : at[c] = at[d] => c = d
  BY <1>3
<1> HIDE DEF at, cores
<1>6. at \in Injection(cores, 1 .. Len(T))
  BY <1>4, <1>5 DEF Injection, IsInjective
<1>7. IsFiniteSet(cores)
  BY <1>2, <1>6, FS_Injection
<1> QED BY <1>7 DEF cores

(* Cores without a gap: what is handed over are frequencies of theirs only. *)
LEMMA NoCoreMissing ==
  ASSUME Ready, NEW threads, NEW cleared, NEW table, NEW num,
         Tabled(table, num, cleared, threads, Len(machine.threads)),
         \A k \in 1 .. Len(machine.threads) : threads[k].core = machine.threads[k].core,
         Consecutive(Cores(machine.threads)), NEW c \in 0 .. num - 1
  PROVE  c \in Cores(machine.threads)
<1> DEFINE cores == Cores(machine.threads)
           filled == Zeros(cleared) \ Zeros(table)
<1>1. filled \subseteq cores
  <2>1. SUFFICES ASSUME NEW x \in filled PROVE x \in cores
    OBVIOUS
  <2>2. x \in 0 .. TableSize - 1 /\ x \in Zeros(cleared) /\ table[x] # 0
    BY DEF Zeros
  <2>3. PICK k \in 1 .. Len(machine.threads) : threads[k].core = x
    BY <2>2 DEF Tabled
  <2>4. machine.threads[k].core = x /\ k \in DOMAIN machine.threads /\ x # NoCore
    BY <2>2, <2>3, ThreadsAre, MachineAssumption
  <2> QED BY <2>4 DEF Cores
<1>2. IsFiniteSet(cores) /\ num = Cardinality(filled)
  BY ThreadCoresFinite DEF Tabled
<1>3. cores = 0 .. Cardinality(cores) - 1
  BY DEF Consecutive
<1> HIDE DEF cores, filled
<1>4. num \in Nat /\ Cardinality(cores) \in Nat /\ num <= Cardinality(cores)
  BY <1>1, <1>2, FS_Subset, FS_CardinalityType
<1>5. PICK m \in Nat : m = Cardinality(cores)
  BY <1>4
<1>6. c \in 0 .. m - 1
  BY <1>4, <1>5
<1> QED BY <1>3, <1>5, <1>6 DEF cores

(* What is held of a frequency: 15 bits. *)
LEMMA FrequencySampled ==
  ASSUME Ready, NEW list,
         list = cpu_freq_get_list(Threads(warmer), machine.cpuinfo, machine.memory)
  PROVE  /\ list \in Seq(Int \cup {NULL})
         /\ \A i \in 1 .. Len(list) : Sampled("frequency", Item(i - 1, list[i]))
<1> DEFINE threads == Threads(warmer)
           memory == machine.memory
           cleared == Cleared(memory, TableSize)
<1>0. /\ machine \in Machines /\ warmer \in 0 .. warmer
      /\ TableSize \in Nat \ {0} /\ TableSize <= 8
  BY ReadyMachine
<1>1. memory \in [0 .. TableSize - 1 -> Int]
  BY <1>0, MachinesAssumption
<1>2. /\ threads \in Processors /\ Len(threads) = Len(machine.threads)
      /\ Len(threads) \in Nat
      /\ \A i \in 1 .. Len(threads) : /\ threads[i].core = machine.threads[i].core
                                      /\ threads[i].mhz \in Nat /\ threads[i].mhz >= 5
                                      /\ threads[i].mhz < 303000
  BY ThreadsAre
<1>3. /\ list \in Seq(Int) /\ Len(list) \in Nat /\ Len(list) <= TableSize
      /\ DOMAIN list = 1 .. Len(list)
      /\ machine.cpuinfo = FALSE => \A i \in DOMAIN list : list[i] = memory[i - 1]
      /\ machine.cpuinfo = TRUE => \E table, num :
           /\ Tabled(table, num, cleared, threads, Len(threads))
           /\ Len(list) = num
           /\ \A i \in DOMAIN list : list[i] = table[i - 1]
  <2>1. PICK ths \in Processors : ths = threads
    BY <1>2
  <2>2. PICK mem \in [0 .. TableSize - 1 -> Int] : mem = memory
    BY <1>1
  <2>3. PICK op \in BOOLEAN : op = machine.cpuinfo
    BY <1>0, MachinesAssumption
  <2>4. list = cpu_freq_get_list(ths, op, mem)
    BY <2>1, <2>2, <2>3
  <2>5. /\ list \in Seq(Int) /\ Len(list) \in Nat /\ Len(list) <= TableSize
        /\ DOMAIN list = 1 .. Len(list)
        /\ op = FALSE => \A i \in DOMAIN list : list[i] = mem[i - 1]
        /\ op = TRUE => \E table, num :
             /\ Tabled(table, num, Cleared(mem, TableSize), ths, Len(ths))
             /\ Len(list) = num
             /\ \A i \in DOMAIN list : list[i] = table[i - 1]
    BY <2>4, Frequencies, Zenon
  <2> QED BY <2>1, <2>2, <2>3, <2>5, Zenon
<1>4. \A c \in 0 .. TableSize - 1 :
        cleared[c] = IF c < TableSize \div IntSize THEN 0 ELSE memory[c]
  BY <1>1 DEF Cleared
<1>5. ASSUME NEW i \in 1 .. Len(list), Regular("frequency", i - 1)
      PROVE  list[i] % 32768 = MeasuredFrequency(i - 1, warmer)
  <2> DEFINE c == i - 1
  <2>1. c \in 0 .. TableSize - 1
    BY <1>0, <1>3
  <2>2. /\ machine.cpuinfo = TRUE /\ c \notin DirtyEntries
        /\ c \in Cores(machine.threads) \/ Consecutive(Cores(machine.threads))
    BY <1>0, <1>5, MachinesAssumption DEF Regular
  <2>3. PICK table, num : /\ Tabled(table, num, cleared, threads, Len(threads))
                          /\ Len(list) = num
                          /\ \A k \in DOMAIN list : list[k] = table[k - 1]
    BY <1>3, <2>2
  <2>4. list[i] = table[c]
    BY <1>3, <2>3
  <2>5. cleared[c] = 0
    <3>1. PICK bytes \in Int : bytes = TableSize \div IntSize
      BY <1>0 DEF IntSize
    <3>2. DOMAIN memory = 0 .. TableSize - 1
      BY <1>1
    <3>3. c < bytes \/ memory[c] = 0
      BY <2>1, <2>2, <3>1, <3>2 DEF DirtyEntries
    <3> QED BY <1>4, <2>1, <3>1, <3>3
  <2>6. c \in Cores(machine.threads)
    <3>1. c \in 0 .. num - 1
      BY <1>3, <2>3
    <3>2. \A k \in 1 .. Len(machine.threads) : threads[k].core = machine.threads[k].core
      BY <1>2
    <3> HIDE DEF c, cleared, threads
    <3> QED BY <1>2, <2>2, <2>3, <3>1, <3>2, NoCoreMissing
  <2> HIDE DEF c, cleared, threads
  <2>7. c \in Zeros(cleared)
    BY <2>1, <2>5 DEF Zeros
  <2>8. PICK k \in 1 .. Len(machine.threads) :
          /\ k = FirstOf(machine.threads, c) /\ machine.threads[k].core = c
          /\ \A j \in 1 .. k - 1 : machine.threads[j].core # c
    BY <2>6, ThreadOfCore
  <2>9. /\ k \in 1 .. Len(threads) /\ threads[k].core = c
        /\ \A j \in 1 .. k - 1 : threads[j].core # threads[k].core
    <3>1. k \in 1 .. Len(threads) /\ threads[k].core = c
      BY <1>2, <2>8
    <3>2. \A j \in 1 .. k - 1 : j \in 1 .. Len(threads)
      BY <1>2, <3>1
    <3>3. ASSUME NEW j \in 1 .. k - 1 PROVE threads[j].core # threads[k].core
      <4>1. threads[j].core = machine.threads[j].core
        BY <1>2, <3>2
      <4> QED BY <2>8, <3>1, <4>1
    <3> QED BY <3>1, <3>3
  <2>10. table[c] = roundf(threads[k].mhz)
    BY <2>3, <2>7, <2>9 DEF Tabled
  <2>11. MeasuredFrequency(c, warmer) = roundf(threads[k].mhz)
    BY <2>6, <2>8 DEF MeasuredFrequency, threads
  <2>12. PICK mhz \in Nat : mhz = threads[k].mhz /\ mhz < 303000
    BY <1>2, <2>9
  <2>13. roundf(mhz) % 32768 = roundf(mhz)
    <3>1. PICK h \in Nat : h = (mhz + 5) \div 10
      BY <2>12
    <3>2. h < 32768
      BY <2>12, <3>1
    <3> QED BY <3>1, <3>2 DEF roundf
  <2> QED BY <2>4, <2>10, <2>11, <2>12, <2>13 DEF c
<1>6. ASSUME NEW i \in 1 .. Len(list) PROVE Sampled("frequency", Item(i - 1, list[i]))
  <2>1. list[i] \in Int /\ i - 1 <= 7
    BY <1>0, <1>3
  <2>2. Regular("frequency", i - 1) =>
          Held("frequency", list[i]) = Measured("frequency", i - 1, warmer)
    BY <1>5 DEF Held, Measured
  <2>3. IsMeasured("frequency", i - 1, Held("frequency", list[i]))
    BY <1>0, <2>2 DEF IsMeasured
  <2> QED BY <2>1, <2>3 DEF Sampled, Item
<1>7. list \in Seq(Int \cup {NULL})
  BY <1>3, SeqMonotonic
<1> QED BY <1>6, <1>7

-----------------------------------------------------------------------------
(* The hottest core.                                                       *)

(* The hottest of some temperatures. *)
LEMMA MaxIs ==
  ASSUME NEW temps, NEW bound \in Nat, temps # {},
         \A t \in temps : t \in Nat /\ t < bound
  PROVE  /\ Max(temps) \in temps
         /\ \A t \in temps : t <= Max(temps)
<1> DEFINE Rest == {bound - t : t \in temps}
<1>1. Rest \in SUBSET Nat /\ Rest # {}
  OBVIOUS
<1>2. PICK r \in Rest : \A k \in Rest : r <= k
  <2> HIDE DEF Rest
  <2> QED BY <1>1, LeastOf
<1>3. PICK m \in temps : r = bound - m
  BY <1>2
<1>4. ASSUME NEW t \in temps PROVE m >= t
  <2>1. bound - m <= bound - t
    BY <1>2, <1>3
  <2>2. t \in Nat /\ m \in Nat
    BY <1>3
  <2> QED BY <2>1, <2>2
<1>5. Max(temps) \in temps /\ \A t \in temps : Max(temps) >= t
  BY <1>3, <1>4 DEF Max
<1>6. \A t \in temps : t \in Nat
  OBVIOUS
<1> QED BY <1>5, <1>6

LEMMA MaxFound ==
  ASSUME NEW temps, NEW bound \in Nat,
         \A t \in temps : t \in Nat /\ t < bound,
         NEW m \in temps, \A t \in temps : t <= m
  PROVE  Max(temps) = m
<1>1. Max(temps) \in temps /\ \A t \in temps : t <= Max(temps)
  BY MaxIs
<1>2. m <= Max(temps) /\ Max(temps) <= m /\ m \in Nat /\ Max(temps) \in Nat
  BY <1>1
<1> QED BY <1>2

(* An integrated GPU. *)
LEMMA HottestSampled ==
  ASSUME Ready, GPU_get_temperature = "i915", CoreTemps # <<>>
  PROVE  /\ i915_gpu_get_temperature(CoreTemps) \in Int
         /\ IsMeasured("gpu", 0, Held("gpu", i915_gpu_get_temperature(CoreTemps)))
<1> DEFINE F == machine.features
           hottest == i915_gpu_get_temperature(CoreTemps)
           read == {0} \cup Range(CoreTemps)
           temps == {CoreTemp(FirstOf(F, core) - 1, warmer) : core \in Cores(F)}
<1>1. PICK n \in 0 .. TableSize :
        /\ CoreTemps \in Seq(Nat) /\ Len(CoreTemps) = n /\ DOMAIN CoreTemps = 1 .. n
        /\ n = IF F = <<>> THEN 0 ELSE IF coretemp.num = 0 THEN 1 ELSE coretemp.num
        /\ \A i \in 1 .. n :
             /\ i - 1 \in Cores(F) => CoreTemps[i] = MeasuredTemperature(i - 1, warmer)
             /\ CoreTemps[i] < 256
  BY Temperatures
<1>2. hottest = Max(read)
  BY DEF i915_gpu_get_temperature
<1>3. /\ read # {} /\ \A t \in read : t \in Nat /\ t < 256
      /\ \A i \in 1 .. n : CoreTemps[i] \in Nat
  <2>1. \A i \in 1 .. n : CoreTemps[i] \in Nat
    BY <1>1
  <2> QED BY <1>1, <2>1 DEF Range
<1>4. Max(read) \in read /\ \A t \in read : t <= Max(read)
  <2> HIDE DEF read
  <2>1. 256 \in Nat
    OBVIOUS
  <2> QED BY <1>3, <2>1, MaxIs
<1>5. hottest \in Nat /\ hottest < 256
  BY <1>2, <1>3, <1>4
<1>6. ASSUME Consecutive(Cores(F)), "coretemp" \notin overrun
      PROVE  hottest = HottestCore(warmer)
  <2>1. /\ F # <<>> /\ Cores(F) = 0 .. coretemp.num - 1
        /\ coretemp.num \in Nat \ {0}
    BY <1>6, ConsecutiveCores
  <2>2. n = coretemp.num /\ Cores(F) = 0 .. n - 1 /\ n \in Nat \ {0}
    BY <1>1, <2>1
  <2>3. \A c \in Cores(F) :
          MeasuredTemperature(c, warmer) = CoreTemp(FirstOf(F, c) - 1, warmer)
    BY DEF MeasuredTemperature
  <2>4. ASSUME NEW i \in 1 .. n PROVE CoreTemps[i] \in temps
    <3>1. i - 1 \in Cores(F)
      BY <2>2
    <3>2. CoreTemps[i] = CoreTemp(FirstOf(F, i - 1) - 1, warmer)
      BY <1>1, <2>3, <3>1
    <3> QED BY <3>1, <3>2
  <2>5. ASSUME NEW t \in temps PROVE \E i \in 1 .. n : t = CoreTemps[i]
    <3>1. PICK c \in Cores(F) : t = CoreTemp(FirstOf(F, c) - 1, warmer)
      OBVIOUS
    <3>2. PICK i \in 1 .. n : i - 1 = c
      <4>1. c + 1 \in 1 .. n /\ (c + 1) - 1 = c
        BY <2>2
      <4> QED BY <4>1
    <3>3. CoreTemps[i] = MeasuredTemperature(c, warmer)
      BY <1>1, <3>2
    <3> QED BY <2>3, <3>1, <3>2, <3>3
  <2> HIDE DEF temps
  <2>6. \A t \in temps : t \in read /\ t \in Nat /\ t < 256
    <3>1. ASSUME NEW t \in temps PROVE t \in read
      BY <1>1, <2>5 DEF Range
    <3> QED BY <1>3, <3>1
  <2>7. hottest \in temps
    <3>1. CASE hottest = 0
      <4>1. 1 \in 1 .. n
        BY <2>2
      <4>2. CoreTemps[1] \in read /\ CoreTemps[1] \in Nat
        BY <1>1, <1>3, <4>1 DEF Range
      <4>3. CoreTemps[1] = 0
        <5> HIDE DEF read, hottest
        <5>1. CoreTemps[1] <= 0
          BY <1>2, <1>4, <3>1, <4>2
        <5> QED BY <4>2, <5>1
      <4> QED BY <2>4, <3>1, <4>1, <4>3
    <3>2. CASE hottest # 0
      <4>1. PICK i \in 1 .. n : hottest = CoreTemps[i]
        <5>1. hottest \in Range(CoreTemps)
          BY <1>2, <1>4, <3>2
        <5> QED BY <1>1, <5>1 DEF Range
      <4> QED BY <2>4, <4>1
    <3> QED BY <3>1, <3>2
  <2>8. \A t \in temps : t <= hottest
    BY <1>2, <1>4, <2>6
  <2>9. Max(temps) = hottest
    <3> HIDE DEF hottest
    <3>1. 256 \in Nat /\ \A t \in temps : t \in Nat /\ t < 256
      BY <2>6
    <3> QED BY <2>7, <2>8, <3>1, MaxFound
  <2> QED BY <2>9 DEF HottestCore, temps
<1>7. hottest % 256 = hottest
  <2> HIDE DEF hottest
  <2> QED BY <1>5
<1>8. IsMeasured("gpu", 0, Held("gpu", hottest))
  <2>1. SUFFICES ASSUME Regular("gpu", 0)
                 PROVE  \E warm \in 0 .. warmer :
                          Held("gpu", hottest) = Measured("gpu", 0, warm)
    BY DEF IsMeasured
  <2>2. Consecutive(Cores(F)) /\ "coretemp" \notin overrun
    BY <2>1 DEF Regular
  <2>3. Held("gpu", hottest) = Measured("gpu", 0, warmer)
    BY <1>6, <1>7, <2>2 DEF Held, Measured
  <2>4. warmer \in 0 .. warmer
    BY ReadyMachine
  <2> QED BY <2>3, <2>4
<1> QED BY <1>5, <1>8

LEMMA GpuSampled ==
  ASSUME Ready, NEW items,
         items = IF GpuReading = NULL THEN <<>> ELSE <<Item(0, GpuReading)>>
  PROVE  items \in Items /\ AllSampled("gpu", items)
<1>1. CASE GpuReading = NULL
  BY <1>1 DEF Items, AllSampled
<1>2. CASE GpuReading # NULL
  <2>1. GPU_get_temperature \in Readers
    BY DEF Ready, ReaderChosen
  <2>2. /\ warmer \in {0, 1} /\ warmer \in 0 .. warmer
        /\ GpuTemp(warmer) \in Int /\ GpuTemp(warmer) % 256 = GpuTemp(warmer)
    BY ReadyMachine DEF GpuTemp
  <2>3. GpuReading \in Int /\ IsMeasured("gpu", 0, Held("gpu", GpuReading))
    <3>1. CASE GPU_get_temperature = "nvidia"
      <4>1. GpuReading = GpuTemp(warmer)
        BY <3>1 DEF GpuReading
      <4>2. Held("gpu", GpuReading) = Measured("gpu", 0, warmer)
        BY <2>2, <3>1, <4>1 DEF Held, Measured
      <4> QED BY <2>2, <4>1, <4>2 DEF IsMeasured
    <3>2. CASE GPU_get_temperature = "nouveau"
      <4>1. GpuReading = GpuTemp(warmer)
        BY <3>2 DEF GpuReading, Ready, IInv, ReaderReady, sensors_nouveau_read
      <4>2. Held("gpu", GpuReading) = Measured("gpu", 0, warmer)
        BY <2>2, <3>2, <4>1 DEF Held, Measured
      <4> QED BY <2>2, <4>1, <4>2 DEF IsMeasured
    <3>3. CASE GPU_get_temperature = "i915"
      <4>1. GpuReading = i915_gpu_get_temperature(CoreTemps)
        BY <3>3 DEF GpuReading
      <4>2. CoreTemps # <<>>
        BY <1>2, <4>1 DEF i915_gpu_get_temperature
      <4> QED BY <3>3, <4>1, <4>2, HottestSampled
    <3>4. CASE GPU_get_temperature = "undefined"
      BY <1>2, <3>4 DEF GpuReading
    <3> QED BY <2>1, <3>1, <3>2, <3>3, <3>4 DEF Readers
  <2>4. items = <<Item(0, GpuReading)>>
    BY <1>2
  <2>5. Item(0, GpuReading) \in [id : Nat, value : Int \cup {NULL}]
    BY <2>3 DEF Item
  <2>6. Sampled("gpu", Item(0, GpuReading))
    BY <2>3 DEF Sampled, Item
  <2> DEFINE S == [id : Nat, value : Int \cup {NULL}]
  <2>7. items \in Items
    <3>1. Item(0, GpuReading) \in S
      BY <2>5
    <3> HIDE DEF S
    <3>2. items \in Seq(S)
      BY <2>4, <3>1
    <3> QED BY <3>2 DEF Items, S
  <2>8. DOMAIN items = {1} /\ items[1] = Item(0, GpuReading)
    BY <2>4
  <2> QED BY <2>6, <2>7, <2>8 DEF AllSampled
<1> QED BY <1>1, <1>2

LEMMA DiskSampled ==
  ASSUME Ready
  PROVE  /\ DiskInfo \in Seq(Int \cup {NULL}) /\ Len(DiskInfo) \in Nat
         /\ DOMAIN DiskInfo = 1 .. Len(DiskInfo)
         /\ \A i \in 1 .. Len(DiskInfo) : Sampled("disk", Item(i - 1, DiskInfo[i]))
<1> DEFINE D == machine.disks
           n == Len(D)
<1>1. machine \in Machines /\ warmer \in 0 .. warmer
  BY ReadyMachine
<1>2. D \in Seq(BOOLEAN) /\ n \in Nat /\ DOMAIN D = 1 .. n
  BY <1>1, MachinesAssumption
<1>3. \A i \in 1 .. n : to_celsius(MilliKelvin(i - 1)) = 30 + (i - 1)
  BY <1>2 DEF to_celsius, MilliKelvin
<1>4. DiskInfo = [i \in 1 .. n |-> IF D[i] THEN 30 + (i - 1) ELSE NULL]
  BY <1>2, <1>3 DEF DiskInfo
<1>5. DiskInfo \in [1 .. n -> Int \cup {NULL}]
  BY <1>2, <1>4
<1>6. /\ DiskInfo \in Seq(Int \cup {NULL}) /\ Len(DiskInfo) = n
      /\ DOMAIN DiskInfo = 1 .. n
  <2> HIDE DEF n
  <2>1. DiskInfo \in Seq(Int \cup {NULL})
    BY <1>2, <1>5, IsASeq
  <2>2. DOMAIN DiskInfo = 1 .. n
    BY <1>4
  <2> QED BY <1>2, <2>1, <2>2, LenProperties
<1>7. ASSUME NEW i \in 1 .. n PROVE Sampled("disk", Item(i - 1, DiskInfo[i]))
  <2>1. CASE D[i]
    <3>1. SUFFICES ASSUME i - 1 <= 7
                   PROVE  IsMeasured("disk", i - 1, Held("disk", 30 + (i - 1)))
      BY <1>4, <2>1 DEF Sampled, Item
    <3>2. (30 + (i - 1)) % 256 = 30 + (i - 1)
      BY <1>2, <3>1
    <3>3. i - 1 + 1 = i
      BY <1>2
    <3>4. Measured("disk", i - 1, warmer) = 30 + (i - 1)
      BY <1>2, <2>1, <3>3 DEF Measured
    <3>5. Held("disk", 30 + (i - 1)) = Measured("disk", i - 1, warmer)
      BY <3>2, <3>4 DEF Held
    <3> QED BY <1>1, <3>5 DEF IsMeasured
  <2>2. CASE ~D[i]
    BY <1>4, <2>2, MachineAssumption DEF Sampled, Item
  <2> QED BY <2>1, <2>2
<1> QED BY <1>2, <1>6, <1>7

-----------------------------------------------------------------------------
(* What was measured still is.                                             *)

(* What was measured still is. *)
Later ==
  /\ UNCHANGED <<machine, GPU_get_temperature, coretemp, overrun>>
  /\ faults \in Nat /\ faults' \in Nat /\ faults <= faults'
  /\ warmer \in {0, 1} /\ warmer' \in {0, 1} /\ warmer <= warmer'

LEMMA StillMeasured ==
  ASSUME Later, NEW metric \in Metric, NEW id, NEW held, IsMeasured(metric, id, held)
  PROVE  IsMeasured(metric, id, held)'
<1>1. SUFFICES ASSUME Regular(metric, id)'
               PROVE  (\E warm \in 0 .. warmer : held = Measured(metric, id, warm))'
  BY DEF IsMeasured
<1>2. machine' = machine /\ GPU_get_temperature' = GPU_get_temperature
      /\ coretemp' = coretemp /\ overrun' = overrun /\ (faults' = 0 => faults = 0)
      /\ \A warm \in 0 .. warmer : warm \in 0 .. warmer'
  BY DEF Later
<1>3. Regular(metric, id)
  BY <1>1, <1>2 DEF Regular, Metric, Shapes, DirtyEntries
<1>4. PICK warm \in 0 .. warmer : held = Measured(metric, id, warm)
  BY <1>3 DEF IsMeasured
<1>5. MeasuredTemperature(id, warm)' = MeasuredTemperature(id, warm)
  BY <1>2 DEF MeasuredTemperature
<1>6. MeasuredFrequency(id, warm)' = MeasuredFrequency(id, warm)
  BY <1>2 DEF MeasuredFrequency, Threads
<1>7. HottestCore(warm)' = HottestCore(warm)
  BY <1>2 DEF HottestCore
<1>8. Measured(metric, id, warm)' = Measured(metric, id, warm)
  BY <1>2, <1>5, <1>6, <1>7 DEF Measured, Metric, Shapes
<1> QED BY <1>2, <1>4, <1>8

LEMMA StillSampled ==
  ASSUME Later, NEW metric \in Metric, NEW items, AllSampled(metric, items)
  PROVE  AllSampled(metric, items)'
<1>1. ASSUME NEW item, Sampled(metric, item) PROVE Sampled(metric, item)'
  <2>1. item.id <= 7 /\ item.value \in Int
          => IsMeasured(metric, item.id, Held(metric, item.value))
    BY <1>1 DEF Sampled
  <2>2. item.id <= 7 /\ item.value \in Int
          => IsMeasured(metric, item.id, Held(metric, item.value))'
    BY <2>1, StillMeasured
  <2> QED BY <1>1, <2>2 DEF Sampled
<1> QED BY <1>1 DEF AllSampled

LEMMA NextItems ==
  ASSUME NEW metric, NEW items \in Items, items # <<>>, AllSampled(metric, items)
  PROVE  /\ Tail(items) \in Items /\ AllSampled(metric, Tail(items))
         /\ Head(items) \in [id : Nat, value : Int \cup {NULL}]
         /\ Sampled(metric, Head(items))
<1> DEFINE S == [id : Nat, value : Int \cup {NULL}]
<1>1. items \in Seq(S)
  BY DEF Items
<1> HIDE DEF S
<1>2. /\ Head(items) \in S /\ Tail(items) \in Seq(S)
      /\ Len(Tail(items)) = Len(items) - 1 /\ Len(items) \in Nat /\ Len(items) > 0
      /\ \A i \in 1 .. Len(Tail(items)) : Tail(items)[i] = items[i + 1]
      /\ Head(items) = items[1]
      /\ DOMAIN Tail(items) = 1 .. Len(Tail(items)) /\ DOMAIN items = 1 .. Len(items)
  BY <1>1, HeadTailProperties, EmptySeq, LenProperties
<1>3. Sampled(metric, Head(items))
  BY <1>2 DEF AllSampled
<1>4. ASSUME NEW i \in DOMAIN Tail(items) PROVE Sampled(metric, Tail(items)[i])
  <2>1. i + 1 \in DOMAIN items /\ Tail(items)[i] = items[i + 1]
    BY <1>2
  <2> QED BY <2>1 DEF AllSampled
<1> QED BY <1>2, <1>3, <1>4 DEF AllSampled, Items, S

LEMMA LoopLater ==
  ASSUME Loop, Ready PROVE Later
<1>1. UNCHANGED <<machine, GPU_get_temperature, coretemp, overrun>>
  BY LoopStep DEF gpu, sensors
<1>2. faults \in Nat /\ faults' \in Nat /\ faults <= faults'
  BY LoopStep, ReadyMachine DEF Fault
<1>3. warmer \in {0, 1}
  BY ReadyMachine
<1>4. warmer' = warmer \/ (warmer = 0 /\ warmer' = 1)
  BY DEF Loop, get_temperature, get_frequency, get_gpu_temperature,
     get_hdd_temperature, HandOver, TakeContext, SkipValue, SetValue, EndJob,
     really_store_daemon_postcode, Warmer, loop
<1> QED BY <1>1, <1>2, <1>3, <1>4 DEF Later

LEMMA StillQueued ==
  ASSUME Later
  PROVE  SampledContexts \subseteq SampledContexts' /\ SampledJobs \subseteq SampledJobs'
<1>1. ASSUME NEW c \in SampledContexts PROVE c \in SampledContexts'
  <2>1. c \in Context /\ c.metric \in Metric /\ AllSampled(c.metric, c.items)
    BY DEF SampledContexts, Context
  <2>2. AllSampled(c.metric, c.items)'
    BY <2>1, StillSampled
  <2> QED BY <2>1, <2>2 DEF SampledContexts
<1>2. ASSUME NEW j \in SampledJobs PROVE j \in SampledJobs'
  <2>1. j \in Job /\ j.metric \in Metric /\ AllSampled(j.metric, j.items)
    BY DEF SampledJobs, Job
  <2>2. AllSampled(j.metric, j.items)'
    BY <2>1, StillSampled
  <2> QED BY <2>1, <2>2 DEF SampledJobs
<1> QED BY <1>1, <1>2

(* A sample goes to the end of the queue. *)
LEMMA HandsOver ==
  ASSUME Later, Queued, NEW metric \in Metric, NEW items \in Items,
         HandOver(metric, items), AllSampled(metric, items)'
  PROVE  Queued'
<1> DEFINE new == [metric |-> metric, items |-> items]
<1>1. contexts' = Append(contexts, new) /\ job' = job
  BY DEF HandOver
<1>2. new \in SampledContexts'
  BY DEF SampledContexts, Context
<1>3. contexts \in Seq(SampledContexts')
  BY StillQueued, SeqMonotonic DEF Queued
<1> HIDE DEF new
<1>4. contexts' \in Seq(SampledContexts')
  BY <1>1, <1>2, <1>3, AppendProperties
<1>5. job' # NULL => job' \in SampledJobs'
  BY <1>1, StillQueued DEF Queued
<1> QED BY <1>4, <1>5 DEF Queued

-----------------------------------------------------------------------------
(* Samples enter the queue, and leave it for the job.                      *)

LEMMA get_temperatureQueues ==
  ASSUME Loop, Ready, Queued, get_temperature PROVE Queued'
<1>1. PICK temps \in Seq(Int \cup {NULL}) :
        /\ temps = CoreTemps /\ Len(temps) \in Nat
        /\ \A i \in 1 .. Len(temps) : Sampled("temperature", Item(i - 1, temps[i]))
  BY TemperatureSampled
<1>2. PICK n \in Nat : n <= Len(temps)
        /\ HandOver("temperature", ByIndex(SubSeq(temps, 1, n)))
  <2>1. CASE HandOver("temperature", ByIndex(CoreTemps))
    <3>1. SubSeq(temps, 1, Len(temps)) = temps
      BY SubSeqFull
    <3>2. Len(temps) \in Nat /\ Len(temps) <= Len(temps)
      BY <1>1
    <3>3. HandOver("temperature", ByIndex(SubSeq(temps, 1, Len(temps))))
      BY <1>1, <2>1, <3>1, Zenon
    <3> QED BY <3>2, <3>3
  <2>2. CASE \E n \in 1 .. Len(CoreTemps) :
               HandOver("temperature", ByIndex(SubSeq(CoreTemps, 1, n - 1)))
    <3>1. PICK n \in 1 .. Len(temps) :
            HandOver("temperature", ByIndex(SubSeq(temps, 1, n - 1)))
      BY <1>1, <2>2
    <3>2. n - 1 \in Nat /\ n - 1 <= Len(temps)
      BY <1>1
    <3> QED BY <3>1, <3>2
  <2> QED BY <2>1, <2>2 DEF get_temperature
<1>3. PICK values \in Seq(Int \cup {NULL}) :
        /\ values = SubSeq(temps, 1, n) /\ Len(values) = n
        /\ \A i \in 1 .. n : values[i] = temps[i]
  <2>1. \A i \in 1 .. n : i \in 1 .. Len(temps) /\ temps[i] \in Int \cup {NULL}
    <3>1. \A i \in 1 .. n : i \in 1 .. Len(temps)
      BY <1>1, <1>2
    <3> QED BY <3>1, ElementOfSeq
  <2>2. 1 \in Int /\ n \in Int /\ (IF 1 <= n THEN n - 1 + 1 ELSE 0) = n
        /\ n - 1 + 1 = n /\ \A i \in 1 .. n : 1 + i - 1 = i
    BY <1>2
  <2>3. /\ SubSeq(temps, 1, n) \in Seq(Int \cup {NULL})
        /\ Len(SubSeq(temps, 1, n)) = IF 1 <= n THEN n - 1 + 1 ELSE 0
        /\ \A i \in 1 .. n - 1 + 1 : SubSeq(temps, 1, n)[i] = temps[1 + i - 1]
    BY <2>1, <2>2, SubSeqProperties
  <2> QED BY <2>2, <2>3
<1>4. \A i \in 1 .. Len(values) : Sampled("temperature", Item(i - 1, values[i]))
  BY <1>1, <1>2, <1>3
<1>5. ByIndex(values) \in Items /\ AllSampled("temperature", ByIndex(values))
  BY <1>4, IndexItems
<1>6. PICK items \in Items : items = ByIndex(values)
  BY <1>5
<1>7. AllSampled("temperature", items)'
  BY <1>5, <1>6, LoopLater, StillSampled DEF Metric, Shapes
<1>8. HandOver("temperature", items)
  BY <1>2, <1>3, <1>6
<1> QED BY <1>7, <1>8, LoopLater, HandsOver DEF Metric, Shapes

LEMMA get_frequencyQueues ==
  ASSUME Loop, Ready, Queued, get_frequency PROVE Queued'
<1>1. PICK list :
        list = cpu_freq_get_list(Threads(warmer), machine.cpuinfo, machine.memory)
  OBVIOUS
<1>2. /\ list \in Seq(Int \cup {NULL})
      /\ \A i \in 1 .. Len(list) : Sampled("frequency", Item(i - 1, list[i]))
  BY <1>1, FrequencySampled
<1>3. ByIndex(list) \in Items /\ AllSampled("frequency", ByIndex(list))
  BY <1>2, IndexItems
<1>4. PICK items \in Items : items = ByIndex(list)
  BY <1>3
<1>5. AllSampled("frequency", items)'
  BY <1>3, <1>4, LoopLater, StillSampled DEF Metric
<1>6. HandOver("frequency", items)
  BY <1>1, <1>4 DEF get_frequency
<1> QED BY <1>5, <1>6, LoopLater, HandsOver DEF Metric

LEMMA get_gpu_temperatureQueues ==
  ASSUME Loop, Ready, Queued, get_gpu_temperature PROVE Queued'
<1>1. PICK items : items = IF GpuReading = NULL THEN <<>> ELSE <<Item(0, GpuReading)>>
  OBVIOUS
<1>2. items \in Items /\ AllSampled("gpu", items)
  BY <1>1, GpuSampled
<1>3. CASE HandOver("gpu", items)
  <2>1. AllSampled("gpu", items)'
    BY <1>2, LoopLater, StillSampled DEF Metric, Shapes
  <2> QED BY <1>2, <1>3, <2>1, LoopLater, HandsOver DEF Metric, Shapes
<1>4. CASE HandOver("gpu", <<>>)
  <2>1. <<>> \in Items /\ AllSampled("gpu", <<>>)'
    BY DEF Items, AllSampled
  <2> QED BY <1>4, <2>1, LoopLater, HandsOver DEF Metric, Shapes
<1> QED BY <1>1, <1>3, <1>4 DEF get_gpu_temperature

LEMMA get_hdd_temperatureQueues ==
  ASSUME Loop, Ready, Queued, get_hdd_temperature PROVE Queued'
<1>1. PICK disks \in Seq(Int \cup {NULL}) :
        /\ disks = DiskInfo /\ Len(disks) \in Nat /\ DOMAIN disks = 1 .. Len(disks)
        /\ \A i \in 1 .. Len(disks) : Sampled("disk", Item(i - 1, disks[i]))
  BY DiskSampled
<1>2. CASE HandOver("disk", ByIndex(DiskInfo))
  <2>1. PICK items \in Items : items = ByIndex(disks) /\ AllSampled("disk", items)
    BY <1>1, IndexItems
  <2>2. AllSampled("disk", items)'
    BY <2>1, LoopLater, StillSampled DEF Metric, Shapes
  <2> QED BY <1>1, <1>2, <2>1, <2>2, LoopLater, HandsOver DEF Metric, Shapes
<1>3. CASE Fault /\ \E i \in DOMAIN DiskInfo :
                      HandOver("disk", ByIndex(RemoveAt(DiskInfo, i)))
  <2>1. PICK i \in 1 .. Len(disks) : HandOver("disk", ByIndex(RemoveAt(disks, i)))
    BY <1>1, <1>3
  <2>2. PICK values \in Seq(Int \cup {NULL}) : values = RemoveAt(disks, i)
    <3>1. \A k \in 1 .. Len(disks) : disks[k] \in Int \cup {NULL}
      BY ElementOfSeq
    <3>2. /\ \A k \in 1 .. i - 1 : k \in 1 .. Len(disks)
          /\ \A k \in i + 1 .. Len(disks) : k \in 1 .. Len(disks)
          /\ i - 1 \in Int /\ i + 1 \in Int /\ 1 \in Int /\ Len(disks) \in Int
      BY <1>1
    <3>3. \A k \in 1 .. i - 1 : disks[k] \in Int \cup {NULL}
      BY <3>1, <3>2
    <3>4. \A k \in i + 1 .. Len(disks) : disks[k] \in Int \cup {NULL}
      BY <3>1, <3>2
    <3>5. SubSeq(disks, 1, i - 1) \in Seq(Int \cup {NULL})
      BY <3>2, <3>3, SubSeqProperties
    <3>6. SubSeq(disks, i + 1, Len(disks)) \in Seq(Int \cup {NULL})
      BY <3>2, <3>4, SubSeqProperties
    <3> QED BY <3>5, <3>6, ConcatProperties DEF RemoveAt
  <2> DEFINE n == Len(values)
             S == [id : Nat, value : Int \cup {NULL}]
  <2>3. ByIndex(values) \in [1 .. n -> S]
    <3>1. \A k \in 1 .. n : Item(k - 1, values[k]) \in S
      BY DEF Item
    <3>2. ByIndex(values) = [k \in 1 .. n |-> Item(k - 1, values[k])]
      BY DEF ByIndex
    <3> HIDE DEF S, n
    <3> QED BY <3>1, <3>2
  <2>4. PICK items \in Items : items = ByIndex(values)
    <3>1. n \in Nat
      OBVIOUS
    <3> HIDE DEF S, n
    <3>2. ByIndex(values) \in Seq(S)
      BY <2>3, <3>1, IsASeq
    <3> QED BY <3>2 DEF Items, S
  <2>5. AllSampled("disk", items)'
    <3>1. faults' # 0
      BY <1>3, ReadyMachine DEF Fault
    <3>2. \A id : ~Regular("disk", id)'
      BY <3>1 DEF Regular
    <3> QED BY <3>2 DEF AllSampled, Sampled, IsMeasured
  <2>6. HandOver("disk", items)
    BY <2>1, <2>2, <2>4
  <2> QED BY <2>5, <2>6, LoopLater, HandsOver DEF Metric, Shapes
<1> QED BY <1>2, <1>3 DEF get_hdd_temperature

LEMMA TakeContextQueues ==
  ASSUME Loop, Ready, Queued, TakeContext PROVE Queued'
<1>1. PICK list \in Seq(SampledContexts) : list = contexts /\ list # <<>>
  BY DEF Queued, TakeContext
<1>2. Head(list) \in SampledContexts /\ Tail(list) \in Seq(SampledContexts)
  BY <1>1, HeadTailProperties
<1>3. PICK c \in SampledContexts : c = Head(list)
  BY <1>2
<1>4. c.metric \in Metric /\ c.items \in Items /\ AllSampled(c.metric, c.items)
  BY DEF SampledContexts, Context
<1>5. job' = [metric |-> c.metric, half |-> 1, items |-> c.items]
  BY <1>1, <1>3 DEF TakeContext
<1>6. job' \in SampledJobs
  BY <1>4, <1>5 DEF SampledJobs, Job
<1>7. contexts' \in Seq(SampledContexts)
  BY <1>1, <1>2 DEF TakeContext
<1>8. contexts' \in Seq(SampledContexts')
  BY <1>7, LoopLater, StillQueued, SeqMonotonic
<1>9. job' \in SampledJobs'
  BY <1>6, LoopLater, StillQueued
<1> QED BY <1>8, <1>9 DEF Queued

(* The job that is being written, as a record. *)
LEMMA JobIs ==
  ASSUME Queued, job # NULL
  PROVE  /\ job = [metric |-> job.metric, half |-> job.half, items |-> job.items]
         /\ job.metric \in Metric /\ job.half \in {1, 2} /\ job.items \in Items
         /\ AllSampled(job.metric, job.items)
BY DEF Queued, SampledJobs, Job

LEMMA NextItemSampled ==
  ASSUME Queued, job # NULL, job.items # <<>> PROVE NextItem \in SampledJobs
<1>1. PICK m \in Metric, h \in {1, 2}, items \in Items :
        /\ m = job.metric /\ items = job.items /\ AllSampled(m, items)
        /\ job = [metric |-> m, half |-> h, items |-> items]
  BY JobIs
<1>2. Tail(items) \in Items /\ AllSampled(m, Tail(items))
  BY <1>1, NextItems
<1>3. NextItem = [metric |-> m, half |-> 1, items |-> Tail(items)]
  BY <1>1 DEF NextItem
<1> QED BY <1>2, <1>3 DEF SampledJobs, Job

LEMMA SetValueJob ==
  ASSUME SetValue, Queued PROVE job' \in SampledJobs
<1>1. PICK m \in Metric, h \in {1, 2}, items \in Items :
        /\ m = job.metric /\ items = job.items /\ h = job.half
        /\ AllSampled(m, items)
        /\ job = [metric |-> m, half |-> h, items |-> items]
  BY JobIs DEF SetValue
<1>2. CASE job' = NextItem
  BY <1>2, NextItemSampled DEF SetValue
<1>3. CASE job' = [job EXCEPT !.half = 2]
  <2>1. job' = [metric |-> m, half |-> 2, items |-> items]
    BY <1>1, <1>3
  <2> QED BY <1>1, <2>1 DEF SampledJobs, Job
<1>4. CASE job' = [job EXCEPT !.half = 1, !.items = <<>>]
  <2>1. job' = [metric |-> m, half |-> 1, items |-> <<>>]
    BY <1>1, <1>4
  <2>2. <<>> \in Items /\ AllSampled(m, <<>>)
    BY DEF Items, AllSampled
  <2> QED BY <2>1, <2>2 DEF SampledJobs, Job
<1> QED BY <1>2, <1>3, <1>4 DEF SetValue

LEMMA LoopQueues ==
  ASSUME Loop, Ready, Queued PROVE Queued'
<1>1. ASSUME contexts' = contexts, job' # NULL => job' \in SampledJobs PROVE Queued'
  <2>1. contexts' \in Seq(SampledContexts')
    BY <1>1, LoopLater, StillQueued, SeqMonotonic DEF Queued
  <2>2. job' # NULL => job' \in SampledJobs'
    BY <1>1, LoopLater, StillQueued
  <2> QED BY <2>1, <2>2 DEF Queued
<1>2. CASE get_temperature \/ get_frequency \/ get_gpu_temperature \/ get_hdd_temperature
  BY <1>2, get_temperatureQueues, get_frequencyQueues, get_gpu_temperatureQueues,
     get_hdd_temperatureQueues
<1>3. CASE TakeContext
  BY <1>3, TakeContextQueues
<1>4. CASE SkipValue
  BY <1>1, <1>4, NextItemSampled DEF SkipValue
<1>5. CASE SetValue
  BY <1>1, <1>5, SetValueJob DEF SetValue
<1>6. CASE EndJob
  BY <1>1, <1>6 DEF EndJob
<1>7. CASE really_store_daemon_postcode \/ Warmer
  BY <1>1, <1>7 DEF really_store_daemon_postcode, Warmer, loop, Queued
<1> QED BY <1>2, <1>3, <1>4, <1>5, <1>6, <1>7 DEF Loop

-----------------------------------------------------------------------------
(* The registers of the panel.                                             *)

Parts == {"temperature", "disk"}
Registers == {ATFP_REG_POST_CODE_LSB, ATFP_REG_POST_CODE_MSB}

LEMMA BitsDiffer ==
  \A i, j \in 0 .. 7 : Bit(i) = Bit(j) => i = j
BY DEF Bit

(* A lamp, as the metric and the number that it shows. *)
LEMMA LampIs ==
  ASSUME NEW lamp \in Lamps
  PROVE  /\ lamp = <<lamp[1], lamp[2]>> /\ lamp[2] \in 0 .. 7
         /\ lamp[1] \in Parts \/ (lamp[1] = "gpu" /\ lamp[2] = 0)
BY DEF Lamps, Parts

LEMMA AddressIs ==
  ASSUME NEW metric, NEW id
  PROVE  /\ metric = "temperature" =>
              /\ Address(metric, id) = ATFP_REG_CPU0T + id
              /\ StatusOf(metric) = ATFP_REG_CPUTS
         /\ metric = "gpu" => /\ Address(metric, id) = ATFP_REG_GPUT
                              /\ StatusOf(metric) = ATFP_REG_SENSORT
         /\ metric = "disk" => /\ Address(metric, id) = ATFP_REG_HDD0T + id
                               /\ StatusOf(metric) = ATFP_REG_HDDTS
BY DEF Address, StatusOf

(* The registers of the lamps are apart, from one another and from all others. *)
LEMMA LampsApart ==
  ASSUME NEW m \in Shapes, NEW i \in 0 .. 7, NEW n \in Shapes, NEW j \in 0 .. 7,
         m = "gpu" => i = 0, n = "gpu" => j = 0
  PROVE  /\ Address(m, i) = Address(n, j) => m = n /\ i = j
         /\ Mask(m, i) = Mask(n, j) => m = n /\ i = j
         /\ Address(m, i) \notin Status /\ Address(m, i) \notin Registers
         /\ StatusOf(m) \in Status
<1> USE DEF ATFP_REG_CPU0T, ATFP_REG_GPUT, ATFP_REG_HDD0T, ATFP_REG_CPUTS,
        ATFP_REG_SENSORT, ATFP_REG_HDDTS, Status, Registers,
        ATFP_REG_POST_CODE_LSB, ATFP_REG_POST_CODE_MSB
<1>1. Address(m, i) = Address(n, j) => m = n /\ i = j
  BY AddressIs DEF Shapes
<1>2. StatusOf(m) = StatusOf(n) => m = n
  BY AddressIs DEF Shapes
<1>3. Mask(m, i) = Mask(n, j) => StatusOf(m) = StatusOf(n) /\ Bit(i) = Bit(j)
  BY DEF Mask
<1>4. /\ Address(m, i) \notin Status /\ Address(m, i) \notin Registers
      /\ StatusOf(m) \in Status
  BY AddressIs DEF Shapes
<1> QED BY <1>1, <1>2, <1>3, <1>4, BitsDiffer

LEMMA FrequenciesApart ==
  ASSUME NEW i \in 0 .. 7, NEW j \in 0 .. 7
  PROVE  /\ Lsb(i) = Lsb(j) => i = j
         /\ Msb(i) = Msb(j) => i = j
         /\ Lsb(i) # Msb(j)
         /\ Lsb(i) \notin Status \cup Registers /\ Msb(i) \notin Status \cup Registers
BY DEF Lsb, Msb, ATFP_REG_CPU0F_LSB, ATFP_REG_CPU0F_MSB, ATFP_REG_CPUTS,
   ATFP_REG_SENSORT, ATFP_REG_HDDTS, Status, Registers, ATFP_REG_POST_CODE_LSB,
   ATFP_REG_POST_CODE_MSB

LEMMA LampsAndFrequencies ==
  ASSUME NEW m \in Shapes, NEW i \in 0 .. 7, NEW j \in 0 .. 7
  PROVE  Address(m, i) # Lsb(j) /\ Address(m, i) # Msb(j)
BY AddressIs DEF Shapes, Lsb, Msb, ATFP_REG_CPU0F_LSB, ATFP_REG_CPU0F_MSB,
   ATFP_REG_CPU0T, ATFP_REG_GPUT, ATFP_REG_HDD0T

LEMMA LampWrites ==
  ASSUME NEW m \in Shapes, NEW item \in [id : Nat, value : Int \cup {NULL}],
         Sampled(m, item), Writes(m, item) # <<>>
  PROVE  /\ item.id \in 0 .. 7 /\ item.value \in Int /\ (m = "gpu" => item.id = 0)
         /\ Writes(m, item) = <<<<Address(m, item.id), Held(m, item.value)>>,
                                Mask(m, item.id)>>
<1>1. CASE m = "temperature"
  BY <1>1 DEF Sampled, Writes, panel_set_temperature, Write, Byte, Address, Held,
     Mask, StatusOf
<1>2. CASE m = "gpu"
  BY <1>2 DEF Sampled, Writes, panel_set_gpu_temp, Write, Byte, Address, Held,
     Mask, StatusOf
<1>3. CASE m = "disk"
  <2>1. item.value # NULL
    BY <1>3 DEF Writes
  <2>2. Writes(m, item) = panel_set_hdd_temp(item.id, item.value)
    BY <1>3, <2>1 DEF Writes
  <2>3. ~(item.id > 7)
    BY <2>2 DEF panel_set_hdd_temp
  <2> QED BY <1>3, <2>1, <2>2, <2>3 DEF panel_set_hdd_temp, Write, Byte, Address,
          Held, Mask, StatusOf
<1> QED BY <1>1, <1>2, <1>3 DEF Shapes

LEMMA FrequencyWrites ==
  ASSUME NEW item \in [id : Nat, value : Int \cup {NULL}], Sampled("frequency", item)
  PROVE  /\ item.id \in 0 .. 7 /\ item.value \in Int
         /\ Writes("frequency", item) =
              <<<<Lsb(item.id), item.value % 256>>,
                <<Msb(item.id), 128 + ((item.value \div 256) % 128)>>>>
<1>1. item.id \in 0 .. 7 /\ item.value \in Int
  BY DEF Sampled
<1>2. Writes("frequency", item) = panel_set_frequency(item.id, item.value)
  BY DEF Writes
<1>3. item.id * 2 = 2 * item.id
  BY <1>1
<1> QED BY <1>1, <1>2, <1>3 DEF panel_set_frequency, Write, Byte, Lsb, Msb

-----------------------------------------------------------------------------
(* What a write changes.                                                   *)

(* What a step does to a register, and to the mark of a lamp. *)
Kept(reg) == /\ reg \in DOMAIN registers' <=> reg \in DOMAIN registers
             /\ reg \in DOMAIN registers => registers'[reg] = registers[reg]
Marks(mask) == mask \in valid' <=> mask \in valid

LEMMA PutKeeps ==
  ASSUME NEW reg, NEW byte, registers' = Put(registers, reg, byte)
  PROVE  /\ reg \in DOMAIN registers' /\ registers'[reg] = byte
         /\ \A r : r # reg => Kept(r)
<1>1. PICK old, new : old = registers /\ new = registers'
  OBVIOUS
<1>2. new = Put(old, reg, byte)
  BY <1>1
<1>3. /\ DOMAIN new = DOMAIN old \cup {reg} /\ new[reg] = byte
      /\ \A r \in DOMAIN old : r # reg => new[r] = old[r]
  BY <1>2 DEF Put
<1>4. ASSUME NEW r, r # reg PROVE Kept(r)
  <2>1. r \in DOMAIN new <=> r \in DOMAIN old
    BY <1>3, <1>4
  <2>2. r \in DOMAIN old => new[r] = old[r]
    BY <1>3, <1>4
  <2> QED BY <1>1, <2>1, <2>2 DEF Kept
<1> QED BY <1>1, <1>3, <1>4

LEMMA LampKept ==
  ASSUME Later, NEW m \in Shapes, NEW i, LampMeasured(m, i),
         Kept(Address(m, i)), Marks(Mask(m, i))
  PROVE  LampMeasured(m, i)'
<1> DEFINE reg == Address(m, i)
<1>1. (Address(m, i))' = reg /\ (Mask(m, i))' = Mask(m, i)
  BY DEF Address, Mask, StatusOf
<1>2. Mask(m, i) \in valid' => reg \in DOMAIN registers'
  BY DEF Kept, Marks, LampMeasured
<1>3. ASSUME reg \in DOMAIN registers' PROVE IsMeasured(m, i, registers[reg])'
  <2>1. PICK held : held = registers[reg] /\ registers'[reg] = held
    BY <1>3 DEF Kept
  <2>2. IsMeasured(m, i, held)
    BY <1>3, <2>1 DEF Kept, LampMeasured
  <2>3. IsMeasured(m, i, held)'
    BY <2>2, StillMeasured DEF Metric
  <2> QED BY <1>1, <2>1, <2>3
<1> QED BY <1>1, <1>2, <1>3 DEF LampMeasured

LEMMA FrequencyKept ==
  ASSUME Later, NEW core \in 0 .. 7, FrequencyMeasured(core),
         Kept(Lsb(core)), Kept(Msb(core))
  PROVE  FrequencyMeasured(core)'
<1>1. (Lsb(core))' = Lsb(core) /\ (Msb(core))' = Msb(core)
  BY DEF Lsb, Msb, ATFP_REG_CPU0F_LSB, ATFP_REG_CPU0F_MSB
<1>2. CASE Msb(core) \notin DOMAIN registers
  BY <1>1, <1>2 DEF FrequencyMeasured, Kept
<1>3. CASE /\ Msb(core) \in DOMAIN registers
           /\ Lsb(core) \in DOMAIN registers
           /\ registers[Msb(core)] >= 128
           /\ IsMeasured("frequency", core, Halves(core))
  <2>1. /\ Lsb(core) \in DOMAIN registers' /\ Msb(core) \in DOMAIN registers'
        /\ registers'[Lsb(core)] = registers[Lsb(core)]
        /\ registers'[Msb(core)] = registers[Msb(core)]
    BY <1>3 DEF Kept
  <2>2. PICK held : held = Halves(core) /\ (Halves(core))' = held
    BY <1>1, <2>1 DEF Halves
  <2>3. IsMeasured("frequency", core, held)'
    BY <1>3, <2>2, StillMeasured DEF Metric
  <2> QED BY <1>1, <1>3, <2>1, <2>2, <2>3 DEF FrequencyMeasured
<1> QED BY <1>2, <1>3 DEF FrequencyMeasured

(* The two bytes of a frequency, put together again. *)
LEMMA TwoBytes ==
  ASSUME NEW v \in Int
  PROVE  /\ 128 + ((v \div 256) % 128) >= 128
         /\ 256 * ((128 + ((v \div 256) % 128)) - 128) + (v % 256) = v % 32768
OBVIOUS

(* A write of a value that succeeds: the register, or the mark of a register  *)
(* that has been written.                                                     *)
Wrote(metric, item) ==
  IF metric = "frequency"
  THEN /\ valid' = valid
       /\ \/ job.half = 1 /\ registers' = Put(registers, Lsb(item.id), item.value % 256)
          \/ /\ job.half = 2 /\ Lsb(item.id) \in DOMAIN registers
             /\ registers[Lsb(item.id)] = item.value % 256
             /\ registers' = Put(registers, Msb(item.id),
                                 128 + ((item.value \div 256) % 128))
  ELSE \/ /\ job.half = 1 /\ valid' = valid
          /\ registers' = Put(registers, Address(metric, item.id), Held(metric, item.value))
       \/ /\ job.half = 2 /\ registers' = registers
          /\ valid' = valid \cup {Mask(metric, item.id)}
          /\ Address(metric, item.id) \in DOMAIN registers
          /\ registers[Address(metric, item.id)] = Held(metric, item.value)

LEMMA SetValueDoes ==
  ASSUME SetValue, Queued, HalfWritten
  PROVE  /\ job.metric \in Metric /\ job.half \in {1, 2}
         /\ Head(job.items) \in [id : Nat, value : Int \cup {NULL}]
         /\ Sampled(job.metric, Head(job.items))
         /\ Writes(job.metric, Head(job.items)) # <<>>
         /\ \/ Fault /\ UNCHANGED <<registers, valid>>
            \/ UNCHANGED faults /\ Wrote(job.metric, Head(job.items))
<1>1. job # NULL /\ job.items # <<>>
  BY DEF SetValue
<1>2. /\ job.metric \in Metric /\ job.half \in {1, 2} /\ job.items \in Items
      /\ AllSampled(job.metric, job.items)
  BY <1>1, JobIs
<1>3. PICK m \in Metric : m = job.metric
  BY <1>2
<1>4. PICK item \in [id : Nat, value : Int \cup {NULL}] :
        item = Head(job.items) /\ Sampled(m, item)
  BY <1>1, <1>2, <1>3, NextItems
<1>5. Writes(m, item) # <<>>
  BY <1>3, <1>4 DEF SetValue
<1>6. job.half = 2 => /\ Writes(m, item)[1][1] \in DOMAIN registers
                      /\ registers[Writes(m, item)[1][1]] = Writes(m, item)[1][2]
  BY <1>1, <1>3, <1>4 DEF HalfWritten
<1>7. \/ panel_write_byte(Writes(m, item)[job.half]) /\ UNCHANGED faults
      \/ Fault /\ UNCHANGED <<registers, valid>>
  BY <1>3, <1>4 DEF SetValue
<1>8. ASSUME panel_write_byte(Writes(m, item)[job.half]) PROVE Wrote(m, item)
  <2>1. CASE m = "frequency"
    <3>1. /\ item.id \in 0 .. 7 /\ item.value \in Int
          /\ Writes(m, item) = <<<<Lsb(item.id), item.value % 256>>,
                                 <<Msb(item.id), 128 + ((item.value \div 256) % 128)>>>>
      BY <1>4, <2>1, FrequencyWrites
    <3>2. Lsb(item.id) \notin Status /\ Msb(item.id) \notin Status
      BY <3>1, FrequenciesApart
    <3>3. CASE job.half = 1
      BY <1>8, <2>1, <3>1, <3>2, <3>3 DEF panel_write_byte, Wrote
    <3>4. CASE job.half = 2
      BY <1>6, <1>8, <2>1, <3>1, <3>2, <3>4 DEF panel_write_byte, Wrote
    <3> QED BY <1>2, <3>3, <3>4
  <2>2. CASE m # "frequency"
    <3>1. m \in Shapes
      BY <2>2 DEF Metric
    <3>2. /\ item.id \in 0 .. 7 /\ item.value \in Int /\ (m = "gpu" => item.id = 0)
          /\ Writes(m, item) = <<<<Address(m, item.id), Held(m, item.value)>>,
                                 Mask(m, item.id)>>
      BY <1>4, <1>5, <3>1, LampWrites
    <3>3. Address(m, item.id) \notin Status /\ Mask(m, item.id)[1] \in Status
      BY <3>1, <3>2, LampsApart DEF Mask
    <3>4. CASE job.half = 1
      BY <1>8, <2>2, <3>2, <3>3, <3>4 DEF panel_write_byte, Wrote
    <3>5. CASE job.half = 2
      BY <1>6, <1>8, <2>2, <3>2, <3>3, <3>5 DEF panel_write_byte, Wrote
    <3> QED BY <1>2, <3>4, <3>5
  <2> QED BY <2>1, <2>2
<1> QED BY <1>2, <1>3, <1>4, <1>5, <1>7, <1>8

LEMMA OthersKeep ==
  ASSUME Loop, ~SetValue
  PROVE  valid' = valid /\ \A r : r \notin Registers => Kept(r)
<1>1. registers' = registers => \A r : Kept(r)
  BY DEF Kept
<1>2. CASE get_temperature \/ get_frequency \/ get_gpu_temperature \/ get_hdd_temperature
  BY <1>1, <1>2 DEF get_temperature, get_frequency, get_gpu_temperature,
     get_hdd_temperature, HandOver, panel
<1>3. CASE TakeContext \/ SkipValue \/ EndJob \/ Warmer
  BY <1>1, <1>3 DEF TakeContext, SkipValue, EndJob, Warmer, panel
<1>4. CASE really_store_daemon_postcode
  <2>1. PICK msb : msb = Put(registers, ATFP_REG_POST_CODE_MSB, \hDA)
    OBVIOUS
  <2>2. PICK both : both = Put(msb, ATFP_REG_POST_CODE_LSB, \hE7)
    OBVIOUS
  <2>3. registers' \in {registers, msb, both} /\ valid' = valid
    BY <1>4, <2>1, <2>2 DEF really_store_daemon_postcode, panel_store_daemon_postcode
  <2>4. ASSUME NEW r, r \notin Registers
        PROVE  /\ r \in DOMAIN msb <=> r \in DOMAIN registers
               /\ r \in DOMAIN registers => msb[r] = registers[r]
    <3>1. r # ATFP_REG_POST_CODE_MSB
      BY <2>4 DEF Registers
    <3> QED BY <2>1, <3>1 DEF Put
  <2>5. ASSUME NEW r, r \notin Registers
        PROVE  /\ r \in DOMAIN both <=> r \in DOMAIN msb
               /\ r \in DOMAIN msb => both[r] = msb[r]
    <3>1. r # ATFP_REG_POST_CODE_LSB
      BY <2>5 DEF Registers
    <3> QED BY <2>2, <3>1 DEF Put
  <2> QED BY <2>3, <2>4, <2>5 DEF Kept
<1> QED BY <1>2, <1>3, <1>4 DEF Loop

(* The item a write is for, and what of the others it changes: nothing. *)
LEMMA WroteKeeps ==
  ASSUME NEW m \in Metric, NEW item \in [id : Nat, value : Int \cup {NULL}],
         Sampled(m, item), Writes(m, item) # <<>>, Wrote(m, item)
  PROVE  /\ \A lamp \in Lamps :
              lamp # <<m, item.id>> =>
                Kept(Address(lamp[1], lamp[2])) /\ Marks(Mask(lamp[1], lamp[2]))
         /\ \A core \in 0 .. 7 :
              <<"frequency", core>> # <<m, item.id>> => Kept(Lsb(core)) /\ Kept(Msb(core))
<1>1. CASE m = "frequency"
  <2>1. item.id \in 0 .. 7
    BY <1>1, FrequencyWrites
  <2>2. valid' = valid
    BY <1>1 DEF Wrote
  <2>3. \E byte : \/ registers' = Put(registers, Lsb(item.id), byte)
                  \/ registers' = Put(registers, Msb(item.id), byte)
    BY <1>1 DEF Wrote
  <2>4. \A r : r # Lsb(item.id) /\ r # Msb(item.id) => Kept(r)
    BY <2>3, PutKeeps
  <2>5. ASSUME NEW lamp \in Lamps
        PROVE  Kept(Address(lamp[1], lamp[2])) /\ Marks(Mask(lamp[1], lamp[2]))
    <3>1. lamp[1] \in Shapes /\ lamp[2] \in 0 .. 7
      BY LampIs DEF Shapes, Parts
    <3>2. PICK n \in Shapes, j \in 0 .. 7 : n = lamp[1] /\ j = lamp[2]
      BY <3>1
    <3>3. Address(n, j) # Lsb(item.id) /\ Address(n, j) # Msb(item.id)
      BY <2>1, LampsAndFrequencies
    <3> QED BY <2>2, <2>4, <3>2, <3>3 DEF Marks
  <2>6. ASSUME NEW core \in 0 .. 7, core # item.id
        PROVE  Kept(Lsb(core)) /\ Kept(Msb(core))
    <3>1. Lsb(core) # Lsb(item.id) /\ Lsb(core) # Msb(item.id)
          /\ Msb(core) # Lsb(item.id) /\ Msb(core) # Msb(item.id)
      BY <2>1, <2>6, FrequenciesApart
    <3> QED BY <2>4, <3>1
  <2> QED BY <1>1, <2>5, <2>6
<1>2. CASE m # "frequency"
  <2>1. m \in Shapes
    BY <1>2 DEF Metric
  <2>2. item.id \in 0 .. 7 /\ (m = "gpu" => item.id = 0)
    BY <2>1, LampWrites
  <2>3. /\ valid' = valid \/ valid' = valid \cup {Mask(m, item.id)}
        /\ registers' = registers
           \/ \E byte : registers' = Put(registers, Address(m, item.id), byte)
    BY <1>2 DEF Wrote
  <2>4. \A r : r # Address(m, item.id) => Kept(r)
    <3>1. CASE registers' = registers
      BY <3>1 DEF Kept
    <3>2. CASE \E byte : registers' = Put(registers, Address(m, item.id), byte)
      BY <3>2, PutKeeps
    <3> QED BY <2>3, <3>1, <3>2
  <2>5. ASSUME NEW lamp \in Lamps, lamp # <<m, item.id>>
        PROVE  Kept(Address(lamp[1], lamp[2])) /\ Marks(Mask(lamp[1], lamp[2]))
    <3>1. /\ lamp = <<lamp[1], lamp[2]>> /\ lamp[1] \in Shapes /\ lamp[2] \in 0 .. 7
          /\ lamp[1] = "gpu" => lamp[2] = 0
      BY LampIs DEF Shapes, Parts
    <3>2. PICK n \in Shapes, j \in 0 .. 7 :
            n = lamp[1] /\ j = lamp[2] /\ (n = "gpu" => j = 0)
      BY <3>1
    <3>3. ~(n = m /\ j = item.id)
      BY <2>5, <3>1, <3>2
    <3>4. Address(n, j) # Address(m, item.id) /\ Mask(n, j) # Mask(m, item.id)
      BY <2>1, <2>2, <3>2, <3>3, LampsApart
    <3>5. Marks(Mask(n, j))
      BY <2>3, <3>4 DEF Marks
    <3> QED BY <2>4, <3>2, <3>4, <3>5
  <2>6. ASSUME NEW core \in 0 .. 7 PROVE Kept(Lsb(core)) /\ Kept(Msb(core))
    <3>1. Address(m, item.id) # Lsb(core) /\ Address(m, item.id) # Msb(core)
      BY <2>1, <2>2, LampsAndFrequencies
    <3> QED BY <2>4, <3>1
  <2> QED BY <2>5, <2>6
<1> QED BY <1>1, <1>2

-----------------------------------------------------------------------------
(* What is shown stays true.                                               *)

LEMMA LampIn ==
  ASSUME NEW lamp \in Lamps
  PROVE  /\ lamp = <<lamp[1], lamp[2]>> /\ lamp[1] \in Shapes /\ lamp[2] \in 0 .. 7
         /\ lamp[1] = "gpu" => lamp[2] = 0
BY LampIs DEF Shapes, Parts

LEMMA LoopKeepsLamps ==
  ASSUME Loop, Ready, Queued, HalfWritten, LampsMeasured PROVE LampsMeasured'
<1>1. Later
  BY LoopLater
<1>2. SUFFICES ASSUME NEW lamp \in Lamps PROVE LampMeasured(lamp[1], lamp[2])'
  BY DEF LampsMeasured
<1>3. PICK n \in Shapes, j \in 0 .. 7 :
        /\ n = lamp[1] /\ j = lamp[2] /\ lamp = <<n, j>> /\ (n = "gpu" => j = 0)
  BY LampIn
<1>4. LampMeasured(n, j)
  BY <1>3 DEF LampsMeasured
<1>5. Kept(Address(n, j)) /\ Marks(Mask(n, j)) => LampMeasured(n, j)'
  BY <1>1, <1>4, LampKept
<1>6. CASE ~SetValue
  <2>1. Address(n, j) \notin Registers
    BY <1>3, LampsApart
  <2> QED BY <1>3, <1>5, <1>6, <2>1, OthersKeep DEF Marks
<1>7. CASE SetValue
  <2>1. PICK m \in Metric, item \in [id : Nat, value : Int \cup {NULL}] :
          /\ m = job.metric /\ item = Head(job.items)
          /\ Sampled(m, item) /\ Writes(m, item) # <<>>
          /\ \/ UNCHANGED <<registers, valid>>
             \/ Wrote(m, item)
    BY <1>7, SetValueDoes
  <2>2. CASE UNCHANGED <<registers, valid>>
    BY <1>3, <1>5, <2>2 DEF Kept, Marks
  <2>3. CASE Wrote(m, item) /\ lamp # <<m, item.id>>
    BY <1>3, <1>5, <2>1, <2>3, WroteKeeps
  <2>4. CASE Wrote(m, item) /\ lamp = <<m, item.id>>
    <3>1. n = m /\ j = item.id /\ m # "frequency"
      BY <1>3, <2>4 DEF Shapes
    <3>2. item.value \in Int
      BY <1>3, <2>1, <3>1, LampWrites
    <3>3. PICK held : held = Held(m, item.value)
      OBVIOUS
    <3>4. IsMeasured(n, j, held)
      BY <2>1, <3>1, <3>2, <3>3 DEF Sampled
    <3>5. IsMeasured(n, j, held)'
      BY <1>1, <3>4, StillMeasured DEF Metric
    <3>6. Address(n, j) \in DOMAIN registers' /\ registers'[Address(n, j)] = held
      <4>1. CASE job.half = 1
        <5>1. registers' = Put(registers, Address(n, j), held)
          BY <2>4, <3>1, <3>3, <4>1 DEF Wrote
        <5> QED BY <5>1, PutKeeps
      <4>2. CASE job.half = 2
        BY <2>4, <3>1, <3>3, <4>2 DEF Wrote
      <4> QED BY <2>4, <3>1, <4>1, <4>2 DEF Wrote
    <3>7. (Address(n, j))' = Address(n, j)
      BY DEF Address
    <3>8. LampMeasured(n, j)'
      BY <3>5, <3>6, <3>7 DEF LampMeasured
    <3> QED BY <1>3, <3>8
  <2> QED BY <2>1, <2>2, <2>3, <2>4
<1> QED BY <1>6, <1>7

(* The item of a job changes only when its turn is over. *)
LEMMA StillBeingWritten ==
  ASSUME Loop, ~SetValue, Queued, NEW core, BeingWritten("frequency", core)
  PROVE  BeingWritten("frequency", core)'
<1>1. job # NULL /\ job.metric = "frequency" /\ job.items # <<>>
      /\ Head(job.items).id = core
  BY DEF BeingWritten
<1>2. ~SkipValue
  <2>1. Writes("frequency", Head(job.items)) # <<>>
    BY DEF Writes, panel_set_frequency
  <2> QED BY <1>1, <2>1 DEF SkipValue
<1>3. ~TakeContext /\ ~EndJob
  BY <1>1 DEF TakeContext, EndJob
<1>4. job' = job
  BY <1>2, <1>3 DEF Loop, get_temperature, get_frequency, get_gpu_temperature,
     get_hdd_temperature, HandOver, really_store_daemon_postcode, Warmer, loop
<1> QED BY <1>1, <1>4 DEF BeingWritten

LEMMA LoopKeepsFrequencies ==
  ASSUME Loop, Ready, Queued, HalfWritten, FrequenciesMeasured
  PROVE  FrequenciesMeasured'
<1>1. Later
  BY LoopLater
<1>2. SUFFICES ASSUME faults' = 0, NEW core \in 0 .. 7, ~BeingWritten("frequency", core)'
               PROVE  FrequencyMeasured(core)'
  BY DEF FrequenciesMeasured
<1>3. faults = 0 /\ ~Fault
  BY <1>1, <1>2 DEF Later, Fault
<1>4. BeingWritten("frequency", core) \/ FrequencyMeasured(core)
  BY <1>3 DEF FrequenciesMeasured, Ready
<1>5. FrequencyMeasured(core) /\ Kept(Lsb(core)) /\ Kept(Msb(core))
        => FrequencyMeasured(core)'
  BY <1>1, FrequencyKept
<1>6. CASE ~SetValue
  <2>1. FrequencyMeasured(core)
    BY <1>2, <1>4, <1>6, StillBeingWritten
  <2>2. Lsb(core) \notin Registers /\ Msb(core) \notin Registers
    BY FrequenciesApart
  <2> QED BY <1>5, <1>6, <2>1, <2>2, OthersKeep
<1>7. CASE SetValue
  <2>1. PICK m \in Metric, item \in [id : Nat, value : Int \cup {NULL}] :
          /\ m = job.metric /\ item = Head(job.items)
          /\ Sampled(m, item) /\ Writes(m, item) # <<>> /\ Wrote(m, item)
    BY <1>3, <1>7, SetValueDoes
  <2>2. CASE <<"frequency", core>> # <<m, item.id>>
    <3>1. ~BeingWritten("frequency", core)
      BY <2>1, <2>2 DEF BeingWritten
    <3> QED BY <1>4, <1>5, <2>1, <2>2, <3>1, WroteKeeps
  <2>3. CASE m = "frequency" /\ core = item.id
    <3>1. CASE job.half = 1
      <4>1. job' = [job EXCEPT !.half = 2]
        BY <1>3, <1>7, <3>1 DEF SetValue
      <4>2. PICK h, items :
              /\ job = [metric |-> m, half |-> h, items |-> items]
              /\ items = job.items
        BY <1>7, <2>1, JobIs DEF SetValue
      <4>3. job' = [metric |-> m, half |-> 2, items |-> items]
        BY <4>1, <4>2
      <4>4. job' # NULL
        <5>1. job' \in Job
          BY <1>7, SetValueJob DEF SampledJobs
        <5>2. NULL \notin Job
          BY JobAssumption DEF Job, Metric, Shapes, Items
        <5> QED BY <5>1, <5>2
      <4>5. BeingWritten("frequency", core)'
        BY <1>7, <2>1, <2>3, <4>2, <4>3, <4>4 DEF BeingWritten, SetValue
      <4> QED BY <1>2, <4>5
    <3>2. CASE job.half # 1
      <4>1. PICK v \in Int : v = item.value
        BY <2>1, <2>3, FrequencyWrites
      <4>2. /\ Lsb(core) \in DOMAIN registers /\ registers[Lsb(core)] = v % 256
            /\ registers' = Put(registers, Msb(core), 128 + ((v \div 256) % 128))
        BY <2>1, <2>3, <3>2, <4>1 DEF Wrote
      <4>3. /\ Msb(core) \in DOMAIN registers'
            /\ registers'[Msb(core)] = 128 + ((v \div 256) % 128)
            /\ \A r : r # Msb(core) => Kept(r)
        BY <4>2, PutKeeps
      <4>4. Lsb(core) \in DOMAIN registers' /\ registers'[Lsb(core)] = v % 256
        BY <4>2, <4>3, FrequenciesApart DEF Kept
      <4>5. (Lsb(core))' = Lsb(core) /\ (Msb(core))' = Msb(core)
        BY DEF Lsb, Msb, ATFP_REG_CPU0F_LSB, ATFP_REG_CPU0F_MSB
      <4>6. (Halves(core))' = 256 * ((128 + ((v \div 256) % 128)) - 128) + (v % 256)
        BY <4>3, <4>4, <4>5 DEF Halves
      <4>7. PICK held : held = v % 32768
        OBVIOUS
      <4>8. (Halves(core))' = held
        BY <4>6, <4>7, TwoBytes
      <4>9. IsMeasured("frequency", core, held)
        BY <2>1, <2>3, <4>1, <4>7 DEF Sampled, Held
      <4>10. IsMeasured("frequency", core, held)'
        BY <1>1, <4>9, StillMeasured DEF Metric
      <4>11. IsMeasured("frequency", core, Halves(core))'
        BY <4>8, <4>10
      <4>12. registers'[Msb(core)] >= 128
        BY <4>3, TwoBytes
      <4> QED BY <4>4, <4>5, <4>11, <4>12 DEF FrequencyMeasured
    <3> QED BY <3>1, <3>2
  <2> QED BY <2>2, <2>3
<1> QED BY <1>6, <1>7

LEMMA LoopKeepsHalf ==
  ASSUME Loop, Ready, Queued, HalfWritten PROVE HalfWritten'
<1>1. CASE job' = NULL
  BY <1>1 DEF HalfWritten
<1>2. CASE job' # NULL /\ job' = job /\ ~SetValue
  <2>1. ~really_store_daemon_postcode
    BY <1>2 DEF really_store_daemon_postcode
  <2>2. registers' = registers
    BY <1>2, <2>1 DEF Loop, get_temperature, get_frequency, get_gpu_temperature,
       get_hdd_temperature, HandOver, TakeContext, SkipValue, EndJob, Warmer, panel
  <2> QED BY <1>2, <2>2 DEF HalfWritten
<1>3. CASE TakeContext
  BY <1>3 DEF TakeContext, HalfWritten
<1>4. CASE SkipValue
  BY <1>4 DEF SkipValue, NextItem, HalfWritten
<1>5. CASE SetValue
  <2>1. PICK m \in Metric, item \in [id : Nat, value : Int \cup {NULL}] :
          /\ m = job.metric /\ item = Head(job.items)
          /\ Sampled(m, item) /\ Writes(m, item) # <<>>
          /\ Fault \/ (UNCHANGED faults /\ Wrote(m, item))
    BY <1>5, SetValueDoes
  <2>2. PICK h, items : /\ job = [metric |-> m, half |-> h, items |-> items]
                        /\ items = job.items
    BY <1>5, <2>1, JobIs DEF SetValue
  <2>3. CASE job' = NextItem
    BY <2>3 DEF NextItem, HalfWritten
  <2>4. CASE job' = [job EXCEPT !.half = 1, !.items = <<>>]
    <3>1. job' = [metric |-> m, half |-> 1, items |-> <<>>]
      BY <2>2, <2>4
    <3> QED BY <3>1 DEF HalfWritten
  <2>5. CASE job.half = 1 /\ job' = [job EXCEPT !.half = 2] /\ UNCHANGED faults
    <3>1. job' = [metric |-> m, half |-> 2, items |-> items]
      BY <2>2, <2>5
    <3>2. Wrote(m, item)
      <4>1. ~Fault
        BY <2>5, ReadyMachine DEF Fault
      <4> QED BY <2>1, <4>1
    <3>3. /\ Writes(m, item)[1][1] \in DOMAIN registers'
          /\ registers'[Writes(m, item)[1][1]] = Writes(m, item)[1][2]
      <4>1. CASE m = "frequency"
        <5>1. Writes(m, item)[1] = <<Lsb(item.id), item.value % 256>>
          BY <2>1, <4>1, FrequencyWrites
        <5>2. registers' = Put(registers, Lsb(item.id), item.value % 256)
          BY <2>5, <3>2, <4>1 DEF Wrote
        <5> QED BY <5>1, <5>2, PutKeeps
      <4>2. CASE m # "frequency"
        <5>1. Writes(m, item)[1] = <<Address(m, item.id), Held(m, item.value)>>
          BY <2>1, <4>2, LampWrites DEF Metric
        <5>2. registers' = Put(registers, Address(m, item.id), Held(m, item.value))
          BY <2>5, <3>2, <4>2 DEF Wrote
        <5> QED BY <5>1, <5>2, PutKeeps
      <4> QED BY <4>1, <4>2
    <3>4. job'.metric = m /\ Head(job'.items) = item
      BY <2>1, <2>2, <3>1
    <3> QED BY <2>1, <3>3, <3>4 DEF HalfWritten
  <2> QED BY <1>5, <2>3, <2>4, <2>5 DEF SetValue
<1>6. CASE EndJob
  BY <1>1, <1>6 DEF EndJob
<1>7. job' = job \/ TakeContext \/ SkipValue \/ SetValue \/ EndJob
  BY DEF Loop, get_temperature, get_frequency, get_gpu_temperature,
     get_hdd_temperature, HandOver, really_store_daemon_postcode, Warmer, loop
<1> QED BY <1>1, <1>2, <1>3, <1>4, <1>5, <1>6, <1>7

(* Outside the loop the panel is dark, or what it shows stays. *)
LEMMA ElsewhereKeeps ==
  ASSUME Next, ~Loop, IInv, Dark, Fits => LampsMeasured, Fits'
  PROVE  ShownMeasured'
<1>0. Queued'
  <2>1. contexts' = <<>> /\ job' = NULL
    BY Elsewhere DEF Dark
  <2> QED BY <2>1 DEF Queued
<1>1. CASE phase \in {"running", "exit handlers", "exited"}
  <2>0. coretemp' = coretemp /\ LampsMeasured
    <3>1. machine' = machine
      BY Constant DEF IInv, Typed
    <3>2. ~SensorsStep
      BY <1>1, SensorsMoves
    <3>3. coretemp' = coretemp
      BY <3>1, <3>2, NotTheSensors
    <3> QED BY <3>3 DEF Fits
  <2>1. /\ UNCHANGED <<registers, valid, overrun, faults, GPU_get_temperature, warmer>>
        /\ phase' # "running" /\ job' = NULL
    BY <1>1, Elsewhere DEF Dark
  <2>2. Later
    <3>1. machine' = machine /\ faults \in Nat
      BY Constant DEF IInv, Typed
    <3>2. faults' \in Nat /\ faults <= faults'
      BY <2>1, <3>1
    <3>3. warmer \in {0, 1} /\ warmer' \in {0, 1} /\ warmer <= warmer'
      <4>1. warmer \in {0, 1}
        BY DEF Dark
      <4>2. warmer' = warmer
        BY <2>1
      <4> QED BY <4>1, <4>2
    <3> QED BY <2>0, <2>1, <3>1, <3>2, <3>3 DEF Later
  <2>3. ASSUME NEW lamp \in Lamps PROVE LampMeasured(lamp[1], lamp[2])'
    <3>1. PICK n \in Shapes, j \in 0 .. 7 : n = lamp[1] /\ j = lamp[2]
      BY LampIn
    <3>2. LampMeasured(n, j)
      BY <2>0, <3>1 DEF LampsMeasured
    <3>3. Kept(Address(n, j)) /\ Marks(Mask(n, j))
      BY <2>1 DEF Kept, Marks
    <3>4. LampMeasured(n, j)'
      BY <2>2, <3>2, <3>3, LampKept
    <3> QED BY <3>1, <3>4
  <2> QED BY <1>0, <2>1, <2>3
          DEF ShownMeasured, LampsMeasured, FrequenciesMeasured, HalfWritten
<1>2. CASE phase \notin {"running", "exit handlers", "exited"}
  <2>1. registers' = <<>> /\ valid' = {} /\ job' = NULL
    BY <1>2, Elsewhere DEF Dark
  <2>2. \A r : r \notin DOMAIN registers'
    BY <2>1
  <2> QED BY <1>0, <2>1, <2>2 DEF ShownMeasured, LampsMeasured, LampMeasured,
          FrequenciesMeasured, FrequencyMeasured, HalfWritten
<1> QED BY <1>1, <1>2

LEMMA DInvKept ==
  ASSUME Next, IInv, DInv PROVE DInv'
<1> USE DEF DInv
<1>1. SensorsRead' /\ AllRead' /\ ReaderChosen' /\ Dark'
  BY NextKeepsSensors, NextKeepsAllRead, NextKeepsReader, NextKeepsDark
<1>2. ASSUME Fits' PROVE ShownMeasured'
  <2>1. CASE Loop
    <3>1. Fits
      BY <1>2, <2>1, LoopStep DEF Fits, sensors
    <3>2. Ready
      BY <2>1, <3>1, LoopStep DEF Ready
    <3> QED BY <2>1, <3>1, <3>2, LoopQueues, LoopKeepsLamps, LoopKeepsFrequencies,
            LoopKeepsHalf DEF ShownMeasured
  <2>2. CASE ~Loop
    BY <1>2, <2>2, ElsewhereKeeps DEF ShownMeasured
  <2> QED BY <2>1, <2>2
<1> QED BY <1>1, <1>2

-----------------------------------------------------------------------------
(* The invariant of what is shown holds.                                   *)

LEMMA InitDInv == Init => DInv
<1> SUFFICES ASSUME Init PROVE DInv
  OBVIOUS
<1> USE DEF Init, MachineInit, PanelInit, SensorsInit
<1>1. registers = <<>> /\ valid = {} /\ contexts = <<>> /\ job = NULL
      /\ phase = "start" /\ warmer = 0
  OBVIOUS
<1>2. \A r : r \notin DOMAIN registers
  BY <1>1
<1>3. SensorsRead
  <2>1. CoresBefore(1) = {}
    BY DEF CoresBefore
  <2>2. Len(machine.features) \in Nat
    BY FeaturesAre
  <2>3. IsFiniteSet(CoresBefore(1)) /\ Cardinality(CoresBefore(1)) = 0
    BY <2>1, FS_EmptySet
  <2>4. TableSize \in Nat \ {0}
    BY MachineAssumption
  <2> QED BY <2>1, <2>2, <2>3, <2>4 DEF SensorsRead, InTable
<1>4. AllRead
  BY <1>1 DEF AllRead, AfterFeatures, Loading
<1>5. ReaderChosen /\ Dark
  BY <1>1 DEF ReaderChosen, Dark
<1>6. Queued
  BY <1>1 DEF Queued
<1>7. LampsMeasured /\ FrequenciesMeasured /\ HalfWritten
  BY <1>1, <1>2 DEF LampsMeasured, LampMeasured, FrequenciesMeasured, HalfWritten
<1> QED BY <1>3, <1>4, <1>5, <1>6, <1>7 DEF DInv, ShownMeasured

LEMMA StutterDInv == ASSUME DInv, UNCHANGED vars PROVE DInv'
<1>1. /\ UNCHANGED <<machine, phase, faults, overrun, registers, valid, warmer>>
      /\ UNCHANGED <<coretemp, feature, GPU_get_temperature, contexts, job>>
  BY DEF vars, panel, sensors, gpu, loop
<1>2. SensorsRead' /\ AllRead' /\ ReaderChosen' /\ Dark'
  BY <1>1 DEF DInv, SensorsRead, CoresBefore, AllRead, ReaderChosen, Dark
<1>3. \A metric, id, held : IsMeasured(metric, id, held)' <=> IsMeasured(metric, id, held)
  BY <1>1 DEF IsMeasured, Regular, Measured, MeasuredTemperature, MeasuredFrequency,
     DirtyEntries, Threads, HottestCore
<1>4. SampledContexts' = SampledContexts /\ SampledJobs' = SampledJobs
  BY <1>3 DEF SampledContexts, SampledJobs, AllSampled, Sampled
<1>5. Queued => Queued'
  BY <1>1, <1>4 DEF Queued
<1>6. LampsMeasured => LampsMeasured'
  <2>1. \A lamp \in Lamps : LampMeasured(lamp[1], lamp[2])' <=> LampMeasured(lamp[1], lamp[2])
    BY <1>1, <1>3 DEF LampMeasured
  <2> QED BY <2>1 DEF LampsMeasured
<1>7. /\ FrequenciesMeasured => FrequenciesMeasured'
      /\ HalfWritten => HalfWritten'
  BY <1>1, <1>3 DEF FrequenciesMeasured, FrequencyMeasured, Halves, BeingWritten,
     HalfWritten
<1>8. Fits' <=> Fits
  BY <1>1 DEF Fits
<1> QED BY <1>2, <1>5, <1>6, <1>7, <1>8 DEF DInv, ShownMeasured

LEMMA NextKeepsDInv == IInv /\ DInv /\ [Next]_vars => DInv'
BY DInvKept, StutterDInv

LEMMA DInvariance == Spec => [](IInv /\ DInv)
<1>1. Init => DInv
  BY InitDInv
<1>2. IInv /\ DInv /\ [Next]_vars => DInv'
  BY NextKeepsDInv
<1> QED BY <1>1, <1>2, Invariance, PTL DEF Spec

LEMMA ShownLamp ==
  ASSUME NEW m \in Shapes, NEW i, m = "gpu" => i = 0
  PROVE  Shown(m, i) = IF Mask(m, i) \in valid THEN registers[Address(m, i)] ELSE NULL
BY DEF Shapes, Shown, Marked, Mask, StatusOf, Address

LEMMA Displays ==
  ASSUME NEW shown \in Displayed
  PROVE  \/ shown \in Lamps
         \/ shown[1] = "frequency" /\ shown[2] \in 0 .. 7
BY DEF Displayed, Lamps

LEMMA FrequencyShown ==
  ASSUME NEW core \in 0 .. 7, Kept(Lsb(core)), Kept(Msb(core))
  PROVE  Shown("frequency", core)' = Shown("frequency", core)
<1>1. (Lsb(core))' = Lsb(core) /\ (Msb(core))' = Msb(core)
  BY DEF Lsb, Msb, ATFP_REG_CPU0F_LSB, ATFP_REG_CPU0F_MSB
<1>2. Shown("frequency", core) =
        IF Msb(core) \in DOMAIN registers /\ registers[Msb(core)] >= 128
        THEN 256 * (registers[Msb(core)] - 128)
               + (IF Lsb(core) \in DOMAIN registers THEN registers[Lsb(core)] ELSE 0)
        ELSE NULL
  BY DEF Shown, ShownFrequency, Lsb, Msb
<1>3. Shown("frequency", core)' =
        IF Msb(core) \in DOMAIN registers' /\ registers'[Msb(core)] >= 128
        THEN 256 * (registers'[Msb(core)] - 128)
               + (IF Lsb(core) \in DOMAIN registers' THEN registers'[Lsb(core)] ELSE 0)
        ELSE NULL
  BY DEF Shown, ShownFrequency, Lsb, Msb
<1> QED BY <1>2, <1>3 DEF Kept

LEMMA LampShown ==
  ASSUME NEW m \in Shapes, NEW i, m = "gpu" => i = 0, LampMeasured(m, i),
         Kept(Address(m, i)), Marks(Mask(m, i))
  PROVE  Shown(m, i)' = Shown(m, i)
<1>1. (Mask(m, i))' = Mask(m, i) /\ (Address(m, i))' = Address(m, i)
  BY DEF Mask, StatusOf, Address
<1>2. Shown(m, i)' = IF Mask(m, i) \in valid' THEN registers'[Address(m, i)] ELSE NULL
  BY DEF Shapes, Shown, Marked, Mask, StatusOf, Address
<1>3. Shown(m, i) = IF Mask(m, i) \in valid THEN registers[Address(m, i)] ELSE NULL
  BY ShownLamp
<1> QED BY <1>2, <1>3 DEF Kept, Marks, LampMeasured

LEMMA ShownKept ==
  ASSUME LampsMeasured, NEW shown \in Displayed,
         shown \in Lamps =>
           Kept(Address(shown[1], shown[2])) /\ Marks(Mask(shown[1], shown[2])),
         shown[1] = "frequency" => Kept(Lsb(shown[2])) /\ Kept(Msb(shown[2]))
  PROVE  Shown(shown[1], shown[2])' = Shown(shown[1], shown[2])
<1>1. CASE shown \in Lamps
  <2>1. PICK m \in Shapes, i \in 0 .. 7 :
          m = shown[1] /\ i = shown[2] /\ (m = "gpu" => i = 0)
    BY <1>1, LampIn
  <2>2. LampMeasured(m, i)
    BY <1>1, <2>1 DEF LampsMeasured
  <2>3. Shown(m, i)' = Shown(m, i)
    BY <1>1, <2>1, <2>2, LampShown
  <2> QED BY <2>1, <2>3
<1>2. CASE shown[1] = "frequency" /\ shown[2] \in 0 .. 7
  <2>1. PICK core \in 0 .. 7 : core = shown[2]
    BY <1>2
  <2>2. Shown("frequency", core)' = Shown("frequency", core)
    BY <1>2, <2>1, FrequencyShown
  <2> QED BY <1>2, <2>1, <2>2
<1> QED BY <1>1, <1>2, Displays

-----------------------------------------------------------------------------
(* The results.                                                            *)

(***************************************************************************)
(* Nothing is read or written past the table of adapters, whatever the     *)
(* number of busses and the bunch by which the table grows                 *)
(* (i2c-tools.c:125,231,258), nor past the text of the driver names with   *)
(* one VGA device whose driver has a name of at most nine letters          *)
(* (vga-tools.c:158), nor past the sensors of cores whose ids have a place *)
(* in their table (sensors.c:145).                                         *)
(***************************************************************************)
THEOREM TablesAreLargeEnough == Spec => []TablesHold
<1>1. IInv => TablesHold
  <2>1. SUFFICES ASSUME IInv PROVE TablesHold
    OBVIOUS
  <2>2. "adapters" \notin overrun
    BY <2>1 DEF IInv, AdaptersHold
  <2>3. "names" \in overrun =>
          \E i, k \in VgaDevices : i # k \/ strlen[machine.pci[i].driver] > 9
    <3>1. ASSUME NEW i \in VgaDevices PROVE strlen[machine.pci[i].driver] \in Nat
      <4>1. machine.pci[i].driver \in Drivers
        BY <2>1, MachineIs DEF IInv, Typed
      <4> QED BY <4>1 DEF strlen, Drivers
    <3>2. "names" \in overrun =>
            \E i, k \in VgaDevices : i # k \/ ~(strlen[machine.pci[i].driver] <= 9)
      BY <2>1 DEF IInv, NamesFit, OneVga
    <3> QED BY <3>1, <3>2
  <2> QED BY <2>1, <2>2, <2>3 DEF TablesHold, IInv, SensorsHold
<1> QED BY <1>1, Invariance, PTL

(***************************************************************************)
(* The lookup gives the first listed bus on which the panel answers and    *)
(* gives up only without one; the daemon runs with exactly the panel's     *)
(* device open (panel.c:65,130).                                           *)
(***************************************************************************)
THEOREM LookupIsExact == Spec => []LookupExact
<1>1. IInv => LookupExact
  <2>1. SUFFICES ASSUME IInv PROVE LookupExact
    OBVIOUS
  <2>2. phase \in {"daemonize", "open panel", "running"} => BusFound
    BY <2>1 DEF IInv, LookupProgress, PanelOpen, Serving, AfterPanel
  <2>3. phase = "no panel" => Panels = {}
    BY <2>1 DEF IInv, LookupProgress
  <2>4. phase \in {"daemonize", "no panel"} => descriptors = 0
    BY <2>1 DEF IInv, PanelOpen, BeforePanel
  <2>5. phase = "running" => descriptors = 1 /\ initialized
    BY <2>1 DEF IInv, PanelOpen, Serving, AfterPanel
  <2>6. phase = "crashed" => faults > 0
    BY <2>1 DEF IInv, LookupProgress
  <2>7. phase \in {"daemonize", "open panel", "running"} /\ ~Given =>
          \E i \in Panels : /\ \A k \in Panels : i <= k
                            /\ i2c_bus = machine.busses[i].nr
    BY <2>2 DEF BusFound
  <2> QED BY <2>3, <2>4, <2>5, <2>6, <2>7, Zenon DEF LookupExact, Panels, Given
<1> QED BY <1>1, Invariance, PTL

(***************************************************************************)
(* The daemon reads the GPU through NVML exactly when it holds the library *)
(* and a session and has registered their return; no session outlives its  *)
(* library, and nothing is held after the exit (nvml-tools.c:95-142,       *)
(* vga-tools.c:233-240).  The readers of nouveau and of integrated GPUs    *)
(* are chosen only where they apply.                                       *)
(***************************************************************************)
THEOREM ReaderIsReady == Spec => []GpuReaderReady
<1>1. IInv => GpuReaderReady
  <2>1. SUFFICES ASSUME IInv PROVE GpuReaderReady
    OBVIOUS
  <2>2. phase = "running" =>
          /\ GPU_get_temperature = "nvidia" => nvml = Both /\ registered
          /\ GPU_get_temperature # "nvidia" => nvml = {} /\ ~registered
          /\ GPU_get_temperature = "nouveau" => nouveau /\ libsensors
          /\ GPU_get_temperature = "i915" =>
               \A i \in VgaDevices : machine.pci[i].driver \notin {"nvidia", "nouveau"}
    BY <2>1 DEF IInv, ReaderReady
  <2>3. phase = "exited" => nvml = {}
    BY <2>1 DEF IInv, ReaderReady, Loading
  <2>4. "session" \in nvml => "library" \in nvml
    BY <2>1 DEF IInv, ReaderReady, Loading, Both
  <2> QED BY <2>2, <2>3, <2>4 DEF GpuReaderReady, Both
<1> QED BY <1>1, Invariance, PTL

(***************************************************************************)
(* What the panel shows of a core, the GPU or a disk is nothing or what    *)
(* the machine measures of it (domain-logic.c:30-197), for every table and *)
(* number of failures: the values that the sensors gave are the ones whose *)
(* bytes the registers keep, under the number and at the address of what   *)
(* was measured.  Nothing is said where Regular fails: of cores without a  *)
(* sensor or thread among others, of sensors past the table, of entries of *)
(* the table of frequencies that malloc left dirty.                        *)
(***************************************************************************)
THEOREM PanelShowsWhatIsMeasured == Spec => []ShownIsMeasured
<1>1. IInv /\ DInv => ShownIsMeasured
  <2>1. SUFFICES ASSUME IInv, DInv, NEW shown \in Displayed
                 PROVE  LET metric == shown[1]
                            id     == shown[2]
                        IN  \/ ~Regular(metric, id)
                            \/ /\ metric = "frequency"
                               /\ \/ faults > 0 \/ phase # "running"
                                  \/ BeingWritten(metric, id)
                            \/ Shown(metric, id) \in {NULL} \cup
                                 {Measured(metric, id, warm) : warm \in 0 .. warmer}
    BY DEF ShownIsMeasured
  <2>0. ASSUME Regular(shown[1], shown[2]) PROVE ShownMeasured
    BY <2>0, <2>1 DEF DInv, Regular, Fits
  <2>2. CASE shown \in Lamps
    <3>1. PICK m \in Shapes, i \in 0 .. 7 :
            m = shown[1] /\ i = shown[2] /\ (m = "gpu" => i = 0)
      BY <2>2, LampIn
    <3>2. CASE Mask(m, i) \notin valid
      BY <3>1, <3>2, ShownLamp
    <3>3. CASE Mask(m, i) \in valid /\ Regular(m, i)
      <4>1. IsMeasured(m, i, registers[Address(m, i)])
        BY <2>0, <2>2, <3>1, <3>3 DEF ShownMeasured, LampsMeasured, LampMeasured
      <4>2. Shown(m, i) \in {Measured(m, i, warm) : warm \in 0 .. warmer}
        BY <3>1, <3>3, <4>1, ShownLamp DEF IsMeasured
      <4> QED BY <3>1, <4>2
    <3> QED BY <3>1, <3>2, <3>3
  <2>3. CASE shown[1] = "frequency" /\ shown[2] \in 0 .. 7
    <3>1. PICK core \in 0 .. 7 : core = shown[2]
      BY <2>3
    <3>2. SUFFICES ASSUME Regular("frequency", core), faults = 0, phase = "running",
                          ~BeingWritten("frequency", core)
                   PROVE  Shown("frequency", core) \in {NULL} \cup
                            {Measured("frequency", core, warm) : warm \in 0 .. warmer}
      <4>1. faults \in Nat
        BY <2>1 DEF IInv, Typed
      <4> QED BY <2>3, <3>1, <4>1
    <3>3. FrequencyMeasured(core)
      BY <2>0, <2>3, <3>1, <3>2 DEF ShownMeasured, FrequenciesMeasured
    <3>4. CASE Msb(core) \notin DOMAIN registers
      BY <3>4 DEF Shown, ShownFrequency, Msb
    <3>5. CASE /\ Msb(core) \in DOMAIN registers /\ Lsb(core) \in DOMAIN registers
               /\ registers[Msb(core)] >= 128
               /\ IsMeasured("frequency", core, Halves(core))
      <4>1. Shown("frequency", core) = Halves(core)
        BY <3>5 DEF Shown, ShownFrequency, Halves, Msb, Lsb
      <4>2. \E warm \in 0 .. warmer : Halves(core) = Measured("frequency", core, warm)
        BY <3>2, <3>5 DEF IsMeasured
      <4> QED BY <4>1, <4>2
    <3> QED BY <3>3, <3>4, <3>5 DEF FrequencyMeasured
  <2> QED BY <2>1, <2>2, <2>3, Displays
<1> QED BY <1>1, DInvariance, PTL

(***************************************************************************)
(* A write to the panel changes what is shown of the item it is meant for  *)
(* and of no other, for the registers of all items, status registers       *)
(* included, are apart (panel.c:187-244, registers.h:26-87), as long as no *)
(* more sensors are counted than the table holds.                          *)
(***************************************************************************)
THEOREM OneItemIsWritten == Spec => OneItemAtATime
<1> DEFINE OneItem ==
      phase = "running" /\ coretemp.num <= TableSize =>
        \A shown \in Displayed :
          \/ BeingWritten(shown[1], shown[2])
          \/ Shown(shown[1], shown[2])' = Shown(shown[1], shown[2])
<1>1. ASSUME registers' = registers, valid' = valid PROVE OneItem
  <2>1. ASSUME NEW metric, NEW id PROVE Shown(metric, id)' = Shown(metric, id)
    BY <1>1 DEF Shown, Marked, ShownFrequency
  <2> QED BY <2>1
<1>2. ASSUME IInv, DInv, Next PROVE OneItem
  <2>1. SUFFICES ASSUME phase = "running", coretemp.num <= TableSize,
                        NEW shown \in Displayed,
                        ~BeingWritten(shown[1], shown[2])
                 PROVE  Shown(shown[1], shown[2])' = Shown(shown[1], shown[2])
    OBVIOUS
  <2>0. ShownMeasured
    BY <1>2, <2>1 DEF DInv, Fits
  <2>2. CASE ~Loop
    <3>1. registers' = registers /\ valid' = valid
      BY <1>2, <2>1, <2>2, Elsewhere
    <3> QED BY <1>1, <2>1, <3>1
  <2>3. CASE Loop /\ ~SetValue
    <3>1. /\ shown \in Lamps =>
               Kept(Address(shown[1], shown[2])) /\ Marks(Mask(shown[1], shown[2]))
      <4>1. ASSUME shown \in Lamps
            PROVE  Address(shown[1], shown[2]) \notin Registers
        BY <4>1, LampIn, LampsApart
      <4> QED BY <2>3, <4>1, OthersKeep DEF Marks
    <3>2. shown[1] = "frequency" => Kept(Lsb(shown[2])) /\ Kept(Msb(shown[2]))
      <4>1. ASSUME shown[1] = "frequency" PROVE shown[2] \in 0 .. 7
        BY <4>1 DEF Displayed
      <4>2. shown[1] = "frequency" => /\ Lsb(shown[2]) \notin Registers
                                      /\ Msb(shown[2]) \notin Registers
        BY <4>1, FrequenciesApart
      <4> QED BY <2>3, <4>2, OthersKeep
    <3> QED BY <2>0, <3>1, <3>2, ShownKept DEF ShownMeasured
  <2>4. CASE SetValue
    <3>1. PICK m \in Metric, item \in [id : Nat, value : Int \cup {NULL}] :
            /\ m = job.metric /\ item = Head(job.items)
            /\ Sampled(m, item) /\ Writes(m, item) # <<>>
            /\ \/ UNCHANGED <<registers, valid>>
               \/ Wrote(m, item)
      BY <2>0, <2>4, SetValueDoes DEF ShownMeasured
    <3>2. CASE UNCHANGED <<registers, valid>>
      BY <1>1, <2>1, <3>2
    <3>3. CASE Wrote(m, item)
      <4>1. shown # <<m, item.id>>
        <5>1. ASSUME shown = <<m, item.id>> PROVE BeingWritten(shown[1], shown[2])
          BY <2>4, <3>1, <5>1 DEF BeingWritten, SetValue
        <5> QED BY <2>1, <5>1
      <4>2. shown = <<shown[1], shown[2]>>
        BY DEF Displayed
      <4>3. ASSUME shown[1] = "frequency" PROVE shown[2] \in 0 .. 7
        BY <4>3 DEF Displayed
      <4>4. shown[1] = "frequency" => Kept(Lsb(shown[2])) /\ Kept(Msb(shown[2]))
        BY <3>1, <3>3, <4>1, <4>2, <4>3, WroteKeeps
      <4> QED BY <2>0, <3>1, <3>3, <4>1, <4>4, WroteKeeps, ShownKept DEF ShownMeasured
    <3> QED BY <3>1, <3>2, <3>3
  <2> QED BY <2>2, <2>3, <2>4
<1>3. IInv /\ DInv /\ [Next]_vars => [OneItem]_vars
  BY <1>2
<1> QED BY <1>3, DInvariance, PTL DEF OneItemAtATime, Spec

=============================================================================
