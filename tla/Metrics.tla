------------------------------ MODULE Metrics ------------------------------
(***************************************************************************)
(* The service daemon on a machine: main() up to the loop that waits for   *)
(* SIGTERM, then the metrics of domain-logic.c from the machine's sensors  *)
(* to the panel's registers, write by write, and the end of the process.   *)
(*                                                                         *)
(* When the metrics are polled, and what pools and watchdog do with the    *)
(* jobs, is left to other modules: here an enabled metric that is not      *)
(* being processed is sampled at any time, the contexts reach the frontend *)
(* in the order in which they were sampled, and one job at a time writes.  *)
(***************************************************************************)
EXTENDS Panel, VgaTools, CpuFreq

VARIABLES
  warmer,         \* 1 when temperatures and frequencies have changed
  in_processing,  \* the metrics that are sampled or written
  contexts,       \* [metric, items], contexts on their way to the frontend
  job             \* the context the frontend writes, and which half of a value

loop == <<warmer, in_processing, contexts, job>>
vars == <<machine, phase, faults, overrun, i2c, panel, sensors, nvml, gpu, loop>>

Init ==
  /\ MachineInit
  /\ I2cInit /\ PanelInit /\ SensorsInit /\ NvmlInit /\ VgaInit
  /\ warmer = 0
  /\ in_processing = {}
  /\ contexts = <<>>
  /\ job = NULL

-----------------------------------------------------------------------------
(* main                                                                    *)

ProcessOptions ==
  /\ phase = "start"
  /\ phase' = IF "info" \in machine.options THEN "names"
              ELSE IF "i2c-bus" \in machine.options THEN "daemonize" ELSE "gather"
  /\ i2c_bus' = IF "i2c-bus" \in machine.options THEN machine.bus ELSE NULL
  /\ UNCHANGED <<machine, faults, overrun, adapters, busIndex, descriptors,
                 panel, sensors, nvml, gpu, loop>>

(* show_info_and_exit: drivers and sensors are shown by now, then the disks. *)
ShowDisks ==
  /\ Goto("info disks", "exited")
  /\ UNCHANGED <<machine, faults, overrun, i2c, panel, sensors, nvml, gpu, loop>>

daemonize ==
  /\ \/ ~machine.locked /\ Goto("daemonize", "open panel") /\ UNCHANGED faults
     \/ machine.locked /\ Goto("daemonize", "exited") /\ UNCHANGED faults
     \/ Goto("daemonize", "exited") /\ Fault
  /\ UNCHANGED <<machine, overrun, i2c, panel, sensors, nvml, gpu, loop>>

(* SIGTERM: whatever the pools have not done is dropped with them. *)
cleanup ==
  /\ Goto("running", "exit handlers")
  /\ panel_close
  /\ libsensors' = FALSE
  /\ job' = NULL
  /\ contexts' = <<>>
  /\ UNCHANGED <<machine, faults, overrun, adapters, busIndex, i2c_bus, registers,
                 valid, stored, coretemp, feature, nouveau, nvml, gpu, warmer, in_processing>>

-----------------------------------------------------------------------------
(* Backend: sampling                                                       *)

CoreTemp(number, warm) == 40 + number + 5 * warm
GpuTemp(warm) == 60 + warm
MilliKelvin(id) == 303150 + 1000 * id + 999
Threads(warm) ==
  [i \in DOMAIN machine.threads |->
     [machine.threads[i] EXCEPT !.mhz = @ + 3000 * warm]]

(***************************************************************************)
(* The panel has registers for eight cores, a byte for each temperature    *)
(* and 15 bits for each frequency, and no core stands still.  A core has   *)
(* one sensor.                                                             *)
(***************************************************************************)
ASSUME PanelAssumption ==
  /\ TableSize <= 8
  /\ \A m \in Machines :
       /\ \A i, k \in DOMAIN m.features :
            m.features[i].core = m.features[k].core /\ m.features[i].core # NoCore
              => i = k
       /\ \A i \in DOMAIN m.features : CoreTemp(i - 1, 1) < 256
       /\ \A i \in DOMAIN m.threads : m.threads[i].mhz >= 5 /\ m.threads[i].mhz < 300000

Item(id, value) == [id |-> id, value |-> value]
ByIndex(values) == [i \in DOMAIN values |-> Item(i - 1, values[i])]

HandOver(metric, items) ==
  /\ phase = "running"
  /\ metric \in machine.metrics \ in_processing
  /\ in_processing' = in_processing \cup {metric}
  /\ contexts' = Append(contexts, [metric |-> metric, items |-> items])
  /\ UNCHANGED <<machine, phase, overrun, i2c, panel, sensors, nvml, gpu,
                 warmer, job>>

CoreTemps == [i \in DOMAIN CoreReadings |-> CoreTemp(CoreReadings[i], warmer)]

(* A sensor that cannot be read ends the sample. *)
get_temperature ==
  \/ HandOver("temperature", ByIndex(CoreTemps)) /\ UNCHANGED faults
  \/ /\ Fault
     /\ \E n \in 1 .. Len(CoreTemps) :
          HandOver("temperature", ByIndex(SubSeq(CoreTemps, 1, n - 1)))

get_frequency ==
  /\ HandOver("frequency",
       ByIndex(cpu_freq_get_list(Threads(warmer), machine.cpuinfo, machine.memory)))
  /\ UNCHANGED faults

GpuReading ==
  CASE GPU_get_temperature = "nvidia" -> GpuTemp(warmer)
    [] GPU_get_temperature = "nouveau" -> sensors_nouveau_read(GpuTemp(warmer))
    [] GPU_get_temperature = "i915" -> i915_gpu_get_temperature(CoreTemps)
    [] GPU_get_temperature = "undefined" -> NULL

(* Without a reading the context is NULL and nothing will be written. *)
get_gpu_temperature ==
  \/ /\ HandOver("gpu", IF GpuReading = NULL THEN <<>> ELSE <<Item(0, GpuReading)>>)
     /\ UNCHANGED faults
  \/ HandOver("gpu", <<>>) /\ Fault

(* Of a disk above zero degrees. *)
to_celsius(millikelvin) == (millikelvin - 273150) \div 1000

(* The disks in the order in which they are listed; NULL without a temperature. *)
DiskInfo ==
  [i \in DOMAIN machine.disks |->
     IF machine.disks[i] THEN to_celsius(MilliKelvin(i - 1)) ELSE NULL]

(* A disk that cannot be opened or read does not get into the list. *)
get_hdd_temperature ==
  \/ HandOver("disk", ByIndex(DiskInfo)) /\ UNCHANGED faults
  \/ /\ Fault
     /\ \E i \in DOMAIN DiskInfo : HandOver("disk", ByIndex(RemoveAt(DiskInfo, i)))

-----------------------------------------------------------------------------
(* Frontend: writing                                                       *)

Writes(metric, item) ==
  CASE metric = "temperature" -> panel_set_temperature(item.id, item.value)
    [] metric = "frequency" -> panel_set_frequency(item.id, item.value)
    [] metric = "gpu" -> panel_set_gpu_temp(item.value)
    [] metric = "disk" ->
         IF item.value = NULL THEN <<>> ELSE panel_set_hdd_temp(item.id, item.value)

TakeContext ==
  /\ phase = "running"
  /\ job = NULL
  /\ contexts # <<>>
  /\ job' = [metric |-> Head(contexts).metric, half |-> 1,
             items |-> Head(contexts).items]
  /\ contexts' = Tail(contexts)
  /\ UNCHANGED <<machine, phase, faults, overrun, i2c, panel, sensors, nvml, gpu,
                 warmer, in_processing>>

(* What a job is; job # NULL tells one from none. *)
ASSUME JobAssumption ==
  NULL \notin [metric : {"temperature", "frequency", "gpu", "disk"}, half : {1, 2},
               items : Seq([id : Nat, value : Int \cup {NULL}])]

BeingWritten(metric, id) ==
  job # NULL /\ job.metric = metric /\ job.items # <<>> /\ Head(job.items).id = id

NextItem == [metric |-> job.metric, half |-> 1, items |-> Tail(job.items)]

(* A disk without a temperature, or past the last register, writes nothing. *)
SkipValue ==
  /\ phase = "running"
  /\ job # NULL
  /\ job.items # <<>>
  /\ Writes(job.metric, Head(job.items)) = <<>>
  /\ job' = NextItem
  /\ UNCHANGED <<machine, phase, faults, overrun, i2c, panel, sensors, nvml, gpu,
                 warmer, in_processing, contexts>>

(* set_*: a failed write ends the job, but for disks only the disk's turn. *)
SetValue ==
  /\ phase = "running"
  /\ job # NULL
  /\ job.items # <<>>
  /\ Writes(job.metric, Head(job.items)) # <<>>
  /\ \/ /\ panel_write_byte(Writes(job.metric, Head(job.items))[job.half])
        /\ job' = IF job.half = 1 THEN [job EXCEPT !.half = 2] ELSE NextItem
        /\ UNCHANGED faults
     \/ /\ Fault
        /\ job' = IF job.metric = "disk" THEN NextItem
                  ELSE [job EXCEPT !.half = 1, !.items = <<>>]
        /\ UNCHANGED <<registers, valid>>
  /\ UNCHANGED <<machine, phase, overrun, i2c, initialized, stored, sensors, nvml,
                 gpu, warmer, in_processing, contexts>>

EndJob ==
  /\ phase = "running"
  /\ job # NULL
  /\ job.items = <<>>
  /\ in_processing' = in_processing \ {job.metric}
  /\ job' = NULL
  /\ UNCHANGED <<machine, phase, faults, overrun, i2c, panel, sensors, nvml, gpu,
                 warmer, contexts>>

(* The postcode is tried again until it has been stored. *)
really_store_daemon_postcode ==
  /\ phase = "running"
  /\ "postcode" \in machine.metrics
  /\ job = NULL
  /\ ~stored
  /\ panel_store_daemon_postcode
  /\ UNCHANGED <<machine, phase, overrun, i2c, initialized, valid, sensors, nvml,
                 gpu, loop>>

(* Temperatures and frequencies change by themselves. *)
Warmer ==
  /\ phase = "running"
  /\ warmer = 0
  /\ warmer' = 1
  /\ UNCHANGED <<machine, phase, faults, overrun, i2c, panel, sensors, nvml, gpu,
                 in_processing, contexts, job>>

Loop ==
  \/ get_temperature \/ get_frequency \/ get_gpu_temperature \/ get_hdd_temperature
  \/ TakeContext \/ SkipValue \/ SetValue \/ EndJob \/ really_store_daemon_postcode \/ Warmer

Next ==
  \/ ProcessOptions \/ ShowDisks \/ daemonize \/ cleanup
  \/ I2cStep /\ UNCHANGED <<panel, sensors, nvml, gpu, loop>>
  \/ panel_open_i2c /\ UNCHANGED <<sensors, nvml, gpu, loop>>
  \/ panel_reset /\ UNCHANGED <<sensors, nvml, gpu, loop>>
  \/ VgaStep /\ UNCHANGED <<i2c, panel, loop>>
  \/ Loop

Spec == Init /\ [][Next]_vars

-----------------------------------------------------------------------------
(* Properties                                                              *)

(***************************************************************************)
(* Nothing is read or written past the end of a table: neither the bus     *)
(* table, whose loops look for an entry that is not used                   *)
(* (i2c-tools.c:125,231,258), nor the driver names (vga-tools.c:158), nor  *)
(* the sensors (sensors.c:145).  Excused are the cases in which the code   *)
(* does so: the space that is left is taken for two more than it is, which *)
(* goes well with one VGA device whose driver has a name of nine letters,  *)
(* and a core id is not compared with the table.                           *)
(***************************************************************************)
TablesHold ==
  /\ "adapters" \notin overrun
  /\ "names" \in overrun =>
       \E i, k \in VgaDevices : i # k \/ strlen[machine.pci[i].driver] > 9
  /\ "coretemp" \in overrun =>
       \E k \in DOMAIN machine.features : machine.features[k].core \in
         Nat \ 0 .. TableSize - 1

ListedBusses ==
  {i \in DOMAIN machine.busses :
     \/ machine.busSource = "proc"
     \/ machine.busSource = "sysfs" /\ machine.busses[i].named}

(***************************************************************************)
(* The lookup (panel.c:130) finds the first of the listed busses on which  *)
(* the panel answers, past busses that are absent, busy or somebody        *)
(* else's, and gives up only when there is none; it leaves no device open, *)
(* so that the daemon runs with exactly the panel's (panel.c:65).  Only a  *)
(* failed allocation ends it otherwise, in free_adapters(NULL).            *)
(***************************************************************************)
LookupExact ==
  LET given == "i2c-bus" \in machine.options
      panels == {i \in ListedBusses : machine.busses[i].answer = "panel"}
  IN  /\ phase \in {"daemonize", "open panel", "running"} /\ ~given =>
           \E i \in panels : /\ \A k \in panels : i <= k
                             /\ i2c_bus = machine.busses[i].nr
      /\ phase = "no panel" => panels = {}
      /\ phase \in {"daemonize", "no panel"} => descriptors = 0
      /\ phase = "running" => descriptors = 1 /\ initialized
      /\ phase = "crashed" => faults > 0

(***************************************************************************)
(* While the daemon runs, the GPU is read through NVML exactly when its    *)
(* library is loaded, a session is open and nvml_cleanup is registered for *)
(* the exit; otherwise, and after the exit, nothing of it is held, and a   *)
(* session never outlives its library (nvml-tools.c:95-142,                *)
(* vga-tools.c:233-240).  The nouveau reader is chosen only with its       *)
(* sensor detected, which takes an initialized lm-sensors (sensors.c:186). *)
(***************************************************************************)
GpuReaderReady ==
  /\ phase = "running" =>
       IF GPU_get_temperature = "nvidia"
       THEN nvml = {"library", "session"} /\ registered
       ELSE nvml = {} /\ ~registered
  /\ phase = "exited" => nvml = {}
  /\ "session" \in nvml => "library" \in nvml
  /\ phase = "running" /\ GPU_get_temperature = "nouveau" => nouveau /\ libsensors
  /\ phase = "running" /\ GPU_get_temperature = "i915" =>
       \A i \in VgaDevices : machine.pci[i].driver \notin {"nvidia", "nouveau"}

Cores(entries) == {entries[i].core : i \in DOMAIN entries} \ {NoCore}
FirstOf(entries, core) ==
  CHOOSE i \in DOMAIN entries :
    entries[i].core = core /\ \A j \in 1 .. i - 1 : entries[j].core # core

Consecutive(ids) == ids # {} /\ ids = 0 .. Cardinality(ids) - 1

HottestCore(warm) ==
  Max({CoreTemp(FirstOf(machine.features, core) - 1, warm) :
         core \in Cores(machine.features)})

(* The first thread of a core sets its frequency (cpu-freq.c:34). *)
MeasuredFrequency(core, warm) ==
  IF core \in Cores(machine.threads)
  THEN roundf(Threads(warm)[FirstOf(machine.threads, core)].mhz) ELSE NULL

MeasuredTemperature(core, warm) ==
  IF core \in Cores(machine.features)
  THEN CoreTemp(FirstOf(machine.features, core) - 1, warm) ELSE NULL

(* What is to be shown of a metric, NULL for nothing. *)
Measured(metric, id, warm) ==
  CASE metric = "temperature" -> MeasuredTemperature(id, warm)
    [] metric = "frequency" -> MeasuredFrequency(id, warm)
    [] metric = "gpu" ->
         IF GPU_get_temperature = "i915" THEN HottestCore(warm) ELSE GpuTemp(warm)
    [] metric = "disk" ->
         IF id + 1 \in DOMAIN machine.disks /\ machine.disks[id + 1]
         THEN 30 + id ELSE NULL

(* Entries of the table of frequencies that malloc has returned with       *)
(* something in them and memset has not cleared.                           *)
DirtyEntries ==
  {core \in DOMAIN machine.memory :
     core >= TableSize \div IntSize /\ machine.memory[core] # 0}

(***************************************************************************)
(* Where the panel is to show what is measured: the sensors are as many as *)
(* their table holds, and                                                  *)
(*   - a core has a sensor, or the ids of those that have one leave no gap *)
(*     before it; none is past the table;                                  *)
(*   - for the frequency the same of threads in a /proc/cpuinfo that can   *)
(*     be opened, and the core's entry was zero or cleared before it was   *)
(*     parsed into (FirstThreadSetsFrequency says what is claimed of it);  *)
(*   - an integrated GPU is measured on cores without a gap;               *)
(*   - no disk was missing from a sample.                                  *)
(***************************************************************************)
Regular(metric, id) ==
  /\ coretemp.num <= TableSize
  /\ CASE metric = "temperature" ->
            /\ "coretemp" \notin overrun
            /\ id \in Cores(machine.features) \/ Consecutive(Cores(machine.features))
       [] metric = "frequency" ->
            /\ machine.cpuinfo
            /\ id \notin DirtyEntries
            /\ id \in Cores(machine.threads) \/ Consecutive(Cores(machine.threads))
       [] metric = "gpu" ->
            GPU_get_temperature = "i915" =>
              "coretemp" \notin overrun /\ Consecutive(Cores(machine.features))
       [] metric = "disk" -> faults = 0

Displayed == ({"temperature", "frequency", "disk"} \X (0 .. 7)) \cup {<<"gpu", 0>>}

(***************************************************************************)
(* What the panel shows of a core, the GPU or a disk is nothing or what    *)
(* the machine measures of it (domain-logic.c:30-197): the temperature of  *)
(* the core's own sensor, in whatever order lm-sensors lists them, the     *)
(* frequency of its first thread, for an integrated GPU the hottest core;  *)
(* and nothing of a core past the last one.  Regular names the machines    *)
(* and samples for which the code does not do so.  Excluded is for a       *)
(* frequency, too, the time between its two writes, a second write that    *)
(* failed and one cut off by SIGTERM.                                      *)
(***************************************************************************)
ShownIsMeasured ==
  \A shown \in Displayed :
    LET metric == shown[1]
        id     == shown[2]
    IN  \/ ~Regular(metric, id)
        \/ /\ metric = "frequency"
           /\ faults > 0 \/ phase # "running" \/ BeingWritten(metric, id)
        \/ Shown(metric, id) \in
              {NULL} \cup {Measured(metric, id, warm) : warm \in 0 .. warmer}

(***************************************************************************)
(* "On a multithreaded core, the 1-st discovered thread sets the core      *)
(* frequency" (cpu-freq.c:34): a core that has a thread in /proc/cpuinfo   *)
(* is shown with nothing or with the frequency of the first.  The code     *)
(* leaves what malloc returned in the entries of the table that its memset *)
(* does not reach, and shows that instead where it is not zero.            *)
(***************************************************************************)
FirstThreadSetsFrequency ==
  \A core \in Cores(machine.threads) \cap 0 .. TableSize - 1 :
    \/ ~machine.cpuinfo
    \/ faults > 0 \/ phase # "running" \/ BeingWritten("frequency", core)
    \/ Shown("frequency", core) \in
          {NULL} \cup {MeasuredFrequency(core, warm) : warm \in 0 .. warmer}

(***************************************************************************)
(* A write to the panel changes what is shown of the core, GPU or disk it  *)
(* is meant for and of no other, although all of them share one address    *)
(* space and three status registers (panel.c:187-244, registers.h:26-87).  *)
(* Only the reset of a starting daemon clears the whole display.  Excluded *)
(* are machines with more sensors than cores in the table, as the code     *)
(* counts them: the ninth temperature is written to the GPU's register.    *)
(***************************************************************************)
OneItemAtATime ==
  [][phase = "running" /\ coretemp.num <= TableSize =>
       \A shown \in Displayed :
         \/ BeingWritten(shown[1], shown[2])
         \/ Shown(shown[1], shown[2])' = Shown(shown[1], shown[2])]_vars

=============================================================================
