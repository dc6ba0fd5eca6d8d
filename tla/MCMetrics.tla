----------------------------- MODULE MCMetrics -----------------------------
(***************************************************************************)
(* Metrics for TLC: a machine with two cores of two threads, an integrated *)
(* GPU and three disks, and the machines that differ from it in one part.  *)
(***************************************************************************)
EXTENDS Metrics

Core(core) == [core |-> core, input |-> TRUE]
Package == [core |-> NoCore, input |-> TRUE]
Thread(core, mhz) == [core |-> core, mhz |-> mhz]
Bus(nr, answer) == [nr |-> nr, named |-> TRUE, answer |-> answer]
Vga(driver) == [vga |-> TRUE, driver |-> driver]
Memory(dirty) == [core \in 0 .. TableSize - 1 |-> IF core \in dirty THEN 99 ELSE 0]

Base ==
  [busSource |-> "sysfs", busses |-> <<Bus(3, "panel")>>,
   pci |-> <<[vga |-> FALSE, driver |-> "nouveau"], Vga("i915")>>,
   nvml |-> "ok", chips |-> {"coretemp"},
   features |-> <<Package, Core(0), Core(1)>>, past |-> 0,
   threads |-> <<Thread(0, 8004), Thread(1, 8006), Thread(0, 36000),
                 Thread(1, 36000)>>,
   disks |-> <<TRUE, FALSE, TRUE>>,
   cpuinfo |-> TRUE, memory |-> Memory({}),
   options |-> {}, bus |-> 3, metrics |-> {}, locked |-> FALSE]

BusLists == {<<>>} \cup
  {<<Bus(1, "none"), Bus(4, "busy"), Bus(2, "panel"), Bus(3, "other"),
     Bus(5, "panel")>>,
   <<Bus(2, "other"), [nr |-> 7, named |-> FALSE, answer |-> "panel"],
     Bus(3, "panel")>>,
   <<Bus(1, "other"), Bus(4, "none"), Bus(2, "busy"), Bus(3, "other")>>}

WithBusses ==
  {[Base EXCEPT !.busses = busses, !.busSource = source] :
     busses \in BusLists, source \in {"proc", "sysfs", "none"}}

WithOptions ==
  {[Base EXCEPT !.options = options, !.bus = bus, !.locked = locked] :
     options \in {{"info"}, {"i2c-bus"}}, bus \in {3, 4}, locked \in BOOLEAN}

NvmlCalls == {"dlopen", "dlsym", "nvmlInit", "nvmlDeviceGetCount",
              "nvmlDeviceGetHandleByIndex", "ok"}

WithGpu ==
  {[Base EXCEPT !.pci = pci, !.nvml = nvmlFails, !.metrics = {"gpu"}] :
     pci \in {<<Vga("nvidia")>>, <<Vga("nvidia"), Vga("i915")>>,
              <<Vga("i915"), Vga("nvidia"), Vga("nouveau")>>},
     nvmlFails \in NvmlCalls}
  \cup
  {[Base EXCEPT !.pci = <<Vga("i915"), Vga("nouveau")>>,
      !.chips = chips, !.metrics = {"gpu"}] :
     chips \in {{"coretemp"}, {"coretemp", "nouveau"},
                {"coretemp", "nouveau", "nouveau, no input"}, {"nouveau"}}}
  \cup
  {[Base EXCEPT !.pci = pci, !.metrics = {"gpu"}] :
     pci \in {<<Vga(NULL)>>, <<Vga("virtio-pci")>>, <<Vga("i915"), Vga("virtio-pci")>>}}

WithFeatures ==
  {[Base EXCEPT !.features = features, !.metrics = {"temperature", "gpu"}] :
     features \in {<<>>, <<Package>>, <<Core(1), Core(0)>>, <<Core(0), Core(2)>>,
                   <<Package, Core(0), Core(TableSize)>>,
                   <<Core(0), [core |-> 1, input |-> FALSE]>>,
                   [i \in 1 .. TableSize + 2 |->
                      IF i = 1 THEN Package ELSE Core(i - 2)]}}

(* The table's entry of the third of four cores has something in it. *)
DirtyMachine ==
  {[Base EXCEPT !.memory = Memory({2}), !.metrics = {"frequency"},
      !.threads = [i \in 1 .. 4 |-> Thread(i - 1, 8000)]]}

WithThreads ==
  {[Base EXCEPT !.threads = threads, !.metrics = {"frequency"}] :
     threads \in {<<Thread(2, 8000), Thread(1, 8000), Thread(0, 20000)>>,
                  <<Thread(0, 8000), Thread(NoCore, 9000), Thread(2, 10000)>>,
                  <<Thread(0, 8000), Thread(TableSize, 9000)>>}}
  \cup
  {[Base EXCEPT !.cpuinfo = FALSE, !.memory = Memory({1, 3}),
      !.metrics = {"frequency"}]}
  \cup DirtyMachine

Pairs == {[Base EXCEPT !.metrics = metrics] : metrics \in
            {{"temperature", "frequency"}, {"gpu", "temperature"},
             {"disk", "temperature"}, {"gpu", "frequency", "disk"}}}

ManyDisks == {[Base EXCEPT !.disks = [i \in 1 .. 9 |-> i % 4 # 0],
                 !.metrics = {"disk", "postcode"}]}

AllMachines == WithBusses \cup WithOptions \cup WithGpu \cup WithFeatures
                 \cup WithThreads \cup Pairs \cup ManyDisks

=============================================================================
