# A specification of the AirTop front panel and GPU thermal daemons

TLA+ modules for the two daemons of this repository, the TLC configurations
that check them on small instances, and TLAPS proofs of what holds for every
value of their constants. Paths such as `thread-pool.c:87` are under `src/`.

## 1. The system

**airtop-fpsvc** shows hardware metrics on a front panel. **gpu-thermald** holds
the GPU's temperature down by limiting its power. They share code for options
(twice, with differences) and the loader of NVML, and nothing at run time.

```
   SIGALRM                      frontend pool (1 thread)         backend pool (8 threads)
  main thread --add(poll)-->  main_thread  --add(get_*)------->  get_*  (sensors, disks, GPU)
   sigwait                    set_*  <--------add(set_*)-------    |
     ^                          | panel registers (I2C)         backend_delay
     |                          v
     +--- SIGTERM --- watchdog runner <-- a deadline for every job of both pools
```

| component | state | operations | hard part | what makes it correct |
|---|---|---|---|---|
| service loop, `main.c`, `domain-logic.c` | in-processing bitmap, alarm, the jobs under way | poll, dispatch, sample, report, postcode retry, stop | five kinds of threads and handlers pass one token per metric around; failing reads and writes; hanging sensors | a bit per metric exactly while a job of it exists; no add ever blocks; every metric is refreshed for ever; a hang stops the daemon |
| thread pool, `thread-pool.c` | queue, mutex, two condition variables | add, take, run, cancel, destroy | lost wake-ups, spurious ones, cancelled lock holders | each job is called once, in order; nobody sleeps on |
| job queue, `queue.c` | ring with head, tail and count | push, pop, empty, full | wrap-around | first in, first out |
| watchdog, `watchdog.c` | ordered list of deadlines, free list, sleeping runner | submit, clear, expire | the runner decides on a copy; a signal just before its sleep | a hung job is caught; no job in time is |
| ordered list, `dlist.c` | next and prev pointers, head, tail, count | push back, push ordered, pop, remove | two chains over nodes with old contents | both chains are one sequence |
| disk temperatures, `hdd-info.c` | two unlocked lists | scan, recycle | unlocked sharing between threads | never used by two threads; never stale |
| core frequencies, `cpu-freq.c` | the parser's state, the table of frequencies | parse /proc/cpuinfo | core ids against table entries, entries malloc has filled | a core shows the frequency of its first thread |
| sensors, `sensors.c` | lm-sensors, table of subfeatures and their count | init, read next core, show | stored by core id, read by counting | every core shows its own sensor; no entry past the table |
| panel, `panel.c`, `registers.h` | I2C device, registers | look up, open, reset, write value and validity, close | two writes per value; one address space | a value shown is a value measured; a write changes one item |
| GPU selection, `vga-tools.c` | the list of drivers, the chosen reader | scan PCI, choose, read | growing buffer, fall-backs | first driver of the priority list; a reader that can read |
| NVML loader, `nvml-tools.c` | library handle, session | load, open, unwind, clean up | a failure at any of five calls | nothing held that is not given back |
| I2C lookup, `i2c-tools.c` | growing table of adapters | gather, try, free | an empty entry must end the table | the first bus with a panel, no device left open |
| options, `options.c`, `gpu-options.c` | values and set flags | parse command line, parse file | the flags decide precedence | command line before file |
| GPU thermald, `gpu-thermald.c` | integral, output, last output, alarm | read, control, set, pause, exit | alarm against pause; a failing set; wind-up | output in range, bounded integral, GPU follows |
| statistics, `stats.c` | counters | count, print | none | not modelled, see section 8 |

The hazards, with the line each one bites at and the properties that cover it,
are in `PROJECT.json`.

## 2. Modules

| module | models | abstract specification |
|---|---|---|
| `Service` | the service daemon as a whole | `RefreshCycle` |
| `ThreadPool` | thread-pool.c, one critical section per step | `JobPool` |
| `Queue` | queue.c with its memory | `Fifo` |
| `Watchdog` | watchdog.c with a clock | |
| `DList` | dlist.c with its pointers | `NodeList` |
| `Options`, `GpuOptions` (on `OptionInput`) | the two parsers | the operator `ByPrecedence` |
| `OptionParsers` | either parser on the same inputs | |
| `GpuThermald` | gpu-thermald.c | |
| `Shutdown` | cleanup(): threads cancelled anywhere, with every mutex | |
| `Machine` | hardware, kernel and libraries, as their answers | |
| `I2cTools`, `Panel` | i2c-tools.c; panel.c with registers.h | |
| `Sensors`, `NvmlTools`, `VgaTools` | sensors.c, nvml-tools.c, vga-tools.c | |
| `CpuFreq` | cpu-freq.c | the operator `MeasuredFrequency` |
| `Metrics` | main()'s start-up and the values of domain-logic.c, on top of these | |
| `MC*` | values for TLC | |
| `*Proofs` | theorems about the module they are named for; `ContainerProofs` about `Queue` and `DList` | |

The modules are layers. `Service` takes a pool as its bounded queue and what
each thread runs; `ThreadPool` justifies this (it implements `JobPool`) and
takes the queue as a sequence; `Queue` justifies that (it implements `Fifo`).
`ThreadPool` keeps deadlines as a set and `Service` lets any unfinished job be
overdue; `Watchdog` has the clock, with its lists as sequences; `DList`
justifies those (it implements `NodeList`). `Shutdown` takes up where `Service`
has one step for each call of `cleanup`, and `Metrics` where it has jobs that
carry "something to show": between them is what `Service` proves of jobs, that
one thread at a time has a metric's.

A definition whose name ends in an underscore and a remark (`Accepts_anyTime`)
is a mutated form of the definition after it: a plausible mistake in that place.
None is used by a specification; substituting it must break the property that
`PROJECT.json` names under "mutants".

### Service

A token stands for the jobs of one metric: in the frontend pool it is the job
`set_*`, in the backend pool the job `get_*`. `Poll` is `main_thread`,
`Postcode` the two jobs of the postcode retry. Every action of a thread is one
job (`set_temperature`, `get_hdd_temperature`, ...), taking a job
(`FrontendRun`, `BackendRun`) or one iteration of the dispatch loop
(`MainThreadDispatch`, since other threads run between two of its
`thread_pool_add_request` calls). The main thread's steps are `MainArmAlarm`,
`FP_store_daemon_postcode`, `SigwaitReturns` and those of `Cleanup`;
`alarm = "handler"` means that the SIGALRM handler runs on top of the main
thread, which then cannot go on (the kernel prefers the main thread for a signal to the
process). `cleanup` runs step by step, and its pools stop living at the step
that cancels their threads. A join may never return, if a thread was cancelled
with a mutex locked, so that no step of `Cleanup` is bound to come: when it does
is the subject of `Shutdown`. `HandlerOutlivesPools` is a SIGALRM after the
pools are gone: `cleanup` leaves the alarm armed, so this step is possible and
ends in `"crashed"`.

Values are abstracted to whether the job carries something to show (`context`);
the lists of hdd-info.c to their lengths; the panel to which metrics ever
reached it; time to "a job that has been accepted and has not ended may be
overdue".

### ThreadPool

A step is what a thread does under the mutex; waiting releases it in the same
step. `req` keeps what the runner's local variable held before, since a pop of
an empty queue would leave it there. `WakeUp` without a signal is bounded by
`MaxSpurious`.

### Watchdog

`Tick` counts every deadline and the runner's sleep down. On a `prompt` machine
a tick waits until every thread has done what it can: its threads take no
noticeable time. On any other machine a thread may be held up anywhere, for as
long as it takes. `Machines` says which are looked at. The runner is `locking`,
waiting, deciding on `peeked` or sleeping.

### DList, Queue

`DList` has `next` and `prev` of every node as functions, with any content
before a node is first used. What a loop of dlist.c visits is a `Chain`: the
sequence that starts where the loop does and whose last node leads to `NULL`. It
is defined by this and not step by step, since the pointers of nodes off the
list may go round in circles. `Queue` has the buffer, `head`, `tail`, `count`,
and any content in unwritten slots; elements are values, as `memcpy` copies
them.

### Options, GpuOptions

One step per argument or line. A value is `"a"`, `"b"` or `"bad"`, a text the
conversion does not understand: `strtol` makes zero of it, `sscanf` matches
nothing, the loglevel conversion says no. A file may be absent, unreadable or
text.

### GpuThermald

One step per call of the loop: `Arm`, `ReadTemperature`, `pid_control`,
`ApplyLimit`, the pause, which `AlarmFires` ends. All factors of the controller
are integers or tenths, so that its arithmetic is exact in milliwatts. A failed
read leaves `temp` as it was, the first time as whatever was on the stack. The
temperature is free. `slow` says whether NVML calls may take longer than the
alarm; `power_option` is what the options leave.

### Shutdown

The runners of both pools and the watchdog with their three mutexes. A step ends
where a thread takes or leaves a mutex, or where its cleanup handler is pushed
or popped, so that a cancelled thread can die between any two of those
(`pthread_setcanceltype` is asynchronous). `owner` is who holds a mutex; if
nobody unlocks it for a dead thread it is `lost`. `cleanup` is step by step
`thread_pool_join(frontend)`, `thread_pool_destroy` of the backend and of the
frontend, and `watchdog_destroy` when the reference count falls to zero. The
SIGALRM handler runs on top of the main thread; `HandlerCrashes` is its use of
what has been freed. Queues are counted, since `NoBlockedAdd` is proved.

### Machine, I2cTools, Panel, Sensors, NvmlTools, VgaTools, CpuFreq, Metrics

One state machine, a module per source file. `phase` is where the main thread is
in `main()`: gathering and looking up the panel's bus, the lock file, opening
and resetting the panel, the sensors, the list of drivers, the GPU's reader,
running, the exit handlers. `machine` is what the calls find there, chosen at
the start and fixed. Besides, `MaxFaults` calls fail that need not: an
allocation, a transfer, a read. The loops of the start-up are steps of their
own, one for each bus (`busIndex`), sensor feature (`feature`), PCI device
(`device`) and driver name (`toWrite`): that is what the invariants of the
proofs speak of.

Tables are modelled with their sizes: the adapters with the size that was
allocated, the names with `size_left` as the code computes it, in the unsigned
comparison of the code, the table of core sensors with the count behind it,
which an entry past its end overwrites, the table of frequencies with what
malloc returned. An access past the end puts the table's name into `overrun`.

`get_*` samples what the machine has at that moment (`warmer` changes it once)
and hands a context over; `TakeContext`, `SkipValue`, `SetValue` and `EndJob`
are the `set_*` job, one register write per step, at the addresses of
registers.h. The firmware of the panel is external: `Shown` says what it shows
by its registers, from the comments of registers.h and from the way panel.c uses
them. It is the one part of this that no source of the repository confirms.

`cpu_freq_get_list` is an operator: the parser's state after each block of
lines, as a recursive function, over the table as it was. `MeasuredFrequency`,
the reference, knows nothing of lines or parser states.

## 3. Runs

| run | question | bounds |
|---|---|---|
| `service_safety` | types, one place per job, exact bitmap, a fresh disk list for every scan, no blocked add, refinement of `RefreshCycle` | 2 backend threads, 3 enabled metrics, queues as short as `QueuesAssumption` allows, 2 disks, 1 fault; every sensor may hang; SIGTERM and SIGALRM at any time |
| `service_live` | every metric for ever, each shown in spite of faults, postcode stored, a hang makes the daemon go into cleanup | 2 threads, 2 metrics, 2 faults, the GPU read may hang |
| `pool` | lost wake-ups, stale requests, deadlines; implements `JobPool` with its fairness | 2 runners, 2 clients with 3 jobs each, queue of 2, one job without a deadline, 1 spurious wake-up |
| `containers` | of the ring its indices, and `Fifo`; of the list its pointers, and `NodeList` | 3 slots, 3 values: several times round the ring; 3 nodes, two with equal keys |
| `watchdog` | order of the list in spite of late submissions, nodes in one list, a hung job is caught; on a prompt machine no job overstays and no alarm is false | 3 jobs, delay of 2 ticks, a prompt machine and one that holds threads up anywhere |
| `options` | precedence, exact rejection | both daemons, every command line of 2 entries with every file of 2 lines |
| `gpu_options_override` | *violated*: the help text's precedence | 1 argument, 2 lines |
| `thermald` | range, wind-up, following; control for ever with quick calls; without failures hot gives least power, cool gives all | five temperatures around the limit, no override and one above the range, quick and slow calls, 1 failing call |
| `thermald_slow` | *violated*: control with slow calls | no failing call |
| `shutdown` | freed objects are unused, cleanup and handler end or one of the named mutexes is lost | 2 backend threads, 1 alarm, 1 backend job; main thread in its postcode request or waiting |
| `metrics` | table bounds, the panel's bus, the GPU's reader, what is shown is what is measured where the code does not give up on it (below), one item per write | 62 machines, 2 failing calls, a bunch of 2 adapters, 8 cores, 1 change of temperature |
| `metrics_dirty` | *violated*: the first thread of a core sets its frequency | 4 cores, the third entry of malloc's table not zero |

Why the bounds are enough. Two backend threads already overtake each other and
hold two metrics while a third waits; the queues are at the minimum of the
assumption, so a full queue would be seen; one fault hits every read and write
in turn, since a behaviour may spend it anywhere. In the pool, two clients
against a queue of two make both clients wait on a full queue and both runners
on an empty one, which is where a lost signal matters; three jobs each let a
thread come back to a condition it has left. Three deadlines are the first
number with a node in the middle of the list. In the parsers, two entries are
the first with a repetition within one source, and one in each with one across.
The controller's range of 5 W is saturated in a few cycles by the hottest
temperature and left again by the coolest. In `shutdown`, two backend threads
are the first that can wait for a mutex another of their pool has lost, and one
alarm can come at every step. In `metrics`, each machine differs from a common
one in one part: every source of busses with four lists, every call of NVML that
fails with one, two and three VGA devices, a driver name of ten letters, core
ids in and out of order, with gaps and past the table, nine sensors for eight
entries, nine disks for eight registers. A bunch of two adapters grows the table
twice for five busses; the code's eight is the same arithmetic. The part that
concerns one source file never looks at the others' answers, so combinations of
two odd parts add nothing; which metrics are written together matters, and each
pair of metrics is on some machine.

`ShownIsMeasured` leaves open, by `Regular` and its second disjunct, what the
code itself gives up: a core without a sensor or thread where the ids have a
gap; everything once more sensors are counted than their table holds; a
frequency whose entry malloc left dirty, or without /proc/cpuinfo; the frequency
that is being written, and all of them after a failed call or when the daemon
ends; disks after a failed call. Machines of all these kinds are in the run, so
that what they show of everything else is checked.

The type invariants of `Queue`, `DList`, `ThreadPool`, `Watchdog` and `Shutdown`
are stated for the proofs and in no run, and so are the inductive invariants;
TLC has checked each on the instance of its run before it was proved.

`CHECK_DEADLOCK FALSE` is used where the system may stop: the daemons after
SIGTERM or an error at start-up, cleanup that hangs, the parsers when they are
done. `ThreadPool` has an action for the state in which all jobs are done and is
checked for deadlock.

## 4. Findings

Three runs show that the code does not do what its texts say:

* `gpu_options_override`: a file that sets an option the command line sets too
  is refused, not overridden (gpu-options.c:141-161, against its own help text).
* `thermald_slow`: an alarm between `alarm` and `pause` stops the control for
  good (gpu-thermald.c:236-248, against README.adoc:7).
* `metrics_dirty`: of eight frequencies memset clears two entries
  (cpu-freq.c:52). A core from the third on whose entry malloc returned with
  something in it shows that, not the frequency of its first thread (against
  cpu-freq.c:34).

No text forbids the following. The properties that hold leave it out, and so say
where it happens:

* The watchdog's runner sends SIGTERM on a copy of a deadline that may have been
  cleared, in time, while it was held up (watchdog.c:63-74): `AlarmIsReal` holds
  on a prompt machine only.
* A failed set of the power limit is remembered as done
  (gpu-thermald.c:243-246): `HotGetsMinimum` needs calls that do not fail.
* With a /proc/cpuinfo that cannot be opened every core shows what malloc's
  table held (cpu-freq.c:107): a condition of `Regular`.
* A core without a sensor, before one with, shows the first sensor, and one past
  the table overwrites the count; if that is then above the table's size, a
  ninth temperature is written to the GPU's register (sensors.c:145): conditions
  of `Regular`, `TablesHold` and `OneItemAtATime`.
* With more than one VGA device, or a driver whose name has ten letters or more,
  the names are written past their buffer (vga-tools.c:158): the condition of
  `TablesHold`.
* Without memory for the adapters, free_adapters reads through a null pointer
  (panel.c:160): the last conjunct of `LookupExact`.
* Between its two writes, and for good after a failed second one, a frequency is
  made of two halves (panel.c:210); a disk that is missing from a sample gives
  its index to the next (hdd-info.c:140): the exceptions of `ShownIsMeasured`.
* Cleanup may hang on a mutex whose holder was cancelled (thread-pool.c:71-84,
  watchdog.c:55-66): `CleanupEnds` names the mutexes. A SIGALRM during it may
  use a freed pool: `FreedIsUnused` says from when on.

## 5. Fairness

* `Service`: the kernel runs every runnable thread and delivers SIGALRM; reads
  and transfers that do not hang return; the watchdog's clock advances. The main
  thread needs strong fairness only because the handler interrupts it again and
  again, for a moment every `poll_cycle` seconds. Hanging and SIGTERM from a
  user are never fair, and nothing is once the threads are being cancelled:
  `HangStopsDaemon` ends where cleanup begins, and `CleanupEnds` goes on.
* `ThreadPool`: every thread that can take a step eventually does. The mutex and
  the condition variables are not fair to one thread (POSIX promises no order),
  so fairness is stated as the module's comments say and `JobPool` asks no more.
* `Watchdog`: the runner and the clock. Jobs are not fair: they may hang. On a
  prompt machine jobs could be so fast that the clock never ticks, so
  `HungJobIsCaught` speaks of the other one, which can do all that a prompt one
  does.
* `Shutdown`: every thread that can go on does, and gets a mutex that is free
  again and again: its holders keep it for a few instructions every few seconds.
  Hence strong fairness per thread. A cancelled thread may run on, but not past
  `sleep` or a condition wait. SIGTERM, SIGALRM and timeouts are not fair.
* `Metrics` has no fairness: it states safety only. That jobs are run is the
  subject of `Service`.
* `GpuThermald`: the loop, its alarm during `pause`, NVML calls that return.
  Temperature and signals are not fair.

## 6. Proofs

`ServiceProofs` proves for every number of backend threads, disks and faults,
all queue lengths within `QueuesAssumption`, every set of disabled and hanging
metrics: `TypeOK`, `OnePlace`, `OnePoll`, `BitmapExact`, `HddListExclusive`,
`HddListFresh`, `NoBlockedAdd` and the step simulation of `RefreshCycle`. The
inductive invariant is `TypeOK`, `OnePlace`, `OnePoll`, `BitmapByRequest` and
`Startup`. `BitmapExact` by itself is not inductive: that a dispatched metric is
nowhere in the pools needs the bitmap, and that the bit can be cleared at the
end of a `set_*` needs that the token was in one place. `Startup` says that the
postcode token does not exist before its first add. `NoBlockedAdd` follows from
`OnePlace` by counting: an injective sequence over a finite set of tokens is no
longer than the set has members, and the token about to be added is not in it.
That is where `QueuesAssumption` is used; the code's 16 slots satisfy it for its
4 metrics.

`ContainerProofs` proves of `Queue`, for every length and element set, that the
indices stay in the ring, that `tail` is `count` slots past `head`, and that the
ring implements `Fifo`. `TailIsPastCount` is the strengthening; the arithmetic
of the wrap is one lemma about `%`.

Of `DList` it proves, for every finite set of nodes with any keys and any
content of their memory, the types, `Linked`, and that the list implements
`NodeList`. `DListType` and `Linked` are inductive together. That the chain of
`Linked` is the one the loops visit needs that two chains with the same start
and the same pointers are equal (`OneChain`), which follows from the least
position where they would differ. Then there are two ways to change a list:
putting a node behind the first `k`, which both pushes do, and taking out the
`k`-th, which `dlist_pop_front` and both removals do; one lemma each says what
the pointers are afterwards. `BehindIs` says that the place where the scan of
`dlist_push_ordered` stops, going from the tail, is the place behind the last
entry that is not later.

`GpuThermaldProofs` proves the types, `OutputInRange`, `IntegralBounded` and
`GpuFollows` for every range of power, set of temperatures and option. The
strengthening adds that the daemon's own limit is in the supported range once
`initialize` is behind, and that `power_limit_prev` is the GPU's limit as long
as no call has failed. The I term is bounded because the P term is never
positive and the integral is only taken over when the sum stays in range.

`ShutdownProofs` proves the types and `FreedIsUnused` for every number of
backend threads, alarms and jobs. The invariant is `TypeOK`; `Places`, that main
is in `add_request` only before cleanup begins; `Holding`, which mutexes main,
the handler and the watchdog's runner can hold; and `Teardown`, what has been
joined and destroyed at each point of cleanup. A step of a thread only matters
by what it cannot do: raise a dead thread, or give a mutex to another
(`StepOf`). That the watchdog goes with the last pool needs the reference count
in `Teardown`.

`ThreadPoolProofs` proves the types, `CalledOnce`, `DeadlinesExact`,
`NobodyOversleeps` and the step simulation of `JobPool` (`PoolSafety`: its
`Init` and `Next`, without the fairness) for every number of runners and
clients, every queue length and every number of spurious wake-ups.
`NobodyOversleeps` is a conjunct of the inductive invariant: as long as a runner
sleeps, no more requests are queued than runners are awake, and as long as a
client sleeps, no more slots are free than clients are awake. Each step that
wakes nobody either takes away what there would be to do or adds nothing to it.
The rest accounts for the requests: those started or queued are, in order and
without repetition, those whose add has returned (`Accepted`), those started are
the ones that run or have run (`Called`), and a busy runner's `req` is a started
one and nobody else's (`OwnRequests`). The last two are what excludes a second
call with what a failed pop would have left in `req`.

`WatchdogProofs` proves the types, `EarliestFirst`, `NodesHeldOnce`,
`NoTaskOverstays` and `AlarmIsReal` for every set of jobs and every delay. The
invariant ties the two lists to the nodes that jobs hold: every node is on one
list, those on the active one are the watched jobs' (`Nodes`, `OwnNodes`), and a
job that has read the clock and not yet submitted has a stamp (`Stamps`). Of the
runner it says what it knows at each point of its loop, and on a prompt machine
that it works with the earliest deadline there is (`PromptRunner`). Without this
the properties of the prompt machine are not inductive, since they say nothing
of the runner's sleep: a tick could pass a deadline it does not know of.

`OptionParsersProofs` proves `PrecedenceKept` and `AbortsExactly` for command
lines and files of any length, for both daemons. The invariant describes what
has been read so far: an option is set exactly when it is in there, with the
value of the last argument that gives it or, if none does, of the first line
(`ValuesKept`); nothing in there is a reason to abort (`NothingWrong`,
`NothingRepeated`), and a parser that aborted had one (`AbortedRightly`). A
loglevel next to one that is not understood is left out, since the service drops
its mark (options.c:106).

`MetricsProofs` proves `TablesHold`, `LookupExact` and `GpuReaderReady` for
every set of machines, every `Bunch` and number of faults. The invariant follows
the main thread from phase to phase. Of the table of adapters: its size is a
multiple of the bunch and larger than the number of entries, and its entries are
the listed busses before `busIndex`, in their order; then, in the lookup, none
of those tried is the panel's. Of the driver names: with one VGA device at most
two names are left to write, the second of at most nine letters, and there are
sixteen bytes for both, six for the second. No driver is lost between the scan
and the list, without which the choice of the reader of integrated GPUs could
not be shown right. Of NVML: what is held at each call, which decides where a
failure unwinds to.

On top of this it proves `ShownIsMeasured` and `OneItemAtATime`. The second
invariant, `DInv`, follows a value on its way. The sensors, read once: the entry
of a core is the number of its sensor, and the count is the number of cores
(`SensorsRead`). The rest of the invariant is stated for counts that do not
exceed the table (`Fits`), since a ninth temperature would be written over the
GPU's. The queue and the job: what is in them was measured, now or before the
one change of temperature (`Queued`). The registers: one that is marked as valid
has been written, and holds the byte of something measured (`LampsMeasured`);
the two bytes of a frequency fit together but for the core whose turn it is
(`FrequenciesMeasured`), which needs that between the two writes the first
register still has the byte it was given (`HalfWritten`). That a sample is
measured takes the most work: for the frequencies, what the parser's table holds
after each block of /proc/cpuinfo (`Tabled`, by the least block at which it
would not), for an integrated GPU that the hottest of consecutive cores is the
maximum over all, and for a core without a thread that the table has no entry
that could be counted for it (`NoCoreMissing`). `OneItemAtATime` follows from
the addresses, which are pairwise different (`LampsApart`, `FrequenciesApart`,
`LampsAndFrequencies`), and from `LampsMeasured`: without it a write could give
a value to an item that is marked and was never written.

The assumptions are the named ASSUMEs of the modules: they say what kind of
thing each constant is and, in `QueuesAssumption`, how long the queues are.
`MachinesAssumption` gives the fields of a machine their types; the drivers of
its VGA devices are the three the code knows (vga-tools.c:222-246) and one it
does not, whose name has ten letters and so overruns the text of the names.
`PanelAssumption` says what `ShownIsMeasured` cannot do without: the table of
cores is no longer than the panel's (8, common.h), temperatures are below 256
degrees and frequencies above zero and of 15 bits, and a core has one sensor
label. Of a machine whose sensors do not fit their table nothing is assumed;
there `Regular` and the condition of `OneItemAtATime` fail. `JobAssumption` and
`BunchAssumption` say that NULL is no record.

## 7. Only model-checked

* All liveness (`EachPublishedForever`, `EachShown`, `PostcodeShown`,
  `HangStopsDaemon`, the fairness of `PoolSpec`, `HungJobIsCaught`,
  `ControlsForever`, `HotGetsMinimum`, `CoolGetsMaximum`, `CleanupEnds`,
  `HandlerEnds`): fairness is out of the proof system's reach.
* `CommandLineOverrides`, `AlwaysControlsForever` and
  `FirstThreadSetsFrequency`, which their runs find violated.

`HddListExclusive` and `OnePoll` are only proved: no run lists them, since each
follows from `OnePlace` and the types.

## 8. Not modelled

* A thread that dies between two assignments of a list or inside malloc:
  asynchronous cancellation may leave smart_devices half linked for
  hdd_info_cleanup, or a lock of the C library taken. `Shutdown` has the mutexes
  of the program.
* panel_get_pending_requests, which nothing calls: the daemon asks for every
  enabled metric. Unit tests; dlist_destroy; log messages; the counters of
  stats.c, which are only printed.
* A pool whose threads cannot all be created, and read errors in configuration
  files, after which the parsers' loops never end (gpu-options.c:134,
  options.c:158).
* Texts: lines of /proc and sysfs are the busses and cores they name, driver
  names are their lengths, the disks' names and sizes are shown by --info only.
* What lies behind the table of core sensors and its count: a read past both is
  some sensor of the machine's (`past`), a write past both changes nothing.
* nvml.h: declarations of a library. Makefiles and setversion.
* Rounding of the controller's doubles; a wall clock that is set.

## 9. Plan

Done: `Service` with `RefreshCycle`, `Queue` with `Fifo`, `ThreadPool` with
`JobPool`, `Watchdog`, `DList` with `NodeList`, both parsers, `GpuThermald`,
`Shutdown`, `Metrics` with the modules below it; proofs for all of them.

Every invariant and every action property of a passing run is proved, and of
each refinement that steps map to steps. Left are the liveness properties, which
TLC checks.
