------------------------------ MODULE Service ------------------------------
(***************************************************************************)
(* The front panel service daemon as a whole: the main thread and its      *)
(* SIGALRM handler (main.c), the single frontend thread that owns the      *)
(* panel, the backend threads that read the sensors, and the jobs that     *)
(* domain-logic.c passes back and forth between the two pools.             *)
(*                                                                         *)
(* A pool is its bounded job queue and what each of its threads is doing;  *)
(* the mutex and the condition variables that make the queue safe are the  *)
(* subject of ThreadPool.  A job is named by what it is about:             *)
(*                                                                         *)
(*   token        in the frontend pool           in the backend pool       *)
(*   ----------   ----------------------------   ------------------------  *)
(*   a request    set_* of that metric           get_* of that metric      *)
(*   Postcode     really_store_daemon_postcode   backend_delay             *)
(*   Poll         main_thread                    (never there)             *)
(*                                                                         *)
(* The values read from sensors are abstracted to whether there is         *)
(* anything to show, the panel's registers to the set of metrics that have *)
(* ever reached them.  A failing sensor read or I2C transfer is a fault;   *)
(* MaxFaults bounds how many of them a behaviour has.  Time is abstracted: *)
(* a job that a pool has accepted and not finished may be overdue at any   *)
(* moment (Watchdog has the clock).                                        *)
(*                                                                         *)
(* A definition whose name ends in an underscore and a remark is a mutated *)
(* form of the one that follows it; nothing uses it.                       *)
(***************************************************************************)
EXTENDS Naturals, Sequences, FiniteSets, Functions

CONSTANTS
  Poll, Postcode,      \* the two tokens that are not metrics
  Idle,                \* what a thread without a job runs
  BackendThreads,      \* ATFP_BACKEND_THREAD_NUM threads
  FrontendQueueLen,    \* ATFP_FRONTEND_QUEUE_LEN
  BackendQueueLen,     \* ATFP_BACKEND_QUEUE_LEN
  Disabled,            \* options.disable
  PollCycle,           \* options.poll_cycle, the argument of alarm()
  MayHang,             \* metrics whose sensor may block for ever
  MaxDisks,            \* ATA disks in the machine
  MaxFaults            \* bound on failing sensor reads and I2C transfers

(***************************************************************************)
(* Requests are bit offsets of the in-processing bitmap; main_thread       *)
(* serves the lowest one first.                                            *)
(***************************************************************************)
HDDTR == 0
CPUFR == 1
CPUTR == 2
GPUTR == 3
Requests == {HDDTR, CPUFR, CPUTR, GPUTR}

Enabled == Requests \ Disabled
Tokens == Requests \cup {Poll, Postcode}

ASSUME TokensAssumption ==
  /\ Poll \notin Requests /\ Postcode \notin Requests /\ Poll # Postcode
  /\ Idle \notin Tokens

ASSUME OptionsAssumption ==
  /\ Disabled \subseteq Requests
  /\ MayHang \subseteq Requests
  /\ PollCycle \in Nat
  /\ MaxDisks \in Nat
  /\ MaxFaults \in Nat

(***************************************************************************)
(* The queues can hold every token that can ever be in them.  The daemon's *)
(* queues have 16 slots, for at most 6 and 5 tokens.                       *)
(***************************************************************************)
ASSUME QueuesAssumption ==
  /\ FrontendQueueLen \in Nat
  /\ FrontendQueueLen >= Cardinality(Enabled) + 2
  /\ BackendQueueLen \in Nat
  /\ BackendQueueLen >= Cardinality(Enabled) + 1

VARIABLES
  mainPc,        \* where the main thread is in main()
  alarm,         \* the process's alarm clock and its SIGALRM handler
  feQueue, beQueue,
  feJob,         \* what the frontend thread runs
  feBitmap,      \* request_bitmap of the running main_thread
  be,            \* what each backend thread runs
  hung,          \* backend threads that will never return from a sensor
  inProcessing,  \* in_processing.bitmap
  context,       \* metrics whose get_* allocated something to show
  hddList,       \* length of smart_devices
  hddFree,       \* length of SMARTinfo_freelist
  shown,         \* metrics that have reached the panel
  postcodeStored,
  terminated,    \* SIGTERM is pending
  faults

pools == <<feQueue, beQueue, feJob, feBitmap, be, hung>>
data == <<inProcessing, context, hddList, hddFree, shown, postcodeStored>>
signals == <<alarm, terminated>>
vars == <<mainPc, signals, pools, data, faults>>

-----------------------------------------------------------------------------

Fault == faults < MaxFaults /\ faults' = faults + 1

(***************************************************************************)
(* thread_pool_add_request waits while the queue is full.                  *)
(***************************************************************************)
FrontendAdd(token) ==
  /\ Len(feQueue) < FrontendQueueLen
  /\ feQueue' = Append(feQueue, token)

BackendAdd(token) ==
  /\ Len(beQueue) < BackendQueueLen
  /\ beQueue' = Append(beQueue, token)

Init ==
  /\ mainPc = "start"
  /\ alarm = "off"
  /\ feQueue = <<>> /\ beQueue = <<>>
  /\ feJob = Idle
  /\ feBitmap = {}
  /\ be = [t \in BackendThreads |-> Idle]
  /\ hung = {}
  /\ inProcessing = {}
  /\ context = {}
  /\ hddList = 0 /\ hddFree = 0
  /\ shown = {}
  /\ postcodeStored = FALSE
  /\ terminated = FALSE
  /\ faults = 0

-----------------------------------------------------------------------------
(* The main thread and the signal handler that runs on it.                 *)

(* No pool has been told to end: no thread is cancelled, no mutex lost.    *)
Uncancelled == mainPc \in {"start", "postcode", "sigwait"}

(* A cancelled thread may go on until pthread_join returns for it.         *)
FrontendLives == Uncancelled \/ mainPc = "cleanup"
BackendLives == FrontendLives \/ mainPc = "frontend joined"
WatchdogLives == BackendLives \/ mainPc = "backend destroyed"
ProcessLives == WatchdogLives \/ mainPc = "pools destroyed"

(* The main thread goes on when no handler is running on top of it.        *)
MainAt(pc, next) ==
  /\ alarm # "handler"
  /\ mainPc = pc
  /\ mainPc' = next

MainArmAlarm ==
  /\ MainAt("start", "postcode")
  /\ alarm' = "armed"
  /\ UNCHANGED <<terminated, pools, data, faults>>

FP_store_daemon_postcode ==
  /\ MainAt("postcode", "sigwait")
  /\ BackendAdd(Postcode)
  /\ UNCHANGED <<signals, feQueue, feJob, feBitmap, be, hung, data, faults>>

(* daemon_termination(DTERM_WAIT): sigwait returns SIGTERM.                *)
SigwaitReturns ==
  /\ terminated
  /\ MainAt("sigwait", "cleanup")
  /\ UNCHANGED <<signals, pools, data, faults>>

(***************************************************************************)
(* cleanup joins the frontend, destroys the backend, destroys the frontend *)
(* and with it the watchdog.  The alarm clock is left running.  Each of    *)
(* these steps joins threads and may never happen: a thread that is        *)
(* cancelled while it holds a mutex leaves the others waiting for it.      *)
(* Which mutexes those are is the subject of Shutdown.                     *)
(***************************************************************************)
Cleanup ==
  /\ \/ MainAt("cleanup", "frontend joined")
     \/ MainAt("frontend joined", "backend destroyed")
     \/ MainAt("backend destroyed", "pools destroyed")
     \/ MainAt("pools destroyed", "exited")
  /\ UNCHANGED <<signals, pools, data, faults>>

(* SIGALRM interrupts whatever the main thread does. *)
AlarmExpires ==
  /\ ProcessLives
  /\ alarm = "armed"
  /\ alarm' = "handler"
  /\ UNCHANGED <<mainPc, terminated, pools, data, faults>>

signal_handler_periodic ==
  /\ alarm = "handler"
  /\ WatchdogLives
  /\ FrontendAdd(Poll)
  /\ alarm' = "armed"
  /\ UNCHANGED <<mainPc, terminated, beQueue, feJob, feBitmap, be, hung, data,
                 faults>>

signal_handler ==
  /\ alarm = "handler"
  /\ WatchdogLives
  /\ FrontendAdd(Poll)
  /\ alarm' = "off"
  /\ UNCHANGED <<mainPc, terminated, beQueue, feJob, feBitmap, be, hung, data,
                 faults>>

(* After cleanup the handler uses a freed pool and a null watchdog.        *)
HandlerOutlivesPools ==
  /\ alarm = "handler"
  /\ mainPc = "pools destroyed"
  /\ mainPc' = "crashed"
  /\ alarm' = "off"
  /\ UNCHANGED <<terminated, pools, data, faults>>

(* SIGTERM from the user who stops the daemon. *)
StopDaemon ==
  /\ ~terminated
  /\ ProcessLives
  /\ terminated' = TRUE
  /\ UNCHANGED <<mainPc, alarm, pools, data, faults>>

Outstanding_queuedOnly == Range(feQueue) \cup Range(beQueue)

Outstanding ==
  (Range(feQueue) \cup Range(beQueue) \cup {feJob} \cup Range(be)) \ {Idle}

(* SIGTERM from the watchdog: an accepted job has missed its deadline.     *)
WatchdogExpires ==
  /\ WatchdogLives
  /\ Outstanding # {}
  /\ ~terminated
  /\ terminated' = TRUE
  /\ UNCHANGED <<mainPc, alarm, pools, data, faults>>

-----------------------------------------------------------------------------
(* The frontend thread.  main_thread runs on it as the job Poll.           *)

in_processing_add_request_lost(request) == UNCHANGED inProcessing
in_processing_add_request(request) ==
  inProcessing' = inProcessing \cup {request}

in_processing_remove_request_lost(request) == UNCHANGED inProcessing
in_processing_remove_request_unlessFault(request) ==
  inProcessing' = IF faults' = faults THEN inProcessing \ {request} ELSE inProcessing
in_processing_remove_request(request) ==
  inProcessing' = inProcessing \ {request}

(* The requests a run of main_thread will dispatch. *)
PollBitmap_disabledToo == Requests \ inProcessing
PollBitmap_inProcessingToo == Enabled
PollBitmap == Enabled \ inProcessing

(* main_thread programs its next run; alarm(0) cancels. *)
NextAlarm_forgotten == "off"
NextAlarm == IF PollCycle > 0 THEN "armed" ELSE "off"

(***************************************************************************)
(* thread_pool_runner takes the next job.  main_thread begins by reading   *)
(* the bitmap of requests in processing, which only this thread uses.      *)
(***************************************************************************)
FrontendRun ==
  /\ FrontendLives
  /\ feJob = Idle
  /\ feQueue # <<>>
  /\ feJob' = Head(feQueue)
  /\ feQueue' = Tail(feQueue)
  /\ feBitmap' = IF Head(feQueue) = Poll THEN PollBitmap ELSE {}
  /\ UNCHANGED <<mainPc, signals, beQueue, be, hung, data, faults>>

(* One iteration of main_thread's loop that finds a request to dispatch.   *)
MainThreadDispatch ==
  /\ FrontendLives
  /\ feJob = Poll
  /\ \E request \in feBitmap :
       /\ \A other \in feBitmap : request <= other
       /\ in_processing_add_request(request)
       /\ BackendAdd(request)
       /\ feBitmap' = feBitmap \ {request}
  /\ UNCHANGED <<mainPc, signals, feQueue, feJob, be, hung, context, hddList,
                 hddFree, shown, postcodeStored, faults>>

MainThreadEnd ==
  /\ FrontendLives
  /\ feJob = Poll
  /\ feBitmap = {}
  /\ alarm' = NextAlarm
  /\ feJob' = Idle
  /\ UNCHANGED <<mainPc, terminated, feQueue, beQueue, feBitmap, be, hung, data,
                 faults>>

(***************************************************************************)
(* What every set_* does: write what the context holds, all of it or only  *)
(* some when a write fails, free the context, take the request out of the  *)
(* bitmap.                                                                 *)
(***************************************************************************)
Publish(request) ==
  /\ FrontendLives
  /\ feJob = request
  /\ \/ request \in context /\ shown' = shown \cup {request} /\ UNCHANGED faults
     \/ request \in context /\ Fault /\ UNCHANGED shown
     \/ request \notin context /\ UNCHANGED <<shown, faults>>
  /\ context' = context \ {request}
  /\ in_processing_remove_request(request)
  /\ feJob' = Idle
  /\ UNCHANGED <<mainPc, signals, feQueue, beQueue, feBitmap, be, hung,
                 postcodeStored>>

set_temperature == Publish(CPUTR) /\ UNCHANGED <<hddList, hddFree>>
set_frequency == Publish(CPUFR) /\ UNCHANGED <<hddList, hddFree>>

(* A NULL context only logs that the request is aborted. *)
set_gpu_temperature == Publish(GPUTR) /\ UNCHANGED <<hddList, hddFree>>

set_hdd_temperature_keepsInvalid ==
  /\ Publish(HDDTR)
  /\ hddList' \in {0, hddList}
  /\ hddFree' = hddFree + hddList - hddList'

(* Its context is the list itself, whose nodes all go to the free list. *)
set_hdd_temperature ==
  /\ Publish(HDDTR)
  /\ hddFree' = hddFree + hddList
  /\ hddList' = 0

really_store_daemon_postcode_once ==
  /\ FrontendLives
  /\ feJob = Postcode
  /\ \/ postcodeStored' = TRUE /\ UNCHANGED faults
     \/ Fault /\ UNCHANGED postcodeStored
  /\ feJob' = Idle
  /\ UNCHANGED <<mainPc, signals, feQueue, beQueue, feBitmap, be, hung,
                 inProcessing, context, hddList, hddFree, shown>>

(* A postcode that does not read back is stored again after a delay. *)
really_store_daemon_postcode ==
  /\ FrontendLives
  /\ feJob = Postcode
  /\ \/ /\ postcodeStored' = TRUE
        /\ UNCHANGED <<beQueue, faults>>
     \/ /\ Fault
        /\ BackendAdd(Postcode)
        /\ UNCHANGED postcodeStored
  /\ feJob' = Idle
  /\ UNCHANGED <<mainPc, signals, feQueue, feBitmap, be, hung, inProcessing,
                 context, hddList, hddFree, shown>>

-----------------------------------------------------------------------------
(* The backend threads.                                                    *)

BackendRun(t) ==
  /\ BackendLives
  /\ be[t] = Idle
  /\ beQueue # <<>>
  /\ be' = [be EXCEPT ![t] = Head(beQueue)]
  /\ beQueue' = Tail(beQueue)
  /\ UNCHANGED <<mainPc, signals, feQueue, feJob, feBitmap, hung, data, faults>>

HandOver_clearsBit(t) ==
  /\ BackendLives
  /\ t \notin hung
  /\ FrontendAdd(be[t])
  /\ be' = [be EXCEPT ![t] = Idle]
  /\ inProcessing' = inProcessing \ {be[t]}
  /\ UNCHANGED <<mainPc, signals, beQueue, feJob, feBitmap, hung, shown,
                 postcodeStored>>

(* The end of every backend job: hand the token over to the frontend. *)
HandOver(t) ==
  /\ BackendLives
  /\ t \notin hung
  /\ FrontendAdd(be[t])
  /\ be' = [be EXCEPT ![t] = Idle]
  /\ UNCHANGED <<mainPc, signals, beQueue, feJob, feBitmap, hung, inProcessing,
                 shown, postcodeStored>>

(* Reading a metric gives something to show, or fails. *)
Sample(request) ==
  \/ context' = context \cup {request} /\ UNCHANGED faults
  \/ Fault /\ UNCHANGED context

(***************************************************************************)
(* Of the cores there may be something to show all the same: the ones that *)
(* were read before the failing one, or, when /proc/cpuinfo cannot be      *)
(* opened, a frequency table nobody has written.                           *)
(***************************************************************************)
SampleCores(request) ==
  \/ Sample(request)
  \/ Fault /\ context' = context \cup {request}

get_temperature(t) ==
  be[t] = CPUTR /\ SampleCores(CPUTR) /\ HandOver(t)
                /\ UNCHANGED <<hddList, hddFree>>
get_frequency(t) ==
  be[t] = CPUFR /\ SampleCores(CPUFR) /\ HandOver(t)
                /\ UNCHANGED <<hddList, hddFree>>
get_gpu_temperature(t) ==
  be[t] = GPUTR /\ Sample(GPUTR) /\ HandOver(t) /\ UNCHANGED <<hddList, hddFree>>

(***************************************************************************)
(* Each disk whose SMART data can be read adds a node to smart_devices,    *)
(* taken from the free list while that lasts.  Neither list has a lock.    *)
(***************************************************************************)
get_hdd_temperature(t) ==
  /\ be[t] = HDDTR
  /\ \E disks \in 0..MaxDisks :
       /\ hddList' = hddList + disks
       /\ hddFree' = IF disks <= hddFree THEN hddFree - disks ELSE 0
       /\ \/ disks = MaxDisks /\ UNCHANGED faults
          \/ Fault
       /\ \/ disks > 0 /\ context' = context \cup {HDDTR}
          \/ (disks = 0 \/ faults' # faults) /\ UNCHANGED context
  /\ HandOver(t)

backend_delay(t) ==
  /\ be[t] = Postcode
  /\ HandOver(t)
  /\ UNCHANGED <<context, hddList, hddFree, faults>>

(* A sensor read that never returns. *)
SensorHangs(t) ==
  /\ BackendLives
  /\ be[t] \in MayHang
  /\ t \notin hung
  /\ hung' = hung \cup {t}
  /\ UNCHANGED <<mainPc, signals, feQueue, beQueue, feJob, feBitmap, be, data,
                 faults>>

-----------------------------------------------------------------------------

Main == MainArmAlarm \/ FP_store_daemon_postcode \/ SigwaitReturns
Alarm == AlarmExpires \/ signal_handler \/ HandlerOutlivesPools
Frontend ==
  \/ FrontendRun \/ MainThreadDispatch \/ MainThreadEnd
  \/ set_temperature \/ set_frequency
  \/ set_gpu_temperature \/ set_hdd_temperature
  \/ really_store_daemon_postcode
Backend(t) ==
  \/ BackendRun(t) \/ backend_delay(t)
  \/ get_temperature(t) \/ get_frequency(t)
  \/ get_gpu_temperature(t) \/ get_hdd_temperature(t)

Next ==
  \/ Main \/ Cleanup \/ Alarm \/ Frontend
  \/ \E t \in BackendThreads : Backend(t) \/ SensorHangs(t)
  \/ StopDaemon \/ WatchdogExpires

Spec == Init /\ [][Next]_vars

(***************************************************************************)
(* The kernel schedules every runnable thread and delivers SIGALRM; a      *)
(* sensor read or a panel transfer that has not hung returns; the          *)
(* watchdog's clock reaches the deadline of a job that never ends.  The    *)
(* main thread is interrupted by its handler for a moment every            *)
(* options.poll_cycle seconds at most, and goes on in between: hence SF.   *)
(* Nothing is promised once cleanup has cancelled threads, which may take  *)
(* a mutex with them: neither of the joins nor of the threads and the      *)
(* handler that go on meanwhile.                                           *)
(***************************************************************************)
Fairness ==
  /\ SF_vars(Main)
  /\ WF_vars(Uncancelled /\ Alarm)
  /\ WF_vars(Uncancelled /\ Frontend)
  /\ \A t \in BackendThreads : WF_vars(Uncancelled /\ Backend(t))
  /\ WF_vars(hung # {} /\ WatchdogExpires)

FairSpec == Spec /\ Fairness

-----------------------------------------------------------------------------
(* What makes the service correct.                                         *)

(* Every variable keeps to its values; disabled metrics are never polled.  *)
TypeOK ==
  /\ mainPc \in {"start", "postcode", "sigwait", "cleanup",
                 "frontend joined", "backend destroyed", "pools destroyed",
                 "exited", "crashed"}
  /\ alarm \in {"off", "armed", "handler"}
  /\ terminated \in BOOLEAN
  /\ feQueue \in Seq(Enabled \cup {Poll, Postcode})
  /\ beQueue \in Seq(Enabled \cup {Postcode})
  /\ feJob \in Enabled \cup {Poll, Postcode, Idle}
  /\ feBitmap \subseteq Enabled
  /\ be \in [BackendThreads -> Enabled \cup {Postcode, Idle}]
  /\ hung \subseteq BackendThreads
  /\ inProcessing \subseteq Enabled
  /\ context \subseteq Enabled
  /\ hddList \in Nat /\ hddFree \in Nat
  /\ shown \subseteq Enabled
  /\ postcodeStored \in BOOLEAN
  /\ faults \in 0..MaxFaults

(***************************************************************************)
(* A token is in one place at a time: no queue holds it twice, no two      *)
(* threads run it, and it is not both queued and running.  The daemon      *)
(* never has two polls or two postcode stores under way, which share the   *)
(* bitmap and the postcode_info context.                                   *)
(***************************************************************************)
OnePlace ==
  /\ IsInjective(feQueue)
  /\ IsInjective(beQueue)
  /\ Range(feQueue) \cap Range(beQueue) = {}
  /\ feJob \notin Range(feQueue) \cup Range(beQueue)
  /\ \A t \in BackendThreads :
       be[t] # Idle =>
         /\ be[t] \notin Range(feQueue) \cup Range(beQueue) \cup {feJob}
         /\ \A u \in BackendThreads : be[u] = be[t] => u = t

(* The one poll is in the alarm clock, in the frontend queue or running.   *)
OnePoll == alarm # "off" => Poll \notin Range(feQueue) \cup {feJob}

(***************************************************************************)
(* in_processing.bitmap has a metric's bit exactly while one of its jobs   *)
(* is somewhere in the pools, whatever fails on the way: a bit left behind *)
(* would end the polling of its metric for good, a bit lost would start a  *)
(* second request next to the first.                                       *)
(***************************************************************************)
BitmapExact ==
  /\ inProcessing = Outstanding \cap Requests
  /\ feBitmap \cap inProcessing = {}

(***************************************************************************)
(* smart_devices and SMARTinfo_freelist have no lock: the scan that fills  *)
(* the first from the second and the job that empties it never run at the  *)
(* same time, and no two scans do.                                         *)
(***************************************************************************)
HddListExclusive ==
  /\ feJob = HDDTR => HDDTR \notin Range(be)
  /\ \A t, u \in BackendThreads : be[t] = HDDTR /\ be[u] = HDDTR => t = u

(* A scan appends to the list, which is empty by then: disks keep their    *)
(* positions, and the nodes never outnumber the disks.                     *)
HddListFresh ==
  /\ HDDTR \in Range(beQueue) \cup Range(be) => hddList = 0
  /\ hddList + hddFree <= MaxDisks

(***************************************************************************)
(* No thread ever waits in thread_pool_add_request for a full queue.  The  *)
(* frontend waiting for the backend queue while every backend thread waits *)
(* for the frontend queue would be a deadlock, and signal_handler would    *)
(* wait inside a signal handler.                                           *)
(***************************************************************************)
NoBlockedAdd ==
  /\ alarm = "handler" \/ (\E t \in BackendThreads : be[t] # Idle)
       => Len(feQueue) < FrontendQueueLen
  /\ mainPc = "postcode" \/ feJob = Postcode \/ feBitmap # {}
       => Len(beQueue) < BackendQueueLen

(* The tokens with a job that is for the frontend thread. *)
Reporting == Range(feQueue) \cup {feJob}

(***************************************************************************)
(* The phase of a metric's cycle, from the bitmap and the place of its     *)
(* token; the pools implement RefreshCycle.                                *)
(***************************************************************************)
phase ==
  [r \in Enabled |-> IF r \notin inProcessing THEN "idle"
                     ELSE IF r \in Reporting THEN "reporting" ELSE "sampling"]

Refresh == INSTANCE RefreshCycle WITH Metrics <- Enabled

(* The jobs the pools pass around are, metric by metric, cycles of one     *)
(* sample and one report of it.                                            *)
RefreshSpec == Refresh!Spec

(***************************************************************************)
(* Every enabled metric is published again and again for as long as the    *)
(* daemon is not told to stop, whichever sensor fails or hangs.            *)
(***************************************************************************)
EachPublishedForever ==
  \A r \in Enabled : []<>(feJob = r \/ terminated)

(* Failing reads and transfers delay a metric, they do not keep it away    *)
(* from the panel.                                                         *)
EachShown == \A r \in Enabled : <>(r \in shown \/ terminated)

(* The panel is told that the daemon runs, after however many retries.     *)
PostcodeShown == <>(postcodeStored \/ terminated)

(***************************************************************************)
(* A sensor that never answers takes the daemon down: the main thread goes *)
(* into cleanup.  That cleanup then comes to its end, unless a thread was  *)
(* cancelled with a mutex locked, is Shutdown's CleanupEnds.               *)
(***************************************************************************)
HangStopsDaemon == hung # {} ~> ~Uncancelled
=============================================================================
