------------------------------ MODULE Shutdown ------------------------------
(***************************************************************************)
(* How the service daemon stops: cleanup() cancels and joins the threads,  *)
(* destroys both pools and, with the last pool, the watchdog (main.c,      *)
(* thread-pool.c, watchdog.c).                                             *)
(*                                                                         *)
(* The runners are cancelled asynchronously, wherever they are.  A step of *)
(* a thread ends where it takes or leaves a mutex, or pushes or pops its   *)
(* cleanup handler; a cancelled thread may die between any two steps.  If  *)
(* it holds a mutex then, only the cleanup handler unlocks it, and nobody  *)
(* does where no handler is pushed: the mutex is lost.  A thread that      *)
(* waits on a condition variable takes the mutex again before it dies.     *)
(*                                                                         *)
(* The SIGALRM handler runs on top of the main thread, also while that is  *)
(* in FP_store_daemon_postcode or in cleanup.                              *)
(*                                                                         *)
(* Queues are counted; they never fill up (ServiceProofs, NoBlockedAdd).   *)
(* Wake-ups are the subject of ThreadPool: here a waiting thread may go on *)
(* whenever there is work.  MaxAlarms and MaxBackendJobs bound the jobs.    *)
(*                                                                         *)
(* A definition whose name ends in an underscore and a remark is a mutated *)
(* form of the one that follows it; nothing uses it.                       *)
(***************************************************************************)
EXTENDS Naturals, FiniteSets

CONSTANTS
  FrontendThread,   \* the one thread of the frontend pool
  BackendThreads,   \* the threads of the backend pool
  Runner,           \* the watchdog's thread
  Main, Handler,    \* the main thread, and the SIGALRM handler on top of it
  None,
  MaxAlarms,        \* bound on the SIGALRMs of a behaviour
  MaxBackendJobs     \* bound on the jobs added to the backend

ASSUME ThreadsAssumption ==
  /\ IsFiniteSet(BackendThreads)
  /\ LET single == <<FrontendThread, Runner, Main, Handler, None>>
     IN  \A i, j \in 1 .. 5 : single[i] = single[j] => i = j
  /\ BackendThreads \cap {FrontendThread, Runner, Main, Handler, None} = {}
  /\ MaxAlarms \in Nat /\ MaxBackendJobs \in Nat

PoolThreads == BackendThreads \cup {FrontendThread}
Runners == PoolThreads \cup {Runner}

(* What a thread takes, waits for and uses; each has a mutex. *)
Objects == {"frontend", "backend", "watchdog"}

Own(t) == IF t = FrontendThread THEN "frontend"
          ELSE IF t \in BackendThreads THEN "backend" ELSE "watchdog"

(* The pool a job of a thread adds to. *)
Target(t) == IF t \in BackendThreads \cup {Handler} THEN "frontend" ELSE "backend"

VARIABLES
  pc,         \* where each thread is; Main: within add_request only
  mainPc,     \* where the main thread is in main() and cleanup()
  owner,      \* who holds each mutex
  work,       \* jobs in each pool's queue
  cancelled,  \* threads that pthread_cancel was called for
  lost,       \* mutexes whose holder died without a cleanup handler
  freed,      \* objects that have been destroyed
  refcount,   \* watchdog_refcount
  alarm,      \* is the alarm clock running
  alarms, backendJobs

bounds == <<alarms, backendJobs>>
shared == <<owner, work>>
teardown == <<mainPc, cancelled, freed, refcount>>
vars == <<pc, mainPc, owner, work, cancelled, lost, freed, refcount, alarm,
          alarms, backendJobs>>

Starting(main) ==
  [t \in Runners \cup {Main, Handler} |->
     CASE t \in PoolThreads -> "lock"
       [] t = Runner -> "sleeping"
       [] t = Main -> main
       [] t = Handler -> "off"]

(* Either the main thread is about to store the postcode, or it has been   *)
(* waiting for SIGTERM since that was done.                                *)
Init ==
  /\ \/ pc = Starting("submit") /\ backendJobs = 1
     \/ pc = Starting("off") /\ backendJobs = 0
  /\ mainPc = "sigwait"
  /\ owner = [m \in Objects |-> None]
  /\ work = [p \in {"frontend", "backend"} |-> 0]
  /\ cancelled = {} /\ lost = {} /\ freed = {}
  /\ refcount = 2
  /\ alarm = TRUE
  /\ alarms = 0

-----------------------------------------------------------------------------
(* What threads are made of.                                               *)

At(t, here, next) == pc[t] = here /\ pc' = [pc EXCEPT ![t] = next]

Lock(t, m, here, next) ==
  /\ At(t, here, next)
  /\ m \notin freed
  /\ owner[m] = None
  /\ owner' = [owner EXCEPT ![m] = t]

Unlock(t, m, here, next) ==
  /\ At(t, here, next)
  /\ owner' = [owner EXCEPT ![m] = None]

(***************************************************************************)
(* thread_pool_add_request: a deadline is submitted under the watchdog's   *)
(* mutex, then the job is pushed under the pool's.                         *)
(***************************************************************************)
SubmitLock(t) == Lock(t, "watchdog", "submit", "submitting") /\ UNCHANGED work
SubmitUnlock(t) == Unlock(t, "watchdog", "submitting", "add") /\ UNCHANGED work
AddLock(t) == Lock(t, Target(t), "add", "adding") /\ UNCHANGED work
AddUnlock(t, next) ==
  /\ Unlock(t, Target(t), "adding", next)
  /\ work' = [work EXCEPT ![Target(t)] = @ + 1]

AddRequest(t, next) ==
  /\ SubmitLock(t) \/ SubmitUnlock(t) \/ AddLock(t) \/ AddUnlock(t, next)
  /\ UNCHANGED <<teardown, lost, alarm, bounds>>

-----------------------------------------------------------------------------
(* A runner of a pool.                                                     *)

(***************************************************************************)
(* What a job does first that matters here: every get_* job of the backend *)
(* only reads sensors before it adds a job to the frontend.                *)
(***************************************************************************)
JobStart(t) == IF t = FrontendThread THEN "running" ELSE "submit"

(***************************************************************************)
(* Take a job: lock, push the cleanup handler, wait while the queue is     *)
(* empty, pop, and unlock by popping the handler.                          *)
(***************************************************************************)
TakeJob(t) ==
  LET p == Own(t) IN
  /\ \/ Lock(t, p, "lock", "locked") /\ UNCHANGED work
     \/ At(t, "locked", "guarded") /\ UNCHANGED shared
     \/ work[p] = 0 /\ Unlock(t, p, "guarded", "waiting") /\ UNCHANGED work
     \/ /\ work[p] > 0 /\ t \notin cancelled
        /\ Lock(t, p, "waiting", "guarded")
        /\ UNCHANGED work
     \/ /\ work[p] > 0
        /\ At(t, "guarded", "unlocking")
        /\ work' = [work EXCEPT ![p] = @ - 1]
        /\ UNCHANGED owner
     \/ Unlock(t, p, "unlocking", JobStart(t)) /\ UNCHANGED work
  /\ UNCHANGED <<teardown, lost, alarm, bounds>>

(***************************************************************************)
(* A set_* job adds nothing, main_thread adds one job per request and sets *)
(* the alarm at its end.                                                   *)
(***************************************************************************)
RunFrontendJob ==
  /\ \/ At(FrontendThread, "running", "clear") /\ UNCHANGED <<alarm, backendJobs>>
     \/ /\ At(FrontendThread, "running", "submit")
        /\ backendJobs < MaxBackendJobs
        /\ backendJobs' = backendJobs + 1
        /\ UNCHANGED alarm
     \/ /\ At(FrontendThread, "running", "clear")
        /\ alarm' = TRUE
        /\ UNCHANGED backendJobs
  /\ UNCHANGED <<shared, teardown, lost, alarms>>

ClearDeadline_keepsMutex(t) ==
  /\ \/ Lock(t, "watchdog", "clear", "clearing")
     \/ At(t, "clearing", "lock") /\ UNCHANGED owner
  /\ UNCHANGED <<work, teardown, lost, alarm, bounds>>

(* watchdog_clear_deadline after the job. *)
ClearDeadline(t) ==
  /\ \/ Lock(t, "watchdog", "clear", "clearing")
     \/ Unlock(t, "watchdog", "clearing", "lock")
  /\ UNCHANGED <<work, teardown, lost, alarm, bounds>>

(* A job of the frontend may add several jobs, one of the backend adds one. *)
PoolRunner(t) ==
  \/ TakeJob(t)
  \/ t = FrontendThread /\ RunFrontendJob
  \/ AddRequest(t, IF t = FrontendThread THEN "running" ELSE "clear")
  \/ ClearDeadline(t)

(***************************************************************************)
(* The watchdog's runner: it waits while the list is empty, peeks, unlocks *)
(* and decides or sleeps without the mutex.  Whether there is a deadline   *)
(* is left open.                                                           *)
(***************************************************************************)
WatchdogRunner ==
  /\ \/ Runner \notin cancelled /\ Lock(Runner, "watchdog", "sleeping", "locked")
     \/ At(Runner, "locked", "guarded") /\ UNCHANGED owner
     \/ Unlock(Runner, "watchdog", "guarded", "waiting")
     \/ Runner \notin cancelled /\ Lock(Runner, "watchdog", "waiting", "guarded")
     \/ At(Runner, "guarded", "unlocking") /\ UNCHANGED owner
     \/ Unlock(Runner, "watchdog", "unlocking", "sleeping")
  /\ UNCHANGED <<work, teardown, lost, alarm, bounds>>

(* After a timeout the runner has sent SIGTERM and returns. *)
WatchdogExpires ==
  /\ At(Runner, "sleeping", "dead")
  /\ UNCHANGED <<shared, teardown, lost, alarm, bounds>>

-----------------------------------------------------------------------------
(* Cancellation.                                                           *)

Held(t) == {m \in Objects : owner[m] = t}

(* pthread_cleanup_push has put the unlocking of its own mutex in place. *)
HandlerPushed_never(t) == FALSE
HandlerPushed(t) == pc[t] \in {"guarded", "waiting", "cancelled"}

(* A thread that is not in a condition wait dies where it is. *)
DieHere(t) ==
  /\ t \in cancelled
  /\ pc[t] \notin {"waiting", "cancelled", "dead"}
  /\ pc' = [pc EXCEPT ![t] = "dead"]
  /\ IF HandlerPushed(t)
     THEN /\ owner' = [owner EXCEPT ![Own(t)] = None]
          /\ UNCHANGED lost
     ELSE /\ lost' = lost \cup Held(t)
          /\ UNCHANGED owner
  /\ UNCHANGED <<work, teardown, alarm, bounds>>

(* A condition wait that is cancelled takes its mutex, then the cleanup     *)
(* handler unlocks it.                                                      *)
DieWaiting(t) ==
  /\ t \in cancelled
  /\ \/ At(t, "waiting", "cancelled") /\ UNCHANGED owner
     \/ /\ At(t, "cancelled", "dead")
        /\ owner[Own(t)] = None
        /\ owner' = IF HandlerPushed(t) THEN owner
                    ELSE [owner EXCEPT ![Own(t)] = t]
  /\ UNCHANGED <<work, teardown, lost, alarm, bounds>>

-----------------------------------------------------------------------------
(* The main thread, and the handler that runs on top of it.                *)

(* FP_store_daemon_postcode adds a job; then main waits for SIGTERM.       *)
MainStartup ==
  /\ pc[Handler] = "off"
  /\ AddRequest(Main, "off")

AlarmExpires ==
  /\ alarm
  /\ alarms < MaxAlarms
  /\ mainPc # "exited"
  /\ At(Handler, "off", "submit")
  /\ alarm' = FALSE
  /\ alarms' = alarms + 1
  /\ UNCHANGED <<shared, teardown, lost, backendJobs>>

signal_handler == mainPc # "crashed" /\ AddRequest(Handler, "off")

(* The handler uses a freed pool, or the watchdog, whose pointer is null. *)
HandlerCrashes ==
  /\ \/ pc[Handler] = "submit" /\ "watchdog" \in freed
     \/ pc[Handler] = "add" /\ "frontend" \in freed
  /\ mainPc' = "crashed"
  /\ UNCHANGED <<pc, shared, cancelled, lost, freed, refcount, alarm, bounds>>

MainAt(here, next) ==
  /\ pc[Main] = "off" /\ pc[Handler] = "off"
  /\ mainPc = here
  /\ mainPc' = next

(* thread_pool_join cancels every thread of the pool, then joins them. *)
Cancel(threads, here, next) ==
  /\ MainAt(here, next)
  /\ cancelled' = cancelled \cup threads
  /\ UNCHANGED <<freed, refcount>>

Join(threads, here, next) ==
  /\ MainAt(here, next)
  /\ \A t \in threads : pc[t] = "dead"
  /\ UNCHANGED <<cancelled, freed, refcount>>

Free(object, here, next) ==
  /\ MainAt(here, next)
  /\ freed' = freed \cup {object}
  /\ UNCHANGED <<cancelled, refcount>>

(***************************************************************************)
(* thread_pool_watchdog_cleanup destroys the watchdog with the last pool.  *)
(***************************************************************************)
LastPool == refcount = 1

thread_pool_watchdog_cleanup(here, next) ==
  /\ MainAt(here, IF LastPool THEN "joining watchdog" ELSE next)
  /\ refcount' = refcount - 1
  /\ cancelled' = IF LastPool THEN cancelled \cup {Runner} ELSE cancelled
  /\ UNCHANGED freed

watchdog_destroy ==
  /\ Join({Runner}, "joining watchdog", "watchdog joined")
  \/ Free("watchdog", "watchdog joined",
          IF "frontend" \in freed THEN "pools destroyed" ELSE "one pool left")

(* The frontend, which adds to the backend, goes first. *)
JoinFrontend_skipped ==
  MainAt("sigwait", "frontend joined") /\ UNCHANGED <<cancelled, freed, refcount>>
JoinFrontend ==
  \/ Cancel({FrontendThread}, "sigwait", "joining frontend")
  \/ Join({FrontendThread}, "joining frontend", "frontend joined")

DestroyBackend ==
  \/ Cancel(BackendThreads, "frontend joined", "joining backend")
  \/ Join(BackendThreads, "joining backend", "backend joined")
  \/ Free("backend", "backend joined", "backend destroyed")
  \/ thread_pool_watchdog_cleanup("backend destroyed", "one pool left")

DestroyFrontend ==
  \/ Free("frontend", "one pool left", "frontend destroyed")
  \/ thread_pool_watchdog_cleanup("frontend destroyed", "pools destroyed")

Exit == MainAt("pools destroyed", "exited")
        /\ UNCHANGED <<cancelled, freed, refcount>>

cleanup ==
  /\ JoinFrontend \/ DestroyBackend \/ DestroyFrontend \/ watchdog_destroy \/ Exit
  /\ UNCHANGED <<pc, shared, lost, alarm, bounds>>

-----------------------------------------------------------------------------

Running(t) == mainPc \notin {"exited", "crashed"} /\ pc[t] # "dead"

Run(t) == Running(t) /\ IF t = Runner THEN WatchdogRunner ELSE PoolRunner(t)
Die(t) == Running(t) /\ (DieHere(t) \/ DieWaiting(t))
MainThread == MainStartup \/ cleanup

Next ==
  \/ \E t \in Runners : Run(t) \/ Die(t)
  \/ Running(Runner) /\ WatchdogExpires
  \/ AlarmExpires \/ signal_handler \/ HandlerCrashes
  \/ MainThread

Spec == Init /\ [][Next]_vars

(***************************************************************************)
(* The kernel runs every thread that can go on, and lets nobody starve at  *)
(* a mutex that is free again and again: its holders keep it for a few     *)
(* instructions, with seconds in between.  A cancelled thread runs on for  *)
(* a while, but not past sleep() or a condition wait: it dies there.       *)
(* SIGTERM, SIGALRM and the watchdog's timeout need not come.              *)
(***************************************************************************)
FairSpec ==
  /\ Spec
  /\ \A t \in Runners : SF_vars(Run(t) \/ Die(t))
  /\ SF_vars(signal_handler \/ HandlerCrashes)
  /\ WF_vars(MainThread)

-----------------------------------------------------------------------------

TypeOK ==
  /\ pc \in [Runners \cup {Main, Handler} ->
              {"off", "lock", "locked", "guarded", "waiting", "unlocking",
               "running", "submit", "submitting", "add", "adding", "clear",
               "clearing", "sleeping", "cancelled", "dead"}]
  /\ owner \in [Objects -> Runners \cup {Main, Handler, None}]
  /\ work \in [{"frontend", "backend"} -> Nat]
  /\ cancelled \subseteq Runners
  /\ lost \subseteq Objects /\ freed \subseteq Objects
  /\ refcount \in 0..2
  /\ alarm \in BOOLEAN

(* What a thread waits for, holds, or is about to take. *)
Uses(t) ==
  {m \in Objects :
     \/ owner[m] = t
     \/ m = Own(t) /\ pc[t] \in {"lock", "locked", "guarded", "waiting", "unlocking",
                                "cancelled", "running", "clear", "clearing",
                                "sleeping"}
     \/ m = "watchdog" /\ pc[t] \in {"submit", "submitting", "clear", "clearing"}
     \/ m = Target(t) /\ pc[t] \in {"add", "adding"}}

(***************************************************************************)
(* No thread that still runs uses a pool or the watchdog once cleanup has  *)
(* destroyed it, in whatever order the threads are cancelled and die; the  *)
(* SIGALRM handler may, but only when the frontend pool, the last of the   *)
(* two, is gone (main.c:158-162, thread-pool.c:44-53 and 149-162).         *)
(***************************************************************************)
FreedIsUnused ==
  /\ \A t \in Runners \cup {Main} :
       pc[t] # "dead" => Uses(t) \cap freed = {}
  /\ Uses(Handler) \cap freed # {} => "frontend" \in freed

(***************************************************************************)
(* Once cleanup has begun it ends: every cancelled thread dies and is      *)
(* joined.  The ones that may hang it are those that wait for a mutex      *)
(* whose holder was cancelled outside the cleanup handler's range: the     *)
(* watchdog's, the backend's, or the frontend's when SIGALRM comes         *)
(* (thread-pool.c:71-84 and 134-147, watchdog.c:55-66 and 102-107).        *)
(***************************************************************************)
CleanupEnds ==
  mainPc = "joining frontend" ~>
    \/ mainPc \in {"exited", "crashed"}
    \/ lost \cap {"watchdog", "backend"} # {}
    \/ "frontend" \in lost /\ pc[Handler] # "off"

(***************************************************************************)
(* The SIGALRM handler, which takes mutexes on top of the main thread,     *)
(* ends, unless a cancelled thread has taken a mutex with it or the main   *)
(* thread was interrupted in FP_store_daemon_postcode while it held the    *)
(* watchdog's mutex itself (main.c:46, watchdog.c:133-151).                *)
(***************************************************************************)
HandlerEnds ==
  pc[Handler] = "submit" ~>
    \/ pc[Handler] = "off" \/ mainPc = "crashed"
    \/ lost # {}
    \/ owner["watchdog"] = Main

=============================================================================
