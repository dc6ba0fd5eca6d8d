--------------------------- MODULE ShutdownProofs ---------------------------
(***************************************************************************)
(* For every number of backend threads, alarms and jobs: the types, and    *)
(* that no thread uses what cleanup has destroyed.                         *)
(***************************************************************************)
EXTENDS Shutdown, TLAPS

Threads == Runners \cup {Main, Handler}

Adding == {"off", "submit", "submitting", "add", "adding"}
Watching == {"sleeping", "locked", "guarded", "waiting", "unlocking",
             "cancelled", "dead"}

(* Main and its handler are in add_request, the runner only in its loop.   *)
Places ==
  /\ pc[Main] \in Adding /\ pc[Handler] \in Adding
  /\ pc[Runner] \in Watching
  /\ pc[Main] # "off" => mainPc = "sigwait"

(* Who may hold which mutex.                                               *)
Holding ==
  /\ \A m \in Objects : owner[m] = Main =>
       \/ m = "watchdog" /\ pc[Main] = "submitting"
       \/ m = "backend" /\ pc[Main] = "adding"
  /\ \A m \in Objects : owner[m] = Handler => m # "backend"
  /\ \A m \in Objects : owner[m] = Runner => m = "watchdog"

BackendRuns == {"sigwait", "joining frontend", "frontend joined",
                "joining backend"}
BothPools == BackendRuns \cup {"backend joined"}
LastPoolGone == {"frontend destroyed", "joining watchdog", "watchdog joined"}

(* What has been joined and destroyed at each point of cleanup.            *)
Teardown ==
  /\ mainPc \in BothPools \cup LastPoolGone
       \cup {"backend destroyed", "one pool left", "pools destroyed", "exited",
             "crashed"}
  /\ mainPc \in BothPools => freed = {}
  /\ mainPc \in BothPools \cup {"backend destroyed"} => refcount = 2
  /\ mainPc \in {"frontend joined", "joining backend"} =>
       pc[FrontendThread] = "dead"
  /\ mainPc \notin BackendRuns => \A t \in PoolThreads : pc[t] = "dead"
  /\ mainPc \in {"backend destroyed", "one pool left"} => freed = {"backend"}
  /\ mainPc \in {"one pool left", "frontend destroyed"} => refcount = 1
  /\ mainPc \in LastPoolGone => freed = {"backend", "frontend"}
  /\ mainPc = "watchdog joined" => pc[Runner] = "dead"
  /\ "watchdog" \in freed => "frontend" \in freed /\ pc[Runner] = "dead"

IInv == TypeOK /\ Places /\ Holding /\ Teardown

-----------------------------------------------------------------------------

(* The threads that are not of the backend are five different ones.        *)
LEMMA Distinct ==
  /\ FrontendThread # Runner /\ FrontendThread # Main
  /\ FrontendThread # Handler /\ FrontendThread # None
  /\ Runner # Main /\ Runner # Handler /\ Runner # None
  /\ Main # Handler /\ Main # None /\ Handler # None
  /\ \A t \in BackendThreads :
       /\ t # FrontendThread /\ t # Runner /\ t # Main /\ t # Handler
       /\ t # None
<1> DEFINE single == <<FrontendThread, Runner, Main, Handler, None>>
<1>1. \A i, j \in 1 .. 5 : single[i] = single[j] => i = j
  BY ThreadsAssumption
<1>2. single[1] = FrontendThread /\ single[2] = Runner /\ single[3] = Main
      /\ single[4] = Handler /\ single[5] = None
  OBVIOUS
<1>3. \A i, j \in 1 .. 5 : i # j => single[i] # single[j]
  BY <1>1
<1>4. \A t \in BackendThreads : t \notin {FrontendThread, Runner, Main, Handler, None}
  BY ThreadsAssumption
<1> QED
  <2> HIDE DEF single
  <2>1. single[1] # single[2] /\ single[1] # single[3] /\ single[1] # single[4]
        /\ single[1] # single[5] /\ single[2] # single[3]
        /\ single[2] # single[4] /\ single[2] # single[5]
        /\ single[3] # single[4] /\ single[3] # single[5]
        /\ single[4] # single[5]
    BY <1>3
  <2> QED BY <1>2, <1>4, <2>1

(* Whose mutex a thread takes: its own, the watchdog's, the other pool's.  *)
LEMMA Mutexes ==
  /\ \A t : Own(t) \in Objects /\ Target(t) \in {"frontend", "backend"}
  /\ Own(Runner) = "watchdog" /\ Own(FrontendThread) = "frontend"
  /\ \A t \in BackendThreads : Own(t) = "backend"
  /\ Target(Main) = "backend" /\ Target(Handler) = "frontend"
BY Distinct DEF Own, Target, Objects

(* The invariant holds at the start.                                       *)
LEMMA InitIInv == Init => IInv
<1> SUFFICES ASSUME Init PROVE IInv
  OBVIOUS
<1> USE Distinct
<1>1. PICK main \in {"off", "submit"} : pc = Starting(main)
  BY DEF Init
<1>2. /\ pc \in [Threads -> {"lock", "sleeping", "off", "submit"}]
      /\ pc[Runner] = "sleeping" /\ pc[Handler] = "off" /\ pc[Main] = main
  BY <1>1 DEF Starting, Threads, Runners, PoolThreads
<1>3. TypeOK
  BY <1>2 DEF Init, TypeOK, Threads, Objects
<1>4. Places
  BY <1>2 DEF Init, Places, Adding, Watching
<1>5. Holding
  BY DEF Init, Holding
<1>6. Teardown
  BY DEF Init, Teardown, BothPools, BackendRuns, LastPoolGone
<1> QED BY <1>3, <1>4, <1>5, <1>6 DEF IInv

-----------------------------------------------------------------------------

(* What any step of a runner leaves alone, and what it may take.           *)
StepOf(t) ==
  /\ pc[t] # "dead"
  /\ pc' = [pc EXCEPT ![t] = pc'[t]]
  /\ \A m \in Objects : owner'[m] = owner[m] \/ owner'[m] \in {t, None}
  /\ t = Runner =>
       /\ pc'[t] \in Watching
       /\ \A m \in Objects : owner'[m] = t => owner[m] = t \/ m = "watchdog"
  /\ UNCHANGED <<mainPc, freed, refcount>>

(* Every runner runs in such steps, and keeps to the types.                *)
LEMMA RunnersStep ==
  ASSUME IInv, NEW t \in Runners,
         Run(t) \/ Die(t) \/ (t = Runner /\ Running(t) /\ WatchdogExpires)
  PROVE  TypeOK' /\ StepOf(t)
<1> USE DEF Runners, Objects
<1>a. TypeOK /\ pc[Runner] \in Watching /\ pc[t] # "dead" /\ t \in Threads
  BY DEF IInv, Places, Run, Die, Running, Threads
<1>b. t \in PoolThreads \/ t = Runner
  OBVIOUS
<1>c. Own(t) \in Objects /\ Target(t) \in {"frontend", "backend"}
      /\ Own(Runner) = "watchdog"
  BY Mutexes
<1>d. t # Runner => t \in PoolThreads
  OBVIOUS
<1>e. Runner # FrontendThread /\ Runner \notin PoolThreads
  BY Distinct DEF PoolThreads
<1>1. CASE TakeJob(t) /\ t # Runner
  BY <1>1, <1>a, <1>c
     DEF TakeJob, Lock, Unlock, At, JobStart, shared, teardown, bounds, TypeOK,
         StepOf, Threads
<1>2. CASE t = FrontendThread /\ RunFrontendJob
  BY <1>2, <1>a, <1>c, <1>e
     DEF RunFrontendJob, At, shared, teardown, TypeOK, StepOf, Threads
<1>3. CASE t # Runner /\
             AddRequest(t, IF t = FrontendThread THEN "running" ELSE "clear")
  BY <1>3, <1>a, <1>c
     DEF AddRequest, SubmitLock, SubmitUnlock, AddLock, AddUnlock, Lock, Unlock,
         At, teardown, bounds, TypeOK, StepOf, Threads
<1>4. CASE t # Runner /\ ClearDeadline(t)
  BY <1>4, <1>a
     DEF ClearDeadline, Lock, Unlock, At, teardown, bounds, TypeOK, StepOf, Threads
<1>5. CASE t = Runner /\ WatchdogRunner
  BY <1>5, <1>a
     DEF WatchdogRunner, Lock, Unlock, At, teardown, bounds, TypeOK, StepOf,
         Threads, Watching
<1>6. CASE DieHere(t)
  BY <1>6, <1>a, <1>c
     DEF DieHere, Held, teardown, bounds, TypeOK, StepOf, Threads, Watching
<1>7. CASE DieWaiting(t)
  BY <1>7, <1>a, <1>c
     DEF DieWaiting, At, teardown, bounds, TypeOK, StepOf, Threads, Watching
<1>8. CASE t = Runner /\ WatchdogExpires
  BY <1>8, <1>a
     DEF WatchdogExpires, At, shared, teardown, bounds, TypeOK, StepOf, Threads,
         Watching
<1> QED
  BY <1>1, <1>2, <1>3, <1>4, <1>5, <1>6, <1>7, <1>8, <1>d DEF Run, Die, PoolRunner

(* Such a step keeps the invariant: a dead thread takes none.              *)
LEMMA StepKeepsIInv ==
  ASSUME IInv, NEW t \in Runners, TypeOK', StepOf(t)
  PROVE  IInv'
<1>1. /\ \A u \in Threads : u # t => pc'[u] = pc[u]
      /\ \A u \in Threads : pc[u] = "dead" => pc'[u] = "dead"
      /\ Main # t /\ Handler # t
  BY Distinct DEF IInv, TypeOK, StepOf, Threads, Runners, PoolThreads
<1>2. Places'
  BY <1>1 DEF IInv, Places, StepOf, Threads, Runners
<1>3. Holding'
  <2>1. \A m \in Objects : owner'[m] \in {Main, Handler} => owner'[m] = owner[m]
    BY <1>1, Distinct DEF StepOf
  <2>2. \A m \in Objects : owner'[m] = Runner => owner[m] = Runner \/ m = "watchdog"
    BY Distinct DEF StepOf
  <2> QED BY <2>1, <2>2, <1>1 DEF IInv, Holding, Threads
<1>4. Teardown'
  BY <1>1 DEF IInv, Teardown, StepOf, Threads, Runners, PoolThreads
<1> QED BY <1>2, <1>3, <1>4 DEF IInv

(* The main thread in add_request, before cleanup can begin.               *)
LEMMA MainStartupKeepsIInv == ASSUME IInv, MainStartup PROVE IInv'
<1> USE Distinct
<1>a. TypeOK /\ Main \in Threads /\ Target(Main) = "backend"
  BY Mutexes DEF IInv, Threads
<1>b. pc[Main] # "off" /\ mainPc = "sigwait" /\ UNCHANGED <<mainPc, freed, refcount>>
  BY DEF IInv, Places, MainStartup, AddRequest, SubmitLock, SubmitUnlock, AddLock,
         AddUnlock, Lock, Unlock, At, teardown
<1>1. TypeOK'
  BY <1>a DEF MainStartup, AddRequest, SubmitLock, SubmitUnlock, AddLock,
              AddUnlock, Lock, Unlock, At, teardown, bounds, TypeOK, Threads, Objects
<1>2. /\ pc'[Main] \in Adding
      /\ \A u \in Threads : u # Main => pc'[u] = pc[u]
  BY <1>a DEF MainStartup, AddRequest, SubmitLock, SubmitUnlock, AddLock,
              AddUnlock, Lock, Unlock, At, TypeOK, Threads, Adding
<1>3. \A m \in Objects : owner'[m] \in {Handler, Runner} => owner'[m] = owner[m]
  BY <1>a DEF MainStartup, AddRequest, SubmitLock, SubmitUnlock, AddLock,
              AddUnlock, Lock, Unlock, TypeOK, Objects
<1>4. \A m \in Objects : owner'[m] = Main =>
        \/ m = "watchdog" /\ pc'[Main] = "submitting"
        \/ m = "backend" /\ pc'[Main] = "adding"
  BY <1>a DEF IInv, Holding, MainStartup, AddRequest, SubmitLock, SubmitUnlock,
              AddLock, AddUnlock, Lock, Unlock, At, TypeOK, Threads, Objects
<1>5. Places'
  BY <1>b, <1>2 DEF IInv, Places, Threads, Runners
<1>6. Holding'
  BY <1>3, <1>4 DEF IInv, Holding
<1>7. Teardown'
  BY <1>b, <1>2 DEF IInv, Teardown, Threads, Runners, PoolThreads, BothPools,
                    BackendRuns, LastPoolGone
<1> QED BY <1>1, <1>5, <1>6, <1>7 DEF IInv

(* The SIGALRM handler takes the watchdog's and the frontend's mutex.      *)
LEMMA HandlerKeepsIInv ==
  ASSUME IInv, AlarmExpires \/ signal_handler
  PROVE  IInv'
<1> USE Distinct
<1>a. TypeOK /\ Handler \in Threads /\ Target(Handler) = "frontend"
  BY Mutexes DEF IInv, Threads
<1>b. UNCHANGED <<mainPc, freed, refcount>>
  BY DEF AlarmExpires, signal_handler, AddRequest, teardown
<1>1. /\ TypeOK'
      /\ pc'[Handler] \in Adding
      /\ \A u \in Threads : u # Handler => pc'[u] = pc[u]
      /\ \A m \in Objects :
           /\ owner'[m] \in {Main, Runner} => owner'[m] = owner[m]
           /\ owner'[m] = Handler => owner[m] = Handler \/ m # "backend"
  <2>1. CASE AlarmExpires
    BY <2>1, <1>a DEF AlarmExpires, At, shared, teardown, TypeOK, Threads, Adding
  <2>2. CASE signal_handler
    BY <2>2, <1>a DEF signal_handler, AddRequest, SubmitLock, SubmitUnlock,
                      AddLock, AddUnlock, Lock, Unlock, At, teardown, bounds,
                      TypeOK, Threads, Adding, Objects
  <2> QED BY <2>1, <2>2
<1>2. Places'
  BY <1>b, <1>1 DEF IInv, Places, Threads, Runners
<1>3. Holding'
  BY <1>1 DEF IInv, Holding, Threads
<1>4. Teardown'
  BY <1>b, <1>1 DEF IInv, Teardown, Threads, Runners, PoolThreads
<1> QED BY <1>1, <1>2, <1>3, <1>4 DEF IInv

(* The handler crashes only after something has been destroyed.            *)
LEMMA CrashKeepsIInv == ASSUME IInv, HandlerCrashes PROVE IInv'
<1>1. pc[Main] = "off" /\ mainPc \notin BothPools
  BY DEF IInv, Places, Teardown, HandlerCrashes, BothPools, BackendRuns
<1>2. TypeOK' /\ Holding'
  BY DEF IInv, TypeOK, Holding, HandlerCrashes, shared
<1>3. Places'
  BY <1>1 DEF IInv, Places, HandlerCrashes
<1>4. Teardown'
  BY <1>1 DEF IInv, Teardown, HandlerCrashes, BothPools, BackendRuns, LastPoolGone
<1> QED BY <1>2, <1>3, <1>4 DEF IInv

(* The watchdog is destroyed with the second pool, not with the first.     *)
LEMMA WatchdogWithLastPool ==
  ASSUME NEW here, NEW next, thread_pool_watchdog_cleanup(here, next)
  PROVE  /\ mainPc = here /\ freed' = freed
         /\ refcount = 2 =>
              mainPc' = next /\ refcount' = 1 /\ cancelled' = cancelled
         /\ refcount = 1 =>
              /\ mainPc' = "joining watchdog" /\ refcount' = 0
              /\ cancelled' = cancelled \cup {Runner}
<1>1. mainPc = here /\ freed' = freed /\ refcount' = refcount - 1
  BY DEF thread_pool_watchdog_cleanup, MainAt
<1>2. (refcount = 2 => refcount' = 1) /\ (refcount = 1 => refcount' = 0)
  BY <1>1
<1>3. LastPool =>
        mainPc' = "joining watchdog" /\ cancelled' = cancelled \cup {Runner}
  BY DEF thread_pool_watchdog_cleanup, MainAt
<1>4. ~LastPool => mainPc' = next /\ cancelled' = cancelled
  BY DEF thread_pool_watchdog_cleanup, MainAt
<1>5. (refcount = 1 => LastPool) /\ (refcount = 2 => ~LastPool)
  BY DEF LastPool
<1> QED BY <1>1, <1>2, <1>3, <1>4, <1>5

(* cleanup joins the threads of what it destroys.                          *)
LEMMA CleanupKeepsIInv == ASSUME IInv, cleanup PROVE IInv'
<1>1. pc[Main] = "off" /\ UNCHANGED <<pc, owner, work>>
  BY DEF cleanup, JoinFrontend, DestroyBackend, DestroyFrontend, MainAt,
         Cancel, Join, Free, watchdog_destroy, thread_pool_watchdog_cleanup,
         Exit, shared
<1>2. Places' /\ Holding'
  BY <1>1 DEF IInv, Places, Holding
<1>3. TypeOK' /\ Teardown'
  <2>a. /\ TypeOK /\ Teardown
        /\ mainPc = "backend destroyed" => refcount = 2
        /\ mainPc = "frontend destroyed" => refcount = 1
    BY DEF IInv, Teardown
  <2>b. UNCHANGED <<lost, alarm>>
    BY DEF cleanup
  <2> USE DEF MainAt, Cancel, Join, Free, BothPools, BackendRuns, LastPoolGone,
              TypeOK, Teardown, Objects, Runners, PoolThreads
  <2>1. CASE JoinFrontend
    BY <2>1, <2>a, <2>b, <1>1 DEF JoinFrontend
  <2>2. CASE DestroyBackend
    <3>1. CASE \/ Cancel(BackendThreads, "frontend joined", "joining backend")
               \/ Join(BackendThreads, "joining backend", "backend joined")
      BY <3>1, <2>a, <2>b, <1>1
    <3>2. CASE Free("backend", "backend joined", "backend destroyed")
      BY <3>2, <2>a, <2>b, <1>1
    <3>3. CASE thread_pool_watchdog_cleanup("backend destroyed", "one pool left")
      <4>1. /\ mainPc = "backend destroyed" /\ mainPc' = "one pool left"
            /\ refcount' = 1 /\ UNCHANGED <<freed, cancelled>>
        BY <3>3, <2>a, WatchdogWithLastPool
      <4>2. TypeOK'
        <5>1. refcount' \in 0..2
          <6>1. refcount' = 1
            BY <4>1
          <6> QED BY ONLY <6>1
        <5> QED BY <4>1, <5>1, <2>a, <2>b, <1>1
      <4>3. Teardown'
        BY <4>1, <2>a, <1>1
      <4> QED BY <4>2, <4>3
    <3> QED BY <2>2, <3>1, <3>2, <3>3 DEF DestroyBackend
  <2>3. CASE DestroyFrontend
    <3>1. CASE Free("frontend", "one pool left", "frontend destroyed")
      BY <3>1, <2>a, <2>b, <1>1
    <3>2. CASE thread_pool_watchdog_cleanup("frontend destroyed", "pools destroyed")
      <4>1. /\ mainPc = "frontend destroyed" /\ mainPc' = "joining watchdog"
            /\ refcount' = 0 /\ freed' = freed
            /\ cancelled' = cancelled \cup {Runner}
        BY <3>2, <2>a, WatchdogWithLastPool
      <4>2. TypeOK'
        <5>1. refcount' \in 0..2
          <6>1. refcount' = 0
            BY <4>1
          <6> QED BY ONLY <6>1
        <5> QED BY <4>1, <5>1, <2>a, <2>b, <1>1
      <4>3. Teardown'
        BY <4>1, <2>a, <1>1
      <4> QED BY <4>2, <4>3
    <3> QED BY <2>3, <3>1, <3>2 DEF DestroyFrontend
  <2>4. CASE watchdog_destroy
    BY <2>4, <2>a, <2>b, <1>1 DEF watchdog_destroy
  <2>5. CASE Exit
    BY <2>5, <2>a, <2>b, <1>1 DEF Exit
  <2> QED BY <2>1, <2>2, <2>3, <2>4, <2>5 DEF cleanup
<1> QED BY <1>2, <1>3 DEF IInv

LEMMA NextIInv == IInv /\ [Next]_vars => IInv'
<1> SUFFICES ASSUME IInv, [Next]_vars PROVE IInv'
  OBVIOUS
<1>1. CASE \E t \in Runners : Run(t) \/ Die(t)
  <2>1. PICK t \in Runners : Run(t) \/ Die(t)
    BY <1>1
  <2>2. TypeOK' /\ StepOf(t)
    BY <2>1, RunnersStep
  <2> QED BY <2>2, StepKeepsIInv
<1>2. CASE Running(Runner) /\ WatchdogExpires
  BY <1>2, RunnersStep, StepKeepsIInv DEF Runners
<1>3. CASE AlarmExpires \/ signal_handler
  BY <1>3, HandlerKeepsIInv
<1>4. CASE HandlerCrashes
  BY <1>4, CrashKeepsIInv
<1>5. CASE MainThread
  BY <1>5, MainStartupKeepsIInv, CleanupKeepsIInv DEF MainThread
<1>6. CASE UNCHANGED vars
  BY <1>6 DEF vars, IInv, TypeOK, Places, Holding, Teardown
<1> QED BY <1>1, <1>2, <1>3, <1>4, <1>5, <1>6 DEF Next

-----------------------------------------------------------------------------

THEOREM Invariance == Spec => []IInv
BY InitIInv, NextIInv, PTL DEF Spec

(* Every variable has its type in every reachable state.                   *)
THEOREM TypeCorrect == Spec => []TypeOK
<1>1. IInv => TypeOK
  BY DEF IInv
<1> QED BY <1>1, Invariance, PTL

(***************************************************************************)
(* Nothing that cleanup has destroyed is used by a thread that still runs, *)
(* whatever the number of backend threads, wherever they are cancelled     *)
(* (main.c:158-162, thread-pool.c:134-162).                                *)
(***************************************************************************)
THEOREM DestroyedIsUnused == Spec => []FreedIsUnused
<1>1. IInv => FreedIsUnused
  <2> SUFFICES ASSUME IInv PROVE FreedIsUnused
    OBVIOUS
  <2> USE Distinct, Mutexes
  <2>1. freed # {} => pc[Main] = "off" /\ \A t \in PoolThreads : pc[t] = "dead"
    BY DEF IInv, Places, Teardown, BothPools, BackendRuns
  <2>2. \A t \in PoolThreads : pc[t] # "dead" => Uses(t) \cap freed = {}
    BY <2>1
  <2>3. pc[Runner] # "dead" => Uses(Runner) \cap freed = {}
    <3>1. Uses(Runner) \subseteq {"watchdog"}
      BY DEF IInv, Places, Holding, Watching, Uses
    <3>2. pc[Runner] # "dead" => "watchdog" \notin freed
      BY DEF IInv, Teardown
    <3> QED BY <3>1, <3>2
  <2>4. Uses(Main) \cap freed = {}
    <3>1. pc[Main] = "off" => Uses(Main) = {}
      BY DEF IInv, Holding, Uses
    <3> QED BY <2>1, <3>1
  <2>5. Uses(Handler) \cap freed # {} => "frontend" \in freed
    <3>1. Uses(Handler) \subseteq {"watchdog", "frontend"}
      BY DEF IInv, Places, Holding, Adding, Uses, Objects
    <3> QED BY <3>1 DEF IInv, Teardown
  <2> QED BY <2>2, <2>3, <2>4, <2>5 DEF FreedIsUnused, Runners
<1> QED BY <1>1, Invariance, PTL

=============================================================================
