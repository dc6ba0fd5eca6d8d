----------------------------- MODULE ThreadPool -----------------------------
(***************************************************************************)
(* The thread pool of thread-pool.c: clients that add jobs, runner threads *)
(* that take and run them, the mutex and the two condition variables       *)
(* between them, and the deadline the watchdog keeps for each job.         *)
(*                                                                         *)
(* What a thread does while it holds the mutex is one step; waiting on a   *)
(* condition gives the mutex up in the same step.  A wait also ends        *)
(* without a signal, as POSIX allows; MaxSpurious bounds how often.  The   *)
(* job queue is the Fifo that Queue implements.  The threads live for      *)
(* ever: cancelling them is a matter of the daemon's shutdown.             *)
(*                                                                         *)
(* A definition whose name ends in an underscore and a remark is a mutated *)
(* form of the one that follows it; nothing uses it.                       *)
(***************************************************************************)
EXTENDS Naturals, Sequences, FiniteSets, Functions

CONSTANTS
  Workers,        \* the threads of the pool
  Clients,        \* threads that call thread_pool_add_request
  JobsPerClient,
  QueueSize,
  Unguarded,      \* jobs the watchdog has no memory to keep a deadline for
  MaxSpurious,    \* bound on wakeups without a signal
  None            \* no thread, no job

Threads == Workers \cup Clients
Jobs == Clients \X (1..JobsPerClient)

ASSUME ThreadsAssumption ==
  /\ IsFiniteSet(Workers) /\ IsFiniteSet(Clients)
  /\ Workers \cap Clients = {}
  /\ None \notin Threads /\ None \notin Jobs

ASSUME SizesAssumption ==
  /\ JobsPerClient \in Nat /\ MaxSpurious \in Nat
  /\ QueueSize \in Nat \ {0}
  /\ Unguarded \subseteq Jobs

VARIABLES
  lock,       \* the thread that holds p->lock
  pc,         \* where each thread is
  queue,      \* p->work_queue
  req,        \* each thread's ThreadPoolRequest, kept until overwritten
  added,      \* how many jobs each client has begun to add
  deadlines,  \* jobs with a deadline on the watchdog's list
  started,    \* every request a runner has called, in order
  finished,   \* jobs whose function has returned
  spurious

vars == <<lock, pc, queue, req, added, deadlines, started, finished, spurious>>

Init ==
  /\ lock = None
  /\ pc = [t \in Threads |-> IF t \in Workers THEN "locking" ELSE "idle"]
  /\ queue = <<>>
  /\ req = [t \in Threads |-> None]
  /\ added = [c \in Clients |-> 0]
  /\ deadlines = {}
  /\ started = <<>> /\ finished = {}
  /\ spurious = 0

-----------------------------------------------------------------------------
(* The mutex and the condition variables.                                  *)

Lock(t) ==
  /\ pc[t] = "locking"
  /\ lock = None
  /\ lock' = t
  /\ pc' = [pc EXCEPT ![t] = "locked"]
  /\ UNCHANGED <<queue, req, added, deadlines, started, finished, spurious>>

(* pthread_cond_wait: the caller must take the lock again when woken. *)
Wait(t) ==
  /\ lock' = None
  /\ pc' = [pc EXCEPT ![t] = "waiting"]
  /\ UNCHANGED <<queue, req, added, deadlines, started, finished, spurious>>

WakeUp(t) ==
  /\ pc[t] = "waiting"
  /\ spurious < MaxSpurious
  /\ spurious' = spurious + 1
  /\ pc' = [pc EXCEPT ![t] = "locking"]
  /\ UNCHANGED <<lock, queue, req, added, deadlines, started, finished>>

Sleeping(threads) == {t \in threads : pc[t] = "waiting"}

(***************************************************************************)
(* A thread leaves its critical section for pc next: it signals the        *)
(* condition the others wait for, which wakes one of them, and unlocks.    *)
(***************************************************************************)
SignalAndUnlock(t, others, next) ==
  /\ lock' = None
  /\ \/ /\ Sleeping(others) = {}
        /\ pc' = [pc EXCEPT ![t] = next]
     \/ \E u \in Sleeping(others) :
          pc' = [pc EXCEPT ![t] = next, ![u] = "locking"]

-----------------------------------------------------------------------------
(* thread_pool_add_request, called by a client.                            *)

(* The deadline is set before the job is in the queue. *)
SubmitDeadline(c) ==
  LET job == <<c, added[c] + 1>> IN
  /\ pc[c] = "idle"
  /\ added[c] < JobsPerClient
  /\ added' = [added EXCEPT ![c] = @ + 1]
  /\ req' = [req EXCEPT ![c] = job]
  /\ deadlines' = deadlines \cup ({job} \ Unguarded)
  /\ pc' = [pc EXCEPT ![c] = "locking"]
  /\ UNCHANGED <<lock, queue, started, finished, spurious>>

AddWaits(c) ==
  /\ lock = c
  /\ Len(queue) >= QueueSize
  /\ Wait(c)

Add_signalIfEmpty(c) ==
  /\ lock = c
  /\ Len(queue) < QueueSize
  /\ queue' = Append(queue, req[c])
  /\ SignalAndUnlock(c, IF queue = <<>> THEN Workers ELSE {}, "idle")
  /\ UNCHANGED <<req, added, deadlines, started, finished, spurious>>

Add(c) ==
  /\ lock = c
  /\ Len(queue) < QueueSize
  /\ queue' = Append(queue, req[c])
  /\ SignalAndUnlock(c, Workers, "idle")
  /\ UNCHANGED <<req, added, deadlines, started, finished, spurious>>

-----------------------------------------------------------------------------
(* thread_pool_runner.                                                     *)

RunnerWaits(w) ==
  /\ lock = w
  /\ queue = <<>>
  /\ Wait(w)

Take_noTest(w) ==
  /\ lock = w
  /\ queue # <<>> \/ req[w] # None
  /\ req' = [req EXCEPT ![w] = IF queue = <<>> THEN @ ELSE Head(queue)]
  /\ queue' = IF queue = <<>> THEN queue ELSE Tail(queue)
  /\ SignalAndUnlock(w, Clients, "running")
  /\ started' = Append(started, req'[w])
  /\ UNCHANGED <<added, deadlines, finished, spurious>>

Take_lastIn(w) ==
  /\ lock = w
  /\ queue # <<>>
  /\ req' = [req EXCEPT ![w] = queue[Len(queue)]]
  /\ queue' = SubSeq(queue, 1, Len(queue) - 1)
  /\ SignalAndUnlock(w, Clients, "running")
  /\ started' = Append(started, req'[w])
  /\ UNCHANGED <<added, deadlines, finished, spurious>>

Take(w) ==
  /\ lock = w
  /\ queue # <<>>
  /\ req' = [req EXCEPT ![w] = Head(queue)]
  /\ queue' = Tail(queue)
  /\ SignalAndUnlock(w, Clients, "running")
  /\ started' = Append(started, req'[w])
  /\ UNCHANGED <<added, deadlines, finished, spurious>>

(* The job's function runs outside the lock. *)
Run(w) ==
  /\ pc[w] = "running"
  /\ finished' = finished \cup {req[w]}
  /\ pc' = [pc EXCEPT ![w] = "clearing"]
  /\ UNCHANGED <<lock, queue, req, added, deadlines, started, spurious>>

ClearDeadline_forgotten(w) ==
  /\ pc[w] = "clearing"
  /\ pc' = [pc EXCEPT ![w] = "locking"]
  /\ UNCHANGED <<lock, queue, req, added, deadlines, started, finished, spurious>>

ClearDeadline(w) ==
  /\ pc[w] = "clearing"
  /\ deadlines' = deadlines \ {req[w]}
  /\ pc' = [pc EXCEPT ![w] = "locking"]
  /\ UNCHANGED <<lock, queue, req, added, started, finished, spurious>>

-----------------------------------------------------------------------------

Client(c) == Lock(c) \/ SubmitDeadline(c) \/ AddWaits(c) \/ Add(c)
Worker(w) == Lock(w) \/ RunnerWaits(w) \/ Take(w) \/ Run(w) \/ ClearDeadline(w)

(* Nothing is left to do: the clients have ended and the runners wait. *)
Resting ==
  /\ \A c \in Clients : pc[c] = "idle" /\ added[c] = JobsPerClient
  /\ queue = <<>>
  /\ \A w \in Workers : pc[w] = "waiting"
  /\ UNCHANGED vars

Next ==
  \/ \E c \in Clients : Client(c)
  \/ \E w \in Workers : Worker(w)
  \/ \E t \in Threads : WakeUp(t)
  \/ Resting

Spec == Init /\ [][Next]_vars

(* Every thread that can go on does so; nobody has to wake up unsignalled. *)
FairSpec ==
  /\ Spec
  /\ \A c \in Clients : WF_vars(Client(c))
  /\ \A w \in Workers : WF_vars(Worker(w))

-----------------------------------------------------------------------------
(* What makes the pool correct.                                            *)

(* The variables keep to their values; the lock's holder is where it says. *)
TypeOK ==
  /\ lock \in Threads \cup {None}
  /\ pc \in [Threads -> {"idle", "locking", "locked", "waiting", "running",
                         "clearing"}]
  /\ \A t \in Threads : pc[t] = "locked" <=> lock = t
  /\ queue \in Seq(Jobs) /\ Len(queue) <= QueueSize
  /\ req \in [Threads -> Jobs \cup {None}]
  /\ added \in [Clients -> 0..JobsPerClient]
  /\ deadlines \subseteq Jobs
  /\ started \in Seq(Jobs)
  /\ finished \subseteq Jobs
  /\ spurious \in 0..MaxSpurious

(* A thread on its way to look at the queue. *)
Awake(threads) == {t \in threads : pc[t] \in {"locking", "locked"}}

(***************************************************************************)
(* One signal per job and per free slot is enough: while a runner sleeps,  *)
(* there are as many runners on their way as jobs in the queue, and while  *)
(* a client sleeps, as many clients on their way as free slots.            *)
(***************************************************************************)
NobodyOversleeps ==
  /\ Sleeping(Workers) # {} => Len(queue) <= Cardinality(Awake(Workers))
  /\ Sleeping(Clients) # {} =>
       QueueSize - Len(queue) <= Cardinality(Awake(Clients))

(* A request is called once only, although a runner's req outlives it.     *)
CalledOnce == IsInjective(started \o queue)

(* The client's req is a job it is adding, the runner's one it is running. *)
Adding == {req[c] : c \in {c \in Clients : pc[c] # "idle"}}
Running == {req[w] : w \in {w \in Workers : pc[w] = "running"}}
Clearing == {req[w] : w \in {w \in Workers : pc[w] = "clearing"}}

(***************************************************************************)
(* The watchdog watches a job from the call that adds it until its         *)
(* function has returned, on all of the way through the pool, and not      *)
(* longer: a deadline left behind would take the daemon down.              *)
(***************************************************************************)
DeadlinesExact ==
  deadlines = (Adding \cup Range(queue) \cup Running \cup Clearing) \ Unguarded

Pool == INSTANCE JobPool
          WITH Job <- Jobs, Threads <- Workers, Room <- QueueSize,
               waiting <- queue, running <- Running

(* The pool implements JobPool, with its fairness: order, exactly one call *)
(* and no job forgotten in the queue.                                      *)
PoolSpec == Pool!Spec
=============================================================================
