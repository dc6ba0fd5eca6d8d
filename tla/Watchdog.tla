------------------------------ MODULE Watchdog ------------------------------
(***************************************************************************)
(* The watchdog of watchdog.c, with the doubly linked lists of dlist.c as  *)
(* sequences: jobs put a deadline on the list before they start and take   *)
(* it off when they end; the runner sleeps until the earliest deadline and *)
(* sends SIGTERM to the daemon when that has passed.                       *)
(*                                                                         *)
(* Time is counted down: a deadline is the number of seconds until         *)
(* time(NULL) reaches it, a sleep the number of seconds it still lasts.    *)
(* Overdue deadlines are counted down to -MaxLate.  What a thread does     *)
(* while it holds the lock is one step; the clock may tick between any two *)
(* steps, unless the machine is prompt: its threads take no time.          *)
(*                                                                         *)
(* A definition whose name ends in an underscore and a remark is a mutated *)
(* form of the one that follows it; nothing uses it.                       *)
(***************************************************************************)
EXTENDS Integers, Sequences, FiniteSets, Functions

CONSTANTS
  Jobs,      \* activities that are watched, again and again
  Delay,     \* ATFP_WATCHDOG_DEFAULT_DELAY, the same for all jobs
  MaxLate,   \* bound on how long a deadline is counted down after it passed
  Machines,  \* values of prompt to look at
  None

ASSUME WatchdogAssumption ==
  /\ IsFiniteSet(Jobs)
  /\ Delay \in Nat \ {0}
  /\ MaxLate \in Nat
  /\ Machines \subseteq BOOLEAN
  /\ None \notin Int

VARIABLES
  prompt,      \* threads that can go on do so before the clock ticks
  job,         \* what each job does
  stamp,       \* the deadline a job has computed and not yet submitted
  node,        \* the node each watched job holds
  activelist,  \* nodes with their deadlines
  freelist,    \* nodes
  allocated,   \* number of nodes ever allocated
  runner,      \* where watchdog_runner is
  peeked,      \* the deadline it works with, then the rest of its sleep
  terminated,  \* SIGTERM has been sent
  missed       \* history: a job was on the list when its deadline passed

jobs == <<job, stamp, node>>
lists == <<activelist, freelist, allocated>>
vars == <<prompt, jobs, lists, runner, peeked, terminated, missed>>

Init ==
  /\ prompt \in Machines
  /\ job = [j \in Jobs |-> "idle"]
  /\ stamp = [j \in Jobs |-> None]
  /\ node = [j \in Jobs |-> None]
  /\ activelist = <<>> /\ freelist = <<>>
  /\ allocated = 0
  /\ runner = "locking"
  /\ peeked = None
  /\ terminated = FALSE
  /\ missed = FALSE

Deadlines == {activelist[i].deadline : i \in DOMAIN activelist}

-----------------------------------------------------------------------------
(* The lists.                                                              *)

dlist_push_ordered_back(list, entry) == Append(list, entry)

(* Behind the last node, seen from the tail, that is not later. *)
dlist_push_ordered(list, entry) ==
  LET past == CHOOSE i \in 0..Len(list) :
                /\ i > 0 => list[i].deadline <= entry.deadline
                /\ \A k \in i + 1..Len(list) : list[k].deadline > entry.deadline
  IN  SubSeq(list, 1, past) \o <<entry>> \o SubSeq(list, past + 1, Len(list))

dlist_remove_node_front(list, n) == Tail(list)
dlist_remove_node(list, n) ==
  LET i == CHOOSE i \in DOMAIN list : list[i].node = n
  IN  SubSeq(list, 1, i - 1) \o SubSeq(list, i + 1, Len(list))

-----------------------------------------------------------------------------
(* watchdog_submit_deadline and watchdog_clear_deadline.                   *)

(* The deadline is computed before the lock is taken. *)
ReadClock(j) ==
  /\ job[j] = "idle"
  /\ job' = [job EXCEPT ![j] = "submitting"]
  /\ stamp' = [stamp EXCEPT ![j] = Delay]
  /\ UNCHANGED <<prompt, node, lists, runner, peeked, terminated, missed>>

(***************************************************************************)
(* The condition wakes a runner that waits for a job, SIGUSR2 one that     *)
(* sleeps.  SIGUSR2 is lost on a runner that is about to sleep.            *)
(***************************************************************************)
WakeRunner_signalOnly ==
  runner' = IF runner = "sleeping" THEN "locking" ELSE runner
WakeRunner ==
  runner' = IF runner \in {"waiting", "sleeping"} THEN "locking" ELSE runner

(* The node comes from the free list while that lasts. *)
TakeNode(n) ==
  \/ /\ freelist # <<>>
     /\ n = Head(freelist)
     /\ freelist' = Tail(freelist)
     /\ UNCHANGED allocated
  \/ /\ freelist = <<>>
     /\ n = allocated + 1
     /\ allocated' = allocated + 1
     /\ UNCHANGED freelist

watchdog_submit_deadline(j) ==
  /\ job[j] = "submitting"
  /\ \E n \in 1..allocated + 1 :
       /\ TakeNode(n)
       /\ node' = [node EXCEPT ![j] = n]
       /\ activelist' = dlist_push_ordered(activelist,
                                           [node |-> n, deadline |-> stamp[j]])
  /\ job' = [job EXCEPT ![j] = "watched"]
  /\ stamp' = [stamp EXCEPT ![j] = None]
  /\ WakeRunner
  /\ missed' = (missed \/ stamp[j] <= 0)
  /\ UNCHANGED <<prompt, peeked, terminated>>

(* calloc fails: the job runs without a deadline. *)
SubmitFails(j) ==
  /\ job[j] = "submitting"
  /\ freelist = <<>>
  /\ job' = [job EXCEPT ![j] = "unwatched"]
  /\ stamp' = [stamp EXCEPT ![j] = None]
  /\ UNCHANGED <<prompt, node, lists, runner, peeked, terminated, missed>>

watchdog_clear_deadline(j) ==
  /\ job[j] = "watched"
  /\ activelist' = dlist_remove_node(activelist, node[j])
  /\ freelist' = Append(freelist, node[j])
  /\ node' = [node EXCEPT ![j] = None]
  /\ job' = [job EXCEPT ![j] = "idle"]
  /\ UNCHANGED <<prompt, stamp, allocated, runner, peeked, terminated, missed>>

EndUnwatched(j) ==
  /\ job[j] = "unwatched"
  /\ job' = [job EXCEPT ![j] = "idle"]
  /\ UNCHANGED <<prompt, stamp, node, lists, runner, peeked, terminated, missed>>

-----------------------------------------------------------------------------
(* watchdog_runner.                                                        *)

WaitForJob ==
  /\ runner = "locking"
  /\ activelist = <<>>
  /\ runner' = "waiting"
  /\ peeked' = None
  /\ UNCHANGED <<prompt, jobs, lists, terminated, missed>>

(* A wait may end without a signal. *)
WakeUp ==
  /\ runner = "waiting"
  /\ runner' = "locking"
  /\ UNCHANGED <<prompt, jobs, lists, peeked, terminated, missed>>

Peek_latest ==
  /\ runner = "locking"
  /\ activelist # <<>>
  /\ peeked' = activelist[Len(activelist)].deadline
  /\ runner' = "peeked"
  /\ UNCHANGED <<prompt, jobs, lists, terminated, missed>>

Peek ==
  /\ runner = "locking"
  /\ activelist # <<>>
  /\ peeked' = Head(activelist).deadline
  /\ runner' = "peeked"
  /\ UNCHANGED <<prompt, jobs, lists, terminated, missed>>

Timeout_early ==
  /\ runner = "peeked"
  /\ peeked <= 1
  /\ terminated' = TRUE
  /\ runner' = "ended"
  /\ peeked' = None
  /\ UNCHANGED <<prompt, jobs, lists, missed>>

(* The clock is read and compared after the lock has been given up. *)
Timeout ==
  /\ runner = "peeked"
  /\ peeked <= 0
  /\ terminated' = TRUE
  /\ runner' = "ended"
  /\ peeked' = None
  /\ UNCHANGED <<prompt, jobs, lists, missed>>

NoTimeout ==
  /\ runner = "peeked"
  /\ peeked > 0
  /\ runner' = "about to sleep"
  /\ UNCHANGED <<prompt, jobs, lists, peeked, terminated, missed>>

FallAsleep ==
  /\ runner = "about to sleep"
  /\ runner' = "sleeping"
  /\ UNCHANGED <<prompt, jobs, lists, peeked, terminated, missed>>

SleepEnds ==
  /\ runner = "sleeping"
  /\ peeked = 0
  /\ runner' = "locking"
  /\ peeked' = None
  /\ UNCHANGED <<prompt, jobs, lists, terminated, missed>>

-----------------------------------------------------------------------------

CountDown(left) ==
  IF left = None THEN None ELSE IF left > -MaxLate THEN left - 1 ELSE left

(* A thread is between two steps and not waiting for anything. *)
Busy ==
  \/ \E j \in Jobs : job[j] = "submitting"
  \/ runner \in {"locking", "peeked", "about to sleep"}
  \/ runner = "sleeping" /\ peeked = 0

(* The argument of a sleep that has not begun does not shrink. *)
Tick ==
  /\ prompt => ~Busy
  /\ stamp' = [j \in Jobs |-> CountDown(stamp[j])]
  /\ activelist' = [i \in DOMAIN activelist |->
                      [activelist[i] EXCEPT !.deadline = CountDown(@)]]
  /\ peeked' = IF runner = "peeked" THEN CountDown(peeked)
               ELSE IF runner = "sleeping" /\ peeked > 0 THEN peeked - 1
               ELSE peeked
  /\ missed' = (missed \/ \E left \in Deadlines : left <= 1)
  /\ UNCHANGED <<prompt, job, node, freelist, allocated, runner, terminated>>

Runner ==
  WaitForJob \/ Peek \/ Timeout \/ NoTimeout \/ FallAsleep \/ SleepEnds

Next ==
  \/ \E j \in Jobs :
       \/ ReadClock(j) \/ watchdog_submit_deadline(j) \/ SubmitFails(j)
       \/ watchdog_clear_deadline(j) \/ EndUnwatched(j)
  \/ Runner \/ WakeUp \/ Tick

Spec == Init /\ [][Next]_vars

(* Time passes and the runner runs; a job may hang for ever. *)
FairSpec == Spec /\ WF_vars(Runner) /\ WF_vars(Tick)

-----------------------------------------------------------------------------
(* What makes the watchdog correct.                                        *)

(***************************************************************************)
(* The variables keep to their values.  There are never more nodes than    *)
(* jobs, and no sleep is longer than Delay.                                *)
(***************************************************************************)
TypeOK ==
  /\ prompt \in Machines
  /\ job \in [Jobs -> {"idle", "submitting", "watched", "unwatched"}]
  /\ stamp \in [Jobs -> -MaxLate..Delay \cup {None}]
  /\ allocated \in 0..Cardinality(Jobs)
  /\ node \in [Jobs -> 1..allocated \cup {None}]
  /\ activelist \in Seq([node : 1..allocated, deadline : -MaxLate..Delay])
  /\ freelist \in Seq(1..allocated)
  /\ runner \in {"locking", "waiting", "peeked", "about to sleep", "sleeping",
                 "ended"}
  /\ peeked \in -MaxLate..Delay \cup {None}
  /\ terminated \in BOOLEAN /\ missed \in BOOLEAN

(***************************************************************************)
(* The head of the list is the earliest deadline, although jobs may submit *)
(* in another order than the one in which they read the clock.             *)
(***************************************************************************)
EarliestFirst ==
  \A i, k \in DOMAIN activelist :
    i < k => activelist[i].deadline <= activelist[k].deadline

ActiveNodes == [i \in DOMAIN activelist |-> activelist[i].node]

(***************************************************************************)
(* Every node is once on one of the lists, and the active ones are those   *)
(* that the watched jobs hold, one each.  Since nodes are used again there *)
(* are never more of them than jobs at a time.                             *)
(***************************************************************************)
NodesHeldOnce ==
  /\ IsInjective(ActiveNodes \o freelist)
  /\ Range(ActiveNodes \o freelist) = 1..allocated
  /\ Range(ActiveNodes) = {node[j] : j \in {j \in Jobs : job[j] = "watched"}}
  /\ Len(activelist) = Cardinality({j \in Jobs : job[j] = "watched"})
  /\ allocated <= Cardinality(Jobs)

(***************************************************************************)
(* "No task can spend in the processing more than a preset time": as long  *)
(* as the daemon is not going down, no watched job is past its deadline.   *)
(* Only threads that take no time can promise that.                        *)
(***************************************************************************)
NoTaskOverstays == prompt /\ ~terminated => \A left \in Deadlines : left >= 0

(***************************************************************************)
(* The watchdog sends the daemon down only when a job was still on the     *)
(* list when its deadline passed, if threads take no time.  On any other   *)
(* machine it also does for a job that ended in time, when the runner is   *)
(* held up between peeking and comparing (watchdog.c:63-71).               *)
(***************************************************************************)
AlarmIsReal == prompt /\ terminated => missed

(***************************************************************************)
(* A job that is watched ends, or the daemon does, even on a machine that  *)
(* loses SIGUSR2.  What a prompt machine does another one can do too; it   *)
(* is left out since its jobs may be so fast that its clock never ticks.   *)
(***************************************************************************)
HungJobIsCaught ==
  \A j \in Jobs :
    ~prompt /\ job[j] = "watched" ~> (job[j] # "watched" \/ terminated)
=============================================================================
