------------------------------ MODULE JobPool -------------------------------
(***************************************************************************)
(* What a thread pool promises, without locks and conditions: jobs are     *)
(* accepted while the queue has room, started once each in the order in    *)
(* which they were accepted, by so many threads, and a job does not wait   *)
(* for ever while a thread has nothing to do.                              *)
(***************************************************************************)
EXTENDS Naturals, Sequences, FiniteSets, Functions

CONSTANTS Job, Threads, Room

VARIABLES waiting, running, finished

vars == <<waiting, running, finished>>

Init == waiting = <<>> /\ running = {} /\ finished = {}

Accept(job) ==
  /\ job \notin Range(waiting) \cup running \cup finished
  /\ Len(waiting) < Room
  /\ waiting' = Append(waiting, job)
  /\ UNCHANGED <<running, finished>>

Start ==
  /\ waiting # <<>>
  /\ Cardinality(running) < Cardinality(Threads)
  /\ running' = running \cup {Head(waiting)}
  /\ waiting' = Tail(waiting)
  /\ UNCHANGED finished

Finish(job) ==
  /\ job \in running
  /\ running' = running \ {job}
  /\ finished' = finished \cup {job}
  /\ UNCHANGED waiting

Next == Start \/ \E job \in Job : Accept(job) \/ Finish(job)

Spec ==
  /\ Init /\ [][Next]_vars
  /\ WF_vars(Start)
  /\ \A job \in Job : WF_vars(Finish(job))
=============================================================================
