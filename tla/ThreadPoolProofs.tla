-------------------------- MODULE ThreadPoolProofs --------------------------
(***************************************************************************)
(* For every number of runners, clients and jobs and every queue size: the *)
(* types, the accounting of jobs, signals and deadlines, and that every    *)
(* step of the pool is one of JobPool.                                     *)
(***************************************************************************)
EXTENDS ThreadPool, TLAPS, FiniteSetTheorems, SequenceTheorems

(* Which thread runs which code.                                           *)
Places ==
  /\ \A c \in Clients : pc[c] \notin {"running", "clearing"}
  /\ \A w \in Workers : pc[w] # "idle"

(* A client that is busy adds its latest job.                              *)
AddsLatest ==
  \A c \in Clients : pc[c] # "idle" => added[c] > 0 /\ req[c] = <<c, added[c]>>

(* The jobs whose thread_pool_add_request has returned.                    *)
Accepted ==
  {job \in Jobs : /\ job[2] <= added[job[1]]
                  /\ pc[job[1]] # "idle" => job[2] # added[job[1]]}

Busy == {w \in Workers : pc[w] \in {"running", "clearing"}}

(* A runner's req is a called one while it works on it, and nobody else's. *)
OwnRequests ==
  /\ \A w \in Busy : req[w] \in Range(started)
  /\ \A v, w \in Busy : req[v] = req[w] => v = w

(* The requests called are the ones that run or have run.                  *)
Called ==
  /\ Range(started) = finished \cup Running
  /\ Clearing \subseteq finished
  /\ finished \cap Running = {}

IInv ==
  /\ TypeOK /\ Places /\ AddsLatest /\ OwnRequests /\ Called
  /\ Range(started \o queue) = Accepted
  /\ CalledOnce /\ DeadlinesExact /\ NobodyOversleeps

-----------------------------------------------------------------------------
(* Sequences, sets and functions.                                          *)

(* What appending an element does to a sequence's range and injectivity.   *)
LEMMA Appending ==
  ASSUME NEW S, NEW s \in Seq(S), NEW e \in S
  PROVE  /\ Range(Append(s, e)) = Range(s) \cup {e}
         /\ IsInjective(Append(s, e)) <=> IsInjective(s) /\ e \notin Range(s)
<1> DEFINE a == Append(s, e)
<1>1. /\ DOMAIN s = 1 .. Len(s) /\ Len(s) \in Nat
      /\ DOMAIN a = 1 .. Len(s) + 1
      /\ \A i \in 1 .. Len(s) : a[i] = s[i]
      /\ a[Len(s) + 1] = e
  OBVIOUS
<1> HIDE DEF a
<1>2. Range(a) = Range(s) \cup {e}
  <2>1. \A i \in DOMAIN a : i \in DOMAIN s \/ i = Len(s) + 1
    BY <1>1
  <2> QED BY <2>1, <1>1 DEF Range
<1>3. IsInjective(a) <=> IsInjective(s) /\ e \notin Range(s)
  <2>1. ASSUME IsInjective(a) PROVE IsInjective(s) /\ e \notin Range(s)
    BY <2>1, <1>1 DEF IsInjective, Range
  <2>2. ASSUME IsInjective(s), e \notin Range(s) PROVE IsInjective(a)
    <3>1. \A i \in DOMAIN a : i \in DOMAIN s \/ i = Len(s) + 1
      BY <1>1
    <3>2. \A i \in DOMAIN s : a[i] # e
      BY <2>2, <1>1 DEF Range
    <3>3. \A i, j \in DOMAIN s : a[i] = a[j] => i = j
      BY <2>2, <1>1 DEF IsInjective
    <3> QED BY <3>1, <3>2, <3>3, <1>1 DEF IsInjective
  <2> QED BY <2>1, <2>2
<1> QED BY <1>2, <1>3 DEF a

(* Appending to the second of two sequences.                               *)
LEMMA JoinAppend ==
  ASSUME NEW S, NEW s \in Seq(S), NEW t \in Seq(S), NEW e \in S
  PROVE  s \o Append(t, e) = Append(s \o t, e)
<1>1. s \o Append(t, e) \in Seq(S) /\ Append(s \o t, e) \in Seq(S)
  OBVIOUS
<1> QED BY <1>1, SeqEqual

(* A sequence that is not empty is its head and its tail.                  *)
LEMMA HeadAndTail ==
  ASSUME NEW S, NEW t \in Seq(S), t # <<>>
  PROVE  /\ Head(t) \in S /\ Tail(t) \in Seq(S) /\ Len(Tail(t)) = Len(t) - 1
         /\ Range(t) = Range(Tail(t)) \cup {Head(t)}
<1>1. /\ Head(t) \in S /\ Tail(t) \in Seq(S) /\ Len(Tail(t)) = Len(t) - 1
      /\ \A i \in 1 .. Len(t) - 1 : Tail(t)[i] = t[i + 1]
      /\ Head(t) = t[1] /\ Len(t) \in Nat /\ Len(t) >= 1
  BY HeadTailProperties
<1>2. DOMAIN t = 1 .. Len(t) /\ DOMAIN Tail(t) = 1 .. Len(t) - 1
  BY <1>1
<1>3. \A i \in DOMAIN t : i = 1 \/ i - 1 \in DOMAIN Tail(t)
  BY <1>1, <1>2
<1>4. \A i \in DOMAIN Tail(t) : i + 1 \in DOMAIN t /\ Tail(t)[i] = t[i + 1]
  BY <1>1, <1>2
<1>5. \A i \in DOMAIN t : t[i] = Head(t) \/ t[i] = Tail(t)[i - 1]
  BY <1>1, <1>2, <1>3
<1>6. 1 \in DOMAIN t
  BY <1>1, <1>2
<1> QED BY <1>1, <1>3, <1>4, <1>5, <1>6 DEF Range

(* Moving the head of one sequence behind another one.                     *)
LEMMA MoveHead ==
  ASSUME NEW S, NEW s \in Seq(S), NEW t \in Seq(S), t # <<>>
  PROVE  Append(s, Head(t)) \o Tail(t) = s \o t
<1>1. /\ Head(t) \in S /\ Tail(t) \in Seq(S) /\ Len(Tail(t)) = Len(t) - 1
      /\ \A i \in 1 .. Len(t) - 1 : Tail(t)[i] = t[i + 1]
      /\ Head(t) = t[1] /\ Len(t) \in Nat /\ Len(t) >= 1
  BY HeadTailProperties
<1>2. Append(s, Head(t)) \o Tail(t) \in Seq(S) /\ s \o t \in Seq(S)
  BY <1>1
<1>3. Len(Append(s, Head(t)) \o Tail(t)) = Len(s \o t)
  BY <1>1
<1>4. \A i \in 1 .. Len(s \o t) :
        (Append(s, Head(t)) \o Tail(t))[i] = (s \o t)[i]
  BY <1>1
<1> QED BY <1>2, <1>3, <1>4, SeqEqual

(* No element of an injective sequence is in both of its halves, and the   *)
(* head of the second one is not in its tail.                              *)
LEMMA Halves ==
  ASSUME NEW S, NEW s \in Seq(S), NEW t \in Seq(S), IsInjective(s \o t)
  PROVE  /\ Range(s) \cap Range(t) = {}
         /\ t # <<>> => Head(t) \notin Range(Tail(t))
<1>1. /\ DOMAIN s = 1 .. Len(s) /\ DOMAIN t = 1 .. Len(t)
      /\ Len(s) \in Nat /\ Len(t) \in Nat
      /\ DOMAIN (s \o t) = 1 .. Len(s) + Len(t)
  OBVIOUS
<1>2. /\ \A i \in DOMAIN s : i \in DOMAIN (s \o t) /\ (s \o t)[i] = s[i]
      /\ \A i \in DOMAIN t : /\ i + Len(s) \in DOMAIN (s \o t)
                             /\ (s \o t)[i + Len(s)] = t[i]
  BY <1>1
<1>3. Range(s) \cap Range(t) = {}
  <2>1. \A i \in DOMAIN s, k \in DOMAIN t : i # k + Len(s)
    BY <1>1
  <2> QED BY <1>2, <2>1 DEF Range, IsInjective
<1>4. ASSUME t # <<>> PROVE Head(t) \notin Range(Tail(t))
  <2>1. /\ DOMAIN Tail(t) = 1 .. Len(t) - 1 /\ Head(t) = t[1] /\ 1 \in DOMAIN t
        /\ \A i \in 1 .. Len(t) - 1 : Tail(t)[i] = t[i + 1]
    BY <1>1, <1>4, HeadTailProperties
  <2>2. \A i, k \in DOMAIN t : t[i] = t[k] => i + Len(s) = k + Len(s)
    BY <1>2 DEF IsInjective
  <2>3. \A i, k \in DOMAIN t : t[i] = t[k] => i = k
    BY <2>2, <1>1
  <2>4. \A i \in DOMAIN Tail(t) : i + 1 \in DOMAIN t /\ i + 1 # 1
    BY <2>1, <1>1
  <2> QED BY <2>1, <2>3, <2>4 DEF Range
<1> QED BY <1>3, <1>4

(* Comparing two sets that differ by at most an element.                   *)
LEMMA Counting ==
  ASSUME NEW G, IsFiniteSet(G), NEW A \in SUBSET G, NEW B \in SUBSET G
  PROVE  /\ Cardinality(A) \in Nat /\ Cardinality(B) \in Nat
         /\ A \subseteq B => Cardinality(A) <= Cardinality(B)
         /\ \A x : A \ {x} \subseteq B => Cardinality(A) <= Cardinality(B) + 1
         /\ \A x \in B : A \subseteq B /\ x \notin A =>
                         Cardinality(A) + 1 <= Cardinality(B)
<1>1. IsFiniteSet(A) /\ IsFiniteSet(B)
  BY FS_Subset
<1>2. Cardinality(A) \in Nat /\ Cardinality(B) \in Nat
  BY <1>1, FS_CardinalityType
<1>3. A \subseteq B => Cardinality(A) <= Cardinality(B)
  BY <1>1, FS_Subset
<1>4. ASSUME NEW x, A \ {x} \subseteq B
      PROVE  Cardinality(A) <= Cardinality(B) + 1
  <2>1. Cardinality(A \ {x}) = IF x \in A THEN Cardinality(A) - 1 ELSE Cardinality(A)
    BY <1>1, FS_RemoveElement
  <2>2. Cardinality(A \ {x}) <= Cardinality(B)
    BY <1>1, <1>4, FS_Subset
  <2> QED BY <1>2, <2>1, <2>2
<1>5. ASSUME NEW x \in B, A \subseteq B, x \notin A
      PROVE  Cardinality(A) + 1 <= Cardinality(B)
  <2>1. Cardinality(A \cup {x}) = Cardinality(A) + 1
    BY <1>1, <1>5, FS_AddElement
  <2>2. A \cup {x} \subseteq B
    BY <1>5
  <2>3. Cardinality(A \cup {x}) <= Cardinality(B)
    BY <1>1, <2>2, FS_Subset
  <2> QED BY <2>1, <2>3
<1> QED BY <1>2, <1>3, <1>4, <1>5
-----------------------------------------------------------------------------
(* Steps that leave every job where it is.                                 *)

(* Where a thread is that wants to look at the queue, looks at it or waits *)
(* for it to change.                                                       *)
AtQueue == {"locking", "locked", "waiting"}

(* A thread that only moves about the queue keeps its job.                 *)
LEMMA MovingAbout ==
  ASSUME IInv, TypeOK', NobodyOversleeps',
         UNCHANGED <<queue, req, added, deadlines, started, finished>>,
         \A t \in Threads : pc'[t] = pc[t] \/ {pc[t], pc'[t]} \subseteq AtQueue
  PROVE  IInv' /\ UNCHANGED Running
<1>1. \A t \in Threads, p \in {"idle", "running", "clearing"} :
        pc'[t] = p <=> pc[t] = p
  BY DEF AtQueue
<1>2. Adding' = Adding
  BY <1>1 DEF Adding, Threads
<1>3. Running' = Running
  BY <1>1 DEF Running, Threads
<1>4. Clearing' = Clearing
  BY <1>1 DEF Clearing, Threads
<1>5. Busy' = Busy
  <2>1. \A w \in Workers : pc'[w] \in {"running", "clearing"}
                           <=> pc[w] \in {"running", "clearing"}
    BY <1>1 DEF Threads
  <2> QED BY <2>1 DEF Busy
<1>6. Accepted' = Accepted
  <2>1. \A job \in Jobs : pc'[job[1]] # "idle" <=> pc[job[1]] # "idle"
    BY <1>1 DEF Threads, Jobs
  <2> QED BY <2>1 DEF Accepted
<1>7. Places' /\ AddsLatest'
  BY <1>1 DEF IInv, Places, AddsLatest, Threads
<1>8. OwnRequests' /\ Called'
  BY <1>3, <1>4, <1>5 DEF IInv, OwnRequests, Called
<1>9. CalledOnce' /\ DeadlinesExact' /\ (Range(started \o queue) = Accepted)'
  BY <1>2, <1>3, <1>4, <1>6 DEF IInv, CalledOnce, DeadlinesExact
<1> QED BY <1>3, <1>7, <1>8, <1>9 DEF IInv

(***************************************************************************)
(* Why a group of threads does not oversleep: need is what there is to do  *)
(* for it.  Need shrinks with every thread that no longer is on its way,   *)
(* and grows only with one that is woken, if any sleeps.                   *)
(***************************************************************************)
LEMMA Balance ==
  ASSUME NEW G, IsFiniteSet(G), NEW need \in Int, NEW then \in Int,
         Sleeping(G) # {} => need <= Cardinality(Awake(G)),
         \/ then <= 0
         \/ /\ then <= need /\ Awake(G) \subseteq Awake(G)'
            /\ Sleeping(G)' \subseteq Sleeping(G)
         \/ /\ then <= need - 1 /\ Sleeping(G)' \subseteq Sleeping(G)
            /\ \E t : Awake(G) \ {t} \subseteq Awake(G)'
         \/ /\ then <= need + 1 /\ Sleeping(G)' \subseteq Sleeping(G)
            /\ Sleeping(G) # {} => /\ Awake(G) \subseteq Awake(G)'
                                   /\ \E t \in Awake(G)' : t \notin Awake(G)
  PROVE  Sleeping(G)' # {} => then <= Cardinality(Awake(G)')
<1> SUFFICES ASSUME Sleeping(G)' # {} PROVE then <= Cardinality(Awake(G)')
  OBVIOUS
<1>1. Awake(G) \in SUBSET G /\ Awake(G)' \in SUBSET G
  BY DEF Awake
<1>2. Cardinality(Awake(G)) \in Nat /\ Cardinality(Awake(G)') \in Nat
  BY <1>1, Counting
<1>3. CASE then <= 0
  BY <1>2, <1>3
<1>4. CASE /\ then <= need /\ Awake(G) \subseteq Awake(G)'
           /\ Sleeping(G)' \subseteq Sleeping(G)
  <2>1. Cardinality(Awake(G)) <= Cardinality(Awake(G)')
    BY <1>1, <1>4, Counting
  <2>2. need <= Cardinality(Awake(G))
    BY <1>4
  <2> QED BY <1>2, <1>4, <2>1, <2>2
<1>5. CASE /\ then <= need - 1 /\ Sleeping(G)' \subseteq Sleeping(G)
           /\ \E t : Awake(G) \ {t} \subseteq Awake(G)'
  <2>1. Cardinality(Awake(G)) <= Cardinality(Awake(G)') + 1
    BY <1>1, <1>5, Counting
  <2>2. need <= Cardinality(Awake(G))
    BY <1>5
  <2> QED BY <1>2, <1>5, <2>1, <2>2
<1>6. CASE /\ then <= need + 1 /\ Sleeping(G)' \subseteq Sleeping(G)
           /\ Sleeping(G) # {} => /\ Awake(G) \subseteq Awake(G)'
                                  /\ \E t \in Awake(G)' : t \notin Awake(G)
  <2>1. Awake(G) \subseteq Awake(G)' /\ \E t \in Awake(G)' : t \notin Awake(G)
    BY <1>6
  <2>2. Cardinality(Awake(G)) + 1 <= Cardinality(Awake(G)')
    BY <1>1, <2>1, Counting
  <2>3. need <= Cardinality(Awake(G))
    BY <1>6
  <2> QED BY <1>2, <1>6, <2>2, <2>3
<1> QED BY <1>3, <1>4, <1>5, <1>6

(* A step that changes no queue, puts nobody to sleep and turns back no    *)
(* thread that is on its way.                                              *)
LEMMA NobodyTurnsBack ==
  ASSUME TypeOK, NobodyOversleeps, UNCHANGED queue,
         \A t \in Threads :
           /\ pc[t] \in {"locking", "locked"} => pc'[t] \in {"locking", "locked"}
           /\ pc'[t] = "waiting" => pc[t] = "waiting"
  PROVE  NobodyOversleeps'
<1>1. Len(queue) \in Int /\ QueueSize - Len(queue) \in Int
  BY SizesAssumption DEF TypeOK
<1>2. /\ Awake(Workers) \subseteq Awake(Workers)'
      /\ Sleeping(Workers)' \subseteq Sleeping(Workers)
      /\ Awake(Clients) \subseteq Awake(Clients)'
      /\ Sleeping(Clients)' \subseteq Sleeping(Clients)
  BY DEF Awake, Sleeping, Threads
<1>3. Sleeping(Workers)' # {} => Len(queue) <= Cardinality(Awake(Workers)')
  BY <1>1, <1>2, Balance, ThreadsAssumption DEF NobodyOversleeps
<1>4. Sleeping(Clients)' # {} =>
        QueueSize - Len(queue) <= Cardinality(Awake(Clients)')
  BY <1>1, <1>2, Balance, ThreadsAssumption DEF NobodyOversleeps
<1> QED BY <1>3, <1>4 DEF NobodyOversleeps, Sleeping, Awake

LEMMA LockKeepsIInv ==
  ASSUME IInv, NEW t \in Threads, Lock(t)
  PROVE  IInv' /\ UNCHANGED <<queue, Running, finished>>
<1>1. /\ TypeOK /\ NobodyOversleeps /\ pc[t] = "locking"
      /\ pc' = [pc EXCEPT ![t] = "locked"] /\ lock = None /\ lock' = t
      /\ UNCHANGED <<queue, req, added, deadlines, started, finished, spurious>>
  BY DEF IInv, Lock
<1>2. TypeOK'
  BY <1>1, ThreadsAssumption DEF TypeOK
<1>3. /\ pc'[t] = "locked"
      /\ \A u \in Threads : u # t => pc'[u] = pc[u]
  BY <1>1 DEF TypeOK
<1>4. NobodyOversleeps'
  BY <1>1, <1>3, NobodyTurnsBack
<1>5. \A u \in Threads : pc'[u] = pc[u] \/ {pc[u], pc'[u]} \subseteq AtQueue
  BY <1>1, <1>3 DEF AtQueue
<1> QED BY <1>1, <1>2, <1>4, <1>5, MovingAbout

LEMMA WakeUpKeepsIInv ==
  ASSUME IInv, NEW t \in Threads, WakeUp(t)
  PROVE  IInv' /\ UNCHANGED <<queue, Running, finished>>
<1>1. /\ TypeOK /\ NobodyOversleeps /\ pc[t] = "waiting"
      /\ pc' = [pc EXCEPT ![t] = "locking"]
      /\ spurious < MaxSpurious /\ spurious' = spurious + 1
      /\ UNCHANGED <<lock, queue, req, added, deadlines, started, finished>>
  BY DEF IInv, WakeUp
<1>2. TypeOK'
  BY <1>1, SizesAssumption DEF TypeOK
<1>3. /\ pc'[t] = "locking"
      /\ \A u \in Threads : u # t => pc'[u] = pc[u]
  BY <1>1 DEF TypeOK
<1>4. NobodyOversleeps'
  BY <1>1, <1>3, NobodyTurnsBack
<1>5. \A u \in Threads : pc'[u] = pc[u] \/ {pc[u], pc'[u]} \subseteq AtQueue
  BY <1>1, <1>3 DEF AtQueue
<1> QED BY <1>1, <1>2, <1>4, <1>5, MovingAbout

(* Who waits has found nothing to do for its group.                        *)
LEMMA WaitKeepsIInv ==
  ASSUME IInv, NEW t \in Threads, lock = t, Wait(t),
         t \in Workers => queue = <<>>,
         t \in Clients => Len(queue) >= QueueSize
  PROVE  IInv' /\ UNCHANGED <<queue, Running, finished>>
<1>1. /\ TypeOK /\ NobodyOversleeps /\ pc[t] = "locked"
      /\ pc' = [pc EXCEPT ![t] = "waiting"] /\ lock' = None
      /\ UNCHANGED <<queue, req, added, deadlines, started, finished, spurious>>
  BY DEF IInv, Wait, TypeOK
<1>2. /\ pc'[t] = "waiting"
      /\ \A u \in Threads : u # t => pc'[u] = pc[u]
  BY <1>1 DEF TypeOK
<1>3. TypeOK'
  BY <1>1, <1>2, ThreadsAssumption DEF TypeOK
<1>4. Len(queue) \in Nat /\ QueueSize - Len(queue) \in Int
  BY <1>1, SizesAssumption DEF TypeOK
<1>5. Sleeping(Workers)' # {} => Len(queue) <= Cardinality(Awake(Workers)')
  <2>1. CASE t \in Workers
    <3>1. Len(queue) <= 0
      BY <2>1
    <3> QED BY <1>1, <1>4, <3>1, Balance, ThreadsAssumption DEF NobodyOversleeps
  <2>2. CASE t \notin Workers
    <3>1. /\ Awake(Workers) \subseteq Awake(Workers)'
          /\ Sleeping(Workers)' \subseteq Sleeping(Workers)
      BY <1>2, <2>2 DEF Awake, Sleeping, Threads
    <3> QED BY <1>1, <1>4, <3>1, Balance, ThreadsAssumption DEF NobodyOversleeps
  <2> QED BY <2>1, <2>2
<1>6. Sleeping(Clients)' # {} =>
        QueueSize - Len(queue) <= Cardinality(Awake(Clients)')
  <2>1. CASE t \in Clients
    <3>1. QueueSize - Len(queue) <= 0
      BY <1>4, <2>1, SizesAssumption
    <3> QED BY <1>1, <1>4, <3>1, Balance, ThreadsAssumption DEF NobodyOversleeps
  <2>2. CASE t \notin Clients
    <3>1. /\ Awake(Clients) \subseteq Awake(Clients)'
          /\ Sleeping(Clients)' \subseteq Sleeping(Clients)
      BY <1>2, <2>2 DEF Awake, Sleeping, Threads
    <3> QED BY <1>1, <1>4, <3>1, Balance, ThreadsAssumption DEF NobodyOversleeps
  <2> QED BY <2>1, <2>2
<1>7. NobodyOversleeps'
  BY <1>1, <1>5, <1>6 DEF NobodyOversleeps, Sleeping, Awake
<1>8. \A u \in Threads : pc'[u] = pc[u] \/ {pc[u], pc'[u]} \subseteq AtQueue
  BY <1>1, <1>2 DEF AtQueue
<1> QED BY <1>1, <1>3, <1>7, <1>8, MovingAbout
-----------------------------------------------------------------------------
(* Steps that move a job on.                                               *)

(* Leaving the critical section wakes one of the others if any sleeps.     *)
LEMMA SignalWakesOne ==
  ASSUME TypeOK, NEW t \in Threads, lock = t, NEW next \in {"idle", "running"},
         NEW others \in SUBSET (Threads \ {t}), SignalAndUnlock(t, others, next)
  PROVE  /\ lock' = None /\ pc[t] = "locked" /\ pc'[t] = next
         /\ pc' \in [Threads -> {"idle", "locking", "locked", "waiting",
                                "running", "clearing"}]
         /\ \A u \in Threads : pc'[u] # "locked"
         /\ \A u \in Threads \ {t} :
              \/ pc'[u] = pc[u]
              \/ u \in others /\ pc[u] = "waiting" /\ pc'[u] = "locking"
         /\ Sleeping(others) # {} =>
              \E u \in others : pc[u] = "waiting" /\ pc'[u] = "locking"
<1>1. pc[t] = "locked" /\ \A u \in Threads \ {t} : pc[u] # "locked"
  BY DEF TypeOK
<1>2. CASE Sleeping(others) = {} /\ pc' = [pc EXCEPT ![t] = next]
  BY <1>1, <1>2 DEF SignalAndUnlock, TypeOK
<1>3. CASE \E u \in Sleeping(others) :
             pc' = [pc EXCEPT ![t] = next, ![u] = "locking"]
  <2>1. PICK u \in Sleeping(others) :
          pc' = [pc EXCEPT ![t] = next, ![u] = "locking"]
    BY <1>3
  <2>2. u \in others /\ u \in Threads /\ u # t /\ pc[u] = "waiting"
    BY <2>1 DEF Sleeping
  <2> QED BY <1>1, <2>1, <2>2 DEF SignalAndUnlock, TypeOK
<1> QED BY <1>2, <1>3 DEF SignalAndUnlock

(* The accounts of a client: its own step changes the accounts of no other.*)
LEMMA SubmitDeadlineKeepsIInv ==
  ASSUME IInv, NEW c \in Clients, SubmitDeadline(c)
  PROVE  IInv' /\ UNCHANGED <<queue, Running, finished>>
<1> DEFINE job == <<c, added[c] + 1>>
<1>1. /\ TypeOK /\ NobodyOversleeps /\ pc[c] = "idle" /\ added[c] < JobsPerClient
      /\ added' = [added EXCEPT ![c] = @ + 1]
      /\ req' = [req EXCEPT ![c] = job]
      /\ deadlines' = deadlines \cup ({job} \ Unguarded)
      /\ pc' = [pc EXCEPT ![c] = "locking"]
      /\ UNCHANGED <<lock, queue, started, finished, spurious>>
  BY DEF IInv, SubmitDeadline
<1>2. /\ c \in Threads /\ c \notin Workers /\ job \in Jobs
      /\ added[c] \in Nat /\ added'[c] = added[c] + 1 /\ added'[c] \in 1 .. JobsPerClient
      /\ added' \in [Clients -> 0 .. JobsPerClient]
      /\ \A d \in Clients : d # c => added'[d] = added[d]
      /\ req'[c] = job /\ pc'[c] = "locking"
      /\ \A u \in Threads : u # c => req'[u] = req[u] /\ pc'[u] = pc[u]
  BY <1>1, ThreadsAssumption, SizesAssumption DEF TypeOK, Threads, Jobs
<1> HIDE DEF job
<1>3. TypeOK'
  <2>1. /\ pc' \in [Threads -> {"idle", "locking", "locked", "waiting",
                                "running", "clearing"}]
        /\ \A t \in Threads : pc'[t] = "locked" <=> lock = t
    BY <1>1, <1>2 DEF TypeOK
  <2>2. req' \in [Threads -> Jobs \cup {None}] /\ deadlines' \subseteq Jobs
    BY <1>1, <1>2 DEF TypeOK
  <2> QED BY <1>1, <1>2, <2>1, <2>2 DEF TypeOK
<1>4. NobodyOversleeps'
  BY <1>1, <1>2, NobodyTurnsBack
<1>5. Places' /\ AddsLatest'
  <2>1. Places'
    BY <1>2 DEF IInv, Places, Threads
  <2>2. req'[c] = <<c, added'[c]>> /\ added'[c] > 0
    BY <1>2 DEF job
  <2> QED BY <1>2, <2>1, <2>2 DEF IInv, AddsLatest, Threads
<1>6. Adding' = Adding \cup {job}
  <2>1. Adding' = {req'[d] : d \in {d \in Clients : pc'[d] # "idle"}}
    BY DEF Adding
  <2> QED BY <1>1, <1>2, <2>1 DEF Adding, Threads
<1>7. Running' = Running /\ Clearing' = Clearing /\ Busy' = Busy
  BY <1>2 DEF Running, Clearing, Busy, Threads
<1>8. Accepted' = Accepted
  <2>1. ASSUME NEW j \in Jobs
        PROVE  (j[2] <= added'[j[1]] /\ (pc'[j[1]] # "idle" => j[2] # added'[j[1]]))
               <=> (j[2] <= added[j[1]] /\ (pc[j[1]] # "idle" => j[2] # added[j[1]]))
    <3>1. j[1] \in Clients /\ j[1] \in Threads /\ j[2] \in Nat
      BY DEF Jobs, Threads
    <3>2. CASE j[1] = c
      BY <1>1, <1>2, <3>1, <3>2
    <3>3. CASE j[1] # c
      BY <1>2, <3>1, <3>3
    <3> QED BY <3>2, <3>3
  <2> QED BY <2>1 DEF Accepted
<1>9. OwnRequests'
  <2>1. \A w \in Busy : req'[w] = req[w]
    BY <1>2 DEF Busy, Threads
  <2> QED BY <1>1, <1>7, <2>1 DEF IInv, OwnRequests
<1>10. Called' /\ CalledOnce' /\ (Range(started \o queue) = Accepted)'
  BY <1>1, <1>7, <1>8 DEF IInv, Called, CalledOnce
<1>11. DeadlinesExact'
  BY <1>1, <1>6, <1>7 DEF IInv, DeadlinesExact
<1> QED BY <1>1, <1>3, <1>4, <1>5, <1>7, <1>8, <1>9, <1>10, <1>11 DEF IInv
(* The job of an add request goes from the client into the queue.          *)
LEMMA AddKeepsIInv ==
  ASSUME IInv, NEW c \in Clients, Add(c)
  PROVE  /\ IInv' /\ UNCHANGED <<Running, finished>>
         /\ req[c] \in Jobs \ (Range(queue) \cup Running \cup finished)
         /\ Len(queue) < QueueSize /\ queue' = Append(queue, req[c])
<1>1. /\ TypeOK /\ lock = c /\ Len(queue) < QueueSize
      /\ queue' = Append(queue, req[c])
      /\ SignalAndUnlock(c, Workers, "idle")
      /\ req' = req /\ added' = added /\ deadlines' = deadlines
      /\ started' = started /\ finished' = finished /\ spurious' = spurious
  BY DEF IInv, Add
<1>2. c \in Threads /\ c \notin Workers /\ Workers \in SUBSET (Threads \ {c})
  BY ThreadsAssumption DEF Threads
<1>3. /\ lock' = None /\ pc[c] = "locked" /\ pc'[c] = "idle"
      /\ pc' \in [Threads -> {"idle", "locking", "locked", "waiting",
                             "running", "clearing"}]
      /\ \A u \in Threads : pc'[u] # "locked"
      /\ \A u \in Threads \ {c} :
           \/ pc'[u] = pc[u]
           \/ u \in Workers /\ pc[u] = "waiting" /\ pc'[u] = "locking"
      /\ Sleeping(Workers) # {} =>
           \E u \in Workers : pc[u] = "waiting" /\ pc'[u] = "locking"
  BY <1>1, <1>2, SignalWakesOne
<1>4. PICK job \in Jobs : job = req[c] /\ job = <<c, added[c]>> /\ added[c] > 0
  <2>1. req[c] = <<c, added[c]>> /\ added[c] > 0
    BY <1>3 DEF IInv, AddsLatest
  <2>2. added[c] \in 1 .. JobsPerClient
    BY <1>1, <2>1, SizesAssumption DEF TypeOK
  <2> QED BY <2>1, <2>2 DEF Jobs
<1>5. /\ queue \in Seq(Jobs) /\ started \in Seq(Jobs) /\ Len(queue) \in Nat
      /\ Len(queue') = Len(queue) + 1 /\ queue' \in Seq(Jobs)
      /\ Range(queue') = Range(queue) \cup {job}
  <2>1. queue \in Seq(Jobs) /\ started \in Seq(Jobs) /\ queue' = Append(queue, job)
    BY <1>1, <1>4 DEF TypeOK
  <2> QED BY <2>1, Appending
<1>6. /\ started' \o queue' = Append(started \o queue, job)
      /\ started \o queue \in Seq(Jobs)
      /\ Range(started \o queue) = Range(started) \cup Range(queue)
  <2>1. started \in Seq(Jobs) /\ queue \in Seq(Jobs) /\ job \in Jobs
    BY <1>5
  <2>2. /\ started \o queue \in Seq(Jobs)
        /\ Range(started \o queue) = Range(started) \cup Range(queue)
    BY <2>1, RangeConcatenation
  <2>4. started \o Append(queue, job) = Append(started \o queue, job)
    BY <2>1, JoinAppend
  <2>3. started' = started /\ queue' = Append(queue, job)
    BY <1>1, <1>4
  <2> QED BY <2>2, <2>3, <2>4, Zenon
<1>7. TypeOK'
  <2>1. \A t \in Threads : pc'[t] = "locked" <=> lock' = t
    BY <1>3, ThreadsAssumption
  <2>2. Len(queue') <= QueueSize
    BY <1>1, <1>5, SizesAssumption
  <2> QED BY <1>1, <1>3, <1>5, <2>1, <2>2 DEF TypeOK
<1>8. NobodyOversleeps'
  <2>1. /\ Sleeping(Workers)' \subseteq Sleeping(Workers)
        /\ Sleeping(Clients)' \subseteq Sleeping(Clients)
        /\ Awake(Workers) \subseteq Awake(Workers)'
        /\ Awake(Clients) \ {c} \subseteq Awake(Clients)'
    BY <1>2, <1>3 DEF Sleeping, Awake, Threads
  <2>2. Sleeping(Workers) # {} => \E u \in Awake(Workers)' : u \notin Awake(Workers)
    BY <1>3 DEF Awake
  <2>3. Sleeping(Workers)' # {} => Len(queue') <= Cardinality(Awake(Workers)')
    <3>1. Len(queue) \in Int /\ Len(queue') \in Int /\ Len(queue') <= Len(queue) + 1
      BY <1>5
    <3> QED BY <2>1, <2>2, <3>1, Balance, ThreadsAssumption DEF IInv, NobodyOversleeps
  <2>4. Sleeping(Clients)' # {} =>
          QueueSize - Len(queue') <= Cardinality(Awake(Clients)')
    <3>1. /\ QueueSize - Len(queue) \in Int /\ QueueSize - Len(queue') \in Int
          /\ QueueSize - Len(queue') <= (QueueSize - Len(queue)) - 1
      BY <1>5, SizesAssumption
    <3>2. Sleeping(Clients) # {} => QueueSize - Len(queue) <= Cardinality(Awake(Clients))
      BY DEF IInv, NobodyOversleeps
    <3>3. \E t : Awake(Clients) \ {t} \subseteq Awake(Clients)'
      BY <2>1
    <3> QED BY <2>1, <3>1, <3>2, <3>3, Balance, ThreadsAssumption
  <2> QED BY <2>3, <2>4 DEF NobodyOversleeps, Sleeping, Awake
<1>9. Places' /\ AddsLatest'
  <2>1. \A d \in Clients : pc'[d] = "idle" \/ pc'[d] = pc[d]
    BY <1>2, <1>3, ThreadsAssumption DEF Threads
  <2>2. \A w \in Workers : pc'[w] = pc[w] \/ pc'[w] = "locking"
    BY <1>2, <1>3 DEF Threads
  <2> QED BY <1>1, <2>1, <2>2 DEF IInv, Places, AddsLatest
<1>10. Running' = Running /\ Clearing' = Clearing /\ Busy' = Busy
  <2>1. \A w \in Workers, p \in {"running", "clearing"} : pc'[w] = p <=> pc[w] = p
    BY <1>2, <1>3 DEF Threads
  <2> QED BY <1>1, <2>1 DEF Running, Clearing, Busy
<1>11. \A d \in Clients : d # c => pc'[d] = pc[d]
  BY <1>3, ThreadsAssumption DEF Threads
<1>12. Adding = Adding' \cup {job}
  <2>1. Adding' = {req[d] : d \in {d \in Clients : pc'[d] # "idle"}}
    BY <1>1 DEF Adding
  <2>2. \A d \in Clients : pc[d] # "idle" <=> pc'[d] # "idle" \/ d = c
    BY <1>3, <1>11
  <2> QED BY <2>1, <2>2, <1>4 DEF Adding
<1>13. Accepted' = Accepted \cup {job} /\ job \notin Accepted
  <2>1. job \notin Accepted
    BY <1>3, <1>4 DEF Accepted
  <2>2. ASSUME NEW j \in Jobs
        PROVE  (j[2] <= added[j[1]] /\ (pc'[j[1]] # "idle" => j[2] # added[j[1]]))
               <=> \/ j[2] <= added[j[1]] /\ (pc[j[1]] # "idle" => j[2] # added[j[1]])
                   \/ j = job
    <3>1. j[1] \in Clients /\ j[2] \in Nat /\ j = <<j[1], j[2]>>
      BY DEF Jobs
    <3>2. CASE j[1] = c
      <4>1. j = job <=> j[2] = added[c]
        BY <1>4, <3>1, <3>2
      <4>2. j[2] = added[c] => j[2] <= added[c]
        BY <3>1
      <4> QED BY <1>3, <3>2, <4>1, <4>2
    <3>3. CASE j[1] # c
      <4>1. j # job
        BY <1>4, <3>3
      <4> QED BY <1>11, <3>1, <3>3, <4>1
    <3> QED BY <3>2, <3>3
  <2>3. Accepted' = {j \in Jobs : /\ j[2] <= added[j[1]]
                                  /\ pc'[j[1]] # "idle" => j[2] # added[j[1]]}
    BY <1>1 DEF Accepted
  <2>4. \A j \in Jobs : j \in Accepted' <=> j \in Accepted \/ j = job
    BY <2>2, <2>3 DEF Accepted
  <2>5. Accepted' \subseteq Jobs /\ Accepted \subseteq Jobs
    BY DEF Accepted
  <2> QED BY <1>4, <2>1, <2>4, <2>5
<1>14. job \notin Range(started) /\ job \notin Range(queue)
  BY <1>6, <1>13 DEF IInv
<1>15. CalledOnce' /\ (Range(started \o queue) = Accepted)'
  <2>1. /\ IsInjective(started' \o queue')
        /\ Range(started' \o queue') = Range(started \o queue) \cup {job}
    <3>1. started \o queue \in Seq(Jobs) /\ job \in Jobs
      BY <1>6
    <3>2. IsInjective(started \o queue) /\ job \notin Range(started \o queue)
      BY <1>13 DEF IInv, CalledOnce
    <3>3. /\ IsInjective(Append(started \o queue, job))
          /\ Range(Append(started \o queue, job)) = Range(started \o queue) \cup {job}
      BY <3>1, <3>2, Appending, Zenon
    <3> QED BY <1>6, <3>3, Zenon
  <2> QED BY <1>13, <2>1 DEF IInv, CalledOnce
<1>16. OwnRequests' /\ Called'
  BY <1>1, <1>10 DEF IInv, OwnRequests, Called
<1>17. DeadlinesExact'
  BY <1>1, <1>5, <1>10, <1>12 DEF IInv, DeadlinesExact
<1>18. job \in Jobs \ (Range(queue) \cup Running \cup finished)
  BY <1>4, <1>14 DEF IInv, Called
<1> QED
  BY <1>1, <1>4, <1>7, <1>8, <1>9, <1>10, <1>15, <1>16, <1>17, <1>18 DEF IInv

(* The oldest job goes from the queue to a runner.                         *)
LEMMA TakeKeepsIInv ==
  ASSUME IInv, NEW w \in Workers, Take(w)
  PROVE  /\ IInv' /\ UNCHANGED finished
         /\ queue # <<>> /\ queue' = Tail(queue)
         /\ Running' = Running \cup {Head(queue)}
         /\ Cardinality(Running) < Cardinality(Workers)
<1>1. /\ TypeOK /\ lock = w /\ queue # <<>> /\ queue' = Tail(queue)
      /\ req' = [req EXCEPT ![w] = Head(queue)]
      /\ SignalAndUnlock(w, Clients, "running")
      /\ started' = Append(started, req'[w])
      /\ added' = added /\ deadlines' = deadlines /\ finished' = finished
      /\ spurious' = spurious
  BY DEF IInv, Take
<1>2. w \in Threads /\ w \notin Clients /\ Clients \in SUBSET (Threads \ {w})
  BY ThreadsAssumption DEF Threads
<1>3. /\ lock' = None /\ pc[w] = "locked" /\ pc'[w] = "running"
      /\ pc' \in [Threads -> {"idle", "locking", "locked", "waiting",
                             "running", "clearing"}]
      /\ \A u \in Threads : pc'[u] # "locked"
      /\ \A u \in Threads \ {w} :
           \/ pc'[u] = pc[u]
           \/ u \in Clients /\ pc[u] = "waiting" /\ pc'[u] = "locking"
      /\ Sleeping(Clients) # {} =>
           \E u \in Clients : pc[u] = "waiting" /\ pc'[u] = "locking"
  BY <1>1, <1>2, SignalWakesOne
<1>4. /\ queue \in Seq(Jobs) /\ started \in Seq(Jobs) /\ Len(queue) \in Nat
      /\ req \in [Threads -> Jobs \cup {None}]
  BY <1>1 DEF TypeOK
<1>5a. PICK job \in Jobs : job = Head(queue)
  BY <1>1, <1>4, HeadAndTail
<1>5. /\ queue' \in Seq(Jobs) /\ Len(queue') = Len(queue) - 1
      /\ Append(started, job) \o queue' = started \o queue
      /\ Range(queue) = Range(queue') \cup {job}
      /\ Range(started \o queue) = Range(started) \cup Range(queue)
  <2>1. started \in Seq(Jobs) /\ queue \in Seq(Jobs) /\ queue # <<>>
    BY <1>1, <1>4
  <2>2. /\ Tail(queue) \in Seq(Jobs) /\ Len(Tail(queue)) = Len(queue) - 1
        /\ Range(queue) = Range(Tail(queue)) \cup {Head(queue)}
    BY <2>1, HeadAndTail
  <2>3. Append(started, Head(queue)) \o Tail(queue) = started \o queue
    BY <2>1, MoveHead
  <2>4. Range(started \o queue) = Range(started) \cup Range(queue)
    BY <2>1, RangeConcatenation
  <2> QED BY <2>2, <2>3, <2>4, <1>1, <1>5a, Zenon
<1>6. /\ req'[w] = job /\ \A u \in Threads : u # w => req'[u] = req[u]
      /\ req' \in [Threads -> Jobs \cup {None}]
      /\ started' = Append(started, job)
  BY <1>1, <1>2, <1>4, <1>5a
<1>7. started' \in Seq(Jobs) /\ Range(started') = Range(started) \cup {job}
  BY <1>4, <1>5, <1>6, Appending
<1>8. job \in Range(queue) /\ job \notin Range(started)
  BY <1>1, <1>4, <1>5, <1>5a, Halves DEF IInv, CalledOnce
<1>9. TypeOK'
  <2>1. \A t \in Threads : pc'[t] = "locked" <=> lock' = t
    BY <1>3, ThreadsAssumption
  <2>2. Len(queue') <= QueueSize
    BY <1>1, <1>4, <1>5, SizesAssumption DEF TypeOK
  <2> QED BY <1>1, <1>3, <1>5, <1>6, <1>7, <2>1, <2>2 DEF TypeOK
<1>10. NobodyOversleeps'
  <2>1. /\ Sleeping(Workers)' \subseteq Sleeping(Workers)
        /\ Sleeping(Clients)' \subseteq Sleeping(Clients)
        /\ Awake(Clients) \subseteq Awake(Clients)'
        /\ Awake(Workers) \ {w} \subseteq Awake(Workers)'
    BY <1>2, <1>3 DEF Sleeping, Awake, Threads
  <2>2. Sleeping(Clients) # {} => \E u \in Awake(Clients)' : u \notin Awake(Clients)
    BY <1>3 DEF Awake
  <2>3. Sleeping(Workers)' # {} => Len(queue') <= Cardinality(Awake(Workers)')
    <3>1. Len(queue) \in Int /\ Len(queue') \in Int /\ Len(queue') <= Len(queue) - 1
      BY <1>4, <1>5
    <3>2. \E t : Awake(Workers) \ {t} \subseteq Awake(Workers)'
      BY <2>1
    <3> QED BY <2>1, <3>1, <3>2, Balance, ThreadsAssumption DEF IInv, NobodyOversleeps
  <2>4. Sleeping(Clients)' # {} =>
          QueueSize - Len(queue') <= Cardinality(Awake(Clients)')
    <3>1. /\ QueueSize - Len(queue) \in Int /\ QueueSize - Len(queue') \in Int
          /\ QueueSize - Len(queue') <= (QueueSize - Len(queue)) + 1
      BY <1>4, <1>5, SizesAssumption
    <3>2. Sleeping(Clients) # {} => QueueSize - Len(queue) <= Cardinality(Awake(Clients))
      BY DEF IInv, NobodyOversleeps
    <3> QED BY <2>1, <2>2, <3>1, <3>2, Balance, ThreadsAssumption
  <2> QED BY <2>3, <2>4 DEF NobodyOversleeps, Sleeping, Awake
<1>11. \A v \in Workers : v # w => pc'[v] = pc[v]
  BY <1>3, ThreadsAssumption DEF Threads
<1>12. \A c \in Clients : /\ req'[c] = req[c] /\ pc'[c] \notin {"running", "clearing"}
                          /\ pc'[c] # "idle" <=> pc[c] # "idle"
  <2>1. \A c \in Clients : c \in Threads \ {w} /\ pc[c] \notin {"running", "clearing"}
    BY <1>2 DEF IInv, Places
  <2> QED BY <1>3, <1>6, <2>1
<1>13. Places' /\ AddsLatest'
  BY <1>1, <1>3, <1>11, <1>12 DEF IInv, Places, AddsLatest
<1>14. Running' = Running \cup {job}
  <2>1. \A v \in Workers : pc'[v] = "running" <=> pc[v] = "running" \/ v = w
    BY <1>3, <1>11
  <2>2. \A v \in Workers : v # w => req'[v] = req[v]
    BY <1>6 DEF Threads
  <2>3. pc[w] # "running"
    BY <1>3
  <2> QED BY <1>6, <2>1, <2>2, <2>3 DEF Running
<1>15. Clearing' = Clearing
  <2>1. \A v \in Workers : /\ pc'[v] = "clearing" <=> pc[v] = "clearing"
                           /\ pc[v] = "clearing" => req'[v] = req[v]
    BY <1>3, <1>6, <1>11 DEF Threads
  <2> QED BY <2>1 DEF Clearing
<1>16. Adding' = Adding /\ Accepted' = Accepted
  <2>1. Adding' = Adding
    BY <1>12 DEF Adding
  <2>2. \A j \in Jobs : j[1] \in Clients
    BY DEF Jobs
  <2>3. Accepted' = Accepted
    BY <1>1, <1>12, <2>2 DEF Accepted
  <2> QED BY <2>1, <2>3
<1>17. OwnRequests'
  <2>1. Busy' = Busy \cup {w} /\ w \notin Busy
    BY <1>3, <1>11 DEF Busy
  <2>2. \A v \in Busy : req'[v] = req[v] /\ req[v] \in Range(started)
    BY <1>6, <2>1 DEF IInv, OwnRequests, Busy, Threads
  <2>3. \A v \in Busy : req'[v] # job
    BY <1>8, <2>2
  <2> QED BY <1>6, <1>7, <2>1, <2>2, <2>3 DEF IInv, OwnRequests
<1>18. Called'
  BY <1>1, <1>7, <1>8, <1>14, <1>15 DEF IInv, Called
<1>19. CalledOnce' /\ (Range(started \o queue) = Accepted)'
  BY <1>5, <1>6, <1>16 DEF IInv, CalledOnce
<1>20. DeadlinesExact'
  BY <1>1, <1>5, <1>14, <1>15, <1>16 DEF IInv, DeadlinesExact
<1>21. Cardinality(Running) < Cardinality(Workers)
  <2> DEFINE runs == {v \in Workers : pc[v] = "running"}
             taken == [v \in runs |-> req[v]]
  <2>1. taken \in Surjection(runs, Running)
    BY DEF Running, Surjection
  <2>2. IsFiniteSet(Workers) /\ runs \in SUBSET Workers /\ runs # Workers
    BY <1>3, ThreadsAssumption
  <2> HIDE DEF runs, taken
  <2>3. /\ IsFiniteSet(runs) /\ Cardinality(runs) <= Cardinality(Workers)
        /\ Cardinality(runs) # Cardinality(Workers)
    BY <2>2, FS_Subset
  <2>4. Cardinality(Running) <= Cardinality(runs) /\ IsFiniteSet(Running)
    BY <2>1, <2>3, FS_Surjection
  <2>5. /\ Cardinality(Running) \in Nat /\ Cardinality(runs) \in Nat
        /\ Cardinality(Workers) \in Nat
    BY <2>2, <2>3, <2>4, FS_CardinalityType
  <2> QED BY <2>3, <2>4, <2>5
<1> QED
  BY <1>1, <1>5a, <1>9, <1>10, <1>13, <1>14, <1>17, <1>18, <1>19, <1>20, <1>21
  DEF IInv
(* A job that has run is still on the watchdog's list.                     *)
LEMMA RunKeepsIInv ==
  ASSUME IInv, NEW w \in Workers, Run(w)
  PROVE  /\ IInv' /\ UNCHANGED queue
         /\ req[w] \in Running /\ Running' = Running \ {req[w]}
         /\ finished' = finished \cup {req[w]}
<1>1. /\ TypeOK /\ NobodyOversleeps /\ pc[w] = "running" /\ w \in Threads
      /\ pc' = [pc EXCEPT ![w] = "clearing"] /\ finished' = finished \cup {req[w]}
      /\ lock' = lock /\ queue' = queue /\ req' = req /\ added' = added
      /\ deadlines' = deadlines /\ started' = started /\ spurious' = spurious
  BY DEF IInv, Run, Threads
<1>2. pc'[w] = "clearing" /\ \A u \in Threads : u # w => pc'[u] = pc[u]
  BY <1>1 DEF TypeOK
<1>3. w \in Busy /\ req[w] \in Range(started) /\ req[w] \in Running
  BY <1>1 DEF IInv, OwnRequests, Busy, Running
<1>4. \A v \in Workers : v # w /\ pc[v] \in {"running", "clearing"} => req[v] # req[w]
  BY <1>3 DEF IInv, OwnRequests, Busy
<1>5. \A c \in Clients : c \in Threads /\ pc'[c] = pc[c]
  BY <1>2, ThreadsAssumption DEF Threads
<1>6. \A v \in Workers : v # w => pc'[v] = pc[v]
  BY <1>2 DEF Threads
<1>7. TypeOK'
  <2>1. started \in Seq(Jobs)
    BY <1>1 DEF TypeOK
  <2>2. req[w] \in Jobs
    BY <1>3, <2>1, RangeOfSeq
  <2>3. /\ pc' \in [Threads -> {"idle", "locking", "locked", "waiting",
                                "running", "clearing"}]
        /\ \A t \in Threads : pc'[t] = "locked" <=> lock = t
    BY <1>1, <1>2 DEF TypeOK
  <2> QED BY <1>1, <2>2, <2>3 DEF TypeOK
<1>8. NobodyOversleeps'
  BY <1>1, <1>2, NobodyTurnsBack
<1>9. Places' /\ AddsLatest'
  BY <1>1, <1>2, <1>5, <1>6 DEF IInv, Places, AddsLatest
<1>10. Adding' = Adding /\ Accepted' = Accepted
  <2>1. Adding' = Adding
    BY <1>1, <1>5 DEF Adding
  <2>2. \A j \in Jobs : j[1] \in Clients
    BY DEF Jobs
  <2>3. Accepted' = Accepted
    BY <1>1, <1>5, <2>2 DEF Accepted
  <2> QED BY <2>1, <2>3
<1>11. Running' = Running \ {req[w]}
  <2>1. \A v \in Workers : pc'[v] = "running" <=> pc[v] = "running" /\ v # w
    BY <1>2, <1>6
  <2>2. Running' = {req[v] : v \in {v \in Workers : pc'[v] = "running"}}
    BY <1>1 DEF Running
  <2> QED BY <1>4, <2>1, <2>2 DEF Running
<1>12. Clearing' = Clearing \cup {req[w]}
  <2>1. \A v \in Workers : pc'[v] = "clearing" <=> pc[v] = "clearing" \/ v = w
    BY <1>2, <1>6
  <2>2. Clearing' = {req[v] : v \in {v \in Workers : pc'[v] = "clearing"}}
    BY <1>1 DEF Clearing
  <2> QED BY <2>1, <2>2 DEF Clearing
<1>13. OwnRequests'
  <2>1. Busy' = Busy
    BY <1>1, <1>2, <1>6 DEF Busy
  <2> QED BY <1>1, <2>1 DEF IInv, OwnRequests
<1>14. Called'
  BY <1>1, <1>3, <1>11, <1>12 DEF IInv, Called
<1>15. CalledOnce' /\ (Range(started \o queue) = Accepted)'
  BY <1>1, <1>10 DEF IInv, CalledOnce
<1>16. DeadlinesExact'
  BY <1>1, <1>3, <1>10, <1>11, <1>12 DEF IInv, DeadlinesExact
<1> QED
  BY <1>1, <1>3, <1>7, <1>8, <1>9, <1>11, <1>13, <1>14, <1>15, <1>16 DEF IInv

(* Nobody else has to do with the job whose deadline is cleared.           *)
LEMMA ClearDeadlineKeepsIInv ==
  ASSUME IInv, NEW w \in Workers, ClearDeadline(w)
  PROVE  IInv' /\ UNCHANGED <<queue, Running, finished>>
<1>1. /\ TypeOK /\ NobodyOversleeps /\ pc[w] = "clearing" /\ w \in Threads
      /\ pc' = [pc EXCEPT ![w] = "locking"] /\ deadlines' = deadlines \ {req[w]}
      /\ lock' = lock /\ queue' = queue /\ req' = req /\ added' = added
      /\ started' = started /\ finished' = finished /\ spurious' = spurious
  BY DEF IInv, ClearDeadline, Threads
<1>2. pc'[w] = "locking" /\ \A u \in Threads : u # w => pc'[u] = pc[u]
  BY <1>1 DEF TypeOK
<1>3. w \in Busy /\ req[w] \in Range(started) /\ req[w] \in Clearing
  BY <1>1 DEF IInv, OwnRequests, Busy, Clearing
<1>4. \A v \in Workers : v # w /\ pc[v] \in {"running", "clearing"} => req[v] # req[w]
  BY <1>3 DEF IInv, OwnRequests, Busy
<1>5. \A c \in Clients : c \in Threads /\ pc'[c] = pc[c]
  BY <1>2, ThreadsAssumption DEF Threads
<1>6. \A v \in Workers : v # w => pc'[v] = pc[v]
  BY <1>2 DEF Threads
<1>7. TypeOK'
  <2>1. /\ pc' \in [Threads -> {"idle", "locking", "locked", "waiting",
                                "running", "clearing"}]
        /\ \A t \in Threads : pc'[t] = "locked" <=> lock = t
    BY <1>1, <1>2 DEF TypeOK
  <2> QED BY <1>1, <2>1 DEF TypeOK
<1>8. NobodyOversleeps'
  BY <1>1, <1>2, NobodyTurnsBack
<1>9. Places' /\ AddsLatest'
  BY <1>1, <1>2, <1>5, <1>6 DEF IInv, Places, AddsLatest
<1>10. Adding' = Adding /\ Accepted' = Accepted
  <2>1. Adding' = Adding
    BY <1>1, <1>5 DEF Adding
  <2>2. \A j \in Jobs : j[1] \in Clients
    BY DEF Jobs
  <2>3. Accepted' = Accepted
    BY <1>1, <1>5, <2>2 DEF Accepted
  <2> QED BY <2>1, <2>3
<1>11. Running' = Running
  <2>1. \A v \in Workers : pc'[v] = "running" <=> pc[v] = "running"
    BY <1>1, <1>2, <1>6
  <2> QED BY <1>1, <2>1 DEF Running
<1>12. Clearing' = Clearing \ {req[w]}
  <2>1. \A v \in Workers : pc'[v] = "clearing" <=> pc[v] = "clearing" /\ v # w
    BY <1>2, <1>6
  <2>2. Clearing' = {req[v] : v \in {v \in Workers : pc'[v] = "clearing"}}
    BY <1>1 DEF Clearing
  <2> QED BY <1>4, <2>1, <2>2 DEF Clearing
<1>13. OwnRequests'
  <2>1. Busy' = Busy \ {w}
    BY <1>2, <1>6 DEF Busy
  <2> QED BY <1>1, <2>1 DEF IInv, OwnRequests
<1>14. Called'
  BY <1>1, <1>11, <1>12 DEF IInv, Called
<1>15. CalledOnce' /\ (Range(started \o queue) = Accepted)'
  BY <1>1, <1>10 DEF IInv, CalledOnce
<1>16. req[w] \notin Adding \cup Range(queue) \cup Running
  <2>1. queue \in Seq(Jobs) /\ started \in Seq(Jobs)
    BY <1>1 DEF TypeOK
  <2>2. Range(started) \cap Range(queue) = {}
    BY <2>1, Halves DEF IInv, CalledOnce
  <2>3. req[w] \in Accepted
    <3>1. Range(started \o queue) = Range(started) \cup Range(queue)
      BY <2>1, RangeConcatenation
    <3> QED BY <1>3, <3>1 DEF IInv
  <2>4. \A c \in Clients : pc[c] # "idle" => req[c] \notin Accepted
    BY DEF IInv, AddsLatest, Accepted
  <2>5. req[w] \notin Adding
    BY <2>3, <2>4 DEF Adding
  <2>6. req[w] \notin Running
    BY <1>1, <1>4 DEF Running
  <2> QED BY <1>3, <2>2, <2>5, <2>6
<1>17. DeadlinesExact'
  BY <1>1, <1>10, <1>11, <1>12, <1>16 DEF IInv, DeadlinesExact
<1> QED
  BY <1>1, <1>7, <1>8, <1>9, <1>11, <1>13, <1>14, <1>15, <1>17 DEF IInv

-----------------------------------------------------------------------------
(* Every step: the invariant, and what JobPool sees of it.                 *)

LEMMA InitIInv == Init => IInv
<1> SUFFICES ASSUME Init PROVE IInv
  OBVIOUS
<1>1. TypeOK
  BY ThreadsAssumption, SizesAssumption DEF Init, TypeOK, Threads
<1>2. \A w \in Workers : pc[w] = "locking"
  BY DEF Init, Threads
<1>3. \A c \in Clients : pc[c] = "idle" /\ added[c] = 0
  BY ThreadsAssumption DEF Init, Threads
<1>4. Places /\ AddsLatest
  BY <1>2, <1>3 DEF Places, AddsLatest
<1>5. Busy = {} /\ Running = {} /\ Clearing = {} /\ Adding = {}
  BY <1>2, <1>3 DEF Busy, Running, Clearing, Adding
<1>6. Accepted = {}
  <2>1. \A job \in Jobs : job[1] \in Clients /\ job[2] \in Nat /\ job[2] > 0
    BY DEF Jobs
  <2> QED BY <1>3, <2>1 DEF Accepted
<1>7. started = <<>> /\ queue = <<>> /\ deadlines = {} /\ finished = {}
  BY DEF Init
<1>8. /\ started \o queue = <<>> /\ DOMAIN (started \o queue) = {}
      /\ DOMAIN started = {} /\ DOMAIN queue = {}
  BY <1>7
<1>9. Range(started) = {} /\ Range(queue) = {} /\ Range(started \o queue) = {}
  BY <1>8 DEF Range
<1>10. CalledOnce
  BY <1>8 DEF CalledOnce, IsInjective
<1>11. OwnRequests /\ Called /\ DeadlinesExact
  BY <1>5, <1>7, <1>9 DEF OwnRequests, Called, DeadlinesExact
<1>12. NobodyOversleeps
  <2>1. Sleeping(Workers) = {} /\ Sleeping(Clients) = {}
    BY <1>2, <1>3 DEF Sleeping
  <2> QED BY <2>1 DEF NobodyOversleeps
<1> QED BY <1>1, <1>4, <1>6, <1>9, <1>10, <1>11, <1>12 DEF IInv

(* The instance of JobPool counts as this module does.                     *)
LEMMA PoolCounts == \A S : Pool!Cardinality(S) = Cardinality(S)
BY DEF Pool!Cardinality, Cardinality

(* A step of a client is a JobPool step that accepts its job, or none.     *)
LEMMA ClientStep ==
  ASSUME IInv, NEW c \in Clients, Client(c)
  PROVE  IInv' /\ [Pool!Next]_(Pool!vars)
<1>1. c \in Threads
  BY DEF Threads
<1>2. CASE Lock(c)
  BY <1>1, <1>2, LockKeepsIInv DEF Pool!vars
<1>3. CASE SubmitDeadline(c)
  BY <1>3, SubmitDeadlineKeepsIInv DEF Pool!vars
<1>4. CASE AddWaits(c)
  <2>1. lock = c /\ Len(queue) >= QueueSize /\ Wait(c) /\ c \notin Workers
    BY <1>4, ThreadsAssumption DEF AddWaits
  <2> QED BY <1>1, <2>1, WaitKeepsIInv DEF Pool!vars
<1>5. CASE Add(c)
  <2>1. IInv' /\ Pool!Accept(req[c]) /\ req[c] \in Jobs
    BY <1>5, AddKeepsIInv DEF Pool!Accept, Pool!Range, Range
  <2> QED BY <2>1 DEF Pool!Next
<1> QED BY <1>2, <1>3, <1>4, <1>5 DEF Client

(* A step of a runner starts the oldest job, finishes its own, or neither. *)
LEMMA WorkerStep ==
  ASSUME IInv, NEW w \in Workers, Worker(w)
  PROVE  IInv' /\ [Pool!Next]_(Pool!vars)
<1>1. w \in Threads
  BY DEF Threads
<1>2. CASE Lock(w)
  BY <1>1, <1>2, LockKeepsIInv DEF Pool!vars
<1>3. CASE RunnerWaits(w)
  <2>1. lock = w /\ queue = <<>> /\ Wait(w) /\ w \notin Clients
    BY <1>3, ThreadsAssumption DEF RunnerWaits
  <2> QED BY <1>1, <2>1, WaitKeepsIInv DEF Pool!vars
<1>4. CASE Take(w)
  <2>1. IInv' /\ Pool!Start
    BY <1>4, TakeKeepsIInv, PoolCounts DEF Pool!Start
  <2> QED BY <2>1 DEF Pool!Next
<1>5. CASE Run(w)
  <2>1. IInv' /\ Pool!Finish(req[w])
    BY <1>5, RunKeepsIInv DEF Pool!Finish
  <2>2. req[w] \in Jobs
    <3>1. req[w] \in Running /\ Running \subseteq Range(started) /\ started \in Seq(Jobs)
      BY <1>5, RunKeepsIInv DEF IInv, Called, TypeOK
    <3> QED BY <3>1, RangeOfSeq
  <2> QED BY <2>1, <2>2 DEF Pool!Next
<1>6. CASE ClearDeadline(w)
  BY <1>6, ClearDeadlineKeepsIInv DEF Pool!vars
<1> QED BY <1>2, <1>3, <1>4, <1>5, <1>6 DEF Worker

LEMMA NextStep ==
  ASSUME IInv, [Next]_vars
  PROVE  IInv' /\ [Pool!Next]_(Pool!vars)
<1>1. CASE UNCHANGED vars
  <2>1. UNCHANGED <<queue, Running, finished>>
    BY <1>1 DEF vars, Running
  <2>2. IInv'
    BY <1>1 DEF vars, IInv, TypeOK, Places, AddsLatest, OwnRequests, Busy, Called,
       Accepted, CalledOnce, DeadlinesExact, Adding, Running, Clearing,
       NobodyOversleeps, Sleeping, Awake
  <2> QED BY <2>1, <2>2 DEF Pool!vars
<1>2. ASSUME NEW c \in Clients, Client(c) PROVE IInv' /\ [Pool!Next]_(Pool!vars)
  BY <1>2, ClientStep
<1>3. ASSUME NEW w \in Workers, Worker(w) PROVE IInv' /\ [Pool!Next]_(Pool!vars)
  BY <1>3, WorkerStep
<1>4. ASSUME NEW t \in Threads, WakeUp(t) PROVE IInv' /\ [Pool!Next]_(Pool!vars)
  BY <1>4, WakeUpKeepsIInv DEF Pool!vars
<1>5. Resting => UNCHANGED vars
  BY DEF Resting
<1> QED BY <1>1, <1>2, <1>3, <1>4, <1>5 DEF Next

THEOREM Invariance == Spec => []IInv
<1>1. IInv /\ [Next]_vars => IInv'
  BY NextStep
<1> QED BY InitIInv, <1>1, PTL DEF Spec

-----------------------------------------------------------------------------

(* Types of the variables of the pool, its clients and its runners.        *)
THEOREM TypeCorrect == Spec => []TypeOK
<1>1. IInv => TypeOK
  BY DEF IInv
<1> QED BY <1>1, Invariance, PTL

(***************************************************************************)
(* No wakeup is lost (thread-pool.c:76-84 and 172-181): while a runner     *)
(* sleeps there are as many on their way to the queue as jobs in it, and   *)
(* while a client sleeps as many clients as free slots.                    *)
(***************************************************************************)
THEOREM NoLostWakeup == Spec => []NobodyOversleeps
<1>1. IInv => NobodyOversleeps
  BY DEF IInv
<1> QED BY <1>1, Invariance, PTL

(* No request is queued or called twice (thread-pool.c:71-86).             *)
THEOREM OneCallPerRequest == Spec => []CalledOnce
<1>1. IInv => CalledOnce
  BY DEF IInv
<1> QED BY <1>1, Invariance, PTL

(***************************************************************************)
(* The watchdog has a deadline for a job exactly from the beginning of     *)
(* thread_pool_add_request to the end of its function                      *)
(* (thread-pool.c:164-170 and 86-88).                                      *)
(***************************************************************************)
THEOREM WatchedExactly == Spec => []DeadlinesExact
<1>1. IInv => DeadlinesExact
  BY DEF IInv
<1> QED BY <1>1, Invariance, PTL

(* The jobs that clients have begun to add.                                *)
Requested == {job \in Jobs : job[2] <= added[job[1]]}

(***************************************************************************)
(* No request is lost: each one is being added, in the queue, running or   *)
(* done (thread-pool.c:63-92 and 164-182).                                 *)
(***************************************************************************)
THEOREM NoRequestLost ==
  Spec => [](Requested = Adding \cup Range(queue) \cup Running \cup finished)
<1>1. ASSUME IInv
      PROVE  Requested = Adding \cup Range(queue) \cup Running \cup finished
  <2>1. Accepted = Range(queue) \cup Running \cup finished
    <3>1. started \in Seq(Jobs) /\ queue \in Seq(Jobs)
      BY <1>1 DEF IInv, TypeOK
    <3>2. Range(started \o queue) = Range(started) \cup Range(queue)
      BY <3>1, RangeConcatenation
    <3> QED BY <1>1, <3>2 DEF IInv, Called
  <2>2. Adding \subseteq Requested
    <3>1. ASSUME NEW c \in Clients, pc[c] # "idle" PROVE req[c] \in Requested
      <4>1. /\ req[c] = <<c, added[c]>> /\ added[c] > 0
            /\ added[c] \in 0 .. JobsPerClient
        BY <1>1, <3>1 DEF IInv, AddsLatest, TypeOK
      <4>2. req[c] \in Jobs
        BY <4>1, SizesAssumption DEF Jobs
      <4> QED BY <4>1, <4>2 DEF Requested
    <3> QED BY <3>1 DEF Adding
  <2>3. Accepted \subseteq Requested
    BY DEF Accepted, Requested
  <2>4. ASSUME NEW job \in Requested, job \notin Accepted PROVE job \in Adding
    <3>1. /\ job[1] \in Clients /\ job = <<job[1], job[2]>>
          /\ pc[job[1]] # "idle" /\ job[2] = added[job[1]]
      BY <2>4 DEF Requested, Accepted, Jobs
    <3>2. req[job[1]] = job
      BY <1>1, <3>1 DEF IInv, AddsLatest
    <3> QED BY <3>1, <3>2 DEF Adding
  <2> QED BY <2>1, <2>2, <2>3, <2>4
<1> QED BY <1>1, Invariance, PTL

(***************************************************************************)
(* The pool does only what JobPool does: requests are started in the order *)
(* in which they were accepted, each once, by no more threads than there   *)
(* are.  This is PoolSpec without its fairness.                            *)
(***************************************************************************)
THEOREM PoolSafety == Spec => Pool!Init /\ [][Pool!Next]_(Pool!vars)
<1>1. Init => Pool!Init
  <2>1. Init => \A w \in Workers : pc[w] # "running"
    BY DEF Init, Threads
  <2> QED BY <2>1 DEF Init, Pool!Init, Running
<1>2. IInv /\ [Next]_vars => [Pool!Next]_(Pool!vars)
  BY NextStep
<1> QED BY <1>1, <1>2, Invariance, PTL DEF Spec
=============================================================================
