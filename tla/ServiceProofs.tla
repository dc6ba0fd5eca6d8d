--------------------------- MODULE ServiceProofs ---------------------------
(***************************************************************************)
(* Proofs about Service, for any number of backend threads, any set of     *)
(* enabled metrics and any queues that satisfy QueuesAssumption.           *)
(***************************************************************************)
EXTENDS Service, FiniteSetTheorems, SequenceTheorems, TLAPS

-----------------------------------------------------------------------------
(* Queues as injective sequences.                                          *)

(* Appending a token that is not in a queue adds it to the queue's tokens  *)
(* and leaves no token twice.                                              *)
LEMMA AppendFacts ==
  ASSUME NEW S, NEW s \in Seq(S), NEW x \in S
  PROVE  /\ Append(s, x) \in Seq(S)
         /\ Range(Append(s, x)) = Range(s) \cup {x}
         /\ IsInjective(s) /\ x \notin Range(s) => IsInjective(Append(s, x))
<1> DEFINE a == Append(s, x)
<1>1. /\ a \in Seq(S)
      /\ Len(a) = Len(s) + 1
      /\ Len(s) \in Nat
      /\ DOMAIN s = 1 .. Len(s)
      /\ DOMAIN a = 1 .. Len(s) + 1
      /\ a[Len(s) + 1] = x
      /\ \A i \in 1 .. Len(s) : a[i] = s[i]
  OBVIOUS
<1> HIDE DEF a
<1>2. Range(a) = Range(s) \cup {x}
  <2>1. ASSUME NEW y \in Range(a) PROVE y \in Range(s) \cup {x}
    BY <1>1 DEF Range
  <2>2. ASSUME NEW y \in Range(s) PROVE y \in Range(a)
    BY <1>1 DEF Range
  <2>3. x \in Range(a)
    BY <1>1 DEF Range
  <2> QED BY <2>1, <2>2, <2>3
<1>3. ASSUME IsInjective(s), x \notin Range(s) PROVE IsInjective(a)
  BY <1>1, <1>3 DEF Range, IsInjective
<1> QED BY <1>1, <1>2, <1>3 DEF a

(* Taking the head of a queue without duplicates takes its token away.     *)
LEMMA TailFacts ==
  ASSUME NEW S, NEW s \in Seq(S), s # <<>>, IsInjective(s)
  PROVE  /\ Head(s) \in S
         /\ Head(s) \in Range(s)
         /\ Tail(s) \in Seq(S)
         /\ Range(Tail(s)) = Range(s) \ {Head(s)}
         /\ IsInjective(Tail(s))
<1> DEFINE t == Tail(s)
<1>1. /\ t \in Seq(S)
      /\ Len(s) \in Nat \ {0}
      /\ DOMAIN s = 1 .. Len(s)
      /\ DOMAIN t = 1 .. Len(s) - 1
      /\ Head(s) = s[1]
      /\ Head(s) \in S
      /\ \A i \in 1 .. Len(s) - 1 : t[i] = s[i + 1]
  OBVIOUS
<1> HIDE DEF t
<1>2. Head(s) \in Range(s)
  BY <1>1 DEF Range
<1>3. Range(t) = Range(s) \ {Head(s)}
  <2>1. ASSUME NEW y \in Range(t) PROVE y \in Range(s) \ {Head(s)}
    <3>1. PICK i \in 1 .. Len(s) - 1 : y = s[i + 1]
      BY <1>1 DEF Range
    <3> QED BY <1>1, <3>1 DEF Range, IsInjective
  <2>2. ASSUME NEW y \in Range(s), y # Head(s) PROVE y \in Range(t)
    <3>1. PICK i \in 1 .. Len(s) : y = s[i]
      BY <1>1 DEF Range
    <3>2. i - 1 \in 1 .. Len(s) - 1 /\ t[i - 1] = y
      BY <1>1, <2>2, <3>1
    <3> QED BY <1>1, <3>2 DEF Range
  <2> QED BY <2>1, <2>2
<1>4. IsInjective(t)
  <2> SUFFICES ASSUME NEW i \in DOMAIN t, NEW j \in DOMAIN t, t[i] = t[j]
               PROVE  i = j
    BY DEF IsInjective
  <2>1. i + 1 \in DOMAIN s /\ j + 1 \in DOMAIN s /\ s[i + 1] = s[j + 1]
    BY <1>1
  <2>2. i + 1 = j + 1
    BY <2>1 DEF IsInjective
  <2> QED BY <1>1, <2>2
<1> QED BY <1>1, <1>2, <1>3, <1>4 DEF t

(* A queue without duplicates is no longer than the set of its tokens.     *)
LEMMA LenBound ==
  ASSUME NEW S, NEW s \in Seq(S), IsInjective(s),
         NEW T, IsFiniteSet(T), Range(s) \subseteq T
  PROVE  Len(s) <= Cardinality(T)
<1>1. s \in Injection(1 .. Len(s), T)
  BY DEF Injection, IsInjective, Range
<1>2. Cardinality(1 .. Len(s)) = Len(s)
  <2>1. Len(s) \in Nat /\ Len(s) \in Int /\ 1 \in Int
    OBVIOUS
  <2>2. Cardinality(1 .. Len(s)) = IF 1 > Len(s) THEN 0 ELSE Len(s) - 1 + 1
    BY <2>1, FS_Interval, Zenon
  <2> QED BY <2>1, <2>2
<1> QED BY <1>1, <1>2, FS_Injection

-----------------------------------------------------------------------------
(* The inductive invariant.                                                *)

(* A token is somewhere in the pools. *)
Carried(x) ==
  \/ x \in Range(feQueue)
  \/ x \in Range(beQueue)
  \/ feJob = x
  \/ \E t \in BackendThreads : be[t] = x

(* The first poll and the first postcode store are still to come, and only *)
(* main_thread has a bitmap of requests.                                   *)
Startup ==
  /\ mainPc = "start" => alarm = "off" /\ ~Carried(Poll)
  /\ mainPc \in {"start", "postcode"} => ~Carried(Postcode)
  /\ feBitmap # {} => feJob = Poll

(* BitmapExact, request by request. *)
BitmapByRequest ==
  /\ \A r \in Requests : r \in inProcessing <=> Carried(r)
  /\ feBitmap \cap inProcessing = {}

IInv == TypeOK /\ OnePlace /\ OnePoll /\ BitmapByRequest /\ Startup

(* The metrics are numbers and no metric is a token of another kind. *)
LEMMA TokenFacts ==
  /\ Enabled \subseteq Requests
  /\ Poll \notin Requests /\ Postcode \notin Requests /\ Idle \notin Requests
  /\ Poll # Postcode /\ Idle # Poll /\ Idle # Postcode
BY TokensAssumption DEF Enabled, Tokens

LEMMA BitmapForms ==
  TypeOK => (BitmapByRequest <=> BitmapExact)
<1> SUFFICES ASSUME TypeOK PROVE BitmapByRequest <=> BitmapExact
  OBVIOUS
<1>1. \A x : x \in Range(be) <=> \E t \in BackendThreads : be[t] = x
  BY DEF TypeOK, Range
<1>2. \A r \in Requests : r \in Outstanding <=> Carried(r)
  BY <1>1, TokenFacts DEF Outstanding, Carried
<1>3. inProcessing \subseteq Requests
  BY TokenFacts DEF TypeOK
<1> QED BY <1>2, <1>3 DEF BitmapByRequest, BitmapExact

LEMMA InitInv == Init => IInv
<1> SUFFICES ASSUME Init PROVE IInv
  OBVIOUS
<1> USE DEF Init
<1>1. Range(<<>>) = {} /\ IsInjective(<<>>)
  BY DEF Range, IsInjective
<1>2. TypeOK
  <2>1. <<>> \in Seq(Enabled \cup {Poll, Postcode}) /\ <<>> \in Seq(Enabled \cup {Postcode})
    OBVIOUS
  <2>2. be \in [BackendThreads -> Enabled \cup {Postcode, Idle}]
    OBVIOUS
  <2>3. faults \in 0 .. MaxFaults
    BY OptionsAssumption
  <2> QED BY <2>1, <2>2, <2>3 DEF TypeOK
<1>3. \A x : Carried(x) => x = Idle
  <2>1. Range(feQueue) = {} /\ Range(beQueue) = {}
    BY <1>1, Zenon
  <2> QED BY <2>1 DEF Carried
<1>4. OnePlace /\ OnePoll
  BY <1>1 DEF OnePlace, OnePoll
<1>5. BitmapByRequest /\ Startup
  BY <1>3, TokenFacts DEF BitmapByRequest, Startup
<1> QED BY <1>2, <1>4, <1>5 DEF IInv

-----------------------------------------------------------------------------
(* Each action preserves it.                                               *)

(* What the actions that touch no job leave as it is. *)
LEMMA SameJobs ==
  ASSUME IInv, UNCHANGED <<feQueue, beQueue, feJob, feBitmap, be, inProcessing>>
  PROVE  /\ OnePlace' /\ BitmapByRequest'
         /\ \A x : Carried(x)' <=> Carried(x)
BY DEF IInv, OnePlace, BitmapByRequest, Carried

LEMMA MainInv ==
  ASSUME IInv, Main \/ Cleanup
  PROVE  IInv'
<1> USE DEF IInv
<1>1. CASE MainArmAlarm
  <2> USE <1>1 DEF MainArmAlarm, MainAt, pools, data
  <2>1. OnePlace' /\ BitmapByRequest' /\ \A x : Carried(x)' <=> Carried(x)
    BY SameJobs
  <2>2. TypeOK'
    BY DEF TypeOK
  <2>3. OnePoll'
    BY DEF Startup, OnePoll, Carried
  <2>4. Startup'
    BY <2>1 DEF Startup
  <2> QED BY <2>1, <2>2, <2>3, <2>4
<1>2. CASE FP_store_daemon_postcode
  <2> USE <1>2 DEF FP_store_daemon_postcode, MainAt, BackendAdd, signals, data
  <2>1. /\ Postcode \in Enabled \cup {Postcode}
        /\ Postcode \notin Range(beQueue)
        /\ beQueue' = Append(beQueue, Postcode)
    BY DEF Startup, Carried
  <2>2. /\ beQueue' \in Seq(Enabled \cup {Postcode})
        /\ Range(beQueue') = Range(beQueue) \cup {Postcode}
        /\ IsInjective(beQueue')
    BY <2>1, AppendFacts DEF TypeOK, OnePlace
  <2>3. TypeOK'
    BY <2>2 DEF TypeOK
  <2>4. OnePlace'
    BY <2>1, <2>2, TokenFacts DEF OnePlace, Startup, Carried
  <2>5. OnePoll' /\ BitmapByRequest' /\ Startup'
    BY <2>2, TokenFacts DEF OnePoll, BitmapByRequest, Startup, Carried
  <2> QED BY <2>3, <2>4, <2>5
<1>3. CASE SigwaitReturns \/ Cleanup
  <2> USE <1>3 DEF SigwaitReturns, Cleanup, MainAt, signals, pools, data
  <2>1. OnePlace' /\ BitmapByRequest' /\ \A x : Carried(x)' <=> Carried(x)
    BY SameJobs
  <2>2. TypeOK' /\ OnePoll'
    BY DEF TypeOK, OnePoll
  <2>3. Startup'
    BY <2>1 DEF Startup
  <2> QED BY <2>1, <2>2, <2>3
<1> QED BY <1>1, <1>2, <1>3 DEF Main

LEMMA AlarmInv ==
  ASSUME IInv, Alarm
  PROVE  IInv'
<1> USE DEF IInv
<1>1. CASE AlarmExpires \/ HandlerOutlivesPools
  <2> USE <1>1 DEF AlarmExpires, HandlerOutlivesPools, pools, data
  <2>1. OnePlace' /\ BitmapByRequest' /\ \A x : Carried(x)' <=> Carried(x)
    BY SameJobs
  <2>2. TypeOK' /\ OnePoll'
    BY DEF TypeOK, OnePoll
  <2>3. Startup'
    BY <2>1 DEF Startup
  <2> QED BY <2>1, <2>2, <2>3
<1>2. CASE signal_handler
  <2> USE <1>2 DEF signal_handler, FrontendAdd, data
  <2>1. /\ Poll \in Enabled \cup {Poll, Postcode}
        /\ Poll \notin Range(feQueue) \cup {feJob}
        /\ feQueue' = Append(feQueue, Poll)
    BY DEF OnePoll
  <2>2. /\ feQueue' \in Seq(Enabled \cup {Poll, Postcode})
        /\ Range(feQueue') = Range(feQueue) \cup {Poll}
        /\ IsInjective(feQueue')
    <3>1. feQueue \in Seq(Enabled \cup {Poll, Postcode}) /\ IsInjective(feQueue)
      BY DEF TypeOK, OnePlace
    <3> HIDE <1>2
    <3> QED BY <2>1, <3>1, AppendFacts
  <2>3. Poll \notin Range(beQueue) /\ \A t \in BackendThreads : be[t] # Poll
    <3>1. Poll \notin Enabled \cup {Postcode, Idle}
      BY TokenFacts
    <3>2. Range(beQueue) \subseteq Enabled \cup {Postcode}
      <4>1. beQueue \in Seq(Enabled \cup {Postcode})
        BY DEF TypeOK
      <4> QED BY <4>1 DEF Range
    <3> QED BY <3>1, <3>2 DEF TypeOK
  <2>4. TypeOK'
    BY <2>2 DEF TypeOK
  <2>5. OnePlace'
    BY <2>1, <2>2, <2>3 DEF OnePlace
  <2>6. OnePoll' /\ BitmapByRequest' /\ Startup'
    BY <2>2, TokenFacts DEF OnePoll, BitmapByRequest, Startup, Carried
  <2> QED BY <2>4, <2>5, <2>6
<1> QED BY <1>1, <1>2 DEF Alarm

(* A poll is run by main_thread on the frontend only. *)
LEMMA PollOnFrontend ==
  TypeOK => Poll \notin Range(beQueue) /\ \A t \in BackendThreads : be[t] # Poll
<1> SUFFICES ASSUME TypeOK
             PROVE  Poll \notin Range(beQueue) /\ \A t \in BackendThreads : be[t] # Poll
  OBVIOUS
<1>1. Poll \notin Enabled \cup {Postcode, Idle}
  BY TokenFacts
<1>2. beQueue \in Seq(Enabled \cup {Postcode})
  BY DEF TypeOK
<1>3. Range(beQueue) \subseteq Enabled \cup {Postcode}
  BY <1>2 DEF Range
<1> QED BY <1>1, <1>3 DEF TypeOK

LEMMA IdleNotQueued ==
  TypeOK => Idle \notin Range(feQueue) \cup Range(beQueue)
<1> SUFFICES ASSUME TypeOK PROVE Idle \notin Range(feQueue) \cup Range(beQueue)
  OBVIOUS
<1>1. Idle \notin Enabled \cup {Poll, Postcode}
  BY TokenFacts
<1>2. feQueue \in Seq(Enabled \cup {Poll, Postcode}) /\ beQueue \in Seq(Enabled \cup {Postcode})
  BY DEF TypeOK
<1> QED BY <1>1, <1>2 DEF Range

(* Publishing a metric ends the only job that carried it. *)
LEMMA PublishInv ==
  ASSUME IInv, NEW r \in Requests, Publish(r), hddList' \in Nat, hddFree' \in Nat
  PROVE  IInv'
<1> USE DEF IInv
<1>1. /\ feJob = r /\ feJob' = Idle
      /\ inProcessing' = inProcessing \ {r}
      /\ context' = context \ {r}
      /\ UNCHANGED <<mainPc, alarm, terminated, feQueue, beQueue, feBitmap, be,
                    hung, postcodeStored>>
  BY DEF Publish, signals, in_processing_remove_request
<1>2. shown' \in SUBSET Enabled /\ faults' \in 0 .. MaxFaults
  <2>1. r \in Enabled /\ shown \in SUBSET Enabled /\ faults \in 0 .. MaxFaults
    BY <1>1, TokenFacts DEF TypeOK
  <2>2. shown' \in {shown, shown \cup {r}} /\ (faults' = faults \/ Fault)
    BY DEF Publish
  <2> QED BY <2>1, <2>2, OptionsAssumption DEF Fault
<1>3. TypeOK'
  BY <1>1, <1>2 DEF TypeOK
<1>4. \A x : x # Idle => (Carried(x)' <=> Carried(x) /\ x # r)
  BY <1>1 DEF Carried, OnePlace
<1>5. OnePlace'
  BY <1>1, IdleNotQueued DEF OnePlace
<1>6. OnePoll'
  BY <1>1, TokenFacts DEF OnePoll
<1>7. BitmapByRequest'
  BY <1>1, <1>4, TokenFacts DEF BitmapByRequest
<1>8. Startup'
  BY <1>1, <1>4, TokenFacts DEF Startup
<1> QED BY <1>3, <1>5, <1>6, <1>7, <1>8

LEMMA FrontendRunInv ==
  ASSUME IInv, FrontendRun
  PROVE  IInv'
<1> USE DEF IInv, FrontendRun, signals, data, PollBitmap
<1>1. feQueue \in Seq(Enabled \cup {Poll, Postcode}) /\ feQueue # <<>> /\ IsInjective(feQueue)
  BY DEF TypeOK, OnePlace
<1>2. /\ feJob' \in Enabled \cup {Poll, Postcode}
      /\ feJob' \in Range(feQueue)
      /\ feQueue' \in Seq(Enabled \cup {Poll, Postcode})
      /\ Range(feQueue') = Range(feQueue) \ {feJob'}
      /\ IsInjective(feQueue')
  <2>1. feJob' = Head(feQueue) /\ feQueue' = Tail(feQueue)
    OBVIOUS
  <2> HIDE DEF FrontendRun
  <2> QED BY <1>1, <2>1, TailFacts
<1>3. TypeOK'
  BY <1>2 DEF TypeOK
<1>4. OnePlace'
  BY <1>2, TokenFacts DEF OnePlace
<1>5. OnePoll'
  BY <1>2 DEF OnePoll
<1>6. \A x : x # Idle => (Carried(x)' <=> Carried(x))
  BY <1>2 DEF Carried
<1>7. BitmapByRequest'
  BY <1>6, TokenFacts DEF BitmapByRequest
<1>8. Startup'
  BY <1>2, <1>6, TokenFacts DEF Startup
<1> QED BY <1>3, <1>4, <1>5, <1>7, <1>8

LEMMA MainThreadInv ==
  ASSUME IInv, MainThreadDispatch \/ MainThreadEnd
  PROVE  IInv'
<1> USE DEF IInv
<1>1. CASE MainThreadDispatch
  <2> USE <1>1 DEF MainThreadDispatch, signals, in_processing_add_request
  <2>1. PICK r \in feBitmap :
          /\ inProcessing' = inProcessing \cup {r}
          /\ beQueue' = Append(beQueue, r)
          /\ feBitmap' = feBitmap \ {r}
    BY DEF BackendAdd
  <2>2. r \in Enabled /\ r \in Requests /\ r \notin inProcessing /\ ~Carried(r)
    BY TokenFacts DEF TypeOK, BitmapByRequest
  <2>3. beQueue \in Seq(Enabled \cup {Postcode}) /\ IsInjective(beQueue)
    BY DEF TypeOK, OnePlace
  <2>4. /\ beQueue' \in Seq(Enabled \cup {Postcode})
        /\ Range(beQueue') = Range(beQueue) \cup {r}
        /\ IsInjective(beQueue')
    <3> HIDE <1>1
    <3> QED BY <2>1, <2>2, <2>3, AppendFacts DEF Carried
  <2>5. TypeOK'
    BY <2>1, <2>2, <2>4 DEF TypeOK
  <2>6. OnePlace'
    BY <2>2, <2>4 DEF OnePlace, Carried
  <2>7. OnePoll'
    BY DEF OnePoll
  <2>8. \A x : Carried(x)' <=> Carried(x) \/ x = r
    BY <2>4 DEF Carried
  <2>9. BitmapByRequest'
    BY <2>1, <2>2, <2>8 DEF BitmapByRequest
  <2>10. Startup'
    BY <2>1, <2>2, <2>8, TokenFacts DEF Startup
  <2> QED BY <2>5, <2>6, <2>7, <2>9, <2>10
<1>2. CASE MainThreadEnd
  <2> USE <1>2 DEF MainThreadEnd, data, NextAlarm
  <2>1. TypeOK'
    BY DEF TypeOK
  <2>2. OnePlace' /\ OnePoll'
    <3>1. Idle \notin Range(feQueue) \cup Range(beQueue)
      BY IdleNotQueued
    <3>2. OnePlace'
      BY <3>1 DEF OnePlace
    <3>3. OnePoll'
      BY TokenFacts DEF OnePlace, OnePoll
    <3> QED BY <3>2, <3>3
  <2>3. BitmapByRequest'
    BY TokenFacts DEF BitmapByRequest, Carried
  <2>4. Startup'
    BY TokenFacts DEF Startup, Carried
  <2> QED BY <2>1, <2>2, <2>3, <2>4
<1> QED BY <1>1, <1>2

LEMMA PostcodeInv ==
  ASSUME IInv, really_store_daemon_postcode
  PROVE  IInv'
<1> USE DEF IInv
<1>1. /\ feJob = Postcode /\ feJob' = Idle
      /\ postcodeStored' \in BOOLEAN
      /\ faults' \in 0 .. MaxFaults
      /\ UNCHANGED <<mainPc, alarm, terminated, feQueue, feBitmap, be, hung,
                    inProcessing, context, hddList, hddFree, shown>>
  <2>1. postcodeStored \in BOOLEAN /\ faults \in 0 .. MaxFaults
    BY DEF TypeOK
  <2> HIDE DEF IInv
  <2>2. postcodeStored' \in BOOLEAN /\ (faults' = faults \/ Fault)
    BY <2>1 DEF really_store_daemon_postcode
  <2>3. faults' \in 0 .. MaxFaults
    BY <2>1, <2>2, OptionsAssumption DEF Fault
  <2> QED BY <2>2, <2>3 DEF really_store_daemon_postcode, signals
<1>2. /\ beQueue' \in Seq(Enabled \cup {Postcode})
      /\ IsInjective(beQueue')
      /\ \/ Range(beQueue') = Range(beQueue)
         \/ Range(beQueue') = Range(beQueue) \cup {Postcode}
  <2>1. beQueue \in Seq(Enabled \cup {Postcode}) /\ IsInjective(beQueue)
        /\ Postcode \notin Range(beQueue) /\ Postcode \in Enabled \cup {Postcode}
    BY <1>1 DEF TypeOK, OnePlace
  <2>2. beQueue' = beQueue \/ beQueue' = Append(beQueue, Postcode)
    BY DEF really_store_daemon_postcode, BackendAdd
  <2> HIDE DEF IInv
  <2>3. CASE beQueue' = beQueue
    BY <2>1, <2>3
  <2>4. CASE beQueue' = Append(beQueue, Postcode)
    BY <2>1, <2>4, AppendFacts
  <2> QED BY <2>2, <2>3, <2>4
<1>3. TypeOK'
  BY <1>1, <1>2 DEF TypeOK
<1>4. OnePlace'
  BY <1>1, <1>2, IdleNotQueued, TokenFacts DEF OnePlace
<1>5. OnePoll'
  BY <1>1, TokenFacts DEF OnePoll
<1>6. /\ Carried(Postcode)
      /\ \A x : x # Idle /\ x # Postcode => (Carried(x)' <=> Carried(x))
  BY <1>1, <1>2 DEF Carried
<1>7. BitmapByRequest'
  BY <1>1, <1>6, TokenFacts DEF BitmapByRequest
<1>8. Startup'
  BY <1>1, <1>6, TokenFacts DEF Startup
<1> QED BY <1>3, <1>4, <1>5, <1>7, <1>8

LEMMA BackendRunInv ==
  ASSUME IInv, NEW t \in BackendThreads, BackendRun(t)
  PROVE  IInv'
<1> USE DEF IInv
<1>1. /\ be[t] = Idle /\ beQueue # <<>>
      /\ be' = [be EXCEPT ![t] = Head(beQueue)]
      /\ beQueue' = Tail(beQueue)
      /\ UNCHANGED <<mainPc, alarm, terminated, feQueue, feJob, feBitmap, hung,
                    inProcessing, context, hddList, hddFree, shown,
                    postcodeStored, faults>>
  BY DEF BackendRun, signals, data
<1>2. /\ Head(beQueue) \in Enabled \cup {Postcode}
      /\ Head(beQueue) \in Range(beQueue)
      /\ beQueue' \in Seq(Enabled \cup {Postcode})
      /\ Range(beQueue') = Range(beQueue) \ {Head(beQueue)}
      /\ IsInjective(beQueue')
  <2>1. beQueue \in Seq(Enabled \cup {Postcode}) /\ IsInjective(beQueue)
    BY DEF TypeOK, OnePlace
  <2> HIDE DEF IInv
  <2> QED BY <1>1, <2>1, TailFacts
<1>3. \A u \in BackendThreads : be'[u] = IF u = t THEN Head(beQueue) ELSE be[u]
  BY <1>1 DEF TypeOK
<1>4. TypeOK'
  BY <1>1, <1>2, <1>3 DEF TypeOK
<1>5. OnePlace'
  BY <1>1, <1>2, <1>3 DEF OnePlace
<1>6. \A x : x # Idle => (Carried(x)' <=> Carried(x))
  BY <1>1, <1>2, <1>3 DEF Carried
<1>7. OnePoll'
  BY <1>1 DEF OnePoll
<1>8. BitmapByRequest' /\ Startup'
  BY <1>1, <1>6, TokenFacts DEF BitmapByRequest, Startup
<1> QED BY <1>4, <1>5, <1>7, <1>8

(* The end of a backend job, whatever else the job has read. *)
LEMMA HandOverInv ==
  ASSUME IInv, NEW t \in BackendThreads, be[t] # Idle, HandOver(t),
         context' \subseteq Enabled, hddList' \in Nat, hddFree' \in Nat,
         faults' \in 0 .. MaxFaults
  PROVE  IInv'
<1> USE DEF IInv
<1>1. /\ be' = [be EXCEPT ![t] = Idle]
      /\ feQueue' = Append(feQueue, be[t])
      /\ UNCHANGED <<mainPc, alarm, terminated, beQueue, feJob, feBitmap, hung,
                    inProcessing, shown, postcodeStored>>
  BY DEF HandOver, FrontendAdd, signals
<1>2. /\ be[t] \in Enabled \cup {Postcode}
      /\ be[t] \notin Range(feQueue) \cup Range(beQueue) \cup {feJob}
      /\ \A u \in BackendThreads : be[u] = be[t] => u = t
  BY DEF TypeOK, OnePlace
<1>3. /\ feQueue' \in Seq(Enabled \cup {Poll, Postcode})
      /\ Range(feQueue') = Range(feQueue) \cup {be[t]}
      /\ IsInjective(feQueue')
  <2>1. feQueue \in Seq(Enabled \cup {Poll, Postcode}) /\ IsInjective(feQueue)
    BY DEF TypeOK, OnePlace
  <2> HIDE DEF IInv
  <2> QED BY <1>1, <1>2, <2>1, AppendFacts
<1>4. \A u \in BackendThreads : be'[u] = IF u = t THEN Idle ELSE be[u]
  BY <1>1 DEF TypeOK
<1>5. TypeOK'
  BY <1>1, <1>3, <1>4 DEF TypeOK
<1>6. OnePlace'
  BY <1>1, <1>2, <1>3, <1>4 DEF OnePlace
<1>7. \A x : x # Idle => (Carried(x)' <=> Carried(x))
  BY <1>1, <1>3, <1>4 DEF Carried
<1>8. OnePoll'
  BY <1>1, <1>2, <1>3, TokenFacts DEF OnePoll
<1>9. BitmapByRequest' /\ Startup'
  BY <1>1, <1>7, TokenFacts DEF BitmapByRequest, Startup
<1> QED BY <1>5, <1>6, <1>8, <1>9

LEMMA BackendInv ==
  ASSUME IInv, NEW t \in BackendThreads, Backend(t)
  PROVE  IInv'
<1>1. /\ context \subseteq Enabled /\ hddList \in Nat /\ hddFree \in Nat
      /\ faults \in 0 .. MaxFaults /\ MaxFaults \in Nat
      /\ be[t] \in Enabled \cup {Postcode, Idle}
  BY OptionsAssumption DEF IInv, TypeOK
<1>2. CASE BackendRun(t)
  BY <1>2, BackendRunInv
<1>3. CASE backend_delay(t)
  BY <1>1, <1>3, HandOverInv, TokenFacts DEF backend_delay
<1>4. ASSUME NEW r \in Requests, be[t] = r, SampleCores(r)
      PROVE  be[t] # Idle /\ context' \subseteq Enabled /\ faults' \in 0 .. MaxFaults
  BY <1>1, <1>4, TokenFacts DEF SampleCores, Sample, Fault
<1>5. CASE get_temperature(t) \/ get_frequency(t) \/ get_gpu_temperature(t)
  <2>1. PICK r \in Requests :
          /\ be[t] = r /\ SampleCores(r) /\ HandOver(t)
          /\ UNCHANGED <<hddList, hddFree>>
    BY <1>5 DEF get_temperature, get_frequency, get_gpu_temperature, Requests,
                SampleCores
  <2> QED BY <1>1, <1>4, <2>1, HandOverInv
<1>6. CASE get_hdd_temperature(t)
  <2>1. be[t] = HDDTR /\ HDDTR \in Requests /\ HandOver(t)
    BY <1>6 DEF get_hdd_temperature, Requests
  <2>2. PICK disks \in 0 .. MaxDisks :
          /\ hddList' = hddList + disks
          /\ hddFree' = IF disks <= hddFree THEN hddFree - disks ELSE 0
          /\ faults' = faults \/ Fault
          /\ context' = context \cup {HDDTR} \/ context' = context
    BY <1>6 DEF get_hdd_temperature
  <2>3. hddList' \in Nat /\ hddFree' \in Nat
    BY <1>1, <2>2, OptionsAssumption
  <2>4. context' \subseteq Enabled /\ faults' \in 0 .. MaxFaults
    BY <1>1, <2>1, <2>2, TokenFacts DEF Fault
  <2> QED BY <2>1, <2>3, <2>4, HandOverInv, TokenFacts
<1> QED BY <1>2, <1>3, <1>5, <1>6 DEF Backend

-----------------------------------------------------------------------------
(* The theorems.                                                           *)

LEMMA NextInv == IInv /\ [Next]_vars => IInv'
<1> SUFFICES ASSUME IInv, [Next]_vars PROVE IInv'
  OBVIOUS
<1>1. CASE Main \/ Cleanup
  BY <1>1, MainInv
<1>2. CASE Alarm
  BY <1>2, AlarmInv
<1>3. CASE Frontend
  <2>0. HDDTR \in Requests /\ CPUFR \in Requests /\ CPUTR \in Requests /\ GPUTR \in Requests
    BY DEF Requests
  <2>1. hddList \in Nat /\ hddFree \in Nat
    BY DEF IInv, TypeOK
  <2>2. CASE FrontendRun
    BY <2>2, FrontendRunInv
  <2>3. CASE MainThreadDispatch \/ MainThreadEnd
    BY <2>3, MainThreadInv
  <2>4. CASE set_temperature \/ set_frequency \/ set_gpu_temperature
    BY <2>0, <2>1, <2>4, PublishInv
       DEF set_temperature, set_frequency, set_gpu_temperature
  <2>5. CASE set_hdd_temperature
    <3>1. Publish(HDDTR) /\ hddFree' \in Nat /\ hddList' \in Nat
      BY <2>1, <2>5 DEF set_hdd_temperature
    <3> QED BY <2>0, <3>1, PublishInv
  <2>6. CASE really_store_daemon_postcode
    BY <2>6, PostcodeInv
  <2> QED BY <1>3, <2>2, <2>3, <2>4, <2>5, <2>6 DEF Frontend
<1>4. CASE \E t \in BackendThreads : Backend(t)
  BY <1>4, BackendInv
<1>5. CASE \/ \E t \in BackendThreads : SensorHangs(t)
           \/ StopDaemon \/ WatchdogExpires \/ UNCHANGED vars
  <2>1. UNCHANGED <<feQueue, beQueue, feJob, feBitmap, be, inProcessing,
                    mainPc, alarm, context, hddList, hddFree, shown,
                    postcodeStored, faults>>
    <3>1. CASE \E t \in BackendThreads : SensorHangs(t)
      BY <3>1 DEF SensorHangs, data, signals
    <3>2. CASE StopDaemon \/ WatchdogExpires
      BY <3>2 DEF StopDaemon, WatchdogExpires, pools, data
    <3>3. CASE UNCHANGED vars
      BY <3>3 DEF vars, pools, data, signals
    <3> QED BY <1>5, <3>1, <3>2, <3>3
  <2>2. hung' \subseteq BackendThreads /\ terminated' \in BOOLEAN
    <3>0. hung \subseteq BackendThreads /\ terminated \in BOOLEAN
      BY DEF IInv, TypeOK
    <3>1. CASE \E t \in BackendThreads : SensorHangs(t)
      BY <3>0, <3>1 DEF SensorHangs, signals
    <3>2. CASE StopDaemon \/ WatchdogExpires
      BY <3>0, <3>2 DEF StopDaemon, WatchdogExpires, pools
    <3>3. CASE UNCHANGED vars
      BY <3>0, <3>3 DEF vars, pools, signals
    <3> QED BY <1>5, <3>1, <3>2, <3>3
  <2>3. OnePlace' /\ BitmapByRequest' /\ \A x : Carried(x)' <=> Carried(x)
    BY <2>1, SameJobs
  <2>4. TypeOK'
    BY <2>1, <2>2 DEF IInv, TypeOK
  <2>5. OnePoll' /\ Startup'
    BY <2>1, <2>3 DEF IInv, OnePoll, Startup
  <2> QED BY <2>3, <2>4, <2>5 DEF IInv
<1> QED BY <1>1, <1>2, <1>3, <1>4, <1>5 DEF Next

(* IInv holds throughout. *)
THEOREM Invariance == Spec => []IInv
<1>1. Init => IInv
  BY InitInv
<1>2. IInv /\ [Next]_vars => IInv'
  BY NextInv
<1> QED BY <1>1, <1>2, PTL DEF Spec

(* The variables keep to their types and a disabled metric is in no queue. *)
THEOREM TypeCorrect == Spec => []TypeOK
<1>1. IInv => TypeOK
  BY DEF IInv
<1> QED BY <1>1, Invariance, PTL

(* No token is ever in two places, and there is one poll at most. *)
THEOREM OnePlaceEach == Spec => [](OnePlace /\ OnePoll)
<1>1. IInv => OnePlace /\ OnePoll
  BY DEF IInv
<1> QED BY <1>1, Invariance, PTL

(* The bitmap says exactly which metrics have a job in the pools. *)
THEOREM BitmapIsExact == Spec => []BitmapExact
<1>1. IInv => BitmapExact
  BY BitmapForms DEF IInv
<1> QED BY <1>1, Invariance, PTL

(* The scan of the disks and the job that empties their list exclude each  *)
(* other although nothing locks the list.                                  *)
THEOREM HddListIsExclusive == Spec => []HddListExclusive
<1>1. IInv => HddListExclusive
  <2> SUFFICES ASSUME IInv PROVE HddListExclusive
    OBVIOUS
  <2>1. HDDTR # Idle
    BY TokenFacts DEF Requests
  <2>2. \A x : x \in Range(be) <=> \E t \in BackendThreads : be[t] = x
    BY DEF IInv, TypeOK, Range
  <2> QED BY <2>1, <2>2 DEF IInv, OnePlace, HddListExclusive
<1> QED BY <1>1, Invariance, PTL

-----------------------------------------------------------------------------
(* The queues never fill up.                                               *)

LEMMA EnabledFinite ==
  /\ IsFiniteSet(Enabled)
  /\ Cardinality(Enabled) \in Nat
<1>1. IsFiniteSet({} \cup {0} \cup {1} \cup {2} \cup {3})
  BY FS_EmptySet, FS_AddElement, Zenon
<1>2. Enabled \in SUBSET ({} \cup {0} \cup {1} \cup {2} \cup {3})
  BY DEF Enabled, Requests, HDDTR, CPUFR, CPUTR, GPUTR
<1>3. IsFiniteSet(Enabled)
  BY <1>1, <1>2, FS_Subset
<1> QED BY <1>3, FS_CardinalityType

(* A queue that lacks one of the tokens it may hold has a free slot.       *)
LEMMA FrontendSlot ==
  ASSUME IInv, NEW x \in Enabled \cup {Poll, Postcode}, x \notin Range(feQueue)
  PROVE  Len(feQueue) < FrontendQueueLen
<1> DEFINE others == (Enabled \cup {Poll, Postcode}) \ {x}
<1>1. IsFiniteSet(others) /\ Cardinality(others) = Cardinality(Enabled) + 1
  <2>1. Poll \notin Enabled /\ Postcode \notin Enabled \cup {Poll}
    BY TokenFacts
  <2>2. IsFiniteSet(Enabled \cup {Poll})
        /\ Cardinality(Enabled \cup {Poll}) = Cardinality(Enabled) + 1
    BY <2>1, EnabledFinite, FS_AddElement
  <2>3. IsFiniteSet((Enabled \cup {Poll}) \cup {Postcode})
        /\ Cardinality((Enabled \cup {Poll}) \cup {Postcode}) = Cardinality(Enabled) + 1 + 1
    BY <2>1, <2>2, FS_AddElement
  <2>4. (Enabled \cup {Poll}) \cup {Postcode} = Enabled \cup {Poll, Postcode}
    OBVIOUS
  <2>5. IsFiniteSet(others)
        /\ Cardinality(others) = Cardinality(Enabled \cup {Poll, Postcode}) - 1
    BY <2>3, <2>4, FS_RemoveElement
  <2> QED BY <2>3, <2>4, <2>5, EnabledFinite
<1>2. /\ feQueue \in Seq(Enabled \cup {Poll, Postcode})
      /\ IsInjective(feQueue)
  BY DEF IInv, TypeOK, OnePlace
<1>3. Range(feQueue) \subseteq others /\ Len(feQueue) \in Nat
  BY <1>2 DEF Range
<1> HIDE DEF others
<1>4. Len(feQueue) <= Cardinality(others)
  BY <1>1, <1>2, <1>3, LenBound
<1> QED BY <1>1, <1>3, <1>4, EnabledFinite, QueuesAssumption

LEMMA BackendSlot ==
  ASSUME IInv, NEW x \in Enabled \cup {Postcode}, x \notin Range(beQueue)
  PROVE  Len(beQueue) < BackendQueueLen
<1> DEFINE others == (Enabled \cup {Postcode}) \ {x}
<1>1. IsFiniteSet(others) /\ Cardinality(others) = Cardinality(Enabled)
  <2>1. Postcode \notin Enabled
    BY TokenFacts
  <2>2. IsFiniteSet(Enabled \cup {Postcode})
        /\ Cardinality(Enabled \cup {Postcode}) = Cardinality(Enabled) + 1
    BY <2>1, EnabledFinite, FS_AddElement
  <2>3. IsFiniteSet(others)
        /\ Cardinality(others) = Cardinality(Enabled \cup {Postcode}) - 1
    BY <2>2, FS_RemoveElement
  <2> QED BY <2>2, <2>3, EnabledFinite
<1>2. beQueue \in Seq(Enabled \cup {Postcode}) /\ IsInjective(beQueue)
  BY DEF IInv, TypeOK, OnePlace
<1>3. Range(beQueue) \subseteq others /\ Len(beQueue) \in Nat
  BY <1>2 DEF Range
<1> HIDE DEF others
<1>4. Len(beQueue) <= Cardinality(others)
  BY <1>1, <1>2, <1>3, LenBound
<1> QED BY <1>1, <1>3, <1>4, EnabledFinite, QueuesAssumption

(* thread_pool_add_request never waits, so the two pools cannot wait for   *)
(* each other and the signal handler returns.                              *)
THEOREM AddNeverBlocks == Spec => []NoBlockedAdd
<1>1. IInv => NoBlockedAdd
  <2> SUFFICES ASSUME IInv PROVE NoBlockedAdd
    OBVIOUS
  <2>1. ASSUME alarm = "handler" PROVE Len(feQueue) < FrontendQueueLen
    BY <2>1, FrontendSlot DEF IInv, OnePoll
  <2>2. ASSUME NEW t \in BackendThreads, be[t] # Idle
        PROVE  Len(feQueue) < FrontendQueueLen
    <3>1. be[t] \in Enabled \cup {Poll, Postcode} /\ be[t] \notin Range(feQueue)
      BY <2>2 DEF IInv, TypeOK, OnePlace
    <3> QED BY <3>1, FrontendSlot
  <2>3. ASSUME mainPc = "postcode" \/ feJob = Postcode
        PROVE  Len(beQueue) < BackendQueueLen
    <3>1. Postcode \notin Range(beQueue)
      BY <2>3 DEF IInv, Startup, Carried, OnePlace
    <3> QED BY <3>1, BackendSlot
  <2>4. ASSUME feBitmap # {} PROVE Len(beQueue) < BackendQueueLen
    <3>1. PICK r \in feBitmap : r \in Enabled
      BY <2>4 DEF IInv, TypeOK
    <3>2. r \notin Range(beQueue)
      BY <3>1, TokenFacts DEF IInv, BitmapByRequest, Carried
    <3> QED BY <3>1, <3>2, BackendSlot
  <2> QED BY <2>1, <2>2, <2>3, <2>4 DEF NoBlockedAdd
<1> QED BY <1>1, Invariance, PTL

-----------------------------------------------------------------------------
(* What a step does to the metrics' cycles.                                *)

Disks == <<hddList, hddFree>>

(* No cycle advances. *)
Rests ==
  /\ inProcessing' = inProcessing
  /\ \A m \in Enabled : m \in Reporting' <=> m \in Reporting
  /\ UNCHANGED Disks

(* main_thread starts the cycle of r. *)
Starts(r) ==
  /\ r \notin inProcessing /\ r \notin Reporting
  /\ inProcessing' = inProcessing \cup {r}
  /\ \A m \in Enabled : m \in Reporting' <=> m \in Reporting
  /\ UNCHANGED Disks

(* A backend thread hands r over; only a scan touches the disks' nodes.    *)
HandsOver(r) ==
  /\ r \in inProcessing /\ r \notin Reporting
  /\ inProcessing' = inProcessing
  /\ \A m \in Enabled : m \in Reporting' <=> m \in Reporting \/ m = r
  /\ IF r = HDDTR
     THEN \E disks \in 0 .. MaxDisks :
            /\ hddList' = hddList + disks
            /\ hddFree' = IF disks <= hddFree THEN hddFree - disks ELSE 0
     ELSE UNCHANGED Disks

(* The frontend thread has published r. *)
Ends(r) ==
  /\ r \in inProcessing /\ r \in Reporting
  /\ inProcessing' = inProcessing \ {r}
  /\ \A m \in Enabled : m \in Reporting' <=> m \in Reporting /\ m # r
  /\ IF r = HDDTR
     THEN hddFree' = hddFree + hddList /\ hddList' = 0
     ELSE UNCHANGED Disks

Moves == Rests \/ \E r \in Enabled : Starts(r) \/ HandsOver(r) \/ Ends(r)

LEMMA PublishEnds ==
  ASSUME IInv, NEW r \in Requests, Publish(r),
         IF r = HDDTR THEN hddFree' = hddFree + hddList /\ hddList' = 0
         ELSE UNCHANGED Disks
  PROVE  Moves
<1>1. /\ feJob = r /\ feJob' = Idle
      /\ inProcessing' = inProcessing \ {r}
      /\ feQueue' = feQueue
  BY DEF Publish, in_processing_remove_request
<1>2. r \in Enabled /\ r \in inProcessing /\ r \notin Range(feQueue)
  BY <1>1, TokenFacts DEF IInv, TypeOK, OnePlace, BitmapByRequest, Carried
<1>3. \A m \in Enabled : m \in Reporting' <=> m \in Reporting /\ m # r
  BY <1>1, <1>2, TokenFacts DEF Reporting
<1>4. Ends(r)
  BY <1>1, <1>2, <1>3 DEF Ends, Reporting
<1> QED BY <1>2, <1>4 DEF Moves

LEMMA FrontendMoves ==
  ASSUME IInv, Frontend
  PROVE  Moves
<1>0. Requests = {HDDTR, CPUFR, CPUTR, GPUTR} /\ HDDTR \notin {CPUFR, CPUTR, GPUTR}
  BY DEF Requests, HDDTR, CPUFR, CPUTR, GPUTR
<1>1. CASE FrontendRun
  <2>1. feQueue # <<>> /\ feJob' = Head(feQueue) /\ feQueue' = Tail(feQueue)
        /\ feJob = Idle /\ inProcessing' = inProcessing /\ UNCHANGED Disks
    BY <1>1 DEF FrontendRun, data, Disks
  <2>2. feQueue \in Seq(Enabled \cup {Poll, Postcode}) /\ IsInjective(feQueue)
    BY DEF IInv, TypeOK, OnePlace
  <2>3. feJob' \in Range(feQueue) /\ Range(feQueue') = Range(feQueue) \ {feJob'}
    BY <2>1, <2>2, TailFacts
  <2>4. \A m \in Enabled : m \in Reporting' <=> m \in Reporting
    BY <2>1, <2>3, TokenFacts DEF Reporting
  <2> QED BY <2>1, <2>4 DEF Moves, Rests
<1>2. CASE MainThreadDispatch
  <2>1. PICK r \in feBitmap : inProcessing' = inProcessing \cup {r}
    BY <1>2 DEF MainThreadDispatch, in_processing_add_request
  <2>2. UNCHANGED <<feQueue, feJob>> /\ UNCHANGED Disks
    BY <1>2 DEF MainThreadDispatch, Disks
  <2>3. r \in Enabled /\ r \notin inProcessing /\ ~Carried(r)
    BY TokenFacts DEF IInv, TypeOK, BitmapByRequest
  <2>4. Starts(r)
    BY <2>1, <2>2, <2>3 DEF Starts, Reporting, Carried
  <2> QED BY <2>3, <2>4 DEF Moves
<1>3. CASE MainThreadEnd
  <2>1. feJob = Poll /\ feJob' = Idle /\ UNCHANGED <<feQueue, inProcessing>>
        /\ UNCHANGED Disks
    BY <1>3 DEF MainThreadEnd, data, Disks
  <2> QED BY <2>1, TokenFacts DEF Moves, Rests, Reporting
<1>4. CASE set_temperature \/ set_frequency \/ set_gpu_temperature
  <2>1. PICK r \in {CPUTR, CPUFR, GPUTR} : Publish(r) /\ UNCHANGED Disks
    BY <1>4 DEF set_temperature, set_frequency, set_gpu_temperature, Disks
  <2> QED BY <1>0, <2>1, PublishEnds
<1>5. CASE set_hdd_temperature
  BY <1>0, <1>5, PublishEnds DEF set_hdd_temperature
<1>6. CASE really_store_daemon_postcode
  <2>1. feJob = Postcode /\ feJob' = Idle /\ UNCHANGED <<feQueue, inProcessing>>
        /\ UNCHANGED Disks
    BY <1>6 DEF really_store_daemon_postcode, Disks
  <2> QED BY <2>1, TokenFacts DEF Moves, Rests, Reporting
<1> QED BY <1>1, <1>2, <1>3, <1>4, <1>5, <1>6 DEF Frontend

LEMMA HandOverMoves ==
  ASSUME IInv, NEW t \in BackendThreads, be[t] # Idle, HandOver(t),
         IF be[t] = HDDTR
         THEN \E disks \in 0 .. MaxDisks :
                /\ hddList' = hddList + disks
                /\ hddFree' = IF disks <= hddFree THEN hddFree - disks ELSE 0
         ELSE UNCHANGED Disks
  PROVE  Moves
<1>1. feQueue' = Append(feQueue, be[t]) /\ UNCHANGED <<feJob, inProcessing>>
  BY DEF HandOver, FrontendAdd
<1>2. /\ feQueue \in Seq(Enabled \cup {Poll, Postcode})
      /\ be[t] \in Enabled \cup {Poll, Postcode}
      /\ be[t] \in Enabled \cup {Postcode}
      /\ be[t] \notin Reporting
  BY DEF IInv, TypeOK, OnePlace, Reporting
<1>3. Range(feQueue') = Range(feQueue) \cup {be[t]}
  BY <1>1, <1>2, AppendFacts
<1>4. CASE be[t] \in Enabled
  <2>1. be[t] \in inProcessing
    BY <1>4, TokenFacts DEF IInv, BitmapByRequest, Carried
  <2>2. \A m \in Enabled : m \in Reporting' <=> m \in Reporting \/ m = be[t]
    BY <1>1, <1>3 DEF Reporting
  <2>3. HandsOver(be[t])
    BY <1>1, <1>2, <2>1, <2>2 DEF HandsOver
  <2> QED BY <1>4, <2>3 DEF Moves
<1>5. CASE be[t] = Postcode
  <2>1. UNCHANGED Disks
    BY <1>5, TokenFacts DEF Requests
  <2>2. \A m \in Enabled : m \in Reporting' <=> m \in Reporting
    BY <1>1, <1>3, <1>5, TokenFacts DEF Reporting
  <2> QED BY <1>1, <2>1, <2>2 DEF Moves, Rests
<1> QED BY <1>2, <1>4, <1>5

LEMMA NextMoves == IInv /\ [Next]_vars => Moves
<1> SUFFICES ASSUME IInv, [Next]_vars PROVE Moves
  OBVIOUS
<1>0. HDDTR \notin {CPUFR, CPUTR, GPUTR} /\ Requests = {HDDTR, CPUFR, CPUTR, GPUTR}
  BY DEF Requests, HDDTR, CPUFR, CPUTR, GPUTR
<1>1. CASE Frontend
  BY <1>1, FrontendMoves
<1>2. CASE \E t \in BackendThreads : Backend(t)
  <2> SUFFICES ASSUME NEW t \in BackendThreads, Backend(t) PROVE Moves
    BY <1>2
  <2>1. CASE BackendRun(t)
    BY <2>1 DEF BackendRun, data, Moves, Rests, Reporting, Disks
  <2>2. CASE backend_delay(t)
    <3>1. be[t] = Postcode /\ HandOver(t) /\ UNCHANGED Disks
      BY <2>2 DEF backend_delay, Disks
    <3> QED BY <3>1, <1>0, TokenFacts, HandOverMoves
  <2>3. CASE get_temperature(t) \/ get_frequency(t) \/ get_gpu_temperature(t)
    <3>1. be[t] \in {CPUFR, CPUTR, GPUTR} /\ HandOver(t) /\ UNCHANGED Disks
      BY <2>3 DEF get_temperature, get_frequency, get_gpu_temperature, Disks
    <3> QED BY <3>1, <1>0, TokenFacts, HandOverMoves
  <2>4. CASE get_hdd_temperature(t)
    <3>1. /\ be[t] = HDDTR /\ HandOver(t)
          /\ \E disks \in 0 .. MaxDisks :
                /\ hddList' = hddList + disks
                /\ hddFree' = IF disks <= hddFree THEN hddFree - disks ELSE 0
      BY <2>4 DEF get_hdd_temperature
    <3> QED BY <3>1, <1>0, TokenFacts, HandOverMoves
  <2> QED BY <2>1, <2>2, <2>3, <2>4 DEF Backend
<1>3. CASE signal_handler
  <2>1. feQueue' = Append(feQueue, Poll) /\ UNCHANGED <<feJob, inProcessing>>
        /\ UNCHANGED Disks
    BY <1>3 DEF signal_handler, FrontendAdd, data, Disks
  <2>2. feQueue \in Seq(Enabled \cup {Poll, Postcode}) /\ Poll \in Enabled \cup {Poll, Postcode}
    BY DEF IInv, TypeOK
  <2>3. Range(feQueue') = Range(feQueue) \cup {Poll}
    BY <2>1, <2>2, AppendFacts
  <2> QED BY <2>1, <2>3, TokenFacts DEF Moves, Rests, Reporting
<1>4. CASE Main \/ Cleanup \/ AlarmExpires \/ HandlerOutlivesPools \/ StopDaemon
           \/ WatchdogExpires \/ UNCHANGED vars
           \/ \E t \in BackendThreads : SensorHangs(t)
  <2>1. UNCHANGED <<feQueue, feJob, inProcessing>> /\ UNCHANGED Disks
    <3>1. CASE Main \/ Cleanup
      BY <3>1 DEF Main, MainArmAlarm, FP_store_daemon_postcode, SigwaitReturns, Cleanup,
                  pools, data, Disks
    <3>2. CASE AlarmExpires \/ HandlerOutlivesPools \/ StopDaemon \/ WatchdogExpires
      BY <3>2 DEF AlarmExpires, HandlerOutlivesPools, StopDaemon, WatchdogExpires,
                  pools, data, Disks
    <3>3. CASE UNCHANGED vars
      BY <3>3 DEF vars, pools, data, Disks
    <3>4. CASE \E t \in BackendThreads : SensorHangs(t)
      BY <3>4 DEF SensorHangs, data, Disks
    <3> QED BY <1>4, <3>1, <3>2, <3>3, <3>4
  <2> QED BY <2>1 DEF Moves, Rests, Reporting
<1> QED BY <1>1, <1>2, <1>3, <1>4 DEF Next, Alarm

-----------------------------------------------------------------------------
(* The list of disks.                                                      *)

(* Only the frontend's half of a cycle finds nodes in smart_devices. *)
HddInv ==
  /\ hddList > 0 => HDDTR \in Reporting
  /\ hddList + hddFree <= MaxDisks

LEMMA HddStep ==
  ASSUME TypeOK, HddInv, Moves, HDDTR \in Enabled
  PROVE  HddInv'
<1>0. hddList \in Nat /\ hddFree \in Nat /\ MaxDisks \in Nat
  BY OptionsAssumption DEF TypeOK
<1>1. CASE Rests
  BY <1>1 DEF Rests, HddInv, Disks
<1>2. ASSUME NEW r \in Enabled, Starts(r) PROVE HddInv'
  BY <1>2 DEF Starts, HddInv, Disks
<1>3. ASSUME NEW r \in Enabled, HandsOver(r) PROVE HddInv'
  <2>1. CASE r = HDDTR
    <3>1. hddList = 0 /\ HDDTR \in Reporting'
      BY <1>0, <1>3, <2>1 DEF HandsOver, HddInv
    <3>2. PICK disks \in 0 .. MaxDisks :
            /\ hddList' = hddList + disks
            /\ hddFree' = IF disks <= hddFree THEN hddFree - disks ELSE 0
      BY <1>3, <2>1 DEF HandsOver
    <3>3. hddList' + hddFree' <= MaxDisks
      BY <1>0, <3>1, <3>2 DEF HddInv
    <3> QED BY <3>1, <3>3 DEF HddInv
  <2>2. CASE r # HDDTR
    BY <1>3, <2>2 DEF HandsOver, HddInv, Disks
  <2> QED BY <2>1, <2>2
<1>4. ASSUME NEW r \in Enabled, Ends(r) PROVE HddInv'
  <2>1. CASE r = HDDTR
    <3>1. hddFree' = hddFree + hddList /\ hddList' = 0
      BY <1>4, <2>1 DEF Ends
    <3> QED BY <1>0, <3>1 DEF HddInv
  <2>2. CASE r # HDDTR
    BY <1>4, <2>2 DEF Ends, HddInv, Disks
  <2> QED BY <2>1, <2>2
<1> QED BY <1>1, <1>2, <1>3, <1>4 DEF Moves

(* Without the HDD metric there never is a node. *)
LEMMA NoHddStep ==
  ASSUME hddList = 0, hddFree = 0, Moves, HDDTR \notin Enabled
  PROVE  hddList' = 0 /\ hddFree' = 0
<1>1. UNCHANGED Disks
  <2>1. ASSUME NEW r \in Enabled, HandsOver(r) \/ Ends(r) \/ Starts(r)
        PROVE  UNCHANGED Disks
    <3>1. r # HDDTR
      OBVIOUS
    <3> QED BY <2>1, <3>1 DEF HandsOver, Ends, Starts
  <2> QED BY <2>1 DEF Moves, Rests
<1> QED BY <1>1 DEF Disks

(* A scan starts from an empty list, and the nodes never outnumber the     *)
(* disks: the daemon's memory does not grow with the number of polls.      *)
THEOREM HddListIsFresh == Spec => []HddListFresh
<1> DEFINE Inv == IF HDDTR \in Enabled THEN HddInv ELSE hddList = 0 /\ hddFree = 0
<1>1. Init => Inv
  BY OptionsAssumption DEF Init, HddInv
<1>2. IInv /\ Inv /\ [Next]_vars => Inv'
  <2> SUFFICES ASSUME IInv, Inv, [Next]_vars PROVE Inv'
    OBVIOUS
  <2>1. Moves /\ TypeOK
    BY NextMoves DEF IInv
  <2>2. CASE HDDTR \in Enabled
    BY <2>1, <2>2, HddStep
  <2>3. CASE HDDTR \notin Enabled
    BY <2>1, <2>3, NoHddStep
  <2> QED BY <2>2, <2>3
<1>3. IInv /\ Inv => HddListFresh
  <2> SUFFICES ASSUME IInv, Inv PROVE HddListFresh
    OBVIOUS
  <2>1. hddList \in Nat /\ hddFree \in Nat /\ MaxDisks \in Nat
    BY OptionsAssumption DEF IInv, TypeOK
  <2>2. CASE HDDTR \in Enabled
    <3>1. \A x : x \in Range(be) <=> \E t \in BackendThreads : be[t] = x
      BY DEF IInv, TypeOK, Range
    <3>2. HDDTR # Idle
      BY <2>2, TokenFacts
    <3>3. HDDTR \in Range(beQueue) \cup Range(be) => HDDTR \notin Reporting
      BY <3>1, <3>2 DEF IInv, OnePlace, Reporting
    <3> QED BY <2>1, <2>2, <3>3 DEF HddInv, HddListFresh
  <2>3. CASE HDDTR \notin Enabled
    BY <2>1, <2>3 DEF HddListFresh
  <2> QED BY <2>2, <2>3
<1> HIDE DEF Inv
<1> QED BY <1>1, <1>2, <1>3, Invariance, PTL DEF Spec

-----------------------------------------------------------------------------
(* The refinement.                                                         *)

(* A function that differs from another at one argument is its update.     *)
LEMMA Update ==
  ASSUME NEW S, NEW f, NEW g, NEW r \in S, NEW v,
         f = [m \in S |-> f[m]], g = [m \in S |-> g[m]],
         \A m \in S : g[m] = IF m = r THEN v ELSE f[m]
  PROVE  g = [f EXCEPT ![r] = v]
<1>1. g = [m \in S |-> IF m = r THEN v ELSE f[m]]
  OBVIOUS
<1>2. [f EXCEPT ![r] = v] = [m \in S |-> IF m = r THEN v ELSE f[m]]
  OBVIOUS
<1> QED BY <1>1, <1>2

LEMMA PhaseStep == TypeOK /\ Moves => [Refresh!Next]_phase
<1> SUFFICES ASSUME TypeOK, Moves PROVE Refresh!Next \/ phase' = phase
  OBVIOUS
<1>0. inProcessing \subseteq Enabled
  BY DEF TypeOK
<1>5. phase = [m \in Enabled |-> phase[m]] /\ phase' = [m \in Enabled |-> phase'[m]]
  BY DEF phase
<1>1. CASE Rests
  <2>1. phase' = phase
    BY <1>1 DEF Rests, phase
  <2> QED BY <2>1
<1>2. ASSUME NEW r \in Enabled, Starts(r) PROVE Refresh!Dispatch(r)
  <2>1. phase[r] = "idle"
    BY <1>2 DEF Starts, phase
  <2>2. \A m \in Enabled : phase'[m] = IF m = r THEN "sampling" ELSE phase[m]
    BY <1>2 DEF Starts, phase
  <2>3. phase' = [phase EXCEPT ![r] = "sampling"]
    BY <1>5, <2>2, Update
  <2> QED BY <2>1, <2>3 DEF Refresh!Dispatch, Refresh!Advance
<1>3. ASSUME NEW r \in Enabled, HandsOver(r) PROVE Refresh!Sampled(r)
  <2>1. phase[r] = "sampling"
    BY <1>3 DEF HandsOver, phase
  <2>2. \A m \in Enabled : phase'[m] = IF m = r THEN "reporting" ELSE phase[m]
    BY <1>3 DEF HandsOver, phase
  <2>3. phase' = [phase EXCEPT ![r] = "reporting"]
    BY <1>5, <2>2, Update
  <2> QED BY <2>1, <2>3 DEF Refresh!Sampled, Refresh!Advance
<1>4. ASSUME NEW r \in Enabled, Ends(r) PROVE Refresh!Reported(r)
  <2>1. phase[r] = "reporting"
    BY <1>4 DEF Ends, phase
  <2>2. \A m \in Enabled : phase'[m] = IF m = r THEN "idle" ELSE phase[m]
    BY <1>4 DEF Ends, phase
  <2>3. phase' = [phase EXCEPT ![r] = "idle"]
    BY <1>5, <2>2, Update
  <2> QED BY <2>1, <2>3 DEF Refresh!Reported, Refresh!Advance
<1> QED BY <1>1, <1>2, <1>3, <1>4 DEF Moves, Refresh!Next

(* The pools, the bitmap and the jobs implement one cycle per metric of    *)
(* dispatch, sample and report.                                            *)
THEOREM ImplementsRefreshCycle == Spec => RefreshSpec
<1>1. Init => Refresh!Init
  <2> SUFFICES ASSUME Init PROVE Refresh!Init
    OBVIOUS
  <2>1. \A m \in Enabled : m \notin inProcessing
    BY DEF Init
  <2> QED BY <2>1 DEF Refresh!Init, phase
<1>2. IInv /\ [Next]_vars => [Refresh!Next]_phase
  BY NextMoves, PhaseStep DEF IInv
<1> QED BY <1>1, <1>2, Invariance, PTL DEF Spec, RefreshSpec, Refresh!Spec
=============================================================================
