--------------------------- MODULE WatchdogProofs ---------------------------
(***************************************************************************)
(* For every set of jobs and every delay: the types, the accounting of the *)
(* watchdog's nodes, the order of its list, and what its alarm means on a  *)
(* machine whose threads take no time.                                     *)
(***************************************************************************)
EXTENDS Watchdog, TLAPS, FiniteSetTheorems, SequenceTheorems

(* A job has a stamp while it submits it, an old one if threads take time. *)
Stamps ==
  \A j \in Jobs :
    /\ job[j] = "submitting" <=> stamp[j] # None
    /\ prompt /\ job[j] = "submitting" => stamp[j] = Delay

Watched == {j \in Jobs : job[j] = "watched"}

(* A watched job has a node of its own, no other job has one.              *)
OwnNodes ==
  /\ \A j \in Jobs : job[j] = "watched" <=> node[j] # None
  /\ \A i, j \in Watched : node[i] = node[j] => i = j

(* NodesHeldOnce, with the two lists taken apart.                          *)
Nodes ==
  /\ IsInjective(ActiveNodes) /\ IsInjective(freelist)
  /\ Range(ActiveNodes) \cap Range(freelist) = {}
  /\ Range(ActiveNodes) \cup Range(freelist) = 1 .. allocated
  /\ Range(ActiveNodes) = {node[j] : j \in Watched}
  /\ Len(activelist) = Cardinality(Watched)
  /\ allocated <= Cardinality(Jobs)

Looking == {"peeked", "about to sleep", "sleeping"}

(* What the runner knows of the list at each point of its loop.            *)
RunnerAt ==
  /\ runner = "waiting" => activelist = <<>>
  /\ runner = "ended" <=> terminated
  /\ runner \in Looking => peeked # None
  /\ runner = "about to sleep" => peeked > 0
  /\ runner = "sleeping" => peeked >= 0

(* On a prompt machine it works with the earliest deadline there is.       *)
PromptRunner ==
  /\ prompt /\ runner \in Looking => \A left \in Deadlines : peeked <= left
  /\ prompt /\ runner = "peeked" /\ peeked <= 0 => missed

(* A deadline that has passed was on the list when it did.                 *)
PassedIsMissed == \A left \in Deadlines : left <= 0 => missed

IInv ==
  /\ TypeOK /\ Stamps /\ OwnNodes /\ Nodes /\ EarliestFirst
  /\ RunnerAt /\ PromptRunner /\ PassedIsMissed
  /\ NoTaskOverstays /\ AlarmIsReal

-----------------------------------------------------------------------------
(* Numbers and sequences.                                                  *)

(* A set of positions that is not empty has a last one.                    *)
LEMMA LastPosition ==
  ASSUME NEW n \in Nat, NEW T \in SUBSET (1 .. n), T # {}
  PROVE  \E m \in T : \A k \in T : k <= m
<1> DEFINE fromEnd == {n - k : k \in T}
<1>1. fromEnd \subseteq Nat /\ fromEnd # {}
  <2>1. \A k \in T : n - k \in Nat
    OBVIOUS
  <2>2. PICK k \in T : TRUE
    OBVIOUS
  <2> QED BY <2>1, <2>2
<1> HIDE DEF fromEnd
<1>2. PICK x \in fromEnd : \A y \in fromEnd : ~(<<y, x>> \in OpToRel(<, Nat))
  BY <1>1, NatLessThanWellFounded, WFMin
<1>3. \A y \in fromEnd : ~(y < x)
  BY <1>1, <1>2 DEF OpToRel
<1>4. PICK m \in T : x = n - m
  BY DEF fromEnd
<1>5. \A k \in T : ~(n - k < n - m)
  BY <1>3, <1>4 DEF fromEnd
<1> QED BY <1>5

(* A sequence with an element put in behind the first p.                   *)
PutIn(s, e, p) == SubSeq(s, 1, p) \o <<e>> \o SubSeq(s, p + 1, Len(s))
IsPutIn(r, S, s, e, p) ==
  /\ r \in Seq(S) /\ Len(r) = Len(s) + 1
  /\ \A i \in 1 .. p : r[i] = s[i]
  /\ r[p + 1] = e
  /\ \A i \in p + 2 .. Len(s) + 1 : r[i] = s[i - 1]

LEMMA Insertion ==
  ASSUME NEW S, NEW s \in Seq(S), NEW e \in S, NEW p \in 0 .. Len(s)
  PROVE  \A r : r = PutIn(s, e, p) => IsPutIn(r, S, s, e, p)
<1>0. SUFFICES
        ASSUME NEW r, r = SubSeq(s, 1, p) \o <<e>> \o SubSeq(s, p + 1, Len(s))
        PROVE  /\ r \in Seq(S) /\ Len(r) = Len(s) + 1
               /\ \A i \in 1 .. p : r[i] = s[i]
               /\ r[p + 1] = e
               /\ \A i \in p + 2 .. Len(s) + 1 : r[i] = s[i - 1]
  BY DEF PutIn, IsPutIn
<1>1. /\ SubSeq(s, 1, p) \in Seq(S) /\ Len(SubSeq(s, 1, p)) = p
      /\ \A i \in 1 .. p : SubSeq(s, 1, p)[i] = s[i]
  BY SubSeqProperties
<1>2. /\ SubSeq(s, p + 1, Len(s)) \in Seq(S)
      /\ Len(SubSeq(s, p + 1, Len(s))) = Len(s) - p
      /\ \A i \in 1 .. Len(s) - p : SubSeq(s, p + 1, Len(s))[i] = s[p + i]
  BY SubSeqProperties
<1> DEFINE a == SubSeq(s, 1, p)  b == SubSeq(s, p + 1, Len(s))
<1> HIDE DEF a, b
<1>3. r = a \o <<e>> \o b
  BY <1>0 DEF a, b
<1>n. Len(s) \in Nat
  OBVIOUS
<1>4. /\ a \in Seq(S) /\ Len(a) = p /\ b \in Seq(S) /\ Len(b) = Len(s) - p
      /\ \A i \in 1 .. p : a[i] = s[i]
      /\ \A i \in 1 .. Len(s) - p : b[i] = s[p + i]
  BY <1>1, <1>2 DEF a, b
<1> DEFINE c == a \o <<e>>
<1>a. /\ c \in Seq(S) /\ Len(c) = p + 1
      /\ \A i \in 1 .. p + 1 : c[i] = IF i <= p THEN a[i] ELSE <<e>>[i - p]
  <2>1. <<e>> \in Seq(S) /\ Len(<<e>>) = 1
    OBVIOUS
  <2> QED BY <1>4, <2>1, ConcatProperties
<1>b. c[p + 1] = e /\ \A i \in 1 .. p : c[i] = s[i]
  BY <1>a, <1>4
<1> HIDE DEF c
<1>c. /\ r \in Seq(S) /\ Len(r) = (p + 1) + (Len(s) - p)
      /\ \A i \in 1 .. (p + 1) + (Len(s) - p) :
           r[i] = IF i <= p + 1 THEN c[i] ELSE b[i - (p + 1)]
  <2>1. /\ c \o b \in Seq(S) /\ Len(c \o b) = Len(c) + Len(b)
        /\ \A i \in 1 .. Len(c) + Len(b) :
             (c \o b)[i] = IF i <= Len(c) THEN c[i] ELSE b[i - Len(c)]
    <3>1. c \in Seq(S) /\ b \in Seq(S)
      BY <1>4, <1>a
    <3> QED BY <3>1, ConcatProperties, Zenon
  <2>2. r = c \o b
    BY <1>3 DEF c
  <2>3. Len(c) = p + 1 /\ Len(b) = Len(s) - p
    BY <1>4, <1>a
  <2> QED BY <2>1, <2>2, <2>3, Zenon
<1>5. r \in Seq(S) /\ Len(r) = Len(s) + 1
  BY <1>n, <1>c
<1>6. \A i \in 1 .. p : r[i] = s[i]
  BY <1>n, <1>b, <1>c
<1>7. r[p + 1] = e
  BY <1>n, <1>b, <1>c
<1>8. ASSUME NEW i \in p + 2 .. Len(s) + 1 PROVE r[i] = s[i - 1]
  <2>1. r[i] = b[i - (p + 1)]
    <3>1. i \in 1 .. (p + 1) + (Len(s) - p) /\ ~(i <= p + 1)
      BY <1>n
    <3> QED BY <1>c, <3>1, Zenon
  <2>2. i - (p + 1) \in 1 .. Len(s) - p /\ p + (i - (p + 1)) = i - 1
    BY <1>n
  <2> QED BY <1>4, <2>1, <2>2
<1> QED BY <1>5, <1>6, <1>7, <1>8

(* A sequence without its element p.                                       *)
TakeOut(s, p) == SubSeq(s, 1, p - 1) \o SubSeq(s, p + 1, Len(s))
IsTakenOut(r, S, s, p) ==
  /\ r \in Seq(S) /\ Len(r) = Len(s) - 1
  /\ \A i \in 1 .. p - 1 : r[i] = s[i]
  /\ \A i \in p .. Len(s) - 1 : r[i] = s[i + 1]

LEMMA Deletion ==
  ASSUME NEW S, NEW s \in Seq(S), NEW p \in 1 .. Len(s)
  PROVE  \A r : r = TakeOut(s, p) => IsTakenOut(r, S, s, p)
<1>0. SUFFICES
        ASSUME NEW r, r = SubSeq(s, 1, p - 1) \o SubSeq(s, p + 1, Len(s))
        PROVE  /\ r \in Seq(S) /\ Len(r) = Len(s) - 1
               /\ \A i \in 1 .. p - 1 : r[i] = s[i]
               /\ \A i \in p .. Len(s) - 1 : r[i] = s[i + 1]
  BY DEF TakeOut, IsTakenOut
<1> DEFINE a == SubSeq(s, 1, p - 1)  b == SubSeq(s, p + 1, Len(s))
<1>1. /\ a \in Seq(S) /\ Len(a) = p - 1
      /\ \A i \in 1 .. p - 1 : a[i] = s[i]
  BY SubSeqProperties
<1>2. /\ b \in Seq(S) /\ Len(b) = Len(s) - p
      /\ \A i \in 1 .. Len(s) - p : b[i] = s[p + i]
  BY SubSeqProperties
<1>3. r = a \o b
  BY <1>0
<1>n. Len(s) \in Nat
  OBVIOUS
<1> HIDE DEF a, b
<1>a. /\ r \in Seq(S) /\ Len(r) = (p - 1) + (Len(s) - p)
      /\ \A i \in 1 .. (p - 1) + (Len(s) - p) :
           r[i] = IF i <= p - 1 THEN a[i] ELSE b[i - (p - 1)]
  <2>1. /\ a \o b \in Seq(S) /\ Len(a \o b) = Len(a) + Len(b)
        /\ \A i \in 1 .. Len(a) + Len(b) :
             (a \o b)[i] = IF i <= Len(a) THEN a[i] ELSE b[i - Len(a)]
    BY <1>1, <1>2, ConcatProperties, Zenon
  <2>2. Len(a) = p - 1 /\ Len(b) = Len(s) - p
    BY <1>1, <1>2
  <2> QED BY <1>3, <2>1, <2>2, Zenon
<1>4. r \in Seq(S) /\ Len(r) = Len(s) - 1
  BY <1>n, <1>a
<1>5. \A i \in 1 .. p - 1 : r[i] = s[i]
  BY <1>1, <1>n, <1>a
<1>6. ASSUME NEW i \in p .. Len(s) - 1 PROVE r[i] = s[i + 1]
  <2>1. r[i] = b[i - (p - 1)]
    BY <1>n, <1>a
  <2>2. i - (p - 1) \in 1 .. Len(s) - p /\ p + (i - (p - 1)) = i + 1
    BY <1>n
  <2> QED BY <1>2, <2>1, <2>2
<1> QED BY <1>4, <1>5, <1>6

(* The values of a function with one more, or one fewer, position.         *)
LEMMA ValuesInserted ==
  ASSUME NEW n \in Nat, NEW f, NEW g, NEW e, NEW p \in 0 .. n,
         DOMAIN f = 1 .. n, DOMAIN g = 1 .. n + 1,
         \A i \in 1 .. p : g[i] = f[i], g[p + 1] = e,
         \A i \in p + 2 .. n + 1 : g[i] = f[i - 1]
  PROVE  /\ Range(g) = Range(f) \cup {e}
         /\ IsInjective(f) /\ e \notin Range(f) => IsInjective(g)
<1>1. \A i \in DOMAIN g : i \in 1 .. p \/ i = p + 1 \/ i \in p + 2 .. n + 1
  OBVIOUS
<1>2. \A i \in p + 2 .. n + 1 : i - 1 \in DOMAIN f
  OBVIOUS
<1>3. \A i \in DOMAIN f : /\ i \in DOMAIN g /\ i + 1 \in DOMAIN g
                          /\ f[i] = g[i] \/ f[i] = g[i + 1]
  <2> TAKE i \in DOMAIN f
  <2>1. CASE i <= p
    BY <2>1
  <2>2. CASE i > p
    <3>1. i + 1 \in p + 2 .. n + 1 /\ (i + 1) - 1 = i
      BY <2>2
    <3> QED BY <3>1
  <2> QED BY <2>1, <2>2
<1>4. Range(g) = Range(f) \cup {e}
  <2>1. \A i \in 1 .. p : i \in DOMAIN f
    OBVIOUS
  <2>2. p + 1 \in DOMAIN g
    OBVIOUS
  <2> QED BY <1>1, <1>2, <1>3, <2>1, <2>2 DEF Range
<1>5. ASSUME IsInjective(f), e \notin Range(f) PROVE IsInjective(g)
  <2>1. \A i \in DOMAIN f : f[i] # e
    BY <1>5 DEF Range
  <2>2. \A i, k \in DOMAIN f : f[i] = f[k] => i = k
    BY <1>5 DEF IsInjective
  <2>3. ASSUME NEW i \in DOMAIN g, NEW k \in DOMAIN g, g[i] = g[k], i < k
        PROVE  FALSE
    <3>1. CASE k <= p
      BY <2>2, <2>3, <3>1
    <3>2. CASE k = p + 1
      BY <2>1, <2>3, <3>2
    <3>3. CASE k >= p + 2
      <4>1. g[k] = f[k - 1] /\ k - 1 \in DOMAIN f
        BY <1>2, <3>3
      <4>2. CASE i <= p
        <5>1. i \in DOMAIN f /\ g[i] = f[i] /\ i # k - 1
          BY <2>3, <3>3, <4>2
        <5> QED BY <2>2, <2>3, <4>1, <5>1
      <4>3. CASE i = p + 1
        BY <2>1, <2>3, <4>1, <4>3
      <4>4. CASE i >= p + 2
        <5>1. i - 1 \in DOMAIN f /\ g[i] = f[i - 1] /\ i - 1 # k - 1
          BY <2>3, <3>3, <4>4
        <5> QED BY <2>2, <2>3, <4>1, <5>1
      <4> QED BY <4>2, <4>3, <4>4
    <3> QED BY <3>1, <3>2, <3>3
  <2>4. \A i, k \in DOMAIN g : i < k \/ k < i \/ i = k
    OBVIOUS
  <2> QED BY <2>3, <2>4 DEF IsInjective
<1> QED BY <1>4, <1>5

LEMMA ValuesDeleted ==
  ASSUME NEW n \in Nat, NEW f, NEW g, NEW p \in 1 .. n,
         DOMAIN f = 1 .. n, DOMAIN g = 1 .. n - 1,
         \A i \in 1 .. p - 1 : g[i] = f[i],
         \A i \in p .. n - 1 : g[i] = f[i + 1]
  PROVE  /\ Range(g) \subseteq Range(f)
         /\ IsInjective(f) => IsInjective(g) /\ Range(g) = Range(f) \ {f[p]}
<1> DEFINE Old(i) == IF i < p THEN i ELSE i + 1
<1>1. \A i \in DOMAIN g : Old(i) \in DOMAIN f /\ g[i] = f[Old(i)] /\ Old(i) # p
  OBVIOUS
<1>2. \A i, k \in DOMAIN g : Old(i) = Old(k) => i = k
  OBVIOUS
<1>3. \A i \in DOMAIN f : i # p => \E k \in DOMAIN g : Old(k) = i
  <2> TAKE i \in DOMAIN f
  <2>1. CASE i < p
    <3>1. i \in DOMAIN g /\ Old(i) = i
      BY <2>1
    <3> QED BY <3>1
  <2>2. CASE i > p
    <3>1. i - 1 \in DOMAIN g /\ Old(i - 1) = i
      BY <2>2
    <3> QED BY <3>1
  <2> QED BY <2>1, <2>2
<1> HIDE DEF Old
<1>4. Range(g) \subseteq Range(f)
  BY <1>1 DEF Range
<1>5. ASSUME IsInjective(f) PROVE IsInjective(g) /\ Range(g) = Range(f) \ {f[p]}
  <2>1. \A i, k \in DOMAIN f : f[i] = f[k] => i = k
    BY <1>5 DEF IsInjective
  <2>2. IsInjective(g)
    BY <1>1, <1>2, <2>1 DEF IsInjective
  <2>3. p \in DOMAIN f
    OBVIOUS
  <2>4. Range(g) = Range(f) \ {f[p]}
    BY <1>1, <1>3, <2>1, <2>3 DEF Range
  <2> QED BY <2>2, <2>4
<1> QED BY <1>4, <1>5

(* A sequence is injective when its halves are and have nothing in common. *)
LEMMA TwoLists ==
  ASSUME NEW S, NEW s \in Seq(S), NEW t \in Seq(S), IsInjective(s), IsInjective(t),
         Range(s) \cap Range(t) = {}
  PROVE  IsInjective(s \o t) /\ Range(s \o t) = Range(s) \cup Range(t)
<1>1. Range(s \o t) = Range(s) \cup Range(t)
  BY RangeConcatenation
<1> DEFINE both == s \o t
<1>2. /\ Len(s) \in Nat /\ Len(t) \in Nat /\ DOMAIN both = 1 .. Len(s) + Len(t)
      /\ DOMAIN s = 1 .. Len(s) /\ DOMAIN t = 1 .. Len(t)
      /\ \A i \in 1 .. Len(s) : both[i] = s[i]
      /\ \A i \in Len(s) + 1 .. Len(s) + Len(t) : both[i] = t[i - Len(s)]
  OBVIOUS
<1> HIDE DEF both
<1>3. ASSUME NEW i \in DOMAIN both, NEW k \in DOMAIN both, both[i] = both[k], i < k
      PROVE  FALSE
  <2>1. CASE k <= Len(s)
    BY <1>2, <1>3, <2>1 DEF IsInjective
  <2>2. CASE i > Len(s)
    <3>1. /\ i - Len(s) \in DOMAIN t /\ k - Len(s) \in DOMAIN t
          /\ i - Len(s) # k - Len(s)
      BY <1>2, <1>3, <2>2
    <3>2. both[i] = t[i - Len(s)] /\ both[k] = t[k - Len(s)]
      BY <1>2, <1>3, <2>2
    <3> QED BY <1>3, <3>1, <3>2 DEF IsInjective
  <2>3. CASE i <= Len(s) /\ k > Len(s)
    <3>1. i \in DOMAIN s /\ k - Len(s) \in DOMAIN t
      BY <1>2, <2>3
    <3>2. both[i] = s[i] /\ both[k] = t[k - Len(s)]
      BY <1>2, <2>3
    <3> QED BY <1>3, <3>1, <3>2 DEF Range
  <2> QED BY <1>2, <2>1, <2>2, <2>3
<1>4. \A i, k \in DOMAIN both : i < k \/ k < i \/ i = k
  BY <1>2
<1> QED BY <1>1, <1>3, <1>4 DEF IsInjective, both

-----------------------------------------------------------------------------
(* The lists of the watchdog.                                              *)

Late == -MaxLate .. Delay
Entries(n) == [node : 1 .. n, deadline : Late]

(* What the types say of the lists.                                        *)
LEMMA Lists ==
  ASSUME TypeOK
  PROVE  /\ Cardinality(Jobs) \in Nat /\ allocated \in Nat
         /\ activelist \in Seq(Entries(allocated)) /\ freelist \in Seq(1 .. allocated)
         /\ Len(activelist) \in Nat /\ DOMAIN activelist = 1 .. Len(activelist)
         /\ DOMAIN ActiveNodes = 1 .. Len(activelist)
         /\ \A i \in DOMAIN activelist : /\ activelist[i].node \in 1 .. allocated
                                         /\ activelist[i].deadline \in Late
         /\ Deadlines \subseteq Late
<1>1. Cardinality(Jobs) \in Nat
  BY WatchdogAssumption, FS_CardinalityType
<1>2. allocated \in Nat
  <2>1. allocated \in 0 .. Cardinality(Jobs)
    BY DEF TypeOK
  <2> QED BY <1>1, <2>1
<1>3. activelist \in Seq(Entries(allocated)) /\ freelist \in Seq(1 .. allocated)
  BY DEF TypeOK, Entries, Late
<1>4. Len(activelist) \in Nat /\ DOMAIN activelist = 1 .. Len(activelist)
  BY <1>3
<1>5. \A i \in DOMAIN activelist : activelist[i] \in Entries(allocated)
  BY <1>3, <1>4, ElementOfSeq
<1>6. \A i \in DOMAIN activelist : /\ activelist[i].node \in 1 .. allocated
                                   /\ activelist[i].deadline \in Late
  BY <1>5 DEF Entries
<1>7. Deadlines \subseteq Late
  BY <1>6 DEF Deadlines
<1> QED BY <1>1, <1>2, <1>3, <1>4, <1>6, <1>7 DEF ActiveNodes

(* dlist_push_ordered puts the entry behind the last one not later than it.*)
LEMMA PushOrdered ==
  ASSUME NEW n \in Nat, NEW list \in Seq(Entries(n)), NEW entry \in Entries(n)
  PROVE  \A r : r = dlist_push_ordered(list, entry) =>
           \E p \in 0 .. Len(list) :
             /\ p > 0 => list[p].deadline <= entry.deadline
             /\ \A k \in p + 1 .. Len(list) : list[k].deadline > entry.deadline
             /\ IsPutIn(r, Entries(n), list, entry, p)
<1> DEFINE Past(p) == /\ p > 0 => list[p].deadline <= entry.deadline
                      /\ \A k \in p + 1 .. Len(list) : list[k].deadline > entry.deadline
           fits == {k \in 1 .. Len(list) : list[k].deadline <= entry.deadline}
           past == CHOOSE p \in 0 .. Len(list) : Past(p)
<1>1. Len(list) \in Nat /\ fits \in SUBSET (1 .. Len(list))
  OBVIOUS
<1>2. entry.deadline \in Int /\ \A k \in 1 .. Len(list) : list[k].deadline \in Int
  <2>1. \A k \in 1 .. Len(list) : list[k] \in Entries(n)
    BY ElementOfSeq
  <2> QED BY <2>1, WatchdogAssumption DEF Entries, Late
<1>3. \E p \in 0 .. Len(list) : Past(p)
  <2>1. CASE fits = {}
    <3>1. \A k \in 1 .. Len(list) : list[k].deadline > entry.deadline
      BY <1>2, <2>1
    <3>2. 0 \in 0 .. Len(list) /\ Past(0)
      BY <1>1, <3>1
    <3> QED BY <3>2
  <2>2. CASE fits # {}
    <3>1. PICK m \in fits : \A k \in fits : k <= m
      BY <1>1, <2>2, LastPosition
    <3>2. \A k \in m + 1 .. Len(list) : list[k].deadline > entry.deadline
      BY <1>1, <1>2, <3>1
    <3>3. m \in 0 .. Len(list) /\ Past(m)
      BY <1>1, <3>1, <3>2
    <3> QED BY <3>3
  <2> QED BY <2>1, <2>2
<1>4. past \in 0 .. Len(list) /\ Past(past)
  BY <1>3
<1>5. dlist_push_ordered(list, entry) = PutIn(list, entry, past)
  BY DEF dlist_push_ordered, PutIn
<1> HIDE DEF past
<1>6. \A r : r = dlist_push_ordered(list, entry) =>
        IsPutIn(r, Entries(n), list, entry, past)
  BY <1>4, <1>5, Insertion
<1> QED BY <1>4, <1>6, Zenon

(* dlist_remove_node takes an entry of the given node out.                 *)
LEMMA RemoveNode ==
  ASSUME NEW n \in Nat, NEW list \in Seq(Entries(n)), NEW m,
         \E i \in 1 .. Len(list) : list[i].node = m
  PROVE  \A r : r = dlist_remove_node(list, m) =>
           \E p \in 1 .. Len(list) :
             list[p].node = m /\ IsTakenOut(r, Entries(n), list, p)
<1> DEFINE p == CHOOSE i \in DOMAIN list : list[i].node = m
<1>1. DOMAIN list = 1 .. Len(list)
  OBVIOUS
<1>2. p \in 1 .. Len(list) /\ list[p].node = m
  BY <1>1
<1>3. dlist_remove_node(list, m) = TakeOut(list, p)
  BY DEF dlist_remove_node, TakeOut
<1> HIDE DEF p
<1>4. \A r : r = dlist_remove_node(list, m) => IsTakenOut(r, Entries(n), list, p)
  BY <1>2, <1>3, Deletion
<1> QED BY <1>2, <1>4, Zenon

(* Appending to a list, and taking the front away.                         *)
LEMMA FreeListPush ==
  ASSUME NEW S, NEW s \in Seq(S), NEW e \in S
  PROVE  /\ Range(Append(s, e)) = Range(s) \cup {e}
         /\ IsInjective(s) /\ e \notin Range(s) => IsInjective(Append(s, e))
<1>1. /\ Len(s) \in Nat /\ DOMAIN s = 1 .. Len(s)
      /\ DOMAIN Append(s, e) = 1 .. Len(s) + 1
      /\ \A i \in 1 .. Len(s) : Append(s, e)[i] = s[i]
      /\ Append(s, e)[Len(s) + 1] = e
  BY AppendProperties
<1> DEFINE a == Append(s, e)  n == Len(s)
<1>2. n \in 0 .. n /\ \A i \in n + 2 .. n + 1 : a[i] = s[i - 1]
  BY <1>1
<1> HIDE DEF a, n
<1>3. /\ n \in Nat /\ DOMAIN s = 1 .. n /\ DOMAIN a = 1 .. n + 1
      /\ \A i \in 1 .. n : a[i] = s[i]
      /\ a[n + 1] = e
  BY <1>1 DEF a, n
<1>4. Range(a) = Range(s) \cup {e} /\ (IsInjective(s) /\ e \notin Range(s) => IsInjective(a))
  BY <1>2, <1>3, ValuesInserted
<1> QED BY <1>4 DEF a

LEMMA FreeListPop ==
  ASSUME NEW S, NEW s \in Seq(S), s # <<>>
  PROVE  /\ Head(s) \in Range(s) /\ Tail(s) \in Seq(S)
         /\ IsInjective(s) => /\ IsInjective(Tail(s))
                              /\ Range(Tail(s)) = Range(s) \ {Head(s)}
<1> DEFINE a == Tail(s)  n == Len(s)
<1>1. /\ n \in Nat /\ n >= 1 /\ DOMAIN s = 1 .. n /\ Head(s) = s[1]
      /\ a \in Seq(S) /\ DOMAIN a = 1 .. n - 1
      /\ \A i \in 1 .. n - 1 : a[i] = s[i + 1]
  BY HeadTailProperties
<1> HIDE DEF a, n
<1>2. 1 \in 1 .. n /\ \A i \in 1 .. 1 - 1 : a[i] = s[i]
  BY <1>1
<1>3. IsInjective(s) => IsInjective(a) /\ Range(a) = Range(s) \ {s[1]}
  BY <1>1, <1>2, ValuesDeleted
<1>4. s[1] \in Range(s)
  BY <1>1 DEF Range
<1> QED BY <1>1, <1>3, <1>4 DEF a

(* Counting down keeps the order and passes no deadline unnoticed.         *)
LEMMA CountingDown ==
  /\ CountDown(None) = None
  /\ \A left \in Late : /\ CountDown(left) \in Late /\ CountDown(left) <= left
                        /\ left > 0 => CountDown(left) = left - 1
                        /\ CountDown(left) <= 0 => left <= 1
                        /\ CountDown(left) >= left - 1
  /\ \A a, b \in Late : a <= b => CountDown(a) <= CountDown(b)
<1>1. \A left \in Late : left \in Int /\ left # None
  BY WatchdogAssumption DEF Late
<1> QED BY <1>1, WatchdogAssumption DEF CountDown, Late

-----------------------------------------------------------------------------
(* Steps of the runner and steps that leave the list alone.                *)

(* The parts of IInv that do not speak of the runner.                      *)
LEMMA RunnerOnly ==
  ASSUME IInv, UNCHANGED <<prompt, jobs, lists, missed>>
  PROVE  /\ Stamps' /\ OwnNodes' /\ Nodes' /\ EarliestFirst' /\ PassedIsMissed'
         /\ Deadlines' = Deadlines
         /\ (runner' \in {"locking", "waiting", "peeked", "about to sleep", "sleeping",
                          "ended"}
               /\ peeked' \in Late \cup {None} /\ terminated' \in BOOLEAN) => TypeOK'
<1>1. Stamps'
  BY DEF IInv, Stamps, jobs
<1>2. OwnNodes'
  BY DEF IInv, OwnNodes, Watched, jobs
<1>3. Nodes'
  BY DEF IInv, Nodes, ActiveNodes, Watched, jobs, lists
<1>4. EarliestFirst'
  BY DEF IInv, EarliestFirst, lists
<1>5. Deadlines' = Deadlines
  BY DEF Deadlines, lists
<1>6. PassedIsMissed'
  BY <1>5 DEF IInv, PassedIsMissed
<1>7. (runner' \in {"locking", "waiting", "peeked", "about to sleep", "sleeping",
                    "ended"}
         /\ peeked' \in Late \cup {None} /\ terminated' \in BOOLEAN) => TypeOK'
  BY DEF IInv, TypeOK, Late, jobs, lists
<1> QED BY <1>1, <1>2, <1>3, <1>4, <1>5, <1>6, <1>7

(* Head is the earliest deadline of a list in order.                       *)
LEMMA HeadIsEarliest ==
  ASSUME TypeOK, EarliestFirst, activelist # <<>>
  PROVE  /\ Head(activelist).deadline \in Deadlines
         /\ \A left \in Deadlines : Head(activelist).deadline <= left
<1>1. /\ Len(activelist) \in Nat /\ DOMAIN activelist = 1 .. Len(activelist)
      /\ \A i \in DOMAIN activelist : activelist[i].deadline \in Late
  BY Lists
<1>2. Head(activelist) = activelist[1] /\ 1 \in DOMAIN activelist
  BY <1>1, Lists
<1>3. ASSUME NEW i \in DOMAIN activelist
      PROVE  activelist[1].deadline <= activelist[i].deadline
  <2>1. activelist[1].deadline \in Int
    BY <1>1, <1>2, WatchdogAssumption DEF Late
  <2>2. CASE i = 1
    BY <2>1, <2>2
  <2>3. CASE i > 1
    BY <1>1, <1>2, <2>3 DEF EarliestFirst
  <2> QED BY <1>1, <2>2, <2>3
<1> QED BY <1>2, <1>3 DEF Deadlines

LEMMA WaitForJobKeepsIInv ==
  ASSUME IInv, WaitForJob
  PROVE  IInv'
<1>1. /\ Stamps' /\ OwnNodes' /\ Nodes' /\ EarliestFirst' /\ PassedIsMissed'
      /\ Deadlines' = Deadlines
  BY RunnerOnly DEF WaitForJob
<1>2. TypeOK'
  BY RunnerOnly DEF WaitForJob, IInv, TypeOK
<1>3. RunnerAt'
  BY DEF WaitForJob, IInv, RunnerAt, Looking, lists
<1>4. PromptRunner'
  BY DEF WaitForJob, PromptRunner, Looking
<1>5. NoTaskOverstays'
  BY <1>1, Zenon DEF WaitForJob, IInv, NoTaskOverstays
<1>6. AlarmIsReal'
  BY Zenon DEF WaitForJob, IInv, AlarmIsReal
<1> QED BY <1>1, <1>2, <1>3, <1>4, <1>5, <1>6 DEF IInv

LEMMA WakeUpKeepsIInv ==
  ASSUME IInv, WakeUp
  PROVE  IInv'
<1>1. /\ Stamps' /\ OwnNodes' /\ Nodes' /\ EarliestFirst' /\ PassedIsMissed'
      /\ Deadlines' = Deadlines
  BY RunnerOnly DEF WakeUp
<1>2. TypeOK'
  BY RunnerOnly DEF WakeUp, IInv, TypeOK, Late
<1>3. RunnerAt'
  BY DEF WakeUp, IInv, RunnerAt, Looking
<1>4. PromptRunner'
  BY DEF WakeUp, PromptRunner, Looking
<1>5. NoTaskOverstays'
  BY <1>1, Zenon DEF WakeUp, IInv, NoTaskOverstays
<1>6. AlarmIsReal'
  BY Zenon DEF WakeUp, IInv, AlarmIsReal
<1> QED BY <1>1, <1>2, <1>3, <1>4, <1>5, <1>6 DEF IInv

(* The runner has the earliest deadline; if it has passed it was missed.   *)
LEMMA PeekKeepsIInv ==
  ASSUME IInv, Peek
  PROVE  IInv'
<1>1. /\ Stamps' /\ OwnNodes' /\ Nodes' /\ EarliestFirst' /\ PassedIsMissed'
      /\ Deadlines' = Deadlines
  BY RunnerOnly DEF Peek
<1>2. /\ peeked' \in Deadlines /\ \A left \in Deadlines : peeked' <= left
  BY HeadIsEarliest DEF Peek, IInv
<1>3. peeked' \in Late
  BY <1>2, Lists DEF IInv
<1>4. TypeOK'
  BY <1>3, RunnerOnly DEF Peek, IInv, TypeOK
<1>5. RunnerAt'
  <2>1. peeked' # None
    BY <1>3, WatchdogAssumption DEF Late
  <2> QED BY <2>1 DEF Peek, IInv, RunnerAt, Looking
<1>6. PromptRunner'
  <2>1. prompt' /\ runner' \in Looking => \A left \in Deadlines' : peeked' <= left
    BY <1>1, <1>2
  <2>2. peeked' <= 0 => missed'
    BY <1>1, <1>2, Zenon DEF PassedIsMissed
  <2> QED BY <2>1, <2>2, Zenon DEF PromptRunner
<1>7. NoTaskOverstays'
  BY <1>1, Zenon DEF Peek, IInv, NoTaskOverstays
<1>8. AlarmIsReal'
  BY Zenon DEF Peek, IInv, AlarmIsReal
<1> QED BY <1>1, <1>4, <1>5, <1>6, <1>7, <1>8 DEF IInv

LEMMA TimeoutKeepsIInv ==
  ASSUME IInv, Timeout
  PROVE  IInv'
<1>1. /\ Stamps' /\ OwnNodes' /\ Nodes' /\ EarliestFirst' /\ PassedIsMissed'
      /\ Deadlines' = Deadlines
  BY RunnerOnly DEF Timeout
<1>2. TypeOK'
  BY RunnerOnly DEF Timeout, IInv, TypeOK
<1>3. RunnerAt'
  BY DEF Timeout, RunnerAt, Looking
<1>4. PromptRunner'
  BY DEF Timeout, PromptRunner, Looking
<1>5. NoTaskOverstays'
  BY Zenon DEF Timeout, NoTaskOverstays
<1>6. AlarmIsReal'
  BY Zenon DEF Timeout, IInv, PromptRunner, AlarmIsReal
<1> QED BY <1>1, <1>2, <1>3, <1>4, <1>5, <1>6 DEF IInv

LEMMA NoTimeoutKeepsIInv ==
  ASSUME IInv, NoTimeout
  PROVE  IInv'
<1>1. /\ Stamps' /\ OwnNodes' /\ Nodes' /\ EarliestFirst' /\ PassedIsMissed'
      /\ Deadlines' = Deadlines
  BY RunnerOnly DEF NoTimeout
<1>2. TypeOK'
  BY RunnerOnly DEF NoTimeout, IInv, TypeOK, Late
<1>3. RunnerAt'
  BY DEF NoTimeout, IInv, RunnerAt, Looking
<1>4. PromptRunner'
  BY <1>1 DEF NoTimeout, IInv, PromptRunner, Looking
<1>5. NoTaskOverstays'
  BY <1>1, Zenon DEF NoTimeout, IInv, NoTaskOverstays
<1>6. AlarmIsReal'
  BY Zenon DEF NoTimeout, IInv, AlarmIsReal
<1> QED BY <1>1, <1>2, <1>3, <1>4, <1>5, <1>6 DEF IInv

LEMMA FallAsleepKeepsIInv ==
  ASSUME IInv, FallAsleep
  PROVE  IInv'
<1>1. /\ Stamps' /\ OwnNodes' /\ Nodes' /\ EarliestFirst' /\ PassedIsMissed'
      /\ Deadlines' = Deadlines
  BY RunnerOnly DEF FallAsleep
<1>2. TypeOK'
  BY RunnerOnly DEF FallAsleep, IInv, TypeOK, Late
<1>3. RunnerAt'
  <2>1. peeked # None /\ peeked > 0
    BY DEF FallAsleep, IInv, RunnerAt, Looking
  <2>2. peeked \in -MaxLate .. Delay \cup {None}
    BY DEF IInv, TypeOK
  <2>3. peeked' >= 0 /\ peeked' # None
    <3>1. peeked \in -MaxLate .. Delay
      BY <2>1, <2>2
    <3>2. MaxLate \in Int /\ Delay \in Int
      BY WatchdogAssumption
    <3>3. peeked >= 0
      BY <2>1, <3>1, <3>2
    <3> QED BY <2>1, <3>3 DEF FallAsleep
  <2>4. runner' = "sleeping" /\ ~terminated'
    BY DEF FallAsleep, IInv, RunnerAt
  <2> QED BY <2>3, <2>4 DEF RunnerAt
<1>4. PromptRunner'
  BY <1>1 DEF FallAsleep, IInv, PromptRunner, Looking
<1>5. NoTaskOverstays'
  BY <1>1, Zenon DEF FallAsleep, IInv, NoTaskOverstays
<1>6. AlarmIsReal'
  BY Zenon DEF FallAsleep, IInv, AlarmIsReal
<1> QED BY <1>1, <1>2, <1>3, <1>4, <1>5, <1>6 DEF IInv

LEMMA SleepEndsKeepsIInv ==
  ASSUME IInv, SleepEnds
  PROVE  IInv'
<1>1. /\ Stamps' /\ OwnNodes' /\ Nodes' /\ EarliestFirst' /\ PassedIsMissed'
      /\ Deadlines' = Deadlines
  BY RunnerOnly DEF SleepEnds
<1>2. TypeOK'
  BY RunnerOnly DEF SleepEnds, IInv, TypeOK
<1>3. RunnerAt'
  BY DEF SleepEnds, IInv, RunnerAt, Looking
<1>4. PromptRunner'
  BY DEF SleepEnds, PromptRunner, Looking
<1>5. NoTaskOverstays'
  BY <1>1, Zenon DEF SleepEnds, IInv, NoTaskOverstays
<1>6. AlarmIsReal'
  BY Zenon DEF SleepEnds, IInv, AlarmIsReal
<1> QED BY <1>1, <1>2, <1>3, <1>4, <1>5, <1>6 DEF IInv

(* Steps of a job that submits nothing and clears nothing.                 *)
LEMMA JobOnly ==
  ASSUME IInv, NEW j \in Jobs, ReadClock(j) \/ SubmitFails(j) \/ EndUnwatched(j)
  PROVE  IInv'
<1>0. UNCHANGED <<prompt, node, lists, runner, peeked, terminated, missed>>
  BY DEF ReadClock, SubmitFails, EndUnwatched
<1>1. /\ job' \in [Jobs -> {"idle", "submitting", "watched", "unwatched"}]
      /\ stamp' \in [Jobs -> Late \cup {None}]
  <2>1. job' \in [Jobs -> {"idle", "submitting", "watched", "unwatched"}]
    BY DEF IInv, TypeOK, ReadClock, SubmitFails, EndUnwatched
  <2>2. Delay \in Late
    BY WatchdogAssumption DEF Late
  <2>3. stamp \in [Jobs -> Late \cup {None}]
    BY DEF IInv, TypeOK, Late
  <2>4. stamp' \in [Jobs -> Late \cup {None}]
    BY <2>2, <2>3 DEF ReadClock, SubmitFails, EndUnwatched
  <2> QED BY <2>1, <2>4
<1>2. \A i \in Jobs : job'[i] = "watched" <=> job[i] = "watched"
  BY DEF IInv, TypeOK, ReadClock, SubmitFails, EndUnwatched
<1>3. TypeOK'
  BY <1>0, <1>1 DEF IInv, TypeOK, Late, lists
<1>4. Stamps'
  <2>1. Delay # None
    BY WatchdogAssumption
  <2> QED BY <2>1, <1>0
          DEF IInv, TypeOK, Stamps, ReadClock, SubmitFails, EndUnwatched
<1>5. Watched' = Watched
  BY <1>2 DEF Watched
<1>6. OwnNodes'
  BY <1>0, <1>2, <1>5 DEF IInv, OwnNodes
<1>7. Nodes'
  BY <1>0, <1>5 DEF IInv, Nodes, ActiveNodes, lists
<1>8. EarliestFirst' /\ Deadlines' = Deadlines
  BY <1>0 DEF IInv, EarliestFirst, Deadlines, lists
<1>9. RunnerAt' /\ PromptRunner' /\ PassedIsMissed'
  BY <1>0, <1>8 DEF IInv, RunnerAt, PromptRunner, PassedIsMissed, lists
<1>10. NoTaskOverstays'
  BY <1>0, <1>8, Zenon DEF IInv, NoTaskOverstays
<1>11. AlarmIsReal'
  BY <1>0, Zenon DEF IInv, AlarmIsReal
<1> QED BY <1>3, <1>4, <1>6, <1>7, <1>8, <1>9, <1>10, <1>11 DEF IInv

-----------------------------------------------------------------------------
(* Submitting and clearing a deadline.                                     *)

NodesOf(list) == [i \in DOMAIN list |-> list[i].node]
DeadlinesOf(list) == [i \in DOMAIN list |-> list[i].deadline]

(* What pushing an entry adds, and that it keeps the order.                *)
LEMMA Pushed ==
  ASSUME NEW n \in Nat, NEW list \in Seq(Entries(n)), NEW entry \in Entries(n),
         NEW r, NEW p \in 0 .. Len(list), IsPutIn(r, Entries(n), list, entry, p)
  PROVE  /\ Range(NodesOf(r)) = Range(NodesOf(list)) \cup {entry.node}
         /\ IsInjective(NodesOf(list)) /\ entry.node \notin Range(NodesOf(list))
              => IsInjective(NodesOf(r))
         /\ Range(DeadlinesOf(r)) = Range(DeadlinesOf(list)) \cup {entry.deadline}
<1>1. /\ Len(list) \in Nat /\ DOMAIN list = 1 .. Len(list)
      /\ DOMAIN r = 1 .. Len(list) + 1
      /\ \A i \in 1 .. p : r[i] = list[i]
      /\ r[p + 1] = entry
      /\ \A i \in p + 2 .. Len(list) + 1 : r[i] = list[i - 1]
  BY DEF IsPutIn
<1> DEFINE f == NodesOf(list)  g == NodesOf(r)
           d == DeadlinesOf(list)  e == DeadlinesOf(r)  size == Len(list)
<1>2. /\ DOMAIN f = 1 .. size /\ DOMAIN g = 1 .. size + 1
      /\ \A i \in 1 .. p : g[i] = f[i]
      /\ g[p + 1] = entry.node
      /\ \A i \in p + 2 .. size + 1 : g[i] = f[i - 1]
  BY <1>1 DEF NodesOf
<1>3. /\ DOMAIN d = 1 .. size /\ DOMAIN e = 1 .. size + 1
      /\ \A i \in 1 .. p : e[i] = d[i]
      /\ e[p + 1] = entry.deadline
      /\ \A i \in p + 2 .. size + 1 : e[i] = d[i - 1]
  BY <1>1 DEF DeadlinesOf
<1>4. size \in Nat /\ p \in 0 .. size
  BY <1>1
<1> HIDE DEF f, g, d, e, size
<1>5. /\ Range(g) = Range(f) \cup {entry.node}
      /\ IsInjective(f) /\ entry.node \notin Range(f) => IsInjective(g)
  BY <1>2, <1>4, ValuesInserted
<1>6. Range(e) = Range(d) \cup {entry.deadline}
  BY <1>3, <1>4, ValuesInserted
<1> QED BY <1>5, <1>6 DEF f, g, d, e

LEMMA PushedInOrder ==
  ASSUME NEW n \in Nat, NEW list \in Seq(Entries(n)), NEW entry \in Entries(n),
         NEW r, NEW p \in 0 .. Len(list), IsPutIn(r, Entries(n), list, entry, p),
         p > 0 => list[p].deadline <= entry.deadline,
         \A k \in p + 1 .. Len(list) : list[k].deadline > entry.deadline,
         \A i, k \in DOMAIN list : i < k => list[i].deadline <= list[k].deadline
  PROVE  \A i, k \in DOMAIN r : i < k => r[i].deadline <= r[k].deadline
<1>1. /\ Len(list) \in Nat /\ DOMAIN list = 1 .. Len(list)
      /\ DOMAIN r = 1 .. Len(list) + 1
      /\ \A i \in 1 .. p : r[i] = list[i]
      /\ r[p + 1] = entry
      /\ \A i \in p + 2 .. Len(list) + 1 : r[i] = list[i - 1]
  BY DEF IsPutIn
<1>2. entry.deadline \in Int /\ \A k \in 1 .. Len(list) : list[k].deadline \in Int
  <2>1. \A k \in 1 .. Len(list) : list[k] \in Entries(n)
    BY ElementOfSeq
  <2> QED BY <2>1, WatchdogAssumption DEF Entries, Late
<1>3. \A i \in 1 .. p : list[i].deadline <= entry.deadline
  BY <1>1, <1>2
<1>4. ASSUME NEW i \in DOMAIN r, NEW k \in DOMAIN r, i < k
      PROVE  r[i].deadline <= r[k].deadline
  <2>1. CASE k <= p
    <3>1. i \in DOMAIN list /\ k \in DOMAIN list /\ r[i] = list[i] /\ r[k] = list[k]
      BY <1>1, <1>4, <2>1
    <3> QED BY <1>4, <3>1
  <2>2. CASE k = p + 1
    <3>1. i \in 1 .. p /\ r[i] = list[i] /\ r[k] = entry
      BY <1>1, <1>4, <2>2
    <3> QED BY <1>3, <3>1
  <2>3. CASE k >= p + 2
    <3>1. k - 1 \in p + 1 .. Len(list) /\ k - 1 \in DOMAIN list /\ r[k] = list[k - 1]
      BY <1>1, <2>3
    <3>2. CASE i <= p
      <4>1. i \in DOMAIN list /\ i < k - 1 /\ r[i] = list[i]
        BY <1>1, <2>3, <3>2
      <4> QED BY <3>1, <4>1
    <3>3. CASE i = p + 1
      <4>1. entry.deadline < list[k - 1].deadline
        BY <3>1
      <4> QED BY <1>1, <1>2, <3>1, <3>3, <4>1
    <3>4. CASE i >= p + 2
      <4>1. i - 1 \in DOMAIN list /\ i - 1 < k - 1 /\ r[i] = list[i - 1]
        BY <1>1, <1>4, <3>4
      <4> QED BY <3>1, <4>1
    <3> QED BY <1>1, <3>2, <3>3, <3>4
  <2> QED BY <1>1, <2>1, <2>2, <2>3
<1> QED BY <1>4

(* How many jobs can be watched when one of them is not.                   *)
LEMMA WatchedJobs ==
  ASSUME TypeOK
  PROVE  /\ IsFiniteSet(Watched) /\ Cardinality(Watched) \in Nat
         /\ \A j \in Jobs : j \notin Watched =>
              Cardinality(Watched) + 1 <= Cardinality(Jobs)
<1>1. Watched \subseteq Jobs /\ IsFiniteSet(Jobs) /\ IsFiniteSet(Watched)
  BY WatchdogAssumption, FS_Subset DEF Watched
<1>2. Cardinality(Watched) \in Nat
  BY <1>1, FS_CardinalityType
<1>3. ASSUME NEW j \in Jobs, j \notin Watched
      PROVE  Cardinality(Watched) + 1 <= Cardinality(Jobs)
  <2>1. IsFiniteSet(Watched \cup {j}) /\ Cardinality(Watched \cup {j}) = Cardinality(Watched) + 1
    BY <1>1, <1>3, FS_AddElement
  <2>2. Cardinality(Watched \cup {j}) <= Cardinality(Jobs)
    BY <1>1, FS_Subset
  <2> QED BY <2>1, <2>2
<1> QED BY <1>1, <1>2, <1>3

(* TakeNode finds a node nobody uses; a new one only when all are in use,  *)
(* so that there are never more of them than jobs.                         *)
LEMMA NodeTaken ==
  ASSUME IInv, NEW j \in Jobs, job[j] = "submitting", NEW n, TakeNode(n)
  PROVE  /\ n \notin Range(ActiveNodes) /\ n \notin Range(freelist')
         /\ allocated' \in Nat /\ n \in 1 .. allocated' /\ allocated <= allocated'
         /\ allocated' <= Cardinality(Jobs)
         /\ freelist' \in Seq(1 .. allocated') /\ IsInjective(freelist')
         /\ Range(ActiveNodes) \cap Range(freelist') = {}
         /\ Range(ActiveNodes) \cup {n} \cup Range(freelist') = 1 .. allocated'
<1>1. /\ allocated \in Nat /\ Cardinality(Jobs) \in Nat
      /\ freelist \in Seq(1 .. allocated)
  BY Lists DEF IInv
<1>2. /\ IsInjective(freelist) /\ Range(ActiveNodes) \cap Range(freelist) = {}
      /\ Range(ActiveNodes) \cup Range(freelist) = 1 .. allocated
      /\ Range(ActiveNodes) = {node[i] : i \in Watched}
      /\ allocated <= Cardinality(Jobs)
  BY DEF IInv, Nodes
<1>3. CASE /\ freelist # <<>> /\ n = Head(freelist)
           /\ freelist' = Tail(freelist) /\ UNCHANGED allocated
  <2>1. /\ n \in Range(freelist) /\ freelist' \in Seq(1 .. allocated)
        /\ IsInjective(freelist') /\ Range(freelist') = Range(freelist) \ {n}
    BY <1>1, <1>2, <1>3, FreeListPop
  <2> QED BY <1>1, <1>2, <1>3, <2>1
<1>4. CASE /\ freelist = <<>> /\ n = allocated + 1
           /\ allocated' = allocated + 1 /\ UNCHANGED freelist
  <2>1. Range(freelist) = {}
    BY <1>4 DEF Range
  <2>2. allocated + 1 <= Cardinality(Jobs)
    <3>1. {node[i] : i \in Watched} = 1 .. allocated
      BY <1>2, <2>1
    <3> DEFINE holder == [i \in Watched |-> node[i]]
    <3>2. holder \in Surjection(Watched, 1 .. allocated)
      BY <3>1 DEF Surjection, Range
    <3>3. Cardinality(1 .. allocated) <= Cardinality(Watched)
      BY <3>2, FS_Surjection, WatchedJobs DEF IInv
    <3>4. Cardinality(1 .. allocated) = allocated
      BY <1>1, FS_Interval
    <3>5. Cardinality(Watched) + 1 <= Cardinality(Jobs) /\ Cardinality(Watched) \in Nat
      BY WatchedJobs DEF IInv, Watched
    <3> QED BY <1>1, <3>3, <3>4, <3>5
  <2>3. freelist' \in Seq(1 .. allocated')
    BY <1>4
  <2>4. 1 .. allocated' = 1 .. allocated \cup {n} /\ n \notin 1 .. allocated
    BY <1>1, <1>4
  <2>5. allocated' \in Nat /\ n \in 1 .. allocated' /\ allocated <= allocated'
    BY <1>1, <1>4
  <2> QED BY <1>2, <1>4, <2>1, <2>2, <2>3, <2>4, <2>5
<1> QED BY <1>3, <1>4 DEF TakeNode

LEMMA SubmitKeepsIInv ==
  ASSUME IInv, NEW j \in Jobs, watchdog_submit_deadline(j)
  PROVE  IInv'
<1>1. /\ job[j] = "submitting" /\ node[j] = None /\ j \notin Watched
      /\ stamp[j] \in Late /\ (prompt => stamp[j] = Delay)
  <2>1. job[j] = "submitting"
    BY DEF watchdog_submit_deadline
  <2>2. node[j] = None /\ j \notin Watched
    BY <2>1 DEF IInv, OwnNodes, Watched
  <2>3. stamp[j] \in Late \cup {None} /\ stamp[j] # None
    BY <2>1 DEF IInv, TypeOK, Stamps, Late
  <2>4. prompt => stamp[j] = Delay
    BY <2>1, Zenon DEF IInv, Stamps
  <2> QED BY <2>1, <2>2, <2>3, <2>4
<1>2. PICK n \in 1 .. allocated + 1 :
        /\ TakeNode(n)
        /\ node' = [node EXCEPT ![j] = n]
        /\ activelist' = dlist_push_ordered(activelist,
                                            [node |-> n, deadline |-> stamp[j]])
  BY DEF watchdog_submit_deadline
<1>3. /\ n \notin Range(ActiveNodes) /\ n \notin Range(freelist')
      /\ allocated' \in Nat /\ n \in 1 .. allocated' /\ allocated <= allocated'
      /\ allocated' <= Cardinality(Jobs)
      /\ freelist' \in Seq(1 .. allocated') /\ IsInjective(freelist')
      /\ Range(ActiveNodes) \cap Range(freelist') = {}
      /\ Range(ActiveNodes) \cup {n} \cup Range(freelist') = 1 .. allocated'
  BY <1>1, <1>2, NodeTaken
<1>4. PICK entry : entry = [node |-> n, deadline |-> stamp[j]]
  OBVIOUS
<1>5. /\ entry \in Entries(allocated') /\ entry.node = n /\ entry.deadline = stamp[j]
  BY <1>1, <1>3, <1>4 DEF Entries
<1>6. activelist \in Seq(Entries(allocated'))
  <2>1. activelist \in Seq(Entries(allocated)) /\ allocated \in Nat
    BY Lists DEF IInv
  <2>2. Entries(allocated) \subseteq Entries(allocated')
    BY <1>3, <2>1 DEF Entries
  <2> QED BY <2>1, <2>2, SeqMonotonic, Zenon
<1>7. PICK p \in 0 .. Len(activelist) :
        /\ p > 0 => activelist[p].deadline <= entry.deadline
        /\ \A k \in p + 1 .. Len(activelist) : activelist[k].deadline > entry.deadline
        /\ IsPutIn(activelist', Entries(allocated'), activelist, entry, p)
  BY <1>2, <1>3, <1>4, <1>5, <1>6, PushOrdered
<1>8. /\ Range(ActiveNodes') = Range(ActiveNodes) \cup {n}
      /\ IsInjective(ActiveNodes')
      /\ Deadlines' = Deadlines \cup {stamp[j]}
  <2>1. /\ Range(NodesOf(activelist')) = Range(NodesOf(activelist)) \cup {entry.node}
        /\ IsInjective(NodesOf(activelist))
             /\ entry.node \notin Range(NodesOf(activelist))
             => IsInjective(NodesOf(activelist'))
        /\ Range(DeadlinesOf(activelist'))
             = Range(DeadlinesOf(activelist)) \cup {entry.deadline}
    BY <1>3, <1>5, <1>6, <1>7, Pushed
  <2>2. /\ ActiveNodes = NodesOf(activelist) /\ ActiveNodes' = NodesOf(activelist')
        /\ Deadlines = Range(DeadlinesOf(activelist))
        /\ Deadlines' = Range(DeadlinesOf(activelist'))
    BY DEF ActiveNodes, NodesOf, Deadlines, DeadlinesOf, Range
  <2>3. IsInjective(ActiveNodes)
    BY DEF IInv, Nodes
  <2> QED BY <1>3, <1>5, <2>1, <2>2, <2>3
<1>9. EarliestFirst'
  <2>1. \A i, k \in DOMAIN activelist :
          i < k => activelist[i].deadline <= activelist[k].deadline
    BY DEF IInv, EarliestFirst
  <2>2. \A i, k \in DOMAIN activelist' :
          i < k => activelist'[i].deadline <= activelist'[k].deadline
    BY <1>3, <1>5, <1>6, <1>7, <2>1, PushedInOrder
  <2> QED BY <2>2 DEF EarliestFirst
<1>10. Watched' = Watched \cup {j}
  BY DEF watchdog_submit_deadline, IInv, TypeOK, Watched
<1>11. node \in [Jobs -> 1 .. allocated \cup {None}]
  BY DEF IInv, TypeOK
<1>12. TypeOK'
  <2>1. job' \in [Jobs -> {"idle", "submitting", "watched", "unwatched"}]
    BY DEF watchdog_submit_deadline, IInv, TypeOK
  <2>2. stamp' \in [Jobs -> -MaxLate .. Delay \cup {None}]
    BY DEF watchdog_submit_deadline, IInv, TypeOK
  <2>3. node' \in [Jobs -> 1 .. allocated' \cup {None}]
    <3>1. 1 .. allocated \subseteq 1 .. allocated'
      BY <1>3, Lists DEF IInv
    <3> QED BY <1>2, <1>3, <1>11, <3>1
  <2>4. allocated' \in 0 .. Cardinality(Jobs)
    BY <1>3, Lists DEF IInv
  <2>5. activelist' \in Seq([node : 1 .. allocated', deadline : -MaxLate .. Delay])
    BY <1>7 DEF IsPutIn, Entries, Late
  <2>6. runner' \in {"locking", "waiting", "peeked", "about to sleep", "sleeping", "ended"}
    BY DEF watchdog_submit_deadline, WakeRunner, IInv, TypeOK
  <2>7. missed' \in BOOLEAN
    BY Zenon DEF watchdog_submit_deadline, IInv, TypeOK
  <2>8. prompt' \in Machines /\ peeked' \in -MaxLate .. Delay \cup {None}
        /\ terminated' \in BOOLEAN
    BY DEF watchdog_submit_deadline, IInv, TypeOK
  <2> QED BY <1>3, <2>1, <2>2, <2>3, <2>4, <2>5, <2>6, <2>7, <2>8 DEF TypeOK
<1>13. Stamps'
  BY Zenon DEF watchdog_submit_deadline, IInv, TypeOK, Stamps
<1>14. OwnNodes'
  <2>1. \A i \in Jobs : job'[i] = "watched" <=> node'[i] # None
    <3>1. n # None
      BY <1>2, Lists, WatchdogAssumption DEF IInv
    <3> QED BY <1>2, <1>11, <3>1
            DEF watchdog_submit_deadline, IInv, TypeOK, OwnNodes
  <2>2. \A i \in Watched : node[i] # n
    BY <1>3 DEF IInv, Nodes
  <2>3. \A i \in Watched : i # j /\ i \in Jobs
    BY <1>1 DEF Watched
  <2>4. \A i, k \in Watched' : node'[i] = node'[k] => i = k
    BY <1>2, <1>10, <1>11, <2>2, <2>3 DEF IInv, OwnNodes
  <2> QED BY <2>1, <2>4 DEF OwnNodes
<1>15. Nodes'
  <2>1. Range(ActiveNodes') = {node'[i] : i \in Watched'}
    <3>1. \A i \in Watched : node'[i] = node[i]
      BY <1>1, <1>2, <1>11 DEF Watched
    <3>2. node'[j] = n
      BY <1>2, <1>11
    <3>3. Range(ActiveNodes) = {node[i] : i \in Watched}
      BY DEF IInv, Nodes
    <3> QED BY <1>8, <1>10, <3>1, <3>2, <3>3
  <2>2. Len(activelist') = Cardinality(Watched')
    <3>1. Cardinality(Watched') = Cardinality(Watched) + 1
      BY <1>1, <1>10, WatchedJobs, FS_AddElement DEF IInv
    <3>2. Len(activelist') = Len(activelist) + 1
      BY <1>7 DEF IsPutIn
    <3> QED BY <3>1, <3>2 DEF IInv, Nodes
  <2>3. /\ Range(ActiveNodes') \cap Range(freelist') = {}
        /\ Range(ActiveNodes') \cup Range(freelist') = 1 .. allocated'
    BY <1>3, <1>8
  <2> QED BY <1>3, <1>8, <2>1, <2>2, <2>3 DEF Nodes
<1>16. RunnerAt'
  <2>1. runner' # "waiting" /\ (runner' = "ended" <=> runner = "ended")
    BY DEF watchdog_submit_deadline, WakeRunner
  <2>2. /\ runner' \in Looking => runner' = runner
        /\ peeked' = peeked /\ terminated' = terminated
    BY DEF watchdog_submit_deadline, WakeRunner, Looking
  <2> QED BY <2>1, <2>2, Zenon DEF IInv, RunnerAt, Looking
<1>17. PromptRunner'
  <2>1. runner' \in Looking => runner' = runner
    BY DEF watchdog_submit_deadline, WakeRunner, Looking
  <2>2. ASSUME prompt', runner' \in Looking, NEW left \in Deadlines'
        PROVE  peeked' <= left
    <3>1. prompt /\ runner \in Looking /\ peeked' = peeked
      BY <2>1, <2>2 DEF watchdog_submit_deadline
    <3>2. CASE left \in Deadlines
      BY <3>1, <3>2, Zenon DEF IInv, PromptRunner
    <3>3. CASE left = stamp[j]
      <4>1. left = Delay
        BY <1>1, <3>1, <3>3
      <4>2. peeked \in -MaxLate .. Delay
        BY <3>1 DEF IInv, TypeOK, RunnerAt
      <4>3. peeked <= Delay
        BY <4>2
      <4> QED BY <3>1, <4>1, <4>3
    <3> QED BY <1>8, <2>2, <3>2, <3>3
  <2>3. prompt' /\ runner' = "peeked" /\ peeked' <= 0 => missed'
    BY <2>1, Zenon DEF watchdog_submit_deadline, IInv, PromptRunner, WakeRunner, Looking
  <2> QED BY <2>2, <2>3, Zenon DEF PromptRunner
<1>18. PassedIsMissed'
  <2>1. missed' = (missed \/ stamp[j] <= 0)
    BY DEF watchdog_submit_deadline
  <2> QED BY <1>8, <2>1, Zenon DEF IInv, PassedIsMissed
<1>19. NoTaskOverstays'
  <2>1. prompt => stamp[j] >= 0
    BY <1>1, WatchdogAssumption
  <2>2. UNCHANGED <<prompt, terminated>>
    BY DEF watchdog_submit_deadline
  <2> QED BY <1>8, <2>1, <2>2, Zenon DEF IInv, NoTaskOverstays
<1>20. AlarmIsReal'
  BY Zenon DEF watchdog_submit_deadline, IInv, AlarmIsReal
<1> QED BY <1>9, <1>12, <1>13, <1>14, <1>15, <1>16, <1>17, <1>18, <1>19, <1>20 DEF IInv

LEMMA ClearKeepsIInv ==
  ASSUME IInv, NEW j \in Jobs, watchdog_clear_deadline(j)
  PROVE  IInv'
<1>1. /\ job[j] = "watched" /\ j \in Watched
      /\ UNCHANGED <<prompt, stamp, allocated, runner, peeked, terminated, missed>>
  BY DEF watchdog_clear_deadline, Watched
<1>2. /\ allocated \in Nat /\ activelist \in Seq(Entries(allocated))
      /\ freelist \in Seq(1 .. allocated)
      /\ Len(activelist) \in Nat /\ DOMAIN activelist = 1 .. Len(activelist)
      /\ DOMAIN ActiveNodes = 1 .. Len(activelist)
  BY Lists DEF IInv
<1>3. PICK m : m = node[j]
  OBVIOUS
<1>4. m \in Range(ActiveNodes) /\ m \notin Range(freelist) /\ m \in 1 .. allocated
  BY <1>1, <1>3 DEF IInv, Nodes
<1>5. \E i \in 1 .. Len(activelist) : activelist[i].node = m
  BY <1>2, <1>4 DEF Range, ActiveNodes
<1>6. activelist' = dlist_remove_node(activelist, m)
  BY <1>3 DEF watchdog_clear_deadline
<1>7. PICK p \in 1 .. Len(activelist) :
        activelist[p].node = m /\ IsTakenOut(activelist', Entries(allocated), activelist, p)
  BY <1>2, <1>5, <1>6, RemoveNode
<1>7a. /\ activelist' \in Seq(Entries(allocated))
       /\ Len(activelist') = Len(activelist) - 1
       /\ \A i \in 1 .. p - 1 : activelist'[i] = activelist[i]
       /\ \A i \in p .. Len(activelist) - 1 : activelist'[i] = activelist[i + 1]
  BY <1>7 DEF IsTakenOut
<1> DEFINE size == Len(activelist)
<1>8. /\ size \in Nat /\ p \in 1 .. size /\ DOMAIN activelist = 1 .. size
      /\ DOMAIN activelist' = 1 .. size - 1
  BY <1>2, <1>7, <1>7a
<1> HIDE DEF size
<1>9. /\ \A i \in 1 .. p - 1 : activelist'[i] = activelist[i]
      /\ \A i \in p .. size - 1 : activelist'[i] = activelist[i + 1]
  BY <1>7a DEF size
<1>10. /\ Range(ActiveNodes') = Range(ActiveNodes) \ {m}
       /\ IsInjective(ActiveNodes')
  <2>1. /\ DOMAIN ActiveNodes = 1 .. size /\ DOMAIN ActiveNodes' = 1 .. size - 1
        /\ \A i \in 1 .. p - 1 : ActiveNodes'[i] = ActiveNodes[i]
        /\ \A i \in p .. size - 1 : ActiveNodes'[i] = ActiveNodes[i + 1]
        /\ ActiveNodes[p] = m
    BY <1>7, <1>8, <1>9 DEF ActiveNodes
  <2>2. IsInjective(ActiveNodes)
    BY DEF IInv, Nodes
  <2> QED BY <1>8, <2>1, <2>2, ValuesDeleted
<1>11. Deadlines' \subseteq Deadlines
  <2>1. /\ DOMAIN DeadlinesOf(activelist) = 1 .. size
        /\ DOMAIN DeadlinesOf(activelist') = 1 .. size - 1
        /\ \A i \in 1 .. p - 1 : DeadlinesOf(activelist')[i] = DeadlinesOf(activelist)[i]
        /\ \A i \in p .. size - 1 :
             DeadlinesOf(activelist')[i] = DeadlinesOf(activelist)[i + 1]
    BY <1>8, <1>9 DEF DeadlinesOf
  <2>2. Range(DeadlinesOf(activelist')) \subseteq Range(DeadlinesOf(activelist))
    BY <1>8, <2>1, ValuesDeleted
  <2> QED BY <2>2 DEF Deadlines, DeadlinesOf, Range
<1>12. EarliestFirst'
  <2> DEFINE Old(i) == IF i < p THEN i ELSE i + 1
  <2>1. \A i \in DOMAIN activelist' :
          Old(i) \in DOMAIN activelist /\ activelist'[i] = activelist[Old(i)]
    BY <1>8, <1>9
  <2>2. \A i, k \in DOMAIN activelist' : i < k => Old(i) < Old(k)
    BY <1>8
  <2> HIDE DEF Old
  <2> QED BY <2>1, <2>2 DEF IInv, EarliestFirst
<1>13. Watched' = Watched \ {j}
  BY DEF watchdog_clear_deadline, IInv, TypeOK, Watched
<1>14. /\ node' = [node EXCEPT ![j] = None]
       /\ node \in [Jobs -> 1 .. allocated \cup {None}]
       /\ freelist' = Append(freelist, m)
  BY <1>3 DEF watchdog_clear_deadline, IInv, TypeOK
<1>15. /\ freelist' \in Seq(1 .. allocated) /\ IsInjective(freelist')
       /\ Range(freelist') = Range(freelist) \cup {m}
  BY <1>2, <1>4, <1>14, FreeListPush, AppendProperties DEF IInv, Nodes
<1>16. TypeOK'
  <2>1. job' \in [Jobs -> {"idle", "submitting", "watched", "unwatched"}]
    BY DEF watchdog_clear_deadline, IInv, TypeOK
  <2>2. node' \in [Jobs -> 1 .. allocated' \cup {None}]
    BY <1>1, <1>14
  <2>3. activelist' \in Seq([node : 1 .. allocated', deadline : -MaxLate .. Delay])
    BY <1>1, <1>7a DEF Entries, Late
  <2> QED BY <1>1, <1>15, <2>1, <2>2, <2>3 DEF IInv, TypeOK
<1>17. Stamps'
  BY Zenon DEF watchdog_clear_deadline, IInv, TypeOK, Stamps
<1>18. OwnNodes'
  <2>1. \A i \in Jobs : job'[i] = "watched" <=> node'[i] # None
    BY <1>14 DEF watchdog_clear_deadline, IInv, TypeOK, OwnNodes
  <2>2. \A i \in Watched' : node'[i] = node[i] /\ i \in Watched
    BY <1>13, <1>14 DEF Watched
  <2> QED BY <2>1, <2>2 DEF IInv, OwnNodes
<1>19. Nodes'
  <2>1. Range(ActiveNodes') = {node'[i] : i \in Watched'}
    <3>1. \A i \in Watched' : node'[i] = node[i] /\ i \in Watched /\ i # j
      BY <1>13, <1>14 DEF Watched
    <3>2. \A i \in Watched : i = j <=> node[i] = m
      BY <1>1, <1>3 DEF IInv, OwnNodes
    <3>3. Range(ActiveNodes) = {node[i] : i \in Watched}
      BY DEF IInv, Nodes
    <3> QED BY <1>10, <1>13, <3>1, <3>2, <3>3
  <2>2. Len(activelist') = Cardinality(Watched')
    <3>1. Cardinality(Watched') = Cardinality(Watched) - 1
      BY <1>1, <1>13, WatchedJobs, FS_RemoveElement DEF IInv
    <3> QED BY <1>7a, <3>1 DEF IInv, Nodes
  <2>3. /\ Range(ActiveNodes') \cap Range(freelist') = {}
        /\ Range(ActiveNodes') \cup Range(freelist') = 1 .. allocated'
    BY <1>1, <1>4, <1>10, <1>15 DEF IInv, Nodes
  <2>4. allocated' <= Cardinality(Jobs)
    BY <1>1 DEF IInv, Nodes
  <2> QED BY <1>10, <1>15, <2>1, <2>2, <2>3, <2>4 DEF Nodes
<1>20. RunnerAt'
  <2>1. activelist # <<>>
    BY <1>7
  <2> QED BY <1>1, <2>1, Zenon DEF IInv, RunnerAt, Looking
<1>21. PromptRunner'
  BY <1>1, <1>11, Zenon DEF IInv, PromptRunner
<1>22. PassedIsMissed'
  BY <1>1, <1>11, Zenon DEF IInv, PassedIsMissed
<1>23. NoTaskOverstays'
  BY <1>1, <1>11, Zenon DEF IInv, NoTaskOverstays
<1>24. AlarmIsReal'
  BY <1>1, Zenon DEF IInv, AlarmIsReal
<1> QED BY <1>12, <1>16, <1>17, <1>18, <1>19, <1>20, <1>21, <1>22, <1>23, <1>24 DEF IInv

-----------------------------------------------------------------------------
(* The clock.                                                              *)

(* What a tick of the clock does to the list.                              *)
LEMMA ListTicks ==
  ASSUME IInv, Tick
  PROVE  /\ activelist' \in Seq(Entries(allocated))
         /\ Len(activelist') = Len(activelist)
         /\ ActiveNodes' = ActiveNodes
         /\ Deadlines' = {CountDown(left) : left \in Deadlines}
         /\ EarliestFirst'
<1>1. /\ allocated \in Nat /\ Len(activelist) \in Nat
      /\ DOMAIN activelist = 1 .. Len(activelist)
      /\ activelist \in Seq(Entries(allocated)) /\ Deadlines \subseteq Late
  BY Lists DEF IInv
<1>2. \A i \in DOMAIN activelist : activelist[i] \in Entries(allocated)
  BY <1>1, ElementOfSeq
<1>3. activelist' = [i \in DOMAIN activelist |->
                       [activelist[i] EXCEPT !.deadline = CountDown(@)]]
  BY DEF Tick
<1>4. \A i \in DOMAIN activelist :
        /\ activelist[i].deadline \in Late
        /\ activelist'[i] \in Entries(allocated)
        /\ activelist'[i].node = activelist[i].node
        /\ activelist'[i].deadline = CountDown(activelist[i].deadline)
  BY <1>2, <1>3, CountingDown DEF Entries
<1>5. DOMAIN activelist' = DOMAIN activelist
  BY <1>3
<1>6. activelist' \in Seq(Entries(allocated)) /\ Len(activelist') = Len(activelist)
  <2>1. activelist' \in [1 .. Len(activelist) -> Entries(allocated)]
    BY <1>1, <1>3, <1>4
  <2> QED BY <1>1, <2>1
<1>7. ActiveNodes' = ActiveNodes
  BY <1>4, <1>5 DEF ActiveNodes
<1>8. Deadlines' = {CountDown(left) : left \in Deadlines}
  BY <1>4, <1>5 DEF Deadlines
<1>9. EarliestFirst'
  BY <1>4, <1>5, CountingDown DEF IInv, EarliestFirst
<1> QED BY <1>6, <1>7, <1>8, <1>9

(* The runner when the clock of a prompt machine ticks.                    *)
LEMMA PromptTick ==
  ASSUME IInv, Tick, prompt
  PROVE  /\ \A j \in Jobs : job[j] # "submitting"
         /\ \/ runner = "waiting" /\ Deadlines = {}
            \/ /\ runner = "sleeping" /\ peeked > 0 /\ peeked \in Late
               /\ \A left \in Deadlines : peeked <= left
            \/ runner = "ended" /\ terminated
<1>1. ~Busy
  BY DEF Tick
<1>2. /\ \A j \in Jobs : job[j] # "submitting"
      /\ runner \in {"waiting", "sleeping", "ended"}
      /\ runner = "sleeping" => peeked # 0
  BY <1>1 DEF Busy, IInv, TypeOK
<1>3. runner = "waiting" => Deadlines = {}
  BY DEF IInv, RunnerAt, Deadlines
<1>4. ASSUME runner = "sleeping"
      PROVE  peeked > 0 /\ peeked \in Late /\ \A left \in Deadlines : peeked <= left
  <2>1. peeked \in Late /\ peeked >= 0
    BY <1>4 DEF IInv, TypeOK, RunnerAt, Looking, Late
  <2>2. peeked > 0
    BY <1>2, <1>4, <2>1, WatchdogAssumption DEF Late
  <2>3. \A left \in Deadlines : peeked <= left
    BY <1>4, Zenon DEF IInv, PromptRunner, Looking
  <2> QED BY <2>1, <2>2, <2>3
<1>5. runner = "ended" => terminated
  BY DEF IInv, RunnerAt
<1> QED BY <1>2, <1>3, <1>4, <1>5, Zenon

LEMMA TickKeepsIInv ==
  ASSUME IInv, Tick
  PROVE  IInv'
<1>1. /\ activelist' \in Seq(Entries(allocated))
      /\ Len(activelist') = Len(activelist)
      /\ ActiveNodes' = ActiveNodes
      /\ Deadlines' = {CountDown(left) : left \in Deadlines}
      /\ EarliestFirst'
  BY ListTicks
<1>2. UNCHANGED <<prompt, job, node, freelist, allocated, runner, terminated>>
  BY DEF Tick
<1>3. Deadlines \subseteq Late
  BY Lists DEF IInv
<1>4. MaxLate \in Int /\ Delay \in Int /\ None \notin Late
  BY WatchdogAssumption DEF Late
<1>5. /\ peeked \in Late \cup {None}
      /\ peeked' \in Late \cup {None}
      /\ runner \in Looking => peeked' # None
      /\ runner = "about to sleep" => peeked' > 0
      /\ runner = "sleeping" => peeked' >= 0
  <2>1. peeked \in Late \cup {None}
    BY DEF IInv, TypeOK, Late
  <2>2. CASE runner = "peeked"
    <3>1. peeked' = CountDown(peeked) /\ peeked \in Late
      BY <2>1, <2>2 DEF Tick, IInv, RunnerAt, Looking
    <3>2. peeked' \in Late
      BY <3>1, CountingDown
    <3> QED BY <1>4, <2>1, <2>2, <3>2
  <2>3. CASE runner = "sleeping"
    <3>1. peeked \in Late /\ peeked >= 0
      BY <2>1, <2>3 DEF IInv, RunnerAt, Looking
    <3>2. peeked' = IF peeked > 0 THEN peeked - 1 ELSE peeked
      BY <2>3 DEF Tick
    <3>3. peeked' \in Late /\ peeked' >= 0
      BY <1>4, <3>1, <3>2, WatchdogAssumption DEF Late
    <3> QED BY <1>4, <2>1, <2>3, <3>3
  <2>4. CASE runner \notin {"peeked", "sleeping"}
    <3>1. peeked' = peeked
      BY <2>4 DEF Tick
    <3>2. /\ runner \in Looking => peeked # None
          /\ runner = "about to sleep" => peeked > 0
      BY DEF IInv, RunnerAt
    <3> QED BY <2>1, <2>4, <3>1, <3>2
  <2> QED BY <2>2, <2>3, <2>4
<1>6. TypeOK'
  <2>1. stamp' \in [Jobs -> Late \cup {None}]
    <3>1. \A j \in Jobs : stamp[j] \in Late \cup {None}
      BY DEF IInv, TypeOK, Late
    <3>2. \A j \in Jobs : CountDown(stamp[j]) \in Late \cup {None}
      BY <3>1, CountingDown
    <3> QED BY <3>2 DEF Tick
  <2>2. missed' \in BOOLEAN
    BY Zenon DEF Tick, IInv, TypeOK
  <2> QED BY <1>1, <1>2, <1>5, <2>1, <2>2 DEF IInv, TypeOK, Entries, Late
<1>7. Stamps'
  <2>1. ASSUME NEW j \in Jobs
        PROVE  stamp'[j] # None <=> stamp[j] # None
    <3>1. stamp[j] \in Late \cup {None} /\ stamp'[j] = CountDown(stamp[j])
      BY DEF IInv, TypeOK, Late, Tick
    <3>2. CASE stamp[j] = None
      BY <3>1, <3>2, CountingDown
    <3>3. CASE stamp[j] \in Late
      <4>1. stamp'[j] \in Late
        BY <3>1, <3>3, CountingDown
      <4> QED BY <1>4, <3>3, <4>1
    <3> QED BY <3>1, <3>2, <3>3
  <2>2. prompt => \A j \in Jobs : job[j] # "submitting"
    BY PromptTick
  <2> QED BY <1>2, <2>1, <2>2, Zenon DEF IInv, Stamps
<1>8. Watched' = Watched /\ OwnNodes'
  BY <1>2 DEF IInv, OwnNodes, Watched
<1>9. Nodes'
  BY <1>1, <1>2, <1>8 DEF IInv, Nodes
<1>10. RunnerAt'
  <2>1. runner' = "waiting" => activelist' = <<>>
    <3>1. activelist = <<>> => activelist' = <<>>
      BY <1>1, Lists DEF IInv, Tick
    <3> QED BY <1>2, <3>1 DEF IInv, RunnerAt
  <2>2. runner' = "ended" <=> terminated'
    BY <1>2 DEF IInv, RunnerAt
  <2> QED BY <1>2, <1>5, <2>1, <2>2, Zenon DEF RunnerAt
<1>11. missed' = (missed \/ \E left \in Deadlines : left <= 1)
  BY DEF Tick
<1>12. PromptRunner'
  <2>1. ASSUME prompt
        PROVE  /\ runner \in Looking => \A left \in Deadlines' : peeked' <= left
               /\ runner # "peeked"
    <3>1. ASSUME runner \in Looking, NEW left \in Deadlines PROVE peeked' <= CountDown(left)
      <4>1. runner = "sleeping" /\ peeked > 0 /\ peeked \in Late /\ peeked <= left
        BY <2>1, <3>1, PromptTick DEF Looking
      <4>2. peeked' = peeked - 1 /\ left \in Late /\ CountDown(left) >= left - 1
        BY <1>3, <4>1, CountingDown DEF Tick
      <4>3. CountDown(left) \in Late
        BY <4>2, CountingDown
      <4> QED BY <1>4, <4>1, <4>2, <4>3 DEF Late
    <3> QED BY <1>1, <2>1, <3>1, PromptTick
  <2> QED BY <1>2, <2>1, Zenon DEF PromptRunner
<1>13. PassedIsMissed'
  <2>1. \A left \in Deadlines : CountDown(left) <= 0 => left <= 1
    BY <1>3, CountingDown
  <2> QED BY <1>1, <1>11, <2>1 DEF PassedIsMissed
<1>14. NoTaskOverstays'
  <2>1. ASSUME prompt, ~terminated, NEW left \in Deadlines PROVE CountDown(left) >= 0
    <3>1. peeked > 0 /\ peeked \in Late /\ peeked <= left
      BY <2>1, PromptTick
    <3>2. left \in Late /\ CountDown(left) >= left - 1 /\ CountDown(left) \in Late
      BY <1>3, CountingDown
    <3> QED BY <1>4, <3>1, <3>2 DEF Late
  <2> QED BY <1>1, <1>2, <2>1 DEF NoTaskOverstays
<1>15. AlarmIsReal'
  BY <1>2, <1>11, Zenon DEF IInv, AlarmIsReal
<1> QED BY <1>1, <1>6, <1>7, <1>8, <1>9, <1>10, <1>12, <1>13, <1>14, <1>15 DEF IInv

-----------------------------------------------------------------------------
(* The theorems.                                                           *)

LEMMA InitIInv == Init => IInv
<1> SUFFICES ASSUME Init PROVE IInv
  OBVIOUS
<1>1. Deadlines = {} /\ ActiveNodes = <<>> /\ Watched = {}
  BY DEF Init, Deadlines, ActiveNodes, Watched
<1>2. TypeOK
  <2>1. Cardinality(Jobs) \in Nat
    BY WatchdogAssumption, FS_CardinalityType
  <2>2. /\ prompt \in Machines /\ terminated \in BOOLEAN /\ missed \in BOOLEAN
        /\ allocated = 0 /\ runner = "locking" /\ peeked = None
        /\ activelist = <<>> /\ freelist = <<>>
    BY DEF Init
  <2>3. /\ job \in [Jobs -> {"idle", "submitting", "watched", "unwatched"}]
        /\ stamp \in [Jobs -> -MaxLate .. Delay \cup {None}]
        /\ node \in [Jobs -> 1 .. allocated \cup {None}]
    BY DEF Init
  <2>4. <<>> \in Seq([node : 1 .. 0, deadline : -MaxLate .. Delay]) /\ <<>> \in Seq(1 .. 0)
    OBVIOUS
  <2>5. 0 \in 0 .. Cardinality(Jobs)
    BY <2>1
  <2> QED BY <2>2, <2>3, <2>4, <2>5 DEF TypeOK
<1>3. Stamps /\ OwnNodes
  BY DEF Init, Stamps, OwnNodes, Watched
<1>4. Nodes
  <2>1. Cardinality(Watched) = 0 /\ Cardinality(Jobs) >= 0
    BY <1>1, FS_EmptySet, WatchdogAssumption, FS_CardinalityType
  <2>2. IsInjective(<<>>) /\ Range(<<>>) = {}
    BY DEF IsInjective, Range
  <2>3. /\ activelist = <<>> /\ freelist = <<>> /\ allocated = 0
    BY DEF Init
  <2>4. 1 .. 0 = {} /\ {node[j] : j \in {}} = {} /\ Len(<<>>) = 0
    OBVIOUS
  <2> QED BY <1>1, <2>1, <2>2, <2>3, <2>4 DEF Nodes
<1>5. EarliestFirst /\ RunnerAt /\ PromptRunner
  BY DEF Init, EarliestFirst, RunnerAt, PromptRunner, Looking
<1>6. PassedIsMissed /\ NoTaskOverstays /\ AlarmIsReal
  BY <1>1, Zenon DEF Init, PassedIsMissed, NoTaskOverstays, AlarmIsReal
<1> QED BY <1>2, <1>3, <1>4, <1>5, <1>6 DEF IInv

LEMMA NextKeepsIInv == IInv /\ [Next]_vars => IInv'
<1> SUFFICES ASSUME IInv, [Next]_vars PROVE IInv'
  OBVIOUS
<1>1. ASSUME NEW j \in Jobs,
             \/ ReadClock(j) \/ watchdog_submit_deadline(j) \/ SubmitFails(j)
             \/ watchdog_clear_deadline(j) \/ EndUnwatched(j)
      PROVE  IInv'
  BY <1>1, JobOnly, SubmitKeepsIInv, ClearKeepsIInv
<1>2. CASE Runner
  BY <1>2, WaitForJobKeepsIInv, PeekKeepsIInv, TimeoutKeepsIInv, NoTimeoutKeepsIInv,
     FallAsleepKeepsIInv, SleepEndsKeepsIInv DEF Runner
<1>3. CASE WakeUp
  BY <1>3, WakeUpKeepsIInv
<1>4. CASE Tick
  BY <1>4, TickKeepsIInv
<1>5. CASE UNCHANGED vars
  <2>1. UNCHANGED <<prompt, jobs, lists, missed>> /\ UNCHANGED <<runner, peeked, terminated>>
    BY <1>5 DEF vars
  <2>2. /\ Stamps' /\ OwnNodes' /\ Nodes' /\ EarliestFirst' /\ PassedIsMissed'
        /\ Deadlines' = Deadlines
    BY <2>1, RunnerOnly
  <2>3. TypeOK'
    BY <2>1, RunnerOnly DEF IInv, TypeOK, Late
  <2>4. RunnerAt' /\ PromptRunner'
    BY <2>1, <2>2, Zenon DEF IInv, RunnerAt, PromptRunner, lists
  <2>5. NoTaskOverstays' /\ AlarmIsReal'
    BY <2>1, <2>2, Zenon DEF IInv, NoTaskOverstays, AlarmIsReal
  <2> QED BY <2>2, <2>3, <2>4, <2>5 DEF IInv
<1> QED BY <1>1, <1>2, <1>3, <1>4, <1>5 DEF Next

THEOREM Invariance == Spec => []IInv
<1>1. Init => IInv
  BY InitIInv
<1>2. IInv /\ [Next]_vars => IInv'
  BY NextKeepsIInv
<1> QED BY <1>1, <1>2, PTL DEF Spec

(* The variables keep to their values.                                     *)
THEOREM TypeCorrect == Spec => []TypeOK
<1>1. IInv => TypeOK
  BY DEF IInv
<1> QED BY <1>1, Invariance, PTL

(***************************************************************************)
(* However many jobs submit and clear, in whatever order they reach the    *)
(* lock, dlist_push_ordered keeps the earliest deadline at the front.      *)
(***************************************************************************)
THEOREM OrderedDeadlines == Spec => []EarliestFirst
<1>1. IInv => EarliestFirst
  BY DEF IInv
<1> QED BY <1>1, Invariance, PTL

(***************************************************************************)
(* No node of the watchdog is leaked, held twice or on both lists, and     *)
(* there are never more of them than jobs.                                 *)
(***************************************************************************)
THEOREM NodesAccounted == Spec => []NodesHeldOnce
<1>1. ASSUME IInv PROVE NodesHeldOnce
  <2>1. /\ IsInjective(ActiveNodes) /\ IsInjective(freelist)
        /\ Range(ActiveNodes) \cap Range(freelist) = {}
        /\ Range(ActiveNodes) \cup Range(freelist) = 1 .. allocated
    BY <1>1 DEF IInv, Nodes
  <2>2. freelist \in Seq(1 .. allocated) /\ ActiveNodes \in Seq(1 .. allocated)
    <3>1. /\ Len(activelist) \in Nat /\ DOMAIN activelist = 1 .. Len(activelist)
          /\ \A i \in DOMAIN activelist : activelist[i].node \in 1 .. allocated
          /\ freelist \in Seq(1 .. allocated)
      BY <1>1, Lists DEF IInv
    <3>2. PICK size \in Nat : DOMAIN activelist = 1 .. size
      BY <3>1
    <3>3. ActiveNodes \in [1 .. size -> 1 .. allocated]
      BY <3>1, <3>2 DEF ActiveNodes
    <3>4. ActiveNodes \in Seq(1 .. allocated)
      BY <3>3, SeqDef, Zenon
    <3> QED BY <3>1, <3>4
  <2>3. /\ IsInjective(ActiveNodes \o freelist)
        /\ Range(ActiveNodes \o freelist) = Range(ActiveNodes) \cup Range(freelist)
    BY <2>1, <2>2, TwoLists
  <2> QED BY <1>1, <2>1, <2>3 DEF IInv, Nodes, NodesHeldOnce, Watched
<1>2. IInv => NodesHeldOnce
  BY <1>1
<1> QED BY <1>2, Invariance, PTL

(***************************************************************************)
(* When threads take no time, SIGTERM has been sent by the second in which *)
(* the deadline of a watched job passes.                                   *)
(***************************************************************************)
THEOREM NoOneOverstays == Spec => []NoTaskOverstays
<1>1. IInv => NoTaskOverstays
  BY DEF IInv
<1> QED BY <1>1, Invariance, PTL

(***************************************************************************)
(* When threads take no time, SIGTERM is sent for a job only that was on   *)
(* the list when its deadline passed.                                      *)
(***************************************************************************)
THEOREM NoFalseAlarm == Spec => []AlarmIsReal
<1>1. IInv => AlarmIsReal
  BY DEF IInv
<1> QED BY <1>1, Invariance, PTL
=============================================================================
