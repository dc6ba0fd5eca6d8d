-------------------------- MODULE ContainerProofs ---------------------------
(***************************************************************************)
(* Proofs about the two containers: Queue, for every length and every kind *)
(* of element, and DList, for every set of nodes with any keys.            *)
(***************************************************************************)
EXTENDS Queue, DList, TLAPS, FiniteSetTheorems, SequenceTheorems

(* The remainder of a sum of a slot and a count, without division.         *)
LEMMA Wrap ==
  ASSUME NEW n \in 0..2 * MaxLen - 1
  PROVE  n % MaxLen = IF n < MaxLen THEN n ELSE n - MaxLen
  BY MaxLenAssumption, SMT

(* The slot after a slot is a slot, and the first one after the last.      *)
LEMMA Advance ==
  ASSUME NEW slot \in Slots
  PROVE  /\ NextSlot(slot) \in Slots
         /\ NextSlot(slot) = IF slot = MaxLen - 1 THEN 0 ELSE slot + 1
  <1>1. slot + 1 \in 0..2 * MaxLen - 1
    BY MaxLenAssumption DEF Slots
  <1> QED  BY <1>1, Wrap, MaxLenAssumption DEF Slots, NextSlot

(* The inductive invariant: without TailIsPastCount a push need not land   *)
(* behind the newest element.                                              *)
Inv == TypeOK /\ TailIsPastCount

LEMMA InitInv == Init => Inv
  <1> SUFFICES ASSUME Init PROVE Inv
    OBVIOUS
  <1>1. 0 % MaxLen = 0
    BY Wrap, MaxLenAssumption
  <1> QED
    BY <1>1, MaxLenAssumption
    DEF Init, Inv, TypeOK, TailIsPastCount, Slots

(* Where the tail is, without the remainder.                               *)
LEMMA TailSlot ==
  ASSUME Inv
  PROVE  tail = IF head + count < MaxLen THEN head + count
                ELSE head + count - MaxLen
  <1>1. head \in 0..MaxLen - 1 /\ count \in 0..MaxLen
    BY DEF Inv, TypeOK, Slots
  <1>2. head + count \in 0..2 * MaxLen - 1
    BY <1>1, MaxLenAssumption
  <1>3. (head + count) % MaxLen = IF head + count < MaxLen THEN head + count
                                  ELSE head + count - MaxLen
    BY <1>1, <1>2, Wrap, MaxLenAssumption
  <1> QED  BY <1>3 DEF Inv, TailIsPastCount

(* A push fills the slot at the tail and moves nothing else.               *)
LEMMA PushInv ==
  ASSUME Inv, NEW e \in Elem, queue_push_back(e)
  PROVE  Inv'
  <1>1. /\ count \in 0..MaxLen - 1 /\ head \in Slots /\ tail \in Slots
        /\ count' = count + 1 /\ head' = head /\ tail' = NextSlot(tail)
    BY MaxLenAssumption DEF Inv, TypeOK, queue_push_back, queue_is_full
  <1>2. TypeOK'
    BY <1>1, Advance, MaxLenAssumption DEF Inv, TypeOK, queue_push_back
  <1>3. TailIsPastCount'
    <2>1. head + count + 1 \in 0..2 * MaxLen - 1
      BY <1>1, MaxLenAssumption DEF Slots
    <2>2. (head + count + 1) % MaxLen =
            IF head + count + 1 < MaxLen THEN head + count + 1
            ELSE head + count + 1 - MaxLen
      BY <1>1, <2>1, Wrap, MaxLenAssumption DEF Slots
    <2>3. (head + count + 1) % MaxLen = tail'
      BY <1>1, <2>2, Advance, TailSlot, MaxLenAssumption DEF Slots
    <2> QED  BY <1>1, <2>3, MaxLenAssumption DEF TailIsPastCount, Slots
  <1> QED  BY <1>2, <1>3 DEF Inv

(* A pop moves the head, away from the tail.                               *)
LEMMA PopInv ==
  ASSUME Inv, queue_pop_front
  PROVE  Inv'
  <1>1. /\ count \in 1..MaxLen /\ head \in Slots /\ tail \in Slots
        /\ count' = count - 1 /\ head' = NextSlot(head) /\ tail' = tail
    BY MaxLenAssumption DEF Inv, TypeOK, queue_pop_front, queue_is_empty
  <1>2. TypeOK'
    BY <1>1, Advance, MaxLenAssumption DEF Inv, TypeOK, queue_pop_front
  <1>3. TailIsPastCount'
    <2>1. head' + count' \in 0..2 * MaxLen - 1
      BY <1>1, Advance, MaxLenAssumption DEF Slots
    <2>2. (head' + count') % MaxLen =
            IF head' + count' < MaxLen THEN head' + count'
            ELSE head' + count' - MaxLen
      BY <1>1, <2>1, Wrap, Advance, MaxLenAssumption DEF Slots
    <2>3. (head' + count') % MaxLen = tail'
      BY <1>1, <2>2, Advance, TailSlot, MaxLenAssumption DEF Slots
    <2> QED  BY <2>3, <1>1 DEF TailIsPastCount
  <1> QED  BY <1>2, <1>3 DEF Inv

LEMMA StepInv == Inv /\ [Next]_vars => Inv'
  <1> SUFFICES ASSUME Inv, [Next]_vars PROVE Inv'
    OBVIOUS
  <1>1. CASE queue_pop_front
    BY <1>1, PopInv
  <1>2. ASSUME NEW e \in Elem, queue_push_back(e) PROVE Inv'
    BY <1>2, PushInv
  <1>3. CASE UNCHANGED vars
    BY <1>3 DEF vars, Inv, TypeOK, TailIsPastCount
  <1> QED  BY <1>1, <1>2, <1>3 DEF Next

(* The indices of the ring stay inside its memory.                         *)
THEOREM TypeCorrect == Spec => []TypeOK
  <1>1. Inv => TypeOK
    BY DEF Inv
  <1> QED  BY InitInv, StepInv, <1>1, PTL DEF Spec

(* The tail stays as far behind the head as the count says.                *)
THEOREM TailFollows == Spec => []TailIsPastCount
  <1>1. Inv => TailIsPastCount
    BY DEF Inv
  <1> QED  BY InitInv, StepInv, <1>1, PTL DEF Spec

-----------------------------------------------------------------------------

(* The i-th oldest element is in the i-th slot from the head, whether the  *)
(* ring wraps before it or not.                                            *)
LEMMA SlotOf ==
  ASSUME NEW h \in 0..MaxLen - 1, NEW i \in 1..MaxLen
  PROVE  /\ (h + i - 1) % MaxLen \in Slots
         /\ (h + i - 1) % MaxLen = IF h + i - 1 < MaxLen THEN h + i - 1
                                   ELSE h + i - 1 - MaxLen
  <1>1. h + i - 1 \in 0..2 * MaxLen - 1
    BY MaxLenAssumption
  <1>2. (h + i - 1) % MaxLen = IF h + i - 1 < MaxLen THEN h + i - 1
                               ELSE h + i - 1 - MaxLen
    BY <1>1, Wrap, MaxLenAssumption
  <1> QED  BY <1>1, <1>2, MaxLenAssumption DEF Slots

LEMMA RingType ==
  ASSUME NEW b \in [Slots -> Elem], NEW h \in 0..MaxLen - 1, NEW c \in 0..MaxLen
  PROVE  [i \in 1..c |-> b[(h + i - 1) % MaxLen]] \in [1..c -> Elem]
  <1>1. ASSUME NEW i \in 1..c
        PROVE  b[(h + i - 1) % MaxLen] \in Elem
    <2>1. i \in 1..MaxLen
      BY MaxLenAssumption
    <2> QED  BY <2>1, SlotOf
  <1> QED  BY <1>1

(* A push is a Put: the slot it overwrites is not among those in use.      *)
LEMMA PushPuts ==
  ASSUME Inv, NEW e \in Elem, queue_push_back(e)
  PROVE  F!Put(e)
  <1>1. /\ count \in 0..MaxLen - 1 /\ head \in 0..MaxLen - 1
        /\ tail \in 0..MaxLen - 1 /\ buffer \in [Slots -> Elem]
        /\ count' = count + 1 /\ head' = head
        /\ buffer' = [buffer EXCEPT ![tail] = e] /\ popped' = popped
    BY MaxLenAssumption
    DEF Inv, TypeOK, queue_push_back, queue_is_full, Slots
  <1>2. contents \in [1..count -> Elem]
    BY RingType DEF Inv, TypeOK, Slots, contents
  <1>3. Inv'
    BY PushInv
  <1>4. contents' \in [1..count + 1 -> Elem]
    BY <1>1, <1>3, RingType DEF Inv, TypeOK, Slots, contents
  <1>5. ASSUME NEW i \in 1..count PROVE contents'[i] = contents[i]
    <2>1. i \in 1..MaxLen
      BY <1>1, MaxLenAssumption
    <2>2. (head + i - 1) % MaxLen \in Slots /\ (head + i - 1) % MaxLen # tail
      BY <1>1, <2>1, SlotOf, TailSlot, MaxLenAssumption
    <2> QED  BY <1>1, <2>2 DEF contents
  <1>6. contents'[count + 1] = e
    <2>1. (head + count + 1 - 1) % MaxLen = tail
      BY <1>1, MaxLenAssumption DEF Inv, TailIsPastCount
    <2> QED  BY <1>1, <2>1 DEF contents, Slots
  <1>7. contents' = Append(contents, e)
    BY <1>1, <1>2, <1>4, <1>5, <1>6
  <1> QED  BY <1>1, <1>2, <1>7, MaxLenAssumption DEF F!Put

(* A pop is a Get: what was second is first.                               *)
LEMMA PopGets ==
  ASSUME Inv, queue_pop_front
  PROVE  F!Get
  <1>1. /\ count \in 1..MaxLen /\ head \in 0..MaxLen - 1
        /\ count' = count - 1 /\ head' = NextSlot(head)
        /\ buffer' = buffer /\ popped' = buffer[head]
    BY MaxLenAssumption
    DEF Inv, TypeOK, queue_pop_front, queue_is_empty, Slots
  <1>2. contents \in [1..count -> Elem]
    BY RingType DEF Inv, TypeOK, Slots, contents
  <1>3. Inv'
    BY PopInv
  <1>4. contents' \in [1..count - 1 -> Elem]
    BY <1>1, <1>3, RingType DEF Inv, TypeOK, Slots, contents
  <1>5. popped' = Head(contents) /\ contents # <<>>
    <2>1. 1 \in 1..MaxLen
      BY MaxLenAssumption
    <2>2. (head + 1 - 1) % MaxLen = head
      BY <1>1, <2>1, SlotOf, MaxLenAssumption
    <2> QED  BY <1>1, <1>2, <2>2 DEF contents
  <1>6. ASSUME NEW i \in 1..count - 1 PROVE contents'[i] = contents[i + 1]
    <2>1. /\ i \in 1..count' /\ i + 1 \in 1..count
          /\ i \in 1..MaxLen /\ i + 1 \in 1..MaxLen
      BY <1>1, MaxLenAssumption
    <2>2. (head' + i - 1) % MaxLen = IF head' + i - 1 < MaxLen
                                     THEN head' + i - 1
                                     ELSE head' + i - 1 - MaxLen
      <3>1. head' \in 0..MaxLen - 1
        BY <1>3 DEF Inv, TypeOK, Slots
      <3> QED  BY <2>1, <3>1, SlotOf
    <2>3. (head + (i + 1) - 1) % MaxLen = IF head + (i + 1) - 1 < MaxLen
                                          THEN head + (i + 1) - 1
                                          ELSE head + (i + 1) - 1 - MaxLen
      BY <1>1, <2>1, SlotOf
    <2>4. (head' + i - 1) % MaxLen = (head + (i + 1) - 1) % MaxLen
      BY <1>1, <2>2, <2>3, Advance, MaxLenAssumption DEF Slots
    <2> QED  BY <1>1, <2>1, <2>4 DEF contents
  <1>7. contents' = Tail(contents)
    BY <1>1, <1>2, <1>4, <1>6
  <1> QED  BY <1>1, <1>5, <1>7 DEF F!Get

(* The ring implements the bounded first-in-first-out queue.               *)
THEOREM ImplementsFifo == Spec => FifoSpec
  <1>1. Init => F!Init
    BY DEF Init, F!Init, contents
  <1>2. Inv /\ [Next]_vars => [F!Next]_<<contents, popped>>
    <2> SUFFICES ASSUME Inv, [Next]_vars PROVE [F!Next]_<<contents, popped>>
      OBVIOUS
    <2>1. CASE queue_pop_front
      BY <2>1, PopGets DEF F!Next
    <2>2. ASSUME NEW e \in Elem, queue_push_back(e) PROVE F!Next
      BY <2>2, PushPuts DEF F!Next
    <2>3. CASE UNCHANGED vars
      BY <2>3 DEF vars, contents
    <2> QED  BY <2>1, <2>2, <2>3 DEF Next
  <1> QED  BY <1>1, <1>2, InitInv, StepInv, PTL DEF Spec, FifoSpec, F!Spec

-----------------------------------------------------------------------------
(* DList.  First what its sequences have where.                             *)

(* A set of numbers that is not empty has a least one.                      *)
LEMMA Least ==
  ASSUME NEW T \in SUBSET Nat, T # {}
  PROVE  \E m \in T : \A k \in T : m <= k
<1>1. PICK m \in T : \A k \in T : ~(<<k, m>> \in OpToRel(<, Nat))
  BY NatLessThanWellFounded, WFMin
<1>2. \A k \in T : ~(k < m)
  BY <1>1 DEF OpToRel
<1> QED BY <1>2

(* An element put in behind the first k.                                    *)
LEMMA Inserted ==
  ASSUME NEW s \in Seq(Nodes), NEW k \in 0 .. Len(s), NEW e \in Nodes
  PROVE  /\ InsertAt(s, k + 1, e) \in Seq(Nodes)
         /\ Len(InsertAt(s, k + 1, e)) = Len(s) + 1
         /\ \A j \in 1 .. k : InsertAt(s, k + 1, e)[j] = s[j]
         /\ InsertAt(s, k + 1, e)[k + 1] = e
         /\ \A j \in k + 2 .. Len(s) + 1 : InsertAt(s, k + 1, e)[j] = s[j - 1]
<1> DEFINE front == SubSeq(s, 1, k)
           back == SubSeq(s, k + 1, Len(s))
<1>1. Len(s) \in Nat /\ \A i \in 1 .. Len(s) : s[i] \in Nodes
  BY LenProperties, ElementOfSeq
<1>2. front \in Seq(Nodes) /\ Len(front) = k /\ \A i \in 1 .. k : front[i] = s[i]
  <2>1. \A i \in 1 .. k : s[i] \in Nodes
    BY <1>1
  <2> QED BY <1>1, <2>1, SubSeqProperties
<1>3. /\ back \in Seq(Nodes) /\ Len(back) = Len(s) - k
      /\ \A i \in 1 .. Len(s) - k : back[i] = s[k + i]
  <2>1. \A i \in k + 1 .. Len(s) : s[i] \in Nodes
    BY <1>1
  <2>2. /\ back \in Seq(Nodes)
        /\ Len(back) = IF k + 1 <= Len(s) THEN Len(s) - (k + 1) + 1 ELSE 0
        /\ \A i \in 1 .. Len(s) - (k + 1) + 1 : back[i] = s[k + 1 + i - 1]
    BY <1>1, <2>1, SubSeqProperties
  <2>3. \A i \in 1 .. Len(s) - k : k + 1 + i - 1 = k + i
    BY <1>1
  <2> QED BY <1>1, <2>2, <2>3
<1>4. InsertAt(s, k + 1, e) = front \o <<e>> \o back
  <2>1. (k + 1) - 1 = k
    OBVIOUS
  <2> QED BY <2>1, Zenon DEF InsertAt
<1> HIDE DEF front, back
<1>5. /\ front \o <<e>> \in Seq(Nodes) /\ Len(front \o <<e>>) = k + 1
      /\ \A j \in 1 .. k + 1 : (front \o <<e>>)[j] = IF j <= k THEN s[j] ELSE e
  <2>1. <<e>> \in Seq(Nodes) /\ Len(<<e>>) = 1 /\ <<e>>[1] = e
    OBVIOUS
  <2>2. /\ front \o <<e>> \in Seq(Nodes) /\ Len(front \o <<e>>) = k + 1
        /\ \A j \in 1 .. k + 1 : (front \o <<e>>)[j] =
             IF j <= k THEN front[j] ELSE <<e>>[j - k]
    BY <1>2, <2>1, ConcatProperties
  <2> QED BY <1>2, <2>1, <2>2
<1>6. /\ InsertAt(s, k + 1, e) \in Seq(Nodes)
      /\ Len(InsertAt(s, k + 1, e)) = Len(s) + 1
      /\ \A j \in 1 .. Len(s) + 1 : InsertAt(s, k + 1, e)[j] =
           IF j <= k + 1 THEN (front \o <<e>>)[j] ELSE back[j - (k + 1)]
  <2>1. k + 1 + (Len(s) - k) = Len(s) + 1
    BY <1>1
  <2>2. /\ front \o <<e>> \o back \in Seq(Nodes)
        /\ Len(front \o <<e>> \o back) = Len(front \o <<e>>) + Len(back)
        /\ \A j \in 1 .. Len(front \o <<e>>) + Len(back) :
             ((front \o <<e>>) \o back)[j] =
               IF j <= Len(front \o <<e>>) THEN (front \o <<e>>)[j]
               ELSE back[j - Len(front \o <<e>>)]
    BY <1>3, <1>5, ConcatProperties, Zenon
  <2>3. Len(front \o <<e>>) = k + 1 /\ Len(back) = Len(s) - k
    BY <1>3, <1>5
  <2> QED BY <1>4, <2>1, <2>2, <2>3, Zenon
<1>7. ASSUME NEW j \in 1 .. k + 1
      PROVE  InsertAt(s, k + 1, e)[j] = IF j <= k THEN s[j] ELSE e
  <2>1. j \in 1 .. Len(s) + 1 /\ j <= k + 1
    BY <1>1
  <2> QED BY <1>5, <1>6, <2>1, Zenon
<1>8. ASSUME NEW j \in k + 2 .. Len(s) + 1
      PROVE  InsertAt(s, k + 1, e)[j] = s[j - 1]
  <2>1. /\ j \in 1 .. Len(s) + 1 /\ ~(j <= k + 1)
        /\ j - (k + 1) \in 1 .. Len(s) - k /\ k + (j - (k + 1)) = j - 1
    BY <1>1
  <2>2. InsertAt(s, k + 1, e)[j] = back[j - (k + 1)]
    BY <1>6, <2>1, Zenon
  <2> QED BY <1>3, <2>1, <2>2
<1> QED BY <1>1, <1>6, <1>7, <1>8

(* Behind all of them.                                                      *)
LEMMA InsertedAtEnd ==
  ASSUME NEW s \in Seq(Nodes), NEW e \in Nodes
  PROVE  InsertAt(s, Len(s) + 1, e) = Append(s, e)
<1>1. Len(s) \in Nat
  BY LenProperties
<1>2. ASSUME NEW k \in 0 .. Len(s)
      PROVE  /\ InsertAt(s, k + 1, e) \in Seq(Nodes)
             /\ Len(InsertAt(s, k + 1, e)) = Len(s) + 1
             /\ \A j \in 1 .. k : InsertAt(s, k + 1, e)[j] = s[j]
             /\ InsertAt(s, k + 1, e)[k + 1] = e
  BY Inserted
<1> DEFINE t == InsertAt(s, Len(s) + 1, e)
<1>3. /\ t \in Seq(Nodes) /\ Len(t) = Len(s) + 1
      /\ \A j \in 1 .. Len(s) : t[j] = s[j]
      /\ t[Len(s) + 1] = e
  <2>1. Len(s) \in 0 .. Len(s)
    BY <1>1
  <2> QED BY <1>2, <2>1, Zenon
<1> HIDE DEF t
<1>4. t = Append(s, e)
  BY <1>1, <1>3
<1> QED BY <1>4 DEF t

(* The k-th element taken out.                                              *)
LEMMA Removed ==
  ASSUME NEW s \in Seq(Nodes), NEW k \in 1 .. Len(s)
  PROVE  /\ RemoveAt(s, k) \in Seq(Nodes)
         /\ Len(RemoveAt(s, k)) = Len(s) - 1
         /\ \A j \in 1 .. Len(s) - 1 :
              RemoveAt(s, k)[j] = IF j < k THEN s[j] ELSE s[j + 1]
<1> DEFINE front == SubSeq(s, 1, k - 1)
           back == SubSeq(s, k + 1, Len(s))
<1>1. Len(s) \in Nat /\ \A i \in 1 .. Len(s) : s[i] \in Nodes
  BY LenProperties, ElementOfSeq
<1>2. /\ front \in Seq(Nodes) /\ Len(front) = k - 1
      /\ \A i \in 1 .. k - 1 : front[i] = s[i]
  <2>1. \A i \in 1 .. k - 1 : s[i] \in Nodes
    BY <1>1
  <2>2. /\ front \in Seq(Nodes)
        /\ Len(front) = IF 1 <= k - 1 THEN k - 1 - 1 + 1 ELSE 0
        /\ \A i \in 1 .. k - 1 - 1 + 1 : front[i] = s[1 + i - 1]
    BY <1>1, <2>1, SubSeqProperties
  <2> QED BY <1>1, <2>2
<1>3. /\ back \in Seq(Nodes) /\ Len(back) = Len(s) - k
      /\ \A i \in 1 .. Len(s) - k : back[i] = s[k + i]
  <2>1. \A i \in k + 1 .. Len(s) : s[i] \in Nodes
    BY <1>1
  <2>2. /\ back \in Seq(Nodes)
        /\ Len(back) = IF k + 1 <= Len(s) THEN Len(s) - (k + 1) + 1 ELSE 0
        /\ \A i \in 1 .. Len(s) - (k + 1) + 1 : back[i] = s[k + 1 + i - 1]
    BY <1>1, <2>1, SubSeqProperties
  <2>3. \A i \in 1 .. Len(s) - k : k + 1 + i - 1 = k + i
    BY <1>1
  <2> QED BY <1>1, <2>2, <2>3
<1>4. RemoveAt(s, k) = front \o back
  BY DEF RemoveAt
<1> HIDE DEF front, back
<1>5. /\ RemoveAt(s, k) \in Seq(Nodes)
      /\ Len(RemoveAt(s, k)) = k - 1 + (Len(s) - k)
      /\ \A j \in 1 .. k - 1 + (Len(s) - k) : RemoveAt(s, k)[j] =
           IF j <= k - 1 THEN front[j] ELSE back[j - (k - 1)]
  <2>1. /\ front \o back \in Seq(Nodes)
        /\ Len(front \o back) = Len(front) + Len(back)
        /\ \A j \in 1 .. Len(front) + Len(back) :
             (front \o back)[j] = IF j <= Len(front) THEN front[j]
                                   ELSE back[j - Len(front)]
    BY <1>2, <1>3, ConcatProperties, Zenon
  <2>2. Len(front) = k - 1 /\ Len(back) = Len(s) - k
    BY <1>2, <1>3
  <2> QED BY <1>4, <2>1, <2>2, Zenon
<1>6. k - 1 + (Len(s) - k) = Len(s) - 1
  BY <1>1
<1>7. ASSUME NEW j \in 1 .. Len(s) - 1
      PROVE  RemoveAt(s, k)[j] = IF j < k THEN s[j] ELSE s[j + 1]
  <2>1. CASE j <= k - 1
    <3>1. RemoveAt(s, k)[j] = front[j]
      BY <1>5, <1>6, <2>1, Zenon
    <3> QED BY <1>2, <2>1, <3>1
  <2>2. CASE ~(j <= k - 1)
    <3>1. RemoveAt(s, k)[j] = back[j - (k - 1)]
      BY <1>5, <1>6, <2>2, Zenon
    <3>2. j - (k - 1) \in 1 .. Len(s) - k /\ k + (j - (k - 1)) = j + 1
      BY <1>1, <2>2
    <3>3. back[j - (k - 1)] = s[j + 1]
      BY <1>3, <3>2
    <3> QED BY <2>2, <3>1, <3>3
  <2> QED BY <2>1, <2>2
<1> QED BY <1>5, <1>6, <1>7

(* The first one.                                                           *)
LEMMA RemovedFirst ==
  ASSUME NEW s \in Seq(Nodes), s # <<>>
  PROVE  RemoveAt(s, 1) = Tail(s) /\ Head(s) = s[1]
<1>1. Len(s) \in Nat \ {0}
  BY EmptySeq
<1>2. ASSUME NEW k \in 1 .. Len(s)
      PROVE  /\ RemoveAt(s, k) \in Seq(Nodes) /\ Len(RemoveAt(s, k)) = Len(s) - 1
             /\ \A j \in 1 .. Len(s) - 1 :
                  RemoveAt(s, k)[j] = IF j < k THEN s[j] ELSE s[j + 1]
  BY Removed
<1> DEFINE t == RemoveAt(s, 1)
<1>3. /\ t \in Seq(Nodes) /\ Len(t) = Len(s) - 1
      /\ \A j \in 1 .. Len(s) - 1 : t[j] = IF j < 1 THEN s[j] ELSE s[j + 1]
  <2>1. 1 \in 1 .. Len(s)
    BY <1>1
  <2> QED BY <1>2, <2>1, Zenon
<1> HIDE DEF t
<1>4. \A j \in 1 .. Len(s) - 1 : t[j] = s[j + 1]
  BY <1>1, <1>3
<1>5. /\ Tail(s) \in Seq(Nodes) /\ Len(Tail(s)) = Len(s) - 1
      /\ \A j \in 1 .. Len(s) - 1 : Tail(s)[j] = s[j + 1]
  BY HeadTailProperties
<1>6. t = Tail(s)
  BY <1>3, <1>4, <1>5, SeqEqual
<1>7. Head(s) = s[1]
  OBVIOUS
<1> QED BY <1>6, <1>7 DEF t

(* A sequence without repetition is no longer than its set is large.        *)
LEMMA NoLonger ==
  ASSUME NEW s \in Seq(Nodes), IsInjective(s)
  PROVE  s \in SeqOf(Nodes, Cardinality(Nodes))
<1>1. Len(s) \in Nat /\ s \in [1 .. Len(s) -> Nodes]
  BY LenProperties
<1>2. s \in Injection(1 .. Len(s), Nodes)
  BY <1>1 DEF Injection
<1>3. Cardinality(1 .. Len(s)) <= Cardinality(Nodes)
  BY <1>2, FS_Injection, DListAssumption
<1>4. Cardinality(1 .. Len(s)) = Len(s)
  BY <1>1, FS_Interval
<1>5. Cardinality(Nodes) \in Nat
  BY FS_CardinalityType, DListAssumption
<1>6. Len(s) \in 0 .. Cardinality(Nodes)
  BY <1>1, <1>3, <1>4, <1>5
<1> QED BY <1>1, <1>6 DEF SeqOf

LEMMA SeqOfIsSeq ==
  ASSUME NEW s \in SeqOf(Nodes, Cardinality(Nodes))
  PROVE  s \in Seq(Nodes)
<1>1. Cardinality(Nodes) \in Nat
  BY FS_CardinalityType, DListAssumption
<1>2. PICK m \in 0 .. Cardinality(Nodes) : s \in [1 .. m -> Nodes]
  BY DEF SeqOf
<1> QED BY <1>1, <1>2

-----------------------------------------------------------------------------
(* Chains of pointers.                                                      *)

(* A chain that ends is the only one from its first node on.                *)
LEMMA OneChain ==
  ASSUME NEW first, NEW follow, NEW s \in Seq(Nodes), NEW t \in Seq(Nodes),
         Follows(s, first, follow), Follows(t, first, follow)
  PROVE  s = t
<1> DEFINE T == {i \in Nat \ {0} : At(s, i) # At(t, i)}
<1>1. /\ Len(s) \in Nat /\ DOMAIN s = 1 .. Len(s)
      /\ \A i \in 1 .. Len(s) : s[i] \in Nodes
      /\ Len(t) \in Nat /\ DOMAIN t = 1 .. Len(t)
      /\ \A i \in 1 .. Len(t) : t[i] \in Nodes
  BY LenProperties, ElementOfSeq
<1>2. T = {}
  <2> SUFFICES ASSUME T # {} PROVE FALSE
    OBVIOUS
  <2>1. PICK m \in T : \A k \in T : m <= k
    <3>1. T \in SUBSET Nat
      OBVIOUS
    <3> HIDE DEF T
    <3> QED BY <3>1, Least
  <2>2. m \in Nat \ {0} /\ At(s, m) # At(t, m)
    OBVIOUS
  <2>3. m # 1
    BY <2>2 DEF Follows
  <2>4. m - 1 \in Nat \ {0} /\ m - 1 + 1 = m
    BY <2>2, <2>3
  <2>5. At(s, m - 1) = At(t, m - 1)
    <3>1. ~(m <= m - 1)
      BY <2>2
    <3>2. m - 1 \notin T
      BY <2>1, <3>1
    <3> QED BY <2>4, <3>2
  <2> HIDE DEF T
  <2>6. CASE m - 1 \in DOMAIN s
    <3>1. At(s, m - 1) \in Nodes
      BY <1>1, <2>6 DEF At
    <3>2. m - 1 \in DOMAIN t
      BY <2>5, <3>1, DListAssumption DEF At
    <3>3. s[m - 1] = t[m - 1]
      BY <2>5, <2>6, <3>2 DEF At
    <3>4. At(s, m - 1 + 1) = At(t, m - 1 + 1)
      BY <2>6, <3>2, <3>3 DEF Follows
    <3> QED BY <2>2, <2>4, <3>4
  <2>7. CASE m - 1 \notin DOMAIN s
    <3>1. m - 1 \notin DOMAIN t
      <4>1. At(t, m - 1) = NULL
        BY <2>5, <2>7 DEF At
      <4> QED BY <1>1, <4>1, DListAssumption DEF At
    <3>2. m \notin DOMAIN s /\ m \notin DOMAIN t
      BY <1>1, <2>4, <2>7, <3>1
    <3> QED BY <2>2, <3>2 DEF At
  <2> QED BY <2>6, <2>7
<1>3. \A i \in Nat \ {0} : At(s, i) = At(t, i)
  BY <1>2
<1> HIDE DEF T
<1>4. \A i \in Nat \ {0} : i \in 1 .. Len(s) <=> i \in 1 .. Len(t)
  BY <1>1, <1>3, DListAssumption DEF At
<1>5. Len(s) = Len(t)
  <2>1. CASE Len(s) < Len(t)
    <3>1. /\ Len(s) + 1 \in Nat \ {0}
          /\ Len(s) + 1 \in 1 .. Len(t)
          /\ Len(s) + 1 \notin 1 .. Len(s)
      BY <1>1, <2>1
    <3> QED BY <1>4, <3>1
  <2>2. CASE Len(t) < Len(s)
    <3>1. /\ Len(t) + 1 \in Nat \ {0}
          /\ Len(t) + 1 \in 1 .. Len(s)
          /\ Len(t) + 1 \notin 1 .. Len(t)
      BY <1>1, <2>2
    <3> QED BY <1>4, <3>1
  <2>3. Len(s) \in Nat /\ Len(t) \in Nat
    BY <1>1
  <2> QED BY <2>1, <2>2, <2>3
<1>6. \A i \in 1 .. Len(s) : s[i] = t[i]
  <2> SUFFICES ASSUME NEW i \in 1 .. Len(s) PROVE s[i] = t[i]
    OBVIOUS
  <2>1. i \in Nat \ {0} /\ i \in DOMAIN s /\ i \in DOMAIN t
    BY <1>1, <1>5
  <2> QED BY <1>3, <2>1 DEF At
<1> QED BY <1>5, <1>6, SeqEqual

(* So it is what a loop over it visits.                                     *)
LEMMA ChainIs ==
  ASSUME NEW first, NEW follow, NEW s \in Seq(Nodes), IsInjective(s),
         Follows(s, first, follow)
  PROVE  Chain(first, follow) = s
<1>1. s \in SeqOf(Nodes, Cardinality(Nodes))
  BY NoLonger
<1>2. \A c \in SeqOf(Nodes, Cardinality(Nodes)) : Follows(c, first, follow) => c = s
  BY SeqOfIsSeq, OneChain
<1> QED BY <1>1, <1>2, Zenon DEF Chain

(* A sequence from its end.                                                 *)
LEMMA Reversed ==
  ASSUME NEW s \in Seq(Nodes)
  PROVE  /\ Reverse(s) \in Seq(Nodes) /\ Len(Reverse(s)) = Len(s)
         /\ \A i \in 1 .. Len(s) : Reverse(s)[i] = s[Len(s) + 1 - i]
         /\ IsInjective(s) => IsInjective(Reverse(s))
<1>1. /\ Len(s) \in Nat /\ DOMAIN s = 1 .. Len(s)
      /\ \A i \in 1 .. Len(s) : s[i] \in Nodes
  BY LenProperties, ElementOfSeq
<1>2. \A i \in 1 .. Len(s) : /\ Len(s) - i + 1 \in 1 .. Len(s)
                             /\ Len(s) - i + 1 = Len(s) + 1 - i
  BY <1>1
<1>3. Reverse(s) \in [1 .. Len(s) -> Nodes]
  BY <1>1, <1>2 DEF Reverse
<1>4. Reverse(s) \in Seq(Nodes) /\ Len(Reverse(s)) = Len(s)
  BY <1>1, <1>3
<1>5. \A i \in 1 .. Len(s) : Reverse(s)[i] = s[Len(s) + 1 - i]
  BY <1>1, <1>2 DEF Reverse
<1>6. ASSUME IsInjective(s) PROVE IsInjective(Reverse(s))
  <2> SUFFICES ASSUME NEW a \in 1 .. Len(s), NEW b \in 1 .. Len(s),
                      Reverse(s)[a] = Reverse(s)[b]
               PROVE  a = b
    BY <1>3 DEF IsInjective
  <2>1. s[Len(s) + 1 - a] = s[Len(s) + 1 - b]
    BY <1>5
  <2>2. Len(s) + 1 - a \in DOMAIN s /\ Len(s) + 1 - b \in DOMAIN s
    BY <1>1
  <2>3. Len(s) + 1 - a = Len(s) + 1 - b
    BY <1>6, <2>1, <2>2, Zenon DEF IsInjective
  <2> QED BY <1>1, <2>3
<1> QED BY <1>4, <1>5, <1>6

(* A sequence is followed from its end when each node leads to the one      *)
(* before.                                                                  *)
LEMMA FollowsBack ==
  ASSUME NEW last, NEW follow, NEW s \in Seq(Nodes)
  PROVE  Follows(Reverse(s), last, follow) <=>
           /\ last = At(s, Len(s))
           /\ \A i \in 1 .. Len(s) : follow[s[i]] = At(s, i - 1)
<1> DEFINE r == Reverse(s)
           n == Len(s)
<1>1. n \in Nat /\ DOMAIN s = 1 .. n
  BY LenProperties
<1>2. DOMAIN r = 1 .. n /\ \A i \in 1 .. n : r[i] = s[n + 1 - i]
  BY Reversed, LenProperties
<1> HIDE DEF r, n
<1>3. \A i \in Int : At(r, i) = At(s, n + 1 - i)
  <2> SUFFICES ASSUME NEW i \in Int PROVE At(r, i) = At(s, n + 1 - i)
    OBVIOUS
  <2>1. i \in 1 .. n <=> n + 1 - i \in 1 .. n
    BY <1>1
  <2> QED BY <1>1, <1>2, <2>1 DEF At
<1>4. At(r, 1) = At(s, n)
  <2>1. n + 1 - 1 = n
    BY <1>1
  <2> QED BY <1>3, <2>1
<1>5. ASSUME \A i \in DOMAIN r : follow[r[i]] = At(r, i + 1), NEW i \in 1 .. n
      PROVE  follow[s[i]] = At(s, i - 1)
  <2>1. /\ n + 1 - i \in 1 .. n /\ n + 1 - (n + 1 - i) = i
        /\ n + 1 - ((n + 1 - i) + 1) = i - 1
    BY <1>1
  <2>2. r[n + 1 - i] = s[i]
    BY <1>2, <2>1
  <2>3. At(r, (n + 1 - i) + 1) = At(s, i - 1)
    BY <1>1, <1>3, <2>1
  <2> QED BY <1>2, <1>5, <2>1, <2>2, <2>3
<1>6. ASSUME \A i \in 1 .. n : follow[s[i]] = At(s, i - 1), NEW i \in DOMAIN r
      PROVE  follow[r[i]] = At(r, i + 1)
  <2>1. i \in 1 .. n /\ n + 1 - i \in 1 .. n /\ (n + 1 - i) - 1 = n + 1 - (i + 1)
    BY <1>1, <1>2
  <2>2. r[i] = s[n + 1 - i]
    BY <1>2, <2>1
  <2>3. At(r, i + 1) = At(s, (n + 1 - i) - 1)
    BY <1>1, <1>3, <2>1
  <2> QED BY <1>6, <2>1, <2>2, <2>3
<1>7. Follows(r, last, follow) <=>
        last = At(r, 1) /\ \A i \in DOMAIN r : follow[r[i]] = At(r, i + 1)
  BY Zenon DEF Follows
<1>8. Follows(r, last, follow) <=>
        last = At(s, n) /\ \A i \in 1 .. n : follow[s[i]] = At(s, i - 1)
  BY <1>4, <1>5, <1>6, <1>7, Zenon
<1> QED BY <1>8 DEF r, n

-----------------------------------------------------------------------------
(* The list, whose nodes s both chains spell.                               *)

IsList(s, l, nx, pv) ==
  /\ s \in Seq(Nodes) /\ IsInjective(s) /\ Len(s) = l.count
  /\ l.head = At(s, 1) /\ l.tail = At(s, Len(s))
  /\ \A i \in 1 .. Len(s) : pv[s[i]] = At(s, i + 1) /\ nx[s[i]] = At(s, i - 1)

(* That both chains are followed.                                           *)
LEMMA ListFollows ==
  ASSUME NEW s \in Seq(Nodes), NEW l, NEW nx, NEW pv
  PROVE  IsList(s, l, nx, pv) <=>
           /\ IsInjective(s) /\ Len(s) = l.count
           /\ Follows(s, l.head, pv) /\ Follows(Reverse(s), l.tail, nx)
<1>1. DOMAIN s = 1 .. Len(s)
  BY LenProperties
<1>2. Follows(s, l.head, pv) <=>
        /\ l.head = At(s, 1)
        /\ \A i \in 1 .. Len(s) : pv[s[i]] = At(s, i + 1)
  BY <1>1, Zenon DEF Follows
<1>3. Follows(Reverse(s), l.tail, nx) <=>
        /\ l.tail = At(s, Len(s))
        /\ \A i \in 1 .. Len(s) : nx[s[i]] = At(s, i - 1)
  BY FollowsBack
<1> QED BY <1>2, <1>3, Zenon DEF IsList

(* Linked says that there is such a list.                                   *)
LEMMA LinkedIs == Linked <=> \E s \in Seq(Nodes) : IsList(s, list, next, prev)
<1>1. ASSUME Linked PROVE \E s \in Seq(Nodes) : IsList(s, list, next, prev)
  BY <1>1, SeqOfIsSeq, ListFollows, Zenon DEF Linked
<1>2. ASSUME NEW s \in Seq(Nodes), IsList(s, list, next, prev) PROVE Linked
  <2>1. /\ IsInjective(s) /\ Len(s) = list.count
        /\ Follows(s, list.head, prev) /\ Follows(Reverse(s), list.tail, next)
    BY <1>2, ListFollows, Zenon
  <2>2. s \in SeqOf(Nodes, Cardinality(Nodes))
    BY <2>1, NoLonger
  <2> QED BY <2>1, <2>2, Zenon DEF Linked
<1> QED BY <1>1, <1>2

(* What a scan from either end visits.                                      *)
LEMMA Scans ==
  ASSUME NEW s, NEW l, NEW nx, NEW pv, IsList(s, l, nx, pv)
  PROVE  Chain(l.head, pv) = s /\ Chain(l.tail, nx) = Reverse(s)
<1>1. s \in Seq(Nodes) /\ IsInjective(s)
  BY Zenon DEF IsList
<1>2. Follows(s, l.head, pv) /\ Follows(Reverse(s), l.tail, nx)
  BY <1>1, ListFollows, Zenon
<1>3. Reverse(s) \in Seq(Nodes) /\ IsInjective(Reverse(s))
  BY <1>1, Reversed
<1> QED BY <1>1, <1>2, <1>3, ChainIs, Zenon

(* What is where in a sequence that has got a node more, or one less.       *)
LEMMA AtInserted ==
  ASSUME NEW s \in Seq(Nodes), NEW k \in 0 .. Len(s), NEW x \in Nodes
  PROVE  /\ InsertAt(s, k + 1, x) \in Seq(Nodes)
         /\ Len(InsertAt(s, k + 1, x)) = Len(s) + 1
         /\ \A j \in Int : j <= k => At(InsertAt(s, k + 1, x), j) = At(s, j)
         /\ At(InsertAt(s, k + 1, x), k + 1) = x
         /\ \A j \in Int : j > k + 1 => At(InsertAt(s, k + 1, x), j) = At(s, j - 1)
<1> DEFINE t == InsertAt(s, k + 1, x)
<1>1. /\ t \in Seq(Nodes) /\ Len(t) = Len(s) + 1
      /\ \A j \in 1 .. k : t[j] = s[j]
      /\ t[k + 1] = x
      /\ \A j \in k + 2 .. Len(s) + 1 : t[j] = s[j - 1]
  BY Inserted
<1>2. DOMAIN s = 1 .. Len(s) /\ Len(s) \in Nat
  BY LenProperties
<1> HIDE DEF t
<1>3. DOMAIN t = 1 .. Len(s) + 1
  BY <1>1, LenProperties
<1>4. /\ \A j \in Int : j <= k => At(t, j) = At(s, j)
      /\ At(t, k + 1) = x
      /\ \A j \in Int : j > k + 1 => At(t, j) = At(s, j - 1)
  BY <1>1, <1>2, <1>3 DEF At
<1> QED BY <1>1, <1>4 DEF t

LEMMA AtRemoved ==
  ASSUME NEW s \in Seq(Nodes), NEW k \in 1 .. Len(s)
  PROVE  /\ RemoveAt(s, k) \in Seq(Nodes)
         /\ Len(RemoveAt(s, k)) = Len(s) - 1
         /\ \A j \in Int : j < k => At(RemoveAt(s, k), j) = At(s, j)
         /\ \A j \in Int : j >= k => At(RemoveAt(s, k), j) = At(s, j + 1)
<1> DEFINE t == RemoveAt(s, k)
<1>1. /\ t \in Seq(Nodes) /\ Len(t) = Len(s) - 1
      /\ \A j \in 1 .. Len(s) - 1 : t[j] = IF j < k THEN s[j] ELSE s[j + 1]
  BY Removed
<1>2. DOMAIN s = 1 .. Len(s) /\ Len(s) \in Nat
  BY LenProperties
<1> HIDE DEF t
<1>3. DOMAIN t = 1 .. Len(s) - 1
  BY <1>1, LenProperties
<1>4. /\ \A j \in Int : j < k => At(t, j) = At(s, j)
      /\ \A j \in Int : j >= k => At(t, j) = At(s, j + 1)
  BY <1>1, <1>2, <1>3 DEF At
<1> QED BY <1>1, <1>4 DEF t

(* A node put in behind the first k: what has to change, and no more.       *)
PutIn(x, k, s, l, nx, pv, l1, nx1, pv1) ==
  /\ l1.head = IF k = 0 THEN x ELSE l.head
  /\ l1.tail = IF k = Len(s) THEN x ELSE l.tail
  /\ l1.count = l.count + 1
  /\ pv1[x] = At(s, k + 1) /\ nx1[x] = At(s, k)
  /\ \A i \in 1 .. Len(s) : /\ pv1[s[i]] = IF i = k THEN x ELSE pv[s[i]]
                            /\ nx1[s[i]] = IF i = k + 1 THEN x ELSE nx[s[i]]

LEMMA InsertionKeepsList ==
  ASSUME NEW s, NEW l, NEW nx, NEW pv, IsList(s, l, nx, pv),
         NEW k \in 0 .. Len(s), NEW x \in Nodes, x \notin Range(s),
         NEW l1, NEW nx1, NEW pv1, PutIn(x, k, s, l, nx, pv, l1, nx1, pv1)
  PROVE  IsList(InsertAt(s, k + 1, x), l1, nx1, pv1)
<1> DEFINE t == InsertAt(s, k + 1, x)
           n == Len(s)
<1>1. /\ s \in Seq(Nodes) /\ n \in Nat /\ DOMAIN s = 1 .. n
      /\ \A i \in 1 .. n : s[i] \in Nodes /\ s[i] # x
  <2>1. s \in Seq(Nodes)
    BY Zenon DEF IsList
  <2>2. n \in Nat /\ DOMAIN s = 1 .. n
    BY <2>1, LenProperties
  <2>3. \A i \in 1 .. n : s[i] \in Nodes
    BY <2>1, ElementOfSeq
  <2> QED BY <2>1, <2>2, <2>3, Zenon DEF Range
<1>2. /\ \A a, b \in 1 .. n : s[a] = s[b] => a = b
      /\ n = l.count /\ l.head = At(s, 1) /\ l.tail = At(s, n)
      /\ \A i \in 1 .. n : pv[s[i]] = At(s, i + 1) /\ nx[s[i]] = At(s, i - 1)
  BY <1>1, Zenon DEF IsList, IsInjective
<1>3. /\ t \in Seq(Nodes) /\ Len(t) = n + 1
      /\ \A j \in Int : j <= k => At(t, j) = At(s, j)
      /\ At(t, k + 1) = x
      /\ \A j \in Int : j > k + 1 => At(t, j) = At(s, j - 1)
  <2>1. s \in Seq(Nodes) /\ k \in 0 .. Len(s) /\ x \in Nodes
    BY <1>1
  <2> QED BY <2>1, AtInserted
<1> HIDE DEF t, n
<1>4. k \in 0 .. n
  BY DEF n
<1>5. DOMAIN t = 1 .. n + 1 /\ \A j \in 1 .. n + 1 : t[j] = At(t, j)
  <2>1. DOMAIN t = 1 .. n + 1
    BY <1>3, LenProperties
  <2> QED BY <2>1, Zenon DEF At
<1>6. IsInjective(t)
  <2> SUFFICES ASSUME NEW a \in 1 .. n + 1, NEW b \in 1 .. n + 1,
                      At(t, a) = At(t, b)
               PROVE  a = b
    BY <1>5 DEF IsInjective
  <2> DEFINE From(j) == IF j <= k THEN j ELSE j - 1
  <2>1. \A j \in 1 .. n + 1 :
          j # k + 1 => From(j) \in 1 .. n /\ At(t, j) = s[From(j)]
    BY <1>1, <1>3, <1>4 DEF At
  <2>2. At(t, k + 1) = x
    BY <1>3, <1>4
  <2> HIDE DEF From
  <2>3. a = k + 1 <=> b = k + 1
    BY <1>1, <2>1, <2>2
  <2>4. ASSUME a # k + 1, b # k + 1 PROVE From(a) = From(b)
    <3>1. /\ From(a) \in 1 .. n /\ At(t, a) = s[From(a)]
          /\ From(b) \in 1 .. n /\ At(t, b) = s[From(b)]
      BY <2>1, <2>4, Zenon
    <3>2. s[From(a)] = s[From(b)]
      BY <3>1
    <3> QED BY <1>2, <3>1, <3>2, Zenon
  <2> QED BY <1>1, <1>4, <2>3, <2>4 DEF From
<1>0. /\ l1.head = IF k = 0 THEN x ELSE l.head
      /\ l1.tail = IF k = n THEN x ELSE l.tail
      /\ l1.count = l.count + 1
      /\ pv1[x] = At(s, k + 1) /\ nx1[x] = At(s, k)
      /\ \A i \in 1 .. n : /\ pv1[s[i]] = IF i = k THEN x ELSE pv[s[i]]
                           /\ nx1[s[i]] = IF i = k + 1 THEN x ELSE nx[s[i]]
  BY Zenon DEF PutIn, n
<1>7. Len(t) = l1.count
  BY <1>0, <1>2, <1>3
<1>8. l1.head = At(t, 1) /\ l1.tail = At(t, Len(t))
  <2>1. At(t, 1) = IF k = 0 THEN x ELSE At(s, 1)
    BY <1>4, <1>3, <1>1
  <2>2. At(t, n + 1) = IF k = n THEN x ELSE At(s, n)
    BY <1>4, <1>3, <1>1
  <2> QED BY <1>0, <1>2, <1>3, <2>1, <2>2
<1>9. ASSUME NEW j \in 1 .. n + 1
      PROVE  pv1[t[j]] = At(t, j + 1) /\ nx1[t[j]] = At(t, j - 1)
  <2>0. \A i \in 1 .. n : /\ pv1[s[i]] = IF i = k THEN x ELSE At(s, i + 1)
                          /\ nx1[s[i]] = IF i = k + 1 THEN x ELSE At(s, i - 1)
    BY <1>0, <1>2
  <2>1. CASE j <= k
    <3>1. t[j] = s[j] /\ j \in 1 .. n
      BY <1>1, <1>3, <1>4, <1>5, <2>1 DEF At
    <3>2. At(t, j + 1) = IF j = k THEN x ELSE At(s, j + 1)
      BY <1>4, <1>3, <1>1, <2>1
    <3>3. At(t, j - 1) = At(s, j - 1) /\ j # k + 1
      BY <1>4, <1>3, <1>1, <2>1
    <3> QED BY <2>0, <3>1, <3>2, <3>3
  <2>2. CASE j = k + 1
    <3>1. t[j] = x
      BY <1>1, <1>3, <1>4, <1>5, <2>2
    <3>2. At(t, j + 1) = At(s, k + 1) /\ At(t, j - 1) = At(s, k)
      <4>1. /\ j + 1 - 1 = k + 1 /\ j - 1 = k /\ ~(j + 1 <= k) /\ j + 1 # k + 1
            /\ j + 1 \in Int /\ j - 1 \in Int /\ j - 1 <= k
        BY <1>1, <1>4, <2>2
      <4> QED BY <1>3, <4>1
    <3> QED BY <1>0, <3>1, <3>2
  <2>3. CASE j > k + 1
    <3>1. t[j] = s[j - 1] /\ j - 1 \in 1 .. n /\ j - 1 # k
      BY <1>1, <1>3, <1>4, <1>5, <2>3 DEF At
    <3>2. At(t, j + 1) = At(s, (j - 1) + 1)
      BY <1>4, <1>3, <1>1, <2>3
    <3>3. At(t, j - 1) = IF j - 1 = k + 1 THEN x ELSE At(s, (j - 1) - 1)
      BY <1>4, <1>3, <1>1, <2>3
    <3> QED BY <2>0, <3>1, <3>2, <3>3
  <2> QED BY <1>1, <1>4, <2>1, <2>2, <2>3
<1>10. IsList(t, l1, nx1, pv1)
  BY <1>3, <1>6, <1>7, <1>8, <1>9, Zenon DEF IsList
<1> QED BY <1>10 DEF t

(* The k-th node taken out.                                                 *)
TakenOut(k, s, l, nx, pv, l1, nx1, pv1) ==
  /\ l1.head = IF k = 1 THEN At(s, 2) ELSE l.head
  /\ l1.tail = IF k = Len(s) THEN At(s, k - 1) ELSE l.tail
  /\ l1.count = l.count - 1
  /\ \A i \in 1 .. Len(s) : i # k =>
       /\ pv1[s[i]] = IF i = k - 1 THEN At(s, k + 1) ELSE pv[s[i]]
       /\ nx1[s[i]] = IF i = k + 1 THEN At(s, k - 1) ELSE nx[s[i]]

LEMMA RemovalKeepsList ==
  ASSUME NEW s, NEW l, NEW nx, NEW pv, IsList(s, l, nx, pv),
         NEW k \in 1 .. Len(s),
         NEW l1, NEW nx1, NEW pv1, TakenOut(k, s, l, nx, pv, l1, nx1, pv1)
  PROVE  IsList(RemoveAt(s, k), l1, nx1, pv1)
<1> DEFINE t == RemoveAt(s, k)
           n == Len(s)
<1>1. /\ s \in Seq(Nodes) /\ n \in Nat /\ DOMAIN s = 1 .. n
      /\ \A i \in 1 .. n : s[i] \in Nodes
  <2>1. s \in Seq(Nodes)
    BY Zenon DEF IsList
  <2>2. n \in Nat /\ DOMAIN s = 1 .. n
    BY <2>1, LenProperties
  <2>3. \A i \in 1 .. n : s[i] \in Nodes
    BY <2>1, ElementOfSeq
  <2> QED BY <2>1, <2>2, <2>3, Zenon
<1>2. /\ \A a, b \in 1 .. n : s[a] = s[b] => a = b
      /\ n = l.count /\ l.head = At(s, 1) /\ l.tail = At(s, n)
      /\ \A i \in 1 .. n : pv[s[i]] = At(s, i + 1) /\ nx[s[i]] = At(s, i - 1)
  BY <1>1, Zenon DEF IsList, IsInjective
<1>3. /\ t \in Seq(Nodes) /\ Len(t) = n - 1
      /\ \A j \in Int : j < k => At(t, j) = At(s, j)
      /\ \A j \in Int : j >= k => At(t, j) = At(s, j + 1)
  <2>1. s \in Seq(Nodes) /\ k \in 1 .. Len(s)
    BY <1>1
  <2> QED BY <2>1, AtRemoved
<1> HIDE DEF t, n
<1>4. k \in 1 .. n
  BY DEF n
<1>5. DOMAIN t = 1 .. n - 1 /\ \A j \in 1 .. n - 1 : t[j] = At(t, j)
  <2>1. DOMAIN t = 1 .. n - 1
    BY <1>3, LenProperties
  <2> QED BY <2>1, Zenon DEF At
<1> DEFINE From(j) == IF j < k THEN j ELSE j + 1
<1>6. \A j \in 1 .. n - 1 : From(j) \in 1 .. n /\ From(j) # k /\ t[j] = s[From(j)]
  BY <1>1, <1>3, <1>4, <1>5 DEF At
<1>7. IsInjective(t)
  <2> SUFFICES ASSUME NEW a \in 1 .. n - 1, NEW b \in 1 .. n - 1, t[a] = t[b]
               PROVE  a = b
    BY <1>5 DEF IsInjective
  <2> HIDE DEF From
  <2>1. From(a) = From(b)
    <3>1. s[From(a)] = s[From(b)]
      BY <1>6
    <3> QED BY <1>2, <1>6, <3>1, Zenon
  <2> QED BY <1>1, <1>4, <2>1 DEF From
<1>0. /\ l1.head = IF k = 1 THEN At(s, 2) ELSE l.head
      /\ l1.tail = IF k = n THEN At(s, k - 1) ELSE l.tail
      /\ l1.count = l.count - 1
      /\ \A i \in 1 .. n : i # k =>
           /\ pv1[s[i]] = IF i = k - 1 THEN At(s, k + 1) ELSE pv[s[i]]
           /\ nx1[s[i]] = IF i = k + 1 THEN At(s, k - 1) ELSE nx[s[i]]
  BY Zenon DEF TakenOut, n
<1>8. Len(t) = l1.count
  BY <1>0, <1>2, <1>3
<1>9. l1.head = At(t, 1) /\ l1.tail = At(t, Len(t))
  <2>1. At(t, 1) = IF k = 1 THEN At(s, 2) ELSE At(s, 1)
    <3>1. k = 1 => At(t, 1) = At(s, 1 + 1)
      BY <1>3
    <3>2. k # 1 => At(t, 1) = At(s, 1)
      BY <1>1, <1>3, <1>4
    <3> QED BY <3>1, <3>2
  <2>2. At(t, n - 1) = IF k = n THEN At(s, k - 1) ELSE At(s, n)
    <3>1. k = n => At(t, n - 1) = At(s, n - 1)
      BY <1>1, <1>3, <1>4
    <3>2. k # n => At(t, n - 1) = At(s, (n - 1) + 1)
      BY <1>1, <1>3, <1>4
    <3>3. (n - 1) + 1 = n
      BY <1>1
    <3> QED BY <3>1, <3>2, <3>3
  <2> QED BY <1>0, <1>2, <1>3, <2>1, <2>2
<1>10. \A i \in 1 .. n : i # k =>
         /\ pv1[s[i]] = IF i = k - 1 THEN At(s, k + 1) ELSE At(s, i + 1)
         /\ nx1[s[i]] = IF i = k + 1 THEN At(s, k - 1) ELSE At(s, i - 1)
  BY <1>0, <1>2
<1>11. ASSUME NEW j \in 1 .. n - 1
       PROVE  pv1[t[j]] = At(t, j + 1) /\ nx1[t[j]] = At(t, j - 1)
  <2>1. CASE j < k
    <3>1. t[j] = s[j] /\ j \in 1 .. n /\ j # k /\ j # k + 1
      BY <1>1, <1>4, <1>6, <2>1
    <3>2. At(t, j + 1) = IF j = k - 1 THEN At(s, k + 1) ELSE At(s, j + 1)
      <4>1. j = k - 1 => At(t, j + 1) = At(s, k + 1)
        <5>1. ASSUME j = k - 1 PROVE j + 1 = k
          BY <1>4, <5>1
        <5>2. At(t, k) = At(s, k + 1)
          BY <1>3, <1>4
        <5> QED BY <5>1, <5>2
      <4>2. j # k - 1 => At(t, j + 1) = At(s, j + 1)
        <5>1. ASSUME j # k - 1 PROVE j + 1 < k /\ j + 1 \in Int
          BY <1>1, <1>4, <2>1, <5>1
        <5> QED BY <1>3, <5>1
      <4> QED BY <4>1, <4>2
    <3>3. At(t, j - 1) = At(s, j - 1)
      BY <1>1, <1>3, <1>4, <2>1
    <3> QED BY <1>10, <3>1, <3>2, <3>3
  <2>2. CASE ~(j < k)
    <3>1. t[j] = s[j + 1] /\ j + 1 \in 1 .. n /\ j + 1 # k /\ j + 1 # k - 1
      BY <1>1, <1>4, <1>6, <2>2
    <3>2. At(t, j + 1) = At(s, (j + 1) + 1)
      BY <1>1, <1>3, <1>4, <2>2
    <3>3. At(t, j - 1) = IF j + 1 = k + 1 THEN At(s, k - 1) ELSE At(s, (j + 1) - 1)
      <4>1. j = k => At(t, j - 1) = At(s, k - 1)
        BY <1>1, <1>3, <1>4
      <4>2. j # k => At(t, j - 1) = At(s, (j - 1) + 1)
        <5>1. ASSUME j # k PROVE j - 1 >= k /\ j - 1 \in Int
          BY <1>1, <1>4, <2>2, <5>1
        <5> QED BY <1>3, <5>1
      <4>3. (j - 1) + 1 = (j + 1) - 1 /\ (j = k <=> j + 1 = k + 1)
        BY <1>1, <1>4
      <4> QED BY <4>1, <4>2, <4>3
    <3> QED BY <1>10, <3>1, <3>2, <3>3
  <2> QED BY <2>1, <2>2
<1>12. IsList(t, l1, nx1, pv1)
  <2>1. \A j \in 1 .. Len(t) : pv1[t[j]] = At(t, j + 1) /\ nx1[t[j]] = At(t, j - 1)
    BY <1>3, <1>11
  <2> QED BY <1>3, <1>7, <1>8, <1>9, <2>1, Zenon DEF IsList
<1> QED BY <1>12 DEF t

-----------------------------------------------------------------------------
(* The operations.                                                          *)

(* A node of the list is at one position, and its pointers lead to the      *)
(* positions next to it.                                                    *)
LEMMA Positions ==
  ASSUME NEW s, IsList(s, list, next, prev)
  PROVE  /\ s \in Seq(Nodes) /\ Len(s) \in Nat /\ Len(s) = list.count
         /\ \A i \in 1 .. Len(s) :
              /\ s[i] \in Nodes /\ s[i] # NULL /\ At(s, i) = s[i]
              /\ prev[s[i]] = At(s, i + 1) /\ next[s[i]] = At(s, i - 1)
         /\ \A i \in 1 .. Len(s), j \in Int : s[i] = At(s, j) <=> i = j
         /\ \A j \in Int : At(s, j) = NULL <=> j \notin 1 .. Len(s)
         /\ \A j \in Int : At(s, j) \in Pointers
         /\ list.head = At(s, 1) /\ list.tail = At(s, Len(s))
<1>1. /\ s \in Seq(Nodes) /\ Len(s) = list.count
      /\ \A a, b \in DOMAIN s : s[a] = s[b] => a = b
      /\ list.head = At(s, 1) /\ list.tail = At(s, Len(s))
      /\ \A i \in 1 .. Len(s) : prev[s[i]] = At(s, i + 1) /\ next[s[i]] = At(s, i - 1)
  BY Zenon DEF IsList, IsInjective
<1>2. Len(s) \in Nat /\ DOMAIN s = 1 .. Len(s)
  BY <1>1, LenProperties
<1>3. \A i \in 1 .. Len(s) : s[i] \in Nodes /\ s[i] # NULL
  BY <1>1, ElementOfSeq, DListAssumption
<1>4. /\ \A i \in 1 .. Len(s) : At(s, i) = s[i]
      /\ \A j \in Int : j \notin 1 .. Len(s) => At(s, j) = NULL
  BY <1>2 DEF At
<1>5. \A j \in Int : At(s, j) = NULL <=> j \notin 1 .. Len(s)
  BY <1>3, <1>4
<1>6. \A j \in Int : At(s, j) \in Pointers
  BY <1>3, <1>4 DEF Pointers
<1>7. \A i \in 1 .. Len(s), j \in Int : s[i] = At(s, j) <=> i = j
  BY <1>1, <1>2, <1>3, <1>4
<1> QED BY <1>1, <1>2, <1>3, <1>4, <1>5, <1>6, <1>7, Zenon

(* An insertion, behind a node, at the head, at the tail.                   *)
LEMMA InsertPastInserts ==
  ASSUME NEW s, IsList(s, list, next, prev), DListType,
         NEW k \in 1 .. Len(s), NEW node \in Nodes, node \notin Range(s),
         InsertPast(s[k], node)
  PROVE  /\ IsList(InsertAt(s, k + 1, node), list', next', prev')
         /\ list' \in [head : Pointers, tail : Pointers, count : Nat]
         /\ next' \in [Nodes -> Pointers] /\ prev' \in [Nodes -> Pointers]
<1>1. /\ s \in Seq(Nodes) /\ Len(s) \in Nat /\ Len(s) = list.count
      /\ \A i \in 1 .. Len(s) :
           s[i] \in Nodes /\ s[i] # NULL /\ At(s, i) = s[i] /\ prev[s[i]] = At(s, i + 1)
      /\ \A i \in 1 .. Len(s), j \in Int : s[i] = At(s, j) <=> i = j
      /\ \A j \in Int : At(s, j) = NULL <=> j \notin 1 .. Len(s)
  BY Positions, Zenon
<1>2. \A i \in 1 .. Len(s) : s[i] # node
  BY <1>1, LenProperties DEF Range
<1>3. /\ list \in [head : Pointers, tail : Pointers, count : Nat]
      /\ next \in [Nodes -> Pointers] /\ prev \in [Nodes -> Pointers]
  BY DEF DListType
<1>4. /\ next' = [p \in Nodes |-> IF p = node THEN s[k]
                                  ELSE IF p = prev[s[k]] THEN node
                                  ELSE next[p]]
      /\ prev' = [prev EXCEPT ![node] = prev[s[k]], ![s[k]] = node]
      /\ list'.head = list.head
      /\ list'.tail = IF prev[s[k]] = NULL THEN node ELSE list.tail
      /\ list'.count = list.count + 1
      /\ list' \in [head : Pointers, tail : Pointers, count : Nat]
  BY <1>3 DEF InsertPast, Pointers
<1>5. prev'[node] = At(s, k + 1) /\ next'[node] = At(s, k)
  BY <1>1, <1>2, <1>3, <1>4
<1>6. ASSUME NEW i \in 1 .. Len(s)
      PROVE  /\ prev'[s[i]] = IF i = k THEN node ELSE prev[s[i]]
             /\ next'[s[i]] = IF i = k + 1 THEN node ELSE next[s[i]]
  <2>1. s[i] \in Nodes /\ s[i] # node /\ (s[i] = s[k] <=> i = k)
    BY <1>1, <1>2
  <2>2. s[i] = prev[s[k]] <=> i = k + 1
    BY <1>1
  <2> QED BY <1>3, <1>4, <2>1, <2>2
<1>7. list'.tail = IF k = Len(s) THEN node ELSE list.tail
  <2>1. prev[s[k]] = NULL <=> k = Len(s)
    <3>1. k + 1 \in Int /\ (k + 1 \notin 1 .. Len(s) <=> k = Len(s))
      BY <1>1
    <3> QED BY <1>1, <3>1
  <2> QED BY <1>4, <2>1
<1>8. k \in 0 .. Len(s) /\ k # 0
  BY <1>1
<1>9. IsList(InsertAt(s, k + 1, node), list', next', prev')
  <2>1. list'.head = IF k = 0 THEN node ELSE list.head
    BY <1>4, <1>8
  <2>2. PutIn(node, k, s, list, next, prev, list', next', prev')
    BY <1>4, <1>5, <1>6, <1>7, <2>1, Zenon DEF PutIn
  <2> QED BY <1>8, <2>2, InsertionKeepsList, Zenon
<1>10. next' \in [Nodes -> Pointers] /\ prev' \in [Nodes -> Pointers]
  BY <1>1, <1>3, <1>4 DEF Pointers
<1> QED BY <1>4, <1>9, <1>10, Zenon

LEMMA InsertAtHeadInserts ==
  ASSUME NEW s, IsList(s, list, next, prev), DListType,
         NEW node \in Nodes, node \notin Range(s), InsertAtHead(node)
  PROVE  /\ IsList(InsertAt(s, 1, node), list', next', prev')
         /\ list' \in [head : Pointers, tail : Pointers, count : Nat]
         /\ next' \in [Nodes -> Pointers] /\ prev' \in [Nodes -> Pointers]
<1>1. /\ s \in Seq(Nodes) /\ Len(s) \in Nat /\ Len(s) = list.count
      /\ list.head = At(s, 1)
      /\ \A i \in 1 .. Len(s) : s[i] \in Nodes
      /\ \A i \in 1 .. Len(s), j \in Int : s[i] = At(s, j) <=> i = j
      /\ \A j \in Int : At(s, j) = NULL <=> j \notin 1 .. Len(s)
  BY Positions, Zenon
<1>2. \A i \in 1 .. Len(s) : s[i] # node
  BY <1>1, LenProperties DEF Range
<1>3. /\ list \in [head : Pointers, tail : Pointers, count : Nat]
      /\ next \in [Nodes -> Pointers] /\ prev \in [Nodes -> Pointers]
  BY DEF DListType
<1>4. /\ next' = [p \in Nodes |-> IF p = node THEN NULL
                                  ELSE IF p = list.head THEN node
                                  ELSE next[p]]
      /\ prev' = [prev EXCEPT ![node] = list.head]
      /\ list'.head = node
      /\ list'.tail = IF list.count = 0 THEN node ELSE list.tail
      /\ list'.count = list.count + 1
      /\ list' \in [head : Pointers, tail : Pointers, count : Nat]
  BY <1>3 DEF InsertAtHead, Pointers
<1>5. prev'[node] = At(s, 0 + 1) /\ next'[node] = At(s, 0)
  BY <1>1, <1>2, <1>3, <1>4
<1>6. ASSUME NEW i \in 1 .. Len(s)
      PROVE  /\ prev'[s[i]] = IF i = 0 THEN node ELSE prev[s[i]]
             /\ next'[s[i]] = IF i = 0 + 1 THEN node ELSE next[s[i]]
  <2>1. s[i] \in Nodes /\ s[i] # node /\ (s[i] = list.head <=> i = 1)
    BY <1>1, <1>2
  <2> QED BY <1>3, <1>4, <2>1
<1>7. list'.tail = IF 0 = Len(s) THEN node ELSE list.tail
  BY <1>1, <1>4
<1>8. 0 \in 0 .. Len(s)
  BY <1>1
<1>9. IsList(InsertAt(s, 0 + 1, node), list', next', prev')
  <2>1. list'.head = IF 0 = 0 THEN node ELSE list.head
    BY <1>4
  <2>2. PutIn(node, 0, s, list, next, prev, list', next', prev')
    BY <1>4, <1>5, <1>6, <1>7, <2>1, Zenon DEF PutIn
  <2> QED BY <1>8, <2>2, InsertionKeepsList, Zenon
<1>10. next' \in [Nodes -> Pointers] /\ prev' \in [Nodes -> Pointers]
  BY <1>1, <1>3, <1>4 DEF Pointers
<1>11. 0 + 1 = 1
  OBVIOUS
<1> QED BY <1>4, <1>9, <1>10, <1>11

LEMMA PushBackInserts ==
  ASSUME NEW s, IsList(s, list, next, prev), DListType,
         NEW node \in Nodes, node \notin Range(s), dlist_push_back(node)
  PROVE  /\ IsList(Append(s, node), list', next', prev')
         /\ DListType'
<1>1. /\ s \in Seq(Nodes) /\ Len(s) \in Nat /\ Len(s) = list.count
      /\ list.tail = At(s, Len(s))
      /\ \A i \in 1 .. Len(s) : s[i] \in Nodes
      /\ \A i \in 1 .. Len(s), j \in Int : s[i] = At(s, j) <=> i = j
      /\ \A j \in Int : At(s, j) = NULL <=> j \notin 1 .. Len(s)
  BY Positions, Zenon
<1>2. \A i \in 1 .. Len(s) : s[i] # node
  BY <1>1, LenProperties DEF Range
<1>3. /\ list \in [head : Pointers, tail : Pointers, count : Nat]
      /\ next \in [Nodes -> Pointers] /\ prev \in [Nodes -> Pointers]
  BY DEF DListType
<1>4. /\ prev' = [p \in Nodes |-> IF p = node THEN NULL
                                  ELSE IF p = list.tail /\ list.count # 0 THEN node
                                  ELSE prev[p]]
      /\ next' = [next EXCEPT ![node] = list.tail]
      /\ list'.head = IF list.count = 0 THEN node ELSE list.head
      /\ list'.tail = node
      /\ list'.count = list.count + 1
      /\ list' \in [head : Pointers, tail : Pointers, count : Nat]
  BY <1>3 DEF dlist_push_back, Pointers
<1>5. prev'[node] = At(s, Len(s) + 1) /\ next'[node] = At(s, Len(s))
  <2>1. At(s, Len(s) + 1) = NULL
    BY <1>1
  <2> QED BY <1>1, <1>3, <1>4, <2>1
<1>6. ASSUME NEW i \in 1 .. Len(s)
      PROVE  /\ prev'[s[i]] = IF i = Len(s) THEN node ELSE prev[s[i]]
             /\ next'[s[i]] = IF i = Len(s) + 1 THEN node ELSE next[s[i]]
  <2>1. /\ s[i] \in Nodes /\ s[i] # node /\ (s[i] = list.tail <=> i = Len(s))
        /\ list.count # 0 /\ i # Len(s) + 1
    BY <1>1, <1>2
  <2> QED BY <1>3, <1>4, <2>1
<1>7. list'.head = IF Len(s) = 0 THEN node ELSE list.head
  BY <1>1, <1>4
<1>8. Len(s) \in 0 .. Len(s)
  BY <1>1
<1>9. IsList(InsertAt(s, Len(s) + 1, node), list', next', prev')
  <2>1. list'.tail = IF Len(s) = Len(s) THEN node ELSE list.tail
    BY <1>4
  <2>2. PutIn(node, Len(s), s, list, next, prev, list', next', prev')
    BY <1>4, <1>5, <1>6, <1>7, <2>1, Zenon DEF PutIn
  <2> QED BY <1>8, <2>2, InsertionKeepsList, Zenon
<1>10. InsertAt(s, Len(s) + 1, node) = Append(s, node)
  BY <1>1, InsertedAtEnd
<1>11. DListType'
  BY <1>1, <1>3, <1>4 DEF DListType, Pointers, dlist_push_back
<1> QED BY <1>9, <1>10, <1>11

(* A removal.                                                               *)
LEMMA UnlinkRemoves ==
  ASSUME NEW s, IsList(s, list, next, prev), DListType,
         NEW k \in 1 .. Len(s), Unlink(s[k])
  PROVE  /\ IsList(RemoveAt(s, k), list', next', prev')
         /\ list' \in [head : Pointers, tail : Pointers, count : Nat]
         /\ next' \in [Nodes -> Pointers] /\ prev' \in [Nodes -> Pointers]
<1>1. /\ s \in Seq(Nodes) /\ Len(s) \in Nat /\ Len(s) = list.count
      /\ \A i \in 1 .. Len(s) : s[i] \in Nodes
      /\ \A i \in 1 .. Len(s), j \in Int : s[i] = At(s, j) <=> i = j
      /\ \A j \in Int : At(s, j) = NULL <=> j \notin 1 .. Len(s)
      /\ \A j \in Int : At(s, j) \in Pointers
  BY Positions, Zenon
<1>2. prev[s[k]] = At(s, k + 1) /\ next[s[k]] = At(s, k - 1)
  BY Positions, Zenon
<1>3. /\ list \in [head : Pointers, tail : Pointers, count : Nat]
      /\ next \in [Nodes -> Pointers] /\ prev \in [Nodes -> Pointers]
  BY DEF DListType
<1>4. k + 1 \in Int /\ k - 1 \in Int /\ At(s, k + 1) \in Pointers /\ At(s, k - 1) \in Pointers
  BY <1>1
<1>5. /\ next' = [p \in Nodes |-> IF p = s[k] THEN NULL
                                  ELSE IF p = At(s, k + 1) THEN At(s, k - 1)
                                  ELSE next[p]]
      /\ prev' = [p \in Nodes |-> IF p = s[k] THEN NULL
                                  ELSE IF p = At(s, k - 1) THEN At(s, k + 1)
                                  ELSE prev[p]]
      /\ list' = [head |-> IF At(s, k - 1) = NULL THEN At(s, k + 1) ELSE list.head,
                  tail |-> IF At(s, k + 1) = NULL THEN At(s, k - 1) ELSE list.tail,
                  count |-> list.count - 1]
  BY <1>2 DEF Unlink
<1>6. list.count - 1 \in Nat
  BY <1>1
<1>7. /\ list'.head = IF At(s, k - 1) = NULL THEN At(s, k + 1) ELSE list.head
      /\ list'.tail = IF At(s, k + 1) = NULL THEN At(s, k - 1) ELSE list.tail
      /\ list'.count = list.count - 1
      /\ list' \in [head : Pointers, tail : Pointers, count : Nat]
  BY <1>3, <1>4, <1>5, <1>6
<1>8. list'.head = IF k = 1 THEN At(s, 2) ELSE list.head
  <2>1. At(s, k - 1) = NULL <=> k = 1
    <3>1. k - 1 \notin 1 .. Len(s) <=> k = 1
      BY <1>1
    <3> QED BY <1>1, <1>4, <3>1
  <2>2. k = 1 => At(s, k + 1) = At(s, 2)
    OBVIOUS
  <2> QED BY <1>7, <2>1, <2>2
<1>9. list'.tail = IF k = Len(s) THEN At(s, k - 1) ELSE list.tail
  <2>1. At(s, k + 1) = NULL <=> k = Len(s)
    <3>1. k + 1 \notin 1 .. Len(s) <=> k = Len(s)
      BY <1>1
    <3> QED BY <1>1, <1>4, <3>1
  <2> QED BY <1>7, <2>1
<1>10. ASSUME NEW i \in 1 .. Len(s), i # k
       PROVE  /\ prev'[s[i]] = IF i = k - 1 THEN At(s, k + 1) ELSE prev[s[i]]
              /\ next'[s[i]] = IF i = k + 1 THEN At(s, k - 1) ELSE next[s[i]]
  <2>1. s[i] \in Nodes /\ s[i] # s[k]
    <3>1. At(s, k) = s[k]
      BY Positions, Zenon
    <3> QED BY <1>1, <1>10, <3>1
  <2>2. (s[i] = At(s, k + 1) <=> i = k + 1) /\ (s[i] = At(s, k - 1) <=> i = k - 1)
    BY <1>1, <1>4
  <2> QED BY <1>5, <2>1, <2>2
<1>11. TakenOut(k, s, list, next, prev, list', next', prev')
  BY <1>7, <1>8, <1>9, <1>10, Zenon DEF TakenOut
<1>12. IsList(RemoveAt(s, k), list', next', prev')
  BY <1>11, RemovalKeepsList, Zenon
<1>13. next' \in [Nodes -> Pointers] /\ prev' \in [Nodes -> Pointers]
  BY <1>3, <1>4, <1>5 DEF Pointers
<1> QED BY <1>7, <1>12, <1>13, Zenon

(* A pop of a list that is not empty.                                       *)
LEMMA PopRemoves ==
  ASSUME NEW s, IsList(s, list, next, prev), DListType,
         dlist_pop_front, list.count # 0
  PROVE  /\ s # <<>> /\ out' = Head(s)
         /\ IsList(Tail(s), list', next', prev')
         /\ DListType'
<1>1. /\ s \in Seq(Nodes) /\ Len(s) \in Nat /\ Len(s) = list.count
      /\ \A i \in 1 .. Len(s) : s[i] \in Nodes
      /\ \A i \in 1 .. Len(s), j \in Int : s[i] = At(s, j) <=> i = j
      /\ \A j \in Int : At(s, j) = NULL <=> j \notin 1 .. Len(s)
      /\ \A j \in Int : At(s, j) \in Pointers
      /\ list.head = At(s, 1)
  BY Positions, Zenon
<1>2. 1 \in 1 .. Len(s) /\ s # <<>>
  BY <1>1
<1>3. At(s, 1) = s[1] /\ prev[s[1]] = At(s, 1 + 1)
  <2>1. \A i \in 1 .. Len(s) : At(s, i) = s[i] /\ prev[s[i]] = At(s, i + 1)
    BY Positions, Zenon
  <2> QED BY <1>2, <2>1, Zenon
<1>4. /\ list \in [head : Pointers, tail : Pointers, count : Nat]
      /\ next \in [Nodes -> Pointers] /\ prev \in [Nodes -> Pointers]
  BY DEF DListType
<1>5. At(s, 2) \in Pointers /\ prev[s[1]] = At(s, 2) /\ list.head = s[1]
  BY <1>1, <1>3
<1>6. /\ out' = s[1]
      /\ next' = [p \in Nodes |-> IF p \in {s[1], At(s, 2)} THEN NULL ELSE next[p]]
      /\ prev' = [prev EXCEPT ![s[1]] = NULL]
      /\ list' = [head |-> At(s, 2),
                  tail |-> IF list.count = 1 THEN NULL ELSE list.tail,
                  count |-> list.count - 1]
  BY <1>5 DEF dlist_pop_front
<1>7. list.count - 1 \in Nat
  BY <1>1, <1>2
<1>8. /\ list'.head = At(s, 2)
      /\ list'.tail = IF list.count = 1 THEN NULL ELSE list.tail
      /\ list'.count = list.count - 1
      /\ list' \in [head : Pointers, tail : Pointers, count : Nat]
  BY <1>4, <1>5, <1>6, <1>7 DEF Pointers
<1>9. list'.head = IF 1 = 1 THEN At(s, 2) ELSE list.head
  BY <1>8
<1>10. list'.tail = IF 1 = Len(s) THEN At(s, 1 - 1) ELSE list.tail
  <2>1. At(s, 1 - 1) = NULL
    BY <1>1
  <2> QED BY <1>1, <1>8, <2>1
<1>11. ASSUME NEW i \in 1 .. Len(s), i # 1
       PROVE  /\ prev'[s[i]] = IF i = 1 - 1 THEN At(s, 1 + 1) ELSE prev[s[i]]
              /\ next'[s[i]] = IF i = 1 + 1 THEN At(s, 1 - 1) ELSE next[s[i]]
  <2>1. s[i] \in Nodes /\ s[i] # s[1] /\ i # 0
    BY <1>1, <1>3, <1>11
  <2>2. s[i] = At(s, 2) <=> i = 2
    BY <1>1
  <2>3. At(s, 1 - 1) = NULL
    BY <1>1
  <2>4. prev'[s[i]] = prev[s[i]]
    BY <1>4, <1>6, <2>1
  <2>5. next'[s[i]] = IF i = 2 THEN NULL ELSE next[s[i]]
    BY <1>4, <1>6, <2>1, <2>2
  <2> QED BY <2>1, <2>3, <2>4, <2>5
<1>12. TakenOut(1, s, list, next, prev, list', next', prev')
  BY <1>8, <1>9, <1>10, <1>11, Zenon DEF TakenOut
<1>13. IsList(RemoveAt(s, 1), list', next', prev')
  BY <1>2, <1>12, RemovalKeepsList, Zenon
<1>14. RemoveAt(s, 1) = Tail(s) /\ Head(s) = s[1]
  BY <1>1, <1>2, RemovedFirst
<1>15. DListType'
  BY <1>1, <1>2, <1>4, <1>6, <1>8 DEF DListType, Pointers
<1> QED BY <1>2, <1>6, <1>13, <1>14, <1>15, Zenon

-----------------------------------------------------------------------------
(* The steps of NodeList.                                                   *)

(* After a step that leaves the list t.                                     *)
LEMMA NowLinked ==
  ASSUME NEW t, IsList(t, list', next', prev')
  PROVE  Linked' /\ onList' = t
<1>1. t \in Seq(Nodes)
  BY Zenon DEF IsList
<1>2. /\ IsInjective(t) /\ Len(t) = list'.count
      /\ Follows(t, list'.head, prev') /\ Follows(Reverse(t), list'.tail, next')
  BY <1>1, ListFollows, Zenon
<1>3. t \in SeqOf(Nodes, Cardinality(Nodes))
  BY <1>1, <1>2, NoLonger
<1>4. Linked'
  BY <1>2, <1>3, Zenon DEF Linked
<1>5. Chain(list'.head, prev') = t
  BY Scans, Zenon
<1> QED BY <1>4, <1>5, Zenon DEF onList

LEMMA OnListIs ==
  ASSUME NEW s, IsList(s, list, next, prev)
  PROVE  onList = s
  BY Scans, Zenon DEF onList

(* NodeList has its operators on sequences from the same modules.           *)
LEMMA SameOperators ==
  /\ \A f : L!Range(f) = Range(f)
  /\ \A t, i, e : L!InsertAt(t, i, e) = InsertAt(t, i, e)
  /\ \A t, i : L!RemoveAt(t, i) = RemoveAt(t, i)
BY Zenon DEF Range, L!Range, InsertAt, L!InsertAt, RemoveAt, L!RemoveAt

LEMMA PushBackStep ==
  ASSUME NEW s, IsList(s, list, next, prev), DListType,
         NEW node \in Nodes, dlist_push_back(node)
  PROVE  DListType' /\ Linked' /\ L!PushBack(node)
<1>1. onList = s
  BY OnListIs
<1>2. node \notin Range(s) /\ out' = out
  BY <1>1 DEF dlist_push_back
<1>3. IsList(Append(s, node), list', next', prev') /\ DListType'
  BY <1>2, PushBackInserts, Zenon
<1>4. Linked' /\ onList' = Append(s, node)
  BY <1>3, NowLinked, Zenon
<1>5. L!PushBack(node)
  BY <1>1, <1>2, <1>4, SameOperators, Zenon DEF L!PushBack, L!Off
<1> QED BY <1>3, <1>4, <1>5, Zenon

(* The place of an ordered push.                                            *)
LEMMA BehindIs ==
  ASSUME NEW s \in Seq(Nodes), onList = s, NEW key \in Int, NEW p \in 0 .. Len(s),
         p > 0 => Key[s[p]] <= key,
         \A j \in p + 1 .. Len(s) : Key[s[j]] > key
  PROVE  L!Behind(key) = p
<1> DEFINE Place(i) == /\ i > 0 => Key[s[i]] <= key
                       /\ \A j \in i + 1 .. Len(s) : Key[s[j]] > key
<1>1. L!Behind(key) = CHOOSE i \in 0 .. Len(s) : Place(i)
  BY Zenon DEF L!Behind
<1>2. Place(p)
  OBVIOUS
<1>3. ASSUME NEW i \in 0 .. Len(s), Place(i) PROVE i = p
  <2>1. Len(s) \in Nat
    BY LenProperties
  <2>2. \A j \in 1 .. Len(s) : Key[s[j]] \in Int
    BY ElementOfSeq, DListAssumption
  <2>3. ~(i < p)
    <3>1. SUFFICES ASSUME i < p PROVE FALSE
      OBVIOUS
    <3>2. p \in i + 1 .. Len(s) /\ p > 0 /\ p \in 1 .. Len(s)
      BY <2>1, <3>1
    <3>3. Key[s[p]] > key /\ Key[s[p]] <= key
      BY <1>3, <3>2
    <3> QED BY <2>2, <3>2, <3>3
  <2>4. ~(p < i)
    <3>1. SUFFICES ASSUME p < i PROVE FALSE
      OBVIOUS
    <3>2. i \in p + 1 .. Len(s) /\ i > 0 /\ i \in 1 .. Len(s)
      BY <2>1, <3>1
    <3>3. Key[s[i]] > key /\ Key[s[i]] <= key
      BY <1>3, <3>2
    <3> QED BY <2>2, <3>2, <3>3
  <2> QED BY <2>1, <2>3, <2>4
<1> HIDE DEF Place
<1> QED BY <1>1, <1>2, <1>3

LEMMA PushOrderedStep ==
  ASSUME NEW s, IsList(s, list, next, prev), DListType,
         NEW node \in Nodes, dlist_push_ordered(node)
  PROVE  DListType' /\ Linked' /\ L!PushOrdered(node)
<1>1. onList = s /\ Chain(list.tail, next) = Reverse(s)
  BY OnListIs, Scans, Zenon
<1>2. s \in Seq(Nodes) /\ Len(s) \in Nat
  BY Positions, Zenon
<1>3. /\ Reverse(s) \in Seq(Nodes) /\ Len(Reverse(s)) = Len(s)
      /\ \A i \in 1 .. Len(s) : Reverse(s)[i] = s[Len(s) + 1 - i]
  BY <1>2, Reversed
<1> DEFINE Fits == {i \in DOMAIN Reverse(s) : FitsPast(Reverse(s)[i], node)}
<1>4. /\ node \notin Range(s) /\ out' = out
      /\ \/ \E i \in Fits : /\ \A k \in Fits : i <= k
                            /\ InsertPast(Reverse(s)[i], node)
         \/ Fits = {} /\ InsertAtHead(node)
  BY <1>1, Zenon DEF dlist_push_ordered
<1>5. DOMAIN Reverse(s) = 1 .. Len(s)
  BY <1>3, LenProperties
<1>6. Key[node] \in Int /\ \A j \in 1 .. Len(s) : Key[s[j]] \in Int
  BY <1>2, ElementOfSeq, DListAssumption
<1>7. \A j \in 1 .. Len(s) :
        Len(s) + 1 - j \in Fits <=> Key[s[j]] <= Key[node]
  <2> SUFFICES ASSUME NEW j \in 1 .. Len(s)
               PROVE  Len(s) + 1 - j \in Fits <=> Key[s[j]] <= Key[node]
    OBVIOUS
  <2>1. Len(s) + 1 - j \in 1 .. Len(s) /\ Len(s) + 1 - (Len(s) + 1 - j) = j
    BY <1>2
  <2>2. Reverse(s)[Len(s) + 1 - j] = s[j]
    BY <1>3, <2>1
  <2>3. Len(s) + 1 - j \in Fits <=> FitsPast(s[j], node)
    BY <1>5, <2>1, <2>2
  <2>4. FitsPast(s[j], node) <=> Key[s[j]] <= Key[node]
    BY <1>6 DEF FitsPast, compare
  <2> QED BY <2>3, <2>4
<1>8. Fits \subseteq 1 .. Len(s)
  BY <1>5
<1> HIDE DEF Fits
<1> DEFINE Done(p) == /\ IsList(InsertAt(s, p + 1, node), list', next', prev')
                      /\ list' \in [head : Pointers, tail : Pointers, count : Nat]
                      /\ next' \in [Nodes -> Pointers]
                      /\ prev' \in [Nodes -> Pointers]
                      /\ L!Behind(Key[node]) = p
<1>9. ASSUME NEW i \in Fits, \A k \in Fits : i <= k, InsertPast(Reverse(s)[i], node)
      PROVE  \E p \in 0 .. Len(s) : Done(p)
  <2> DEFINE p == Len(s) + 1 - i
  <2>1. p \in 1 .. Len(s) /\ Len(s) + 1 - p = i
    BY <1>2, <1>8
  <2>2. Reverse(s)[i] = s[p]
    BY <1>3, <1>8
  <2>3. Key[s[p]] <= Key[node]
    BY <1>7, <2>1
  <2>4. ASSUME NEW j \in p + 1 .. Len(s) PROVE Key[s[j]] > Key[node]
    <3>1. j \in 1 .. Len(s) /\ ~(i <= Len(s) + 1 - j)
      BY <1>2, <1>8
    <3>2. ~(Key[s[j]] <= Key[node])
      BY <1>7, <1>9, <3>1
    <3> QED BY <1>6, <3>1, <3>2
  <2> HIDE DEF p
  <2>5. InsertPast(s[p], node)
    BY <1>9, <2>2
  <2>6. /\ IsList(InsertAt(s, p + 1, node), list', next', prev')
        /\ list' \in [head : Pointers, tail : Pointers, count : Nat]
        /\ next' \in [Nodes -> Pointers] /\ prev' \in [Nodes -> Pointers]
    BY <1>4, <2>1, <2>5, InsertPastInserts, Zenon
  <2>7. p \in 0 .. Len(s)
    BY <1>2, <2>1
  <2>8. L!Behind(Key[node]) = p
    BY <1>1, <1>2, <1>6, <2>3, <2>4, <2>7, BehindIs
  <2> QED BY <2>6, <2>7, <2>8, Zenon
<1>10. ASSUME Fits = {}, InsertAtHead(node)
       PROVE  \E p \in 0 .. Len(s) : Done(p)
  <2>1. /\ IsList(InsertAt(s, 1, node), list', next', prev')
        /\ list' \in [head : Pointers, tail : Pointers, count : Nat]
        /\ next' \in [Nodes -> Pointers] /\ prev' \in [Nodes -> Pointers]
    BY <1>4, <1>10, InsertAtHeadInserts, Zenon
  <2>2. \A j \in 0 + 1 .. Len(s) : Key[s[j]] > Key[node]
    <3>1. \A j \in 1 .. Len(s) : ~(Key[s[j]] <= Key[node])
      BY <1>7, <1>10
    <3> QED BY <1>6, <3>1
  <2>3. 0 \in 0 .. Len(s)
    BY <1>2
  <2>4. L!Behind(Key[node]) = 0
    BY <1>1, <1>2, <1>6, <2>2, <2>3, BehindIs
  <2>5. 0 + 1 = 1
    OBVIOUS
  <2> QED BY <2>1, <2>3, <2>4, <2>5
<1>11. PICK p \in 0 .. Len(s) : Done(p)
  BY <1>4, <1>9, <1>10, Zenon
<1>12. Linked' /\ onList' = InsertAt(s, p + 1, node)
  BY <1>11, NowLinked, Zenon
<1>13. DListType'
  BY <1>4, <1>11 DEF DListType
<1>14. L!PushOrdered(node)
  BY <1>1, <1>4, <1>11, <1>12, SameOperators, Zenon DEF L!PushOrdered, L!Off
<1> QED BY <1>12, <1>13, <1>14, Zenon

LEMMA PopStep ==
  ASSUME NEW s, IsList(s, list, next, prev), DListType, dlist_pop_front
  PROVE  DListType' /\ Linked' /\ L!PopFront
<1>1. onList = s
  BY OnListIs
<1>2. s \in Seq(Nodes) /\ Len(s) = list.count /\ Len(s) \in Nat
  BY Positions, Zenon
<1>3. CASE list.count = 0
  <2>1. out' = NULL /\ UNCHANGED <<list, next, prev>>
    BY <1>3 DEF dlist_pop_front
  <2>2. IsList(s, list', next', prev')
    BY <2>1
  <2>3. Linked' /\ onList' = s
    BY <2>2, NowLinked, Zenon
  <2>4. s = <<>>
    BY <1>2, <1>3
  <2>5. L!PopFront
    BY <1>1, <2>1, <2>3, <2>4 DEF L!PopFront
  <2>6. DListType'
    BY <2>1 DEF DListType, Pointers
  <2> QED BY <2>3, <2>5, <2>6, Zenon
<1>4. CASE list.count # 0
  <2>1. /\ s # <<>> /\ out' = Head(s)
        /\ IsList(Tail(s), list', next', prev') /\ DListType'
    BY <1>4, PopRemoves, Zenon
  <2>2. Linked' /\ onList' = Tail(s)
    BY <2>1, NowLinked, Zenon
  <2>3. L!PopFront
    BY <1>1, <2>1, <2>2, Zenon DEF L!PopFront
  <2> QED BY <2>1, <2>2, <2>3, Zenon
<1> QED BY <1>3, <1>4, Zenon

LEMMA RemoveStep ==
  ASSUME NEW s, IsList(s, list, next, prev), DListType,
         NEW node \in Nodes, dlist_remove_node(node)
  PROVE  DListType' /\ Linked' /\ L!TakeOut(node)
<1>1. onList = s
  BY OnListIs
<1>2. node \in Range(s) /\ Unlink(node) /\ out' = out
  BY <1>1 DEF dlist_remove_node
<1>3. s \in Seq(Nodes) /\ DOMAIN s = 1 .. Len(s)
  BY Positions, LenProperties
<1>4. PICK k \in 1 .. Len(s) : s[k] = node
  BY <1>2, <1>3, Zenon DEF Range
<1>5. /\ IsList(RemoveAt(s, k), list', next', prev')
      /\ list' \in [head : Pointers, tail : Pointers, count : Nat]
      /\ next' \in [Nodes -> Pointers] /\ prev' \in [Nodes -> Pointers]
  BY <1>2, <1>4, UnlinkRemoves, Zenon
<1>6. Linked' /\ onList' = RemoveAt(s, k)
  BY <1>5, NowLinked, Zenon
<1>7. DListType'
  BY <1>2, <1>5 DEF DListType
<1>8. L!TakeOut(node)
  BY <1>1, <1>2, <1>3, <1>4, <1>6, SameOperators, Zenon DEF L!TakeOut
<1> QED BY <1>6, <1>7, <1>8, Zenon

LEMMA RemoveBySampleStep ==
  ASSUME NEW s, IsList(s, list, next, prev), DListType,
         NEW sample \in Nodes, dlist_remove_by_sample(sample)
  PROVE  DListType' /\ Linked' /\ L!RemoveBySample(Key[sample])
<1>1. onList = s
  BY OnListIs
<1>2. /\ s \in Seq(Nodes) /\ Len(s) \in Nat /\ DOMAIN s = 1 .. Len(s)
      /\ \A i \in 1 .. Len(s) : s[i] \in Nodes
  BY Positions, LenProperties
<1> DEFINE Like == {i \in DOMAIN s : compare(s[i], sample) = 0}
<1>3. \/ \E i \in Like : /\ \A k \in Like : i <= k
                         /\ Unlink(s[i])
                         /\ out' = s[i]
      \/ Like = {} /\ out' = NULL /\ UNCHANGED <<list, next, prev>>
  BY <1>1, Zenon DEF dlist_remove_by_sample
<1>4. \A i \in 1 .. Len(s) : i \in Like <=> Key[s[i]] = Key[sample]
  BY <1>2, DListAssumption DEF compare
<1>5. Like \subseteq 1 .. Len(s)
  BY <1>2
<1> HIDE DEF Like
<1>6. ASSUME NEW i \in Like, \A k \in Like : i <= k, Unlink(s[i]), out' = s[i]
      PROVE  DListType' /\ Linked' /\ L!RemoveBySample(Key[sample])
  <2>1. i \in 1 .. Len(s)
    BY <1>5
  <2>2. /\ IsList(RemoveAt(s, i), list', next', prev')
        /\ list' \in [head : Pointers, tail : Pointers, count : Nat]
        /\ next' \in [Nodes -> Pointers] /\ prev' \in [Nodes -> Pointers]
    BY <1>6, <2>1, UnlinkRemoves, Zenon
  <2>3. Linked' /\ onList' = RemoveAt(s, i)
    BY <2>2, NowLinked, Zenon
  <2>4. out' \in Pointers
    BY <1>2, <1>6, <2>1 DEF Pointers
  <2>5. DListType'
    BY <2>2, <2>4 DEF DListType
  <2>6. \A j \in 1 .. i - 1 : Key[s[j]] # Key[sample]
    <3> SUFFICES ASSUME NEW j \in 1 .. i - 1 PROVE Key[s[j]] # Key[sample]
      OBVIOUS
    <3>1. j \in 1 .. Len(s) /\ ~(i <= j)
      BY <1>2, <2>1
    <3>2. j \notin Like
      BY <1>6, <3>1
    <3> QED BY <1>4, <3>1, <3>2
  <2>7. L!RemoveBySample(Key[sample])
    <3>1. i \in DOMAIN s /\ Key[s[i]] = Key[sample]
      BY <1>2, <1>4, <2>1
    <3> QED BY <1>1, <1>6, <2>3, <2>6, <3>1, SameOperators, Zenon DEF L!RemoveBySample
  <2> QED BY <2>3, <2>5, <2>7, Zenon
<1>7. ASSUME Like = {}, out' = NULL, UNCHANGED <<list, next, prev>>
      PROVE  DListType' /\ Linked' /\ L!RemoveBySample(Key[sample])
  <2>1. IsList(s, list', next', prev')
    BY <1>7
  <2>2. Linked' /\ onList' = s
    BY <2>1, NowLinked, Zenon
  <2>3. \A i \in DOMAIN s : Key[s[i]] # Key[sample]
    BY <1>2, <1>4, <1>7
  <2>4. L!RemoveBySample(Key[sample])
    BY <1>1, <1>7, <2>2, <2>3, Zenon DEF L!RemoveBySample
  <2>5. DListType'
    BY <1>7 DEF DListType, Pointers
  <2> QED BY <2>2, <2>4, <2>5, Zenon
<1> QED BY <1>3, <1>6, <1>7, Zenon

-----------------------------------------------------------------------------
(* The inductive invariant: what Linked says of the two ends, of both       *)
(* chains and of the count is each needed by some operation.                *)
ListInv == DListType /\ Linked

LEMMA ListStarts == DListInit => ListInv /\ L!Init
<1> SUFFICES ASSUME DListInit PROVE ListInv /\ L!Init
  OBVIOUS
<1>1. IsList(<<>>, list, next, prev)
  BY DEF DListInit, IsList, IsInjective, At
<1>2. Linked
  BY <1>1, LinkedIs DEF IsList
<1>3. onList = <<>>
  BY <1>1, OnListIs
<1>4. L!Init
  BY <1>3 DEF DListInit, L!Init
<1>5. DListType
  BY DEF DListInit, DListType, Pointers
<1> QED BY <1>2, <1>4, <1>5 DEF ListInv

LEMMA ListSteps ==
  ListInv /\ [DListNext]_dlist => ListInv' /\ [L!Next]_<<onList, out>>
<1> SUFFICES ASSUME ListInv, [DListNext]_dlist
             PROVE  ListInv' /\ [L!Next]_<<onList, out>>
  OBVIOUS
<1>0. DListType /\ Linked
  BY DEF ListInv
<1>1. PICK s \in Seq(Nodes) : IsList(s, list, next, prev)
  BY <1>0, LinkedIs
<1>2. ASSUME dlist_pop_front
      PROVE  DListType' /\ Linked' /\ L!Next
  BY <1>0, <1>1, <1>2, PopStep, Zenon DEF L!Next
<1>3. ASSUME NEW node \in Nodes, dlist_push_back(node)
      PROVE  DListType' /\ Linked' /\ L!Next
  BY <1>0, <1>1, <1>3, PushBackStep, Zenon DEF L!Next
<1>4. ASSUME NEW node \in Nodes, dlist_push_ordered(node)
      PROVE  DListType' /\ Linked' /\ L!Next
  BY <1>0, <1>1, <1>4, PushOrderedStep, Zenon DEF L!Next
<1>5. ASSUME NEW node \in Nodes, dlist_remove_node(node)
      PROVE  DListType' /\ Linked' /\ L!Next
  BY <1>0, <1>1, <1>5, RemoveStep, Zenon DEF L!Next
<1>6. ASSUME NEW node \in Nodes, dlist_remove_by_sample(node)
      PROVE  DListType' /\ Linked' /\ L!Next
  BY <1>0, <1>1, <1>6, RemoveBySampleStep, Zenon DEF L!Next
<1>7. ASSUME UNCHANGED dlist
      PROVE  DListType' /\ Linked' /\ UNCHANGED <<onList, out>>
  <2>1. list' = list /\ next' = next /\ prev' = prev /\ out' = out
    BY <1>7 DEF dlist
  <2>2. IsList(s, list', next', prev')
    BY <1>1, <2>1
  <2>3. Linked' /\ onList' = s
    BY <2>2, NowLinked, Zenon
  <2>4. onList = s
    BY <1>1, OnListIs
  <2>5. DListType'
    BY <1>0, <2>1 DEF DListType, Pointers
  <2> QED BY <2>1, <2>3, <2>4, <2>5
<1> QED BY <1>2, <1>3, <1>4, <1>5, <1>6, <1>7, Zenon DEF DListNext, ListInv

(* The pointers always lead to nodes, and count, which is unsigned, is      *)
(* never taken below zero.                                                  *)
THEOREM PointersAreGood == DListSpec => []DListType
<1>1. DListInit => ListInv
  BY ListStarts
<1>2. ListInv /\ [DListNext]_dlist => ListInv'
  BY ListSteps
<1>3. ListInv => DListType
  BY DEF ListInv
<1> QED BY <1>1, <1>2, <1>3, PTL DEF DListSpec

(* Whatever is done to the list and whatever was in the memory of its       *)
(* nodes, the chain of prev and the chain of next have the same nodes in    *)
(* opposite orders, no node twice, and as many as count says.               *)
THEOREM ChainsAgree == DListSpec => []Linked
<1>1. DListInit => ListInv
  BY ListStarts
<1>2. ListInv /\ [DListNext]_dlist => ListInv'
  BY ListSteps
<1>3. ListInv => Linked
  BY DEF ListInv
<1> QED BY <1>1, <1>2, <1>3, PTL DEF DListSpec

(* The pointers of dlist.c implement a sequence of nodes.                   *)
THEOREM ImplementsSequence == DListSpec => ListSpec
<1>1. DListInit => ListInv /\ L!Init
  BY ListStarts
<1>2. ListInv /\ [DListNext]_dlist => ListInv'
  BY ListSteps
<1>3. ListInv /\ [DListNext]_dlist => [L!Next]_<<onList, out>>
  BY ListSteps
<1> QED BY <1>1, <1>2, <1>3, PTL DEF DListSpec, ListSpec, L!Spec
=============================================================================
