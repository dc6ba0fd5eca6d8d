------------------------------- MODULE Queue --------------------------------
(***************************************************************************)
(* The ring buffer of queue.c, used as a thread pool uses it: an element   *)
(* is pushed when the queue is not full and popped when it is not empty    *)
(* (thread_pool_add_request and thread_pool_runner test that, under the    *)
(* pool's lock, which makes each operation one step).                      *)
(*                                                                         *)
(* The buffer is indexed by slots, elemsize is one.                        *)
(*                                                                         *)
(* A definition whose name ends in an underscore and a remark is a mutated *)
(* form of the one that follows it; nothing uses it.                       *)
(***************************************************************************)
EXTENDS Integers, Sequences

CONSTANTS
  Elem,     \* what the slots hold
  MaxLen    \* the length queue_create is called with

ASSUME MaxLenAssumption == MaxLen \in Nat \ {0}

VARIABLES
  buffer, head, tail, count,  \* the Queue
  popped                      \* where queue_pop_front copies an element to

vars == <<buffer, head, tail, count, popped>>

Slots == 0..MaxLen - 1

(* queue_create: malloc leaves the buffer as it is. *)
Init ==
  /\ buffer \in [Slots -> Elem]
  /\ head = 0 /\ tail = 0 /\ count = 0
  /\ popped \in Elem

queue_is_empty == count <= 0

queue_is_full_offByOne == count > MaxLen
queue_is_full == count >= MaxLen

NextSlot(slot) == (slot + 1) % MaxLen

(***************************************************************************)
(* The push of thread_pool_add_request.  By itself queue_push_back would   *)
(* overwrite a slot of a full queue and leave head where it is.            *)
(***************************************************************************)
queue_push_back(e) ==
  /\ ~queue_is_full
  /\ buffer' = [buffer EXCEPT ![tail] = e]
  /\ tail' = NextSlot(tail)
  /\ count' = IF count < MaxLen THEN count + 1 ELSE count
  /\ UNCHANGED <<head, popped>>

queue_pop_front_keepsHead ==
  /\ ~queue_is_empty
  /\ popped' = buffer[head]
  /\ count' = count - 1
  /\ UNCHANGED <<buffer, head, tail>>

(* The pop of thread_pool_runner. *)
queue_pop_front ==
  /\ ~queue_is_empty
  /\ popped' = buffer[head]
  /\ head' = NextSlot(head)
  /\ count' = count - 1
  /\ UNCHANGED <<buffer, tail>>

Next == queue_pop_front \/ \E e \in Elem : queue_push_back(e)

Spec == Init /\ [][Next]_vars

-----------------------------------------------------------------------------

(* The indices stay inside the buffer. *)
TypeOK ==
  /\ buffer \in [Slots -> Elem]
  /\ head \in Slots /\ tail \in Slots
  /\ count \in 0..MaxLen
  /\ popped \in Elem

(***************************************************************************)
(* tail is count slots past head.  A push to a full queue would break this *)
(* for good: head would point at the newest element.                       *)
(***************************************************************************)
TailIsPastCount == tail = (head + count) % MaxLen

(* The elements inside, the oldest first. *)
contents == [i \in 1..count |-> buffer[(head + i - 1) % MaxLen]]

F == INSTANCE Fifo WITH Capacity <- MaxLen, items <- contents, out <- popped

(* Whatever the slots held before, however the indices wrap, the ring is a *)
(* first-in-first-out queue of MaxLen elements.                            *)
FifoSpec == F!Spec
=============================================================================
