-------------------------------- MODULE Fifo --------------------------------
(***************************************************************************)
(* What a bounded queue promises: elements come out in the order in which  *)
(* they were put in, and never more than Capacity are inside.  Queue       *)
(* implements it in a ring of memory.                                      *)
(***************************************************************************)
EXTENDS Naturals, Sequences

CONSTANTS Elem, Capacity

VARIABLES
  items,  \* the elements inside, the oldest first
  out     \* the element taken out last

Init == items = <<>> /\ out \in Elem

Put(e) ==
  /\ Len(items) < Capacity
  /\ items' = Append(items, e)
  /\ UNCHANGED out

Get ==
  /\ items # <<>>
  /\ out' = Head(items)
  /\ items' = Tail(items)

Next == Get \/ \E e \in Elem : Put(e)

Spec == Init /\ [][Next]_<<items, out>>
=============================================================================
