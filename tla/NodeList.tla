------------------------------ MODULE NodeList ------------------------------
(***************************************************************************)
(* What the list of dlist.c promises: a sequence of nodes, the head first, *)
(* that nodes are pushed to, at the end or by their key, and taken from.   *)
(***************************************************************************)
EXTENDS Integers, SequencesExt

CONSTANTS Nodes, Key, NULL

VARIABLES
  items,  \* the nodes on the list
  out     \* what the last operation that takes a node returned

Init == items = <<>> /\ out = NULL

Off == Nodes \ Range(items)

(* How many nodes an ordered push of key k leaves before the new one: up   *)
(* to the last whose key is at most k.                                     *)
Behind(k) ==
  CHOOSE i \in 0..Len(items) :
    /\ i > 0 => Key[items[i]] <= k
    /\ \A j \in i + 1..Len(items) : Key[items[j]] > k

PushBack(n) ==
  n \in Off /\ items' = Append(items, n) /\ UNCHANGED out

PushOrdered(n) ==
  /\ n \in Off
  /\ items' = InsertAt(items, Behind(Key[n]) + 1, n)
  /\ UNCHANGED out

PopFront ==
  IF items = <<>> THEN items' = items /\ out' = NULL
                  ELSE items' = Tail(items) /\ out' = Head(items)

TakeOut(n) ==
  /\ \E i \in DOMAIN items : items[i] = n /\ items' = RemoveAt(items, i)
  /\ UNCHANGED out

RemoveBySample(k) ==
  \/ \E i \in DOMAIN items :
       /\ Key[items[i]] = k
       /\ \A j \in 1..i - 1 : Key[items[j]] # k
       /\ items' = RemoveAt(items, i)
       /\ out' = items[i]
  \/ /\ \A i \in DOMAIN items : Key[items[i]] # k
     /\ out' = NULL
     /\ UNCHANGED items

Next ==
  \/ PopFront
  \/ \E n \in Nodes :
       PushBack(n) \/ PushOrdered(n) \/ TakeOut(n) \/ RemoveBySample(Key[n])

Spec == Init /\ [][Next]_<<items, out>>
=============================================================================
