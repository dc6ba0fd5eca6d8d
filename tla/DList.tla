------------------------------- MODULE DList --------------------------------
(***************************************************************************)
(* The doubly linked list of dlist.c, pointer by pointer.  next leads to   *)
(* the head, prev to the tail.  One list and the nodes that may be on it;  *)
(* the callers push nodes that are on no list and remove nodes that are on *)
(* this one.  compare() is the one of watchdog.c: an earlier key comes     *)
(* before a later one.                                                     *)
(*                                                                         *)
(* A definition whose name ends in an underscore and a remark is a mutated *)
(* form of the one that follows it; nothing uses it.                       *)
(***************************************************************************)
EXTENDS Integers, SequencesExt

CONSTANTS
  Nodes,
  Key,    \* what compare() compares
  NULL

ASSUME DListAssumption ==
  IsFiniteSet(Nodes) /\ NULL \notin Nodes /\ Key \in [Nodes -> Int]

VARIABLES
  list,        \* the DList: its head, its tail, its count
  next, prev,  \* the DListNode of each node
  out          \* the node returned by the last operation that takes one

dlist == <<list, next, prev, out>>

Pointers == Nodes \cup {NULL}

(* dlist_create; nodes come with whatever was in their memory. *)
DListInit ==
  /\ list = [head |-> NULL, tail |-> NULL, count |-> 0]
  /\ next \in [Nodes -> Pointers] /\ prev \in [Nodes -> Pointers]
  /\ out = NULL

compare(inlist, outlist) == Key[outlist] - Key[inlist]

(* What a pointer to the i-th node of a chain holds. *)
At(chain, i) == IF i \in DOMAIN chain THEN chain[i] ELSE NULL

Follows(chain, first, follow) ==
  /\ first = At(chain, 1)
  /\ \A i \in DOMAIN chain : follow[chain[i]] = At(chain, i + 1)

(* The loops of dlist.c: from a node on, until NULL. *)
Chain(first, follow) ==
  CHOOSE chain \in SeqOf(Nodes, Cardinality(Nodes)) : Follows(chain, first, follow)

(* The nodes on the list, the head first. *)
onList == Chain(list.head, prev)

-----------------------------------------------------------------------------

dlist_push_back(node) ==
  /\ node \notin Range(onList)
  /\ prev' = [p \in Nodes |-> IF p = node THEN NULL
                              ELSE IF p = list.tail /\ list.count # 0 THEN node
                              ELSE prev[p]]
  /\ next' = [next EXCEPT ![node] = list.tail]
  /\ list' = [head |-> IF list.count = 0 THEN node ELSE list.head,
              tail |-> node,
              count |-> list.count + 1]
  /\ UNCHANGED out

(* Behind the node current. *)
InsertPast(current, node) ==
  /\ next' = [p \in Nodes |-> IF p = node THEN current
                              ELSE IF p = prev[current] THEN node
                              ELSE next[p]]
  /\ prev' = [prev EXCEPT ![node] = prev[current], ![current] = node]
  /\ list' = [head |-> list.head,
              tail |-> IF prev[current] = NULL THEN node ELSE list.tail,
              count |-> list.count + 1]

InsertAtHead(node) ==
  /\ next' = [p \in Nodes |-> IF p = node THEN NULL
                              ELSE IF p = list.head THEN node
                              ELSE next[p]]
  /\ prev' = [prev EXCEPT ![node] = list.head]
  /\ list' = [head |-> node,
              tail |-> IF list.count = 0 THEN node ELSE list.tail,
              count |-> list.count + 1]

FitsPast_strictly(current, node) == compare(current, node) > 0
FitsPast(current, node) == compare(current, node) >= 0

(* The scan goes from the tail to the head. *)
dlist_push_ordered(node) ==
  LET scan == Chain(list.tail, next)
      Fits == {i \in DOMAIN scan : FitsPast(scan[i], node)}
  IN  /\ node \notin Range(onList)
      /\ \/ \E i \in Fits : /\ \A k \in Fits : i <= k
                            /\ InsertPast(scan[i], node)
         \/ Fits = {} /\ InsertAtHead(node)
      /\ UNCHANGED out

dlist_pop_front ==
  \/ list.count = 0 /\ out' = NULL /\ UNCHANGED <<list, next, prev>>
  \/ /\ list.count > 0
     /\ out' = list.head
     /\ next' = [p \in Nodes |-> IF p \in {list.head, prev[list.head]} THEN NULL
                                 ELSE next[p]]
     /\ prev' = [prev EXCEPT ![list.head] = NULL]
     /\ list' = [head |-> prev[list.head],
                 tail |-> IF list.count = 1 THEN NULL ELSE list.tail,
                 count |-> list.count - 1]

Unlink_keepsTail(node) ==
  /\ next' = [p \in Nodes |-> IF p = node THEN NULL
                              ELSE IF p = prev[node] THEN next[node]
                              ELSE next[p]]
  /\ prev' = [p \in Nodes |-> IF p = node THEN NULL
                              ELSE IF p = next[node] THEN prev[node]
                              ELSE prev[p]]
  /\ list' = [head |-> IF next[node] = NULL THEN prev[node] ELSE list.head,
              tail |-> list.tail,
              count |-> list.count - 1]

(* What dlist_remove_node does to a node of the list. *)
Unlink(node) ==
  /\ next' = [p \in Nodes |-> IF p = node THEN NULL
                              ELSE IF p = prev[node] THEN next[node]
                              ELSE next[p]]
  /\ prev' = [p \in Nodes |-> IF p = node THEN NULL
                              ELSE IF p = next[node] THEN prev[node]
                              ELSE prev[p]]
  /\ list' = [head |-> IF next[node] = NULL THEN prev[node] ELSE list.head,
              tail |-> IF prev[node] = NULL THEN next[node] ELSE list.tail,
              count |-> list.count - 1]

dlist_remove_node(node) ==
  node \in Range(onList) /\ Unlink(node) /\ UNCHANGED out

(* The scan goes from the head to the tail. *)
dlist_remove_by_sample(sample) ==
  LET Like == {i \in DOMAIN onList : compare(onList[i], sample) = 0}
  IN  \/ \E i \in Like : /\ \A k \in Like : i <= k
                         /\ Unlink(onList[i])
                         /\ out' = onList[i]
      \/ Like = {} /\ out' = NULL /\ UNCHANGED <<list, next, prev>>

DListNext ==
  \/ dlist_pop_front
  \/ \E node \in Nodes :
       \/ dlist_push_back(node) \/ dlist_push_ordered(node)
       \/ dlist_remove_node(node) \/ dlist_remove_by_sample(node)

DListSpec == DListInit /\ [][DListNext]_dlist

-----------------------------------------------------------------------------

(* The pointers lead to nodes, the unsigned count never wraps. *)
DListType ==
  /\ list \in [head : Pointers, tail : Pointers, count : Nat]
  /\ next \in [Nodes -> Pointers] /\ prev \in [Nodes -> Pointers]
  /\ out \in Pointers

(***************************************************************************)
(* The two chains of pointers have the same nodes in opposite orders, no   *)
(* node twice, and count counts them: an empty list is one that looks      *)
(* empty from both ends.                                                   *)
(***************************************************************************)
Linked ==
  \E chain \in SeqOf(Nodes, Cardinality(Nodes)) :
    /\ IsInjective(chain) /\ Len(chain) = list.count
    /\ Follows(chain, list.head, prev)
    /\ Follows(Reverse(chain), list.tail, next)

L == INSTANCE NodeList WITH items <- onList

(* Seen from its head the list is a sequence, whatever is done to it.      *)
ListSpec == L!Spec
=============================================================================
