---------------------------- MODULE MCContainers ----------------------------
(* The two containers for TLC, a queue of three slots and a list of up to  *)
(* three nodes, two of which compare equal.  Neither knows of the other: a *)
(* behaviour uses one of them and leaves the other as it was created.      *)
EXTENDS Queue, DList

(* As many elements as slots, so that every order can be told apart. *)
Numbers == {1, 2, 3}

ThreeNodes == 1..3
TwoEqual == <<5, 7, 5>>

VARIABLE used

ContainersInit ==
  /\ Init
  /\ DListInit
  /\ \/ /\ used = "queue"
        /\ next = [node \in Nodes |-> NULL] /\ prev = next
     \/ /\ used = "list"
        /\ buffer = [slot \in Slots |-> 1] /\ popped = 1

ContainersNext ==
  \/ used = "queue" /\ Next /\ UNCHANGED <<dlist, used>>
  \/ used = "list" /\ DListNext /\ UNCHANGED <<vars, used>>

ContainersSpec == ContainersInit /\ [][ContainersNext]_<<vars, dlist, used>>
=============================================================================
