----------------------------- MODULE NodeLists -----------------------------
(***************************************************************************)
(* What HAL_DblLinkedList promises: sequences of nodes, no node in two     *)
(* places, and operations that move a node from wherever it is.            *)
(***************************************************************************)
EXTENDS LinkedLists

CONSTANTS List, Node

VARIABLE lists

vars == lists

Init == lists = [l \in List |-> <<>>]

\* A node leaves whatever list it is in.
Without(node) == [l \in List |-> Unlinked(lists[l], node)]

\* It is put next to another node, wherever that is.
PutAt(offset, node, nodeNew) ==
    IF node = nodeNew THEN UNCHANGED lists
    ELSE \E l \in List : \E i \in DOMAIN Without(nodeNew)[l] :
            /\ Without(nodeNew)[l][i] = node
            /\ lists' = [Without(nodeNew) EXCEPT
                           ![l] = Inserted(@, i + offset, nodeNew)]

PutBefore(node, nodeNew) == PutAt(0, node, nodeNew)
PutAfter(node, nodeNew) == PutAt(1, node, nodeNew)

LinkBack(node, l) ==
    lists' = [Without(node) EXCEPT ![l] = LinkedAtBack(@, node)]

LinkFront(node, l) ==
    lists' = [Without(node) EXCEPT ![l] = LinkedAtFront(@, node)]

TakeOut(node) == lists' = Without(node)

TakeFirst(l) == IF lists[l] = <<>> THEN UNCHANGED lists
                                   ELSE TakeOut(FirstNode(lists[l]))
TakeLast(l) == IF lists[l] = <<>> THEN UNCHANGED lists
                                  ELSE TakeOut(Last(lists[l]))
=============================================================================
