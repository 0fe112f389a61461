--------------------------- MODULE DblLinkedList ---------------------------
(***************************************************************************)
(* HAL_DblLinkedList and HAL_DblLinkedNode down to their pointers.  A list *)
(* is two sentinels that share a word of memory: a head with a next        *)
(* pointer (m_first), a tail with a previous one (m_last), and m_null,     *)
(* which is the head's previous pointer and the tail's next one.           *)
(***************************************************************************)
EXTENDS LinkedLists, FiniteSets

CONSTANTS
    List,     \* the lists of a program, g_HAL_Completion_List and the like
    Node,     \* the nodes their clients own
    Null

Head_(l) == <<l, "head">>
Tail_(l) == <<l, "tail">>
Sentinel == List \X {"head", "tail"}
Cell == Node \cup Sentinel

ASSUME ListAssumption ==
    Null \notin Cell /\ Node \cap Sentinel = {} /\ IsFiniteSet(Node)

VARIABLES
    next,     \* m_nextNode, and m_first and m_null of the sentinels
    prev      \* m_prevNode, and m_last and m_null

vars == <<next, prev>>

\* Both Initialize functions.
Init ==
    /\ next = [c \in Cell |-> IF c \in {Head_(l) : l \in List}
                              THEN Tail_(c[1]) ELSE Null]
    /\ prev = [c \in Cell |-> IF c \in {Tail_(l) : l \in List}
                              THEN Head_(c[1]) ELSE Null]

\* A store through a pointer, unless it is null.
Store(field, p, value) == IF p = Null THEN field ELSE [field EXCEPT ![p] = value]

NextWithout(node) == Store(next, prev[node], next[node])
PrevWithout(node) == Store(prev, next[node], prev[node])

\* HAL_DblLinkedNode::Unlink.
Unlink(node) ==
    /\ next' = [NextWithout(node) EXCEPT ![node] = Null]
    /\ prev' = [PrevWithout(node) EXCEPT ![node] = Null]

\* Mutant: the node's old neighbours still point at it.
Insert_NotRemoved(before, after, node) ==
    /\ next' = [next EXCEPT ![node] = after, ![before] = node]
    /\ prev' = [prev EXCEPT ![node] = before, ![after] = node]

\* RemoveFromList, which leaves the node's own pointers, then Insert.
Insert(before, after, node) ==
    /\ next' = [NextWithout(node) EXCEPT ![node] = after, ![before] = node]
    /\ prev' = [PrevWithout(node) EXCEPT ![node] = before, ![after] = node]

\* The neighbour is read once the node has left its old place.
InsertBeforeNode(node, nodeNew) ==
    IF node = nodeNew THEN UNCHANGED vars
                      ELSE Insert(PrevWithout(nodeNew)[node], node, nodeNew)

\* Mutant: the neighbour is read before the node has left its place.
InsertAfterNode_Stale(node, nodeNew) ==
    IF node = nodeNew THEN UNCHANGED vars ELSE Insert(node, next[node], nodeNew)

InsertAfterNode(node, nodeNew) ==
    IF node = nodeNew THEN UNCHANGED vars
                      ELSE Insert(node, NextWithout(nodeNew)[node], nodeNew)

LinkAtFront(l, node) == InsertAfterNode(Head_(l), node)
LinkAtBack(l, node)  == InsertBeforeNode(Tail_(l), node)

\* FirstValidNode is null when the list's first cell is its tail.
ExtractFirstNode(l) ==
    LET node == next[Head_(l)]
    IN  IF next[node] = Null THEN UNCHANGED vars ELSE Unlink(node)

ExtractLastNode(l) ==
    LET node == prev[Tail_(l)]
    IN  IF prev[node] = Null THEN UNCHANGED vars ELSE Unlink(node)

IsLinked(node) == next[node] # Null

\* Callers insert next to a node that is linked.
Next ==
    \/ \E node \in Node : Unlink(node)
    \/ \E node, nodeNew \in Node :
          /\ IsLinked(node)
          /\ InsertBeforeNode(node, nodeNew) \/ InsertAfterNode(node, nodeNew)
    \/ \E l \in List, node \in Node : LinkAtFront(l, node) \/ LinkAtBack(l, node)
    \/ \E l \in List : ExtractFirstNode(l) \/ ExtractLastNode(l)

Spec == Init /\ [][Next]_vars

-----------------------------------------------------------------------------
(***************************************************************************)
(* Properties.                                                             *)
(***************************************************************************)

\* The cells met on the way from a cell along a field, up to a sentinel.
\* (The bound on the steps only matters for pointers that go round.)
Walk(field, from) ==
    LET step[k \in 0 .. Cardinality(Node)] ==
          IF k = 0 THEN <<field[from]>>
          ELSE LET s == step[k - 1] IN
               IF Last(s) \in Node THEN Append(s, field[Last(s)]) ELSE s
    IN  Front(step[Cardinality(Node)])

Forward(l)  == Walk(next, Head_(l))
Backward(l) == Walk(prev, Tail_(l))

\* The two directions of a list agree, although a removal from one list and
\* an insertion into another (or the same place) store into each other's
\* cells, and although RemoveFromList leaves the node's pointers dangling;
\* and IsLinked() tells whether a node is in a list: in one at most.
WellLinked ==
    /\ \A l \in List : /\ Backward(l) = Reverse(Forward(l))
                       /\ next[Tail_(l)] = Null /\ prev[Head_(l)] = Null
    /\ \A node \in Node :
          Cardinality({l \in List : node \in ToSet(Forward(l))})
              = (IF IsLinked(node) THEN 1 ELSE 0)

\* The pointers implement the sequences that the other modules use: both
\* start empty, and each operation does to the cells what its namesake does to
\* the sequences, whichever list the node comes from.
NL == INSTANCE NodeLists WITH lists <- [l \in List |-> Forward(l)]

ImplementsSequences ==
    /\ NL!Init
    /\ [][/\ \A node \in Node : Unlink(node) => NL!TakeOut(node)
          /\ \A node, nodeNew \in Node : IsLinked(node) =>
                /\ InsertBeforeNode(node, nodeNew) => NL!PutBefore(node, nodeNew)
                /\ InsertAfterNode(node, nodeNew) => NL!PutAfter(node, nodeNew)
          /\ \A l \in List, node \in Node :
                /\ LinkAtFront(l, node) => NL!LinkFront(node, l)
                /\ LinkAtBack(l, node) => NL!LinkBack(node, l)
          /\ \A l \in List : /\ ExtractFirstNode(l) => NL!TakeFirst(l)
                             /\ ExtractLastNode(l) => NL!TakeLast(l)]_vars
=============================================================================
