---------------------------- MODULE LinkedLists ----------------------------
(***************************************************************************)
(* HAL_DblLinkedList, the intrusive doubly linked list every PAL queue is  *)
(* built on (completions, continuations, serial ports, tones), as a        *)
(* sequence of nodes.  The pointer-level list is module DblLinkedList,     *)
(* which is shown to implement these operators.                            *)
(***************************************************************************)
EXTENDS SequencesExt, Integers

\* Mutant: the node keeps its old place.
Unlinked_Forgotten(list, node) == list

\* HAL_DblLinkedNode::Unlink and RemoveFromList: a node that is in no list
\* leaves every list as it is.
Unlinked(list, node) == RemoveFirst(list, node)

\* InsertBeforeNode at position i of the list that is left once the node
\* has been taken out of the place it had; i = Len + 1 is the tail sentinel.
Inserted(list, i, node) == InsertAt(list, i, node)

\* LinkAtBack: insert before the tail, moving a node that was linked already.
LinkedAtBack(list, node) == Append(Unlinked(list, node), node)

\* LinkAtFront: insert after the head sentinel.
LinkedAtFront(list, node) == <<node>> \o Unlinked(list, node)

\* FirstNode of a list that is not empty: FirstValidNode.
FirstNode(list) == list[1]

\* No node is linked twice: there is one pair of pointers in a node.
NoRepeats(list) == \A i, j \in DOMAIN list : list[i] = list[j] => i = j
=============================================================================
