---------------------------- MODULE OrderedLists ----------------------------
(***************************************************************************)
(* What linked_list.rs promises: every container owns a finite sequence of *)
(* nodes, a node is in at most one place of at most one container, and an  *)
(* operation puts a free node at one position or takes one node out,       *)
(* leaving the relative order of all the others alone.                     *)
(***************************************************************************)
EXTENDS Naturals, SequencesExt

CONSTANTS Node,        \* Ptr<T: LinkedList>: operations, or basic blocks
          Container    \* Ptr<T::ContainerType>: blocks, or regions

VARIABLE items         \* items[c]: the nodes of container c, in order

Linked(n) == \E c \in Container : \E i \in 1..Len(items[c]) : items[c][i] = n

Init == items = [c \in Container |-> <<>>]

InsertNode(n, c, i) ==
    /\ ~ Linked(n)
    /\ items' = [items EXCEPT ![c] = InsertAt(@, i, n)]

RemoveNode(c, i) == items' = [items EXCEPT ![c] = RemoveAt(@, i)]

Next == \E c \in Container :
           \/ \E n \in Node : \E i \in 1..(Len(items[c]) + 1) : InsertNode(n, c, i)
           \/ \E i \in 1..Len(items[c]) : RemoveNode(c, i)

Spec == Init /\ [][Next]_items
=============================================================================
