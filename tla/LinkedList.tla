----------------------------- MODULE LinkedList -----------------------------
(***************************************************************************)
(* The intrusive doubly linked lists of src/src/linked_list.rs: the        *)
(* operations of a basic block and the basic blocks of a region.           *)
(*                                                                         *)
(* A node carries next, prev and container links (trait LinkedList); a     *)
(* container carries head and tail links (trait ContainsLinkedList).       *)
(* Option::None is the constant None.  The variable items is auxiliary: it *)
(* is the abstract list of OrderedLists that the links are to represent,   *)
(* and no action reads it to decide what the links become.                 *)
(*                                                                         *)
(* The assertions on the caller ("must be unlinked before relinking",      *)
(* "Mark node itself is unlinked", "Attempt to remove unlinked node") are  *)
(* guards: the code panics before it has changed anything.  The assertions *)
(* on the list itself are the invariant InternalAsserts.                   *)
(***************************************************************************)
EXTENDS Naturals, SequencesExt

CONSTANTS Node, Container, None

ASSUME NoneAssumption == None \notin Node /\ None \notin Container

VARIABLES next, prev, container,   \* the links of a node
          head, tail,              \* the links of a container
          items                    \* auxiliary: the list represented

links == <<next, prev, container, head, tail>>
listVars == <<next, prev, container, head, tail, items>>

Lists == INSTANCE OrderedLists

Init ==
    /\ next = [n \in Node |-> None]
    /\ prev = [n \in Node |-> None]
    /\ container = [n \in Node |-> None]
    /\ head = [c \in Container |-> None]
    /\ tail = [c \in Container |-> None]
    /\ items = [c \in Container |-> <<>>]

\* Mutant: the assertion forgets the container.
Unlinked_NoContainer(n) == prev[n] = None /\ next[n] = None

\* The assertion at the start of every insertion.
Unlinked(n) == prev[n] = None /\ next[n] = None /\ container[n] = None

\* Position of a linked node in the list of its container.
IndexOf(n) == CHOOSE i \in 1..Len(items[container[n]]) : items[container[n]][i] = n

\* Mutant: a node inserted after the tail does not become the tail.
insert_after_KeepsTail(n, mark) ==
    /\ Unlinked(n)
    /\ container[mark] # None
    /\ LET c == container[mark]
           nx == next[mark]
       IN  /\ prev' = IF nx # None THEN [prev EXCEPT ![nx] = n, ![n] = mark]
                                  ELSE [prev EXCEPT ![n] = mark]
           /\ next' = [next EXCEPT ![mark] = n, ![n] = nx]
           /\ container' = [container EXCEPT ![n] = c]
           /\ items' = [items EXCEPT ![c] = InsertAt(@, IndexOf(mark) + 1, n)]
    /\ UNCHANGED <<head, tail>>

insert_after(n, mark) ==
    /\ Unlinked(n)
    /\ container[mark] # None
    /\ LET c == container[mark]
           nx == next[mark]
       IN  /\ IF nx # None
                THEN prev' = [prev EXCEPT ![nx] = n, ![n] = mark] /\ UNCHANGED tail
                ELSE prev' = [prev EXCEPT ![n] = mark] /\ tail' = [tail EXCEPT ![c] = n]
           /\ next' = [next EXCEPT ![mark] = n, ![n] = nx]
           /\ container' = [container EXCEPT ![n] = c]
           /\ items' = [items EXCEPT ![c] = InsertAt(@, IndexOf(mark) + 1, n)]
    /\ UNCHANGED head

insert_before(n, mark) ==
    /\ Unlinked(n)
    /\ container[mark] # None
    /\ LET c == container[mark]
           pv == prev[mark]
       IN  /\ IF pv # None
                THEN next' = [next EXCEPT ![pv] = n, ![n] = mark] /\ UNCHANGED head
                ELSE next' = [next EXCEPT ![n] = mark] /\ head' = [head EXCEPT ![c] = n]
           /\ prev' = [prev EXCEPT ![mark] = n, ![n] = pv]
           /\ container' = [container EXCEPT ![n] = c]
           /\ items' = [items EXCEPT ![c] = InsertAt(@, IndexOf(mark), n)]
    /\ UNCHANGED tail

\* The code leaves prev of the new head alone: Unlinked makes it None.
insert_at_front(n, c) ==
    /\ Unlinked(n)
    /\ IF head[c] # None
         THEN prev' = [prev EXCEPT ![head[c]] = n] /\ UNCHANGED tail
         ELSE tail' = [tail EXCEPT ![c] = n] /\ UNCHANGED prev
    /\ next' = [next EXCEPT ![n] = head[c]]
    /\ head' = [head EXCEPT ![c] = n]
    /\ container' = [container EXCEPT ![n] = c]
    /\ items' = [items EXCEPT ![c] = InsertAt(@, 1, n)]

insert_at_back(n, c) ==
    /\ Unlinked(n)
    /\ IF tail[c] # None
         THEN next' = [next EXCEPT ![tail[c]] = n] /\ UNCHANGED head
         ELSE head' = [head EXCEPT ![c] = n] /\ UNCHANGED next
    /\ prev' = [prev EXCEPT ![n] = tail[c]]
    /\ tail' = [tail EXCEPT ![c] = n]
    /\ container' = [container EXCEPT ![n] = c]
    /\ items' = [items EXCEPT ![c] = InsertAt(@, Len(@) + 1, n)]

\* Mutant: the unlinked node keeps its own next and prev.
unlink_KeepsLinks(n) ==
    /\ container[n] # None
    /\ LET c == container[n]
           nx == next[n]
           pv == prev[n]
       IN  /\ IF nx # None
                THEN prev' = [prev EXCEPT ![nx] = pv] /\ UNCHANGED tail
                ELSE tail' = [tail EXCEPT ![c] = pv] /\ UNCHANGED prev
           /\ IF pv # None
                THEN next' = [next EXCEPT ![pv] = nx] /\ UNCHANGED head
                ELSE head' = [head EXCEPT ![c] = nx] /\ UNCHANGED next
           /\ container' = [container EXCEPT ![n] = None]
           /\ items' = [items EXCEPT ![c] = RemoveAt(@, IndexOf(n))]

unlink(n) ==
    /\ container[n] # None
    /\ LET c == container[n]
           nx == next[n]
           pv == prev[n]
       IN  /\ IF nx # None
                THEN prev' = [prev EXCEPT ![nx] = pv, ![n] = None] /\ UNCHANGED tail
                ELSE prev' = [prev EXCEPT ![n] = None] /\ tail' = [tail EXCEPT ![c] = pv]
           /\ IF pv # None
                THEN next' = [next EXCEPT ![pv] = nx, ![n] = None] /\ UNCHANGED head
                ELSE next' = [next EXCEPT ![n] = None] /\ head' = [head EXCEPT ![c] = nx]
           /\ container' = [container EXCEPT ![n] = None]
           /\ items' = [items EXCEPT ![c] = RemoveAt(@, IndexOf(n))]

Next == \/ \E n, mark \in Node : insert_after(n, mark) \/ insert_before(n, mark)
        \/ \E n \in Node, c \in Container : insert_at_front(n, c) \/ insert_at_back(n, c)
        \/ \E n \in Node : unlink(n)

Spec == Init /\ [][Next]_listVars

(***************************************************************************)
(* Properties                                                              *)
(***************************************************************************)

\* Every link is None or an object of its kind (the fields of BlockLinks,
\* RegionLinks, OpsInBlock and BlocksInRegion).
TypeOK ==
    /\ next \in [Node -> Node \cup {None}]
    /\ prev \in [Node -> Node \cup {None}]
    /\ container \in [Node -> Container \cup {None}]
    /\ head \in [Container -> Node \cup {None}]
    /\ tail \in [Container -> Node \cup {None}]
    /\ items \in [Container -> Seq(Node)]

\* The links of the i-th node of container c are those of its neighbours in
\* the list, and the node is in no second place.
NodeCoupled(c, i) ==
    LET s == items[c]
        n == s[i]
    IN  /\ container[n] = c
        /\ prev[n] = IF i = 1 THEN None ELSE s[i - 1]
        /\ next[n] = IF i = Len(s) THEN None ELSE s[i + 1]
        /\ \A j \in 1..Len(s) : s[j] = n => j = i

EndsCoupled(c) ==
    /\ head[c] = IF Len(items[c]) = 0 THEN None ELSE items[c][1]
    /\ tail[c] = IF Len(items[c]) = 0 THEN None ELSE items[c][Len(items[c])]

\* The links represent exactly the abstract lists: after any sequence of
\* insertions and removals through linked_list.rs, following next from head or
\* prev from tail walks the same list, no node is lost, shared between two
\* containers or on a cycle, and a node outside every list has no links left.
Coupled ==
    /\ \A c \in Container : EndsCoupled(c) /\ \A i \in 1..Len(items[c]) : NodeCoupled(c, i)
    /\ \A n \in Node :
          IF container[n] = None
            THEN next[n] = None /\ prev[n] = None
            ELSE \E i \in 1..Len(items[container[n]]) : items[container[n]][i] = n

\* The assertions of linked_list.rs on the list itself never fail, whichever
\* operation runs next: the neighbour of a mark points back at it, the mark
\* without a neighbour is the end of its container (insert_after,
\* insert_before), the ends of a container have no outer neighbour
\* (insert_at_front, insert_at_back), and a node without container has no
\* neighbours (is_linked).
InternalAsserts ==
    /\ \A m \in Node : container[m] # None =>
          /\ IF next[m] # None THEN prev[next[m]] = m ELSE tail[container[m]] = m
          /\ IF prev[m] # None THEN next[prev[m]] = m ELSE head[container[m]] = m
    /\ \A c \in Container :
          /\ head[c] # None => prev[head[c]] = None
          /\ tail[c] # None => next[tail[c]] = None
          /\ (head[c] = None) <=> (tail[c] = None)
    /\ \A n \in Node : container[n] = None => next[n] = None /\ prev[n] = None

\* Every operation of linked_list.rs is one insertion or removal of the
\* abstract lists: the other nodes keep their order.
ImplementsLists == Lists!Spec
=============================================================================
