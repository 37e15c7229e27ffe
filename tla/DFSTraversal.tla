---------------------------- MODULE DFSTraversal ----------------------------
(***************************************************************************)
(* DFSTraversal (src/src/graph/traversals.rs): the depth-first numbering   *)
(* of the nodes reachable from the entry, and the kinds of edges read off  *)
(* it.  The tree is the pair of maps pre and post, whose domain is the set *)
(* of discovered nodes; a post-order number is 0 until it is filled in.    *)
(***************************************************************************)
EXTENDS ControlFlowGraph

VARIABLES graph,
          stack,                 \* pairs <<node, index of the next successor>>
          pre_order_number, post_order_number,
          pre_order_counter, post_order_counter

dfsVars == <<graph, stack, pre_order_number, post_order_number,
             pre_order_counter, post_order_counter>>

Discovered == DOMAIN pre_order_number

\* dfs_walk up to its loop: the entry gets number 0.
Init ==
    /\ LET entry == entry_node(graph)
       IN  /\ stack = <<<<entry, 1>>>>
           /\ pre_order_number = [n \in {entry} |-> 0]
           /\ post_order_number = [n \in {entry} |-> 0]
    /\ pre_order_counter = 1 /\ post_order_counter = 0

Done == stack = <<>>
TopNode == stack[Len(stack)][1]
TopIndex == stack[Len(stack)][2]
Bumped == [stack EXCEPT ![Len(stack)][2] = @ + 1]

\* The map with an entry for one more node.
WithNode(f, node, v) == [n \in DOMAIN f \cup {node} |-> IF n = node THEN v ELSE f[n]]

VisitSuccessor ==
    /\ ~ Done /\ TopIndex <= Len(graph.succ[TopNode])
    /\ LET succ == graph.succ[TopNode][TopIndex]
       IN  IF succ \in Discovered
             THEN /\ stack' = Bumped
                  /\ UNCHANGED <<pre_order_number, post_order_number, pre_order_counter>>
             ELSE /\ stack' = Append(Bumped, <<succ, 1>>)
                  /\ pre_order_number' = WithNode(pre_order_number, succ, pre_order_counter)
                  /\ post_order_number' = WithNode(post_order_number, succ, 0)
                  /\ pre_order_counter' = pre_order_counter + 1
    /\ UNCHANGED <<graph, post_order_counter>>

FinishNode ==
    /\ ~ Done /\ TopIndex > Len(graph.succ[TopNode])
    /\ post_order_number' = [post_order_number EXCEPT ![TopNode] = post_order_counter]
    /\ post_order_counter' = post_order_counter + 1
    /\ stack' = Front(stack)
    /\ UNCHANGED <<graph, pre_order_number, pre_order_counter>>

Next == VisitSuccessor \/ FinishNode

\* DFSTraversal::new, once the walk is over.
reverse_post_order_number(n) == Cardinality(Discovered) - 1 - post_order_number[n]

\* edge_kind, with the outcome of its assertions.
edge_kind(from, to) ==
    LET pre(n) == pre_order_number[n]
        post(n) == post_order_number[n]
    IN  IF (pre(from) = pre(to)) # (post(from) = post(to)) THEN "panic"
        ELSE IF pre(from) = pre(to) THEN "Back"
        ELSE IF pre(from) < pre(to)
               THEN IF post(from) > post(to) THEN "Forward" ELSE "panic"
               ELSE IF post(from) < post(to) THEN "Back" ELSE "Cross"

(***************************************************************************)
(* Properties                                                              *)
(***************************************************************************)

\* post_order, reverse_post_order and pre_order index vectors by these numbers
\* and expect every place filled: the numbers of the reached nodes must be a
\* permutation of 0..len-1.
NumbersArePermutations ==
    /\ Discovered = Reach(graph, entry_node(graph))
    /\ LET places == 0..(Cardinality(Discovered) - 1)
       IN  /\ {pre_order_number[n] : n \in Discovered} = places
           /\ {post_order_number[n] : n \in Discovered} = places
           /\ {reverse_post_order_number(n) : n \in Discovered} = places

\* The assertions of edge_kind hold for every edge of the graph, and a back edge
\* leads to a node from which its source can be reached: it closes a cycle.
BackEdgesCloseCycles ==
    \A n \in Discovered : \A s \in Succs(graph, n) :
       /\ edge_kind(n, s) # "panic"
       /\ edge_kind(n, s) = "Back" => n \in Reach(graph, s)

\* Conversely no cycle is missed: along edges that are not back edges the reverse
\* post-order number grows, so every cycle holds a back edge.
CyclesHaveBackEdges ==
    \A n \in Discovered : \A s \in Succs(graph, n) :
       edge_kind(n, s) # "Back"
          => reverse_post_order_number(n) < reverse_post_order_number(s)

\* A finished traversal can be indexed by its numbers, and its back edges are
\* what closes the cycles of the graph: all of them and nothing else.
TraversalCorrect == Done => NumbersArePermutations /\ BackEdgesCloseCycles /\ CyclesHaveBackEdges
=============================================================================
