----------------------------- MODULE PostOrder -----------------------------
(***************************************************************************)
(* post_order_by_component and post_order_walk_component                   *)
(* (src/src/graph/traversals.rs): a depth-first walk with a stack of its   *)
(* own, started at every node that no earlier walk has seen.  One step is  *)
(* one turn of a loop.  topological_order_by_component runs the same walk  *)
(* and reverses each component.                                            *)
(***************************************************************************)
EXTENDS ControlFlowGraph

CONSTANT Graphs                  \* the graphs the walk is started on

ASSUME GraphsAssumption == \A g \in Graphs : IsGraph(g)

VARIABLES graph,
          root,                  \* position of the next start node in graph.nodes
          seen_nodes,
          stack,                 \* pairs <<node, index of the next successor>>
          po,                    \* post-order of the component being walked
          po_by_component

walkVars == <<graph, root, seen_nodes, stack, po, po_by_component>>

WalkInit ==
    /\ root = 1 /\ seen_nodes = {} /\ stack = <<>>
    /\ po = <<>> /\ po_by_component = <<>>

Walking == stack # <<>>
WalkDone == ~ Walking /\ root > Len(graph.nodes)

\* The node on top of the stack and the position of its next successor.
TopNode == stack[Len(stack)][1]
TopIndex == stack[Len(stack)][2]
Bumped == [stack EXCEPT ![Len(stack)][2] = @ + 1]

\* Mutant: a node that was seen already is tried for ever.
StartComponent_Stuck ==
    /\ ~ Walking /\ root <= Len(graph.nodes)
    /\ LET node == graph.nodes[root]
       IN  IF node \in seen_nodes
             THEN UNCHANGED <<root, seen_nodes, stack>>
             ELSE /\ seen_nodes' = seen_nodes \cup {node}
                  /\ stack' = <<<<node, 1>>>>
                  /\ UNCHANGED root
    /\ po' = <<>>
    /\ UNCHANGED <<graph, po_by_component>>

\* The loop over graph.nodes: a node seen already adds no component.
StartComponent ==
    /\ ~ Walking /\ root <= Len(graph.nodes)
    /\ LET node == graph.nodes[root]
       IN  IF node \in seen_nodes
             THEN root' = root + 1 /\ UNCHANGED <<seen_nodes, stack>>
             ELSE /\ seen_nodes' = seen_nodes \cup {node}
                  /\ stack' = <<<<node, 1>>>>
                  /\ UNCHANGED root
    /\ po' = <<>>
    /\ UNCHANGED <<graph, po_by_component>>

VisitSuccessor ==
    /\ Walking /\ TopIndex <= Len(graph.succ[TopNode])
    /\ LET succ == graph.succ[TopNode][TopIndex]
       IN  IF succ \in seen_nodes
             THEN stack' = Bumped /\ UNCHANGED seen_nodes
             ELSE /\ seen_nodes' = seen_nodes \cup {succ}
                  /\ stack' = Append(Bumped, <<succ, 1>>)
    /\ UNCHANGED <<graph, root, po, po_by_component>>

\* Mutant: the finished node goes to the front of the order.
FinishNode_Prepends ==
    /\ Walking /\ TopIndex > Len(graph.succ[TopNode])
    /\ po' = <<TopNode>> \o po
    /\ stack' = Front(stack)
    /\ IF stack' = <<>>
         THEN po_by_component' = Append(po_by_component, po') /\ root' = root + 1
         ELSE UNCHANGED <<po_by_component, root>>
    /\ UNCHANGED <<graph, seen_nodes>>

\* All successors are done: the node is next in post-order.  The walk ends with
\* the bottom of the stack, and its component is kept.
FinishNode ==
    /\ Walking /\ TopIndex > Len(graph.succ[TopNode])
    /\ po' = Append(po, TopNode)
    /\ stack' = Front(stack)
    /\ IF stack' = <<>>
         THEN po_by_component' = Append(po_by_component, po') /\ root' = root + 1
         ELSE UNCHANGED <<po_by_component, root>>
    /\ UNCHANGED <<graph, seen_nodes>>

WalkNext == StartComponent \/ VisitSuccessor \/ FinishNode

post_order == FlattenSeq(po_by_component)
topological_order_by_component == [c \in DOMAIN po_by_component |-> Reverse(po_by_component[c])]

(***************************************************************************)
(* Properties                                                              *)
(***************************************************************************)

\* At any moment each discovered node is in exactly one place: once on the stack
\* or once in the order so far; and the stack spells a path of the graph.
EachNodeOnce ==
    /\ LET placed == FlattenSeq(po_by_component) \o (IF Walking THEN po ELSE <<>>)
                        \o [i \in 1..Len(stack) |-> stack[i][1]]
       IN  IsInjective(placed) /\ {placed[i] : i \in 1..Len(placed)} = seen_nodes
    /\ \A i \in 1..(Len(stack) - 1) :
          stack[i + 1][1] = graph.succ[stack[i][1]][stack[i][2] - 1]

\* A node comes before a successor of its only if both lie on a common cycle.
SuccessorsFirst ==
    \A i, j \in 1..Len(post_order) :
       i < j /\ post_order[j] \in Succs(graph, post_order[i])
          => SameCycle(graph, post_order[i], post_order[j])

\* The first component is what the entry reaches, and its reverse starts with it.
EntryComponent ==
    LET first == topological_order_by_component[1]
    IN  /\ first[1] = entry_node(graph)
        /\ {first[i] : i \in 1..Len(first)} = Reach(graph, entry_node(graph))

\* What "post-order" promises its users: every node is ordered once, successors
\* first as far as cycles allow, so that uses come before definitions on acyclic
\* paths; and the component that compute_dominator_tree takes is the entry's.
PostOrderCorrect ==
    /\ EachNodeOnce
    /\ WalkDone => Len(post_order) = Len(graph.nodes) /\ SuccessorsFirst /\ EntryComponent
=============================================================================
