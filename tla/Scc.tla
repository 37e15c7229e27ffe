-------------------------------- MODULE Scc --------------------------------
(***************************************************************************)
(* sccs_in_topological_order (src/src/graph/traversals.rs), Tarjan's       *)
(* algorithm with a call stack of its own, and what is built on it: the    *)
(* choice of the pre-sentinels (find_pre_sentinels, src/src/graph/         *)
(* reverse.rs).                                                            *)
(***************************************************************************)
EXTENDS ControlFlowGraph

VARIABLES graph,
          roots,                 \* start nodes not tried yet
          call_stack,            \* pairs <<node, index of the next successor>>
          index_of, lowlink,     \* maps, defined for the visited nodes
          next_index,
          scc_stack,             \* Tarjan's stack; on_scc_stack is its set
          sccs                   \* components in the order they are emitted

sccVars == <<graph, roots, call_stack, index_of, lowlink, next_index, scc_stack, sccs>>

Init ==
    /\ roots = <<entry_node(graph)>> \o graph.nodes
    /\ call_stack = <<>> /\ scc_stack = <<>> /\ sccs = <<>>
    /\ index_of = <<>> /\ lowlink = <<>> /\ next_index = 0

Done == call_stack = <<>> /\ roots = <<>>
TopNode == call_stack[Len(call_stack)][1]
TopIndex == call_stack[Len(call_stack)][2]
Bumped == [call_stack EXCEPT ![Len(call_stack)][2] = @ + 1]
OnSccStack(n) == \E i \in 1..Len(scc_stack) : scc_stack[i] = n
Lower(a, b) == IF a < b THEN a ELSE b

\* The bookkeeping on the first visit of a node.
Enter(node, calls) ==
    /\ index_of' = index_of @@ (node :> next_index)
    /\ lowlink' = lowlink @@ (node :> next_index)
    /\ next_index' = next_index + 1
    /\ scc_stack' = Append(scc_stack, node)
    /\ call_stack' = Append(calls, <<node, 1>>)

NextRoot ==
    /\ call_stack = <<>> /\ roots # <<>>
    /\ roots' = Tail(roots)
    /\ IF Head(roots) \in DOMAIN index_of
         THEN UNCHANGED <<call_stack, index_of, lowlink, next_index, scc_stack>>
         ELSE Enter(Head(roots), call_stack)
    /\ UNCHANGED <<graph, sccs>>

\* Mutant: a successor whose component is complete lowers the link as well.
VisitSuccessor_AnyVisited ==
    /\ call_stack # <<>> /\ TopIndex <= Len(graph.succ[TopNode])
    /\ LET succ == graph.succ[TopNode][TopIndex]
       IN  IF succ \in DOMAIN index_of
             THEN /\ lowlink' = [lowlink EXCEPT ![TopNode] = Lower(@, index_of[succ])]
                  /\ call_stack' = Bumped
                  /\ UNCHANGED <<index_of, next_index, scc_stack>>
             ELSE Enter(succ, Bumped)
    /\ UNCHANGED <<graph, roots, sccs>>

VisitSuccessor ==
    /\ call_stack # <<>> /\ TopIndex <= Len(graph.succ[TopNode])
    /\ LET succ == graph.succ[TopNode][TopIndex]
       IN  IF succ \in DOMAIN index_of
             THEN /\ lowlink' = IF OnSccStack(succ)
                                  THEN [lowlink EXCEPT ![TopNode] = Lower(@, index_of[succ])]
                                  ELSE lowlink
                  /\ call_stack' = Bumped
                  /\ UNCHANGED <<index_of, next_index, scc_stack>>
             ELSE Enter(succ, Bumped)
    /\ UNCHANGED <<graph, roots, sccs>>

\* The component popped for its root: from the top of scc_stack down to it.
Popped(node) == Reverse(SubSeq(scc_stack, CHOOSE i \in 1..Len(scc_stack) : scc_stack[i] = node,
                               Len(scc_stack)))

IsCyclic(nodes) == Len(nodes) > 1 \/ nodes[1] \in Succs(graph, nodes[1])

\* The parent on the call stack takes over the link, component or not.
FinishNode ==
    /\ call_stack # <<>> /\ TopIndex > Len(graph.succ[TopNode])
    /\ LET node == TopNode
           calls == Front(call_stack)
       IN  /\ IF lowlink[node] = index_of[node]
                THEN /\ sccs' = Append(sccs, [nodes |-> Popped(node),
                                              is_cyclic |-> IsCyclic(Popped(node))])
                     /\ scc_stack' = SubSeq(scc_stack, 1, Len(scc_stack) - Len(Popped(node)))
                ELSE UNCHANGED <<sccs, scc_stack>>
           /\ call_stack' = calls
           /\ lowlink' = IF calls = <<>> THEN lowlink
                         ELSE [lowlink EXCEPT ![Last(calls)[1]] = Lower(@, lowlink[node])]
    /\ UNCHANGED <<graph, roots, index_of, next_index>>

Next == NextRoot \/ VisitSuccessor \/ FinishNode

\* What is returned, and the position of a node's component in it.
sccs_in_topological_order == Reverse(sccs)
Members(c) == {c.nodes[i] : i \in 1..Len(c.nodes)}
scc_of(n) == CHOOSE i \in DOMAIN sccs : n \in Members(sccs_in_topological_order[i])

(***************************************************************************)
(* reverse.rs                                                              *)
(***************************************************************************)

is_sink_scc(i) == \A n \in Members(sccs_in_topological_order[i]) :
                     \A s \in Succs(graph, n) : scc_of(s) = i

\* The last node in graph order of every sink component, in component order.
find_pre_sentinels ==
    LET last(i) == Last(SelectSeq(graph.nodes, LAMBDA n : scc_of(n) = i))
    IN  FlattenSeq([i \in DOMAIN sccs |-> IF is_sink_scc(i) THEN <<last(i)>> ELSE <<>>])

(***************************************************************************)
(* Properties                                                              *)
(***************************************************************************)

\* The components partition the nodes, and two nodes share one exactly when each
\* reaches the other.
ComponentsAreSccs ==
    /\ \A n \in NodeSet(graph) : Cardinality({i \in DOMAIN sccs : n \in Members(sccs[i])}) = 1
    /\ \A m, n \in NodeSet(graph) : (scc_of(m) = scc_of(n)) <=> SameCycle(graph, m, n)

\* An edge between components goes forward in the returned order, and is_cyclic
\* tells whether a component holds a cycle.
CondensationOrder ==
    /\ \A n \in NodeSet(graph) : \A s \in Succs(graph, n) : scc_of(n) <= scc_of(s)
    /\ \A i \in DOMAIN sccs : \A n \in Members(sccs[i]) : sccs[i].is_cyclic <=> OnCycle(graph, n)

\* What "strongly connected components in topological order" promises, for nodes
\* that the entry does not reach as well.
ComponentsCorrect == Done => ComponentsAreSccs /\ CondensationOrder

\* The documented choice is made: of each endless loop that is never left and of
\* each exit one node, its last.  Then the sentinel reaches every node of the
\* reverse graph, as compute_post_dominator_tree asserts.
PreSentinelsCover ==
    Done => /\ ToSet(find_pre_sentinels) = ToSet(PreSentinelsDef(graph))
            /\ IsInjective(find_pre_sentinels)
            /\ Reach(ReverseOf(graph, find_pre_sentinels), Sentinel) = NodeSet(graph) \cup {Sentinel}
=============================================================================
