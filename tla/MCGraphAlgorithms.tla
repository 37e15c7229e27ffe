-------------------------- MODULE MCGraphAlgorithms --------------------------
(* The graph algorithms on small graphs: dominators and the loop tree of a *)
(* graph, or its components, post-dominators and control dependence.       *)
EXTENDS LoopTree, PostDominance

\* Every graph of three nodes with at most two successors each, in both orders and repeated.
AllGraphs3 == GraphsOver(3, UNION {[1..k -> 1..3] : k \in 0..2})

\* Of four nodes with at most two different successors each, the graphs that branch at the
\* entry: loops nested, side by side, and with two entries.
Ascending(nodes) == SetToSortSeq(nodes, LAMBDA x, y : x < y)
SimpleGraphs4 == GraphsOver(4, {Ascending(nodes) : nodes \in UNION {kSubset(k, 1..4) : k \in 0..2}})
BranchGraphs4 == {g \in SimpleGraphs4 : g.succ[1] = <<2, 3>>}

MCGraphs == AllGraphs3 \cup BranchGraphs4

VARIABLE part                    \* "loops", or "dependence"

postOnly == <<original, sccVars>>
loopOnly == <<dfsVars, foundVars>>
graphVars == <<part, loopVars, postOnly>>

Init ==
    \/ /\ part = "loops" /\ LoopInit
       /\ original = 0 /\ roots = 0 /\ call_stack = 0 /\ index_of = 0 /\ lowlink = 0
       /\ next_index = 0 /\ scc_stack = 0 /\ sccs = 0
    \/ /\ part = "dependence" /\ PostInit
       /\ dfs_stack = <<0>> /\ pre_order_number = 0 /\ post_order_number = 0 /\ pre_order_counter = 1
       /\ post_order_counter = 0 /\ loops = 0 /\ loop_parent = 0 /\ block_parent = 0 /\ header_pos = 0

Next ==
    /\ \/ part = "loops" /\ LoopNext /\ UNCHANGED postOnly
       \/ part = "dependence" /\ PostNext /\ UNCHANGED loopOnly
    /\ UNCHANGED part

Spec == Init /\ [][Next]_graphVars /\ WF_graphVars(Next)

\* scc.rs, dominance.rs: the components are those of mutual reachability, the pre-sentinels
\* chosen in them are reached from everywhere, and post-dominance, which rests on them,
\* answers as its definition by paths does.
PostTreeCorrect ==
    part = "dependence" => PostDominatorsCorrect /\ (Reversed \/ (ComponentsCorrect /\ PreSentinelsCover))

\* control_dependence.rs: so does control dependence.
ControlCorrect == part = "dependence" => DependenceCorrect

\* The walks end, on cyclic graphs too, and so do the passes over the nodes, which reach a
\* fixed point.
AllFinish == <>(IF part = "loops" THEN TreeDone ELSE Computed)
==============================================================================
