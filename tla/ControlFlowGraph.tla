-------------------------- MODULE ControlFlowGraph --------------------------
(***************************************************************************)
(* Control-flow graphs as the algorithms of src/src/graph/ see them        *)
(* through the trait ControlFlowGraph: nodes in an order (of a region, its *)
(* blocks), successors in an order and with repetitions, and the first     *)
(* node as entry.  A graph is a record [nodes |-> .., succ |-> ..].        *)
(*                                                                         *)
(* The reverse of a graph (src/src/graph/reverse.rs) is a graph too: a     *)
(* virtual node, the sentinel, is its entry and leads to the pre-sentinels *)
(* of the original graph.                                                  *)
(*                                                                         *)
(* The second half is the vocabulary in which the algorithms' results are  *)
(* specified: reachability, cycles and dominance defined by paths.         *)
(***************************************************************************)
EXTENDS Naturals, FiniteSets, SequencesExt

NodeSet(g) == {g.nodes[i] : i \in 1..Len(g.nodes)}
Succs(g, n) == {g.succ[n][i] : i \in 1..Len(g.succ[n])}
entry_node(g) == g.nodes[1]

\* At least the entry, each node once, and edges between nodes only.
IsGraph(g) ==
    /\ g.nodes # <<>> /\ g.nodes \in Seq(NodeSet(g)) /\ IsInjective(g.nodes)
    /\ \A n \in NodeSet(g) : g.succ[n] \in Seq(NodeSet(g))

\* predecessors: one for each edge, so with repetitions, in some order.
Preds(g, n) == {p \in NodeSet(g) : n \in Succs(g, p)}
num_predecessors(g, n) ==
    Cardinality(UNION {{<<p, i>> : i \in {k \in 1..Len(g.succ[p]) : g.succ[p][k] = n}} : p \in NodeSet(g)})

\* All graphs on 1..n whose nodes have successor lists from the set Lists.
GraphsOver(n, Lists) ==
    {[nodes |-> [i \in 1..n |-> i], succ |-> f] : f \in [1..n -> Lists]}

Sentinel == 0

\* ReverseGraph: a node leads to its predecessors, once for every edge.
ReverseOf(g, pre_sentinels) ==
    [original |-> g,
     nodes |-> <<Sentinel>> \o g.nodes,
     succ |-> [n \in NodeSet(g) \cup {Sentinel} |->
                 IF n = Sentinel THEN pre_sentinels
                 ELSE FlattenSeq([i \in DOMAIN g.nodes |->
                         LET p == g.nodes[i]
                         IN  [k \in 1..Cardinality({e \in DOMAIN g.succ[p] : g.succ[p][e] = n}) |-> p]])]]

(***************************************************************************)
(* Reference notions                                                       *)
(***************************************************************************)

\* The nodes on paths that start in the set From and never enter Avoid.
ReachAvoiding(g, From, Avoid) ==
    LET upto[k \in 0..Len(g.nodes)] ==
          IF k = 0 THEN From \ Avoid
          ELSE LET prev == upto[k - 1]
               IN  prev \cup ((UNION {Succs(g, n) : n \in prev}) \ Avoid)
    IN  upto[Len(g.nodes)]

Reach(g, n) == ReachAvoiding(g, {n}, {})
SameCycle(g, m, n) == n \in Reach(g, m) /\ m \in Reach(g, n)

\* There is a path of at least one edge from n to n.
OnCycle(g, n) == \E s \in Succs(g, n) : n \in Reach(g, s)

\* Every path from the entry to n passes through d.
DominatesDef(g, d, n) ==
    n \notin ReachAvoiding(g, {entry_node(g)}, {d})

\* Reference: the last node, in graph order, of every set of mutually reachable
\* nodes that no edge leaves.  An exit is such a set, and so is an endless loop.
PreSentinelsDef(g) ==
    SelectSeq(g.nodes, LAMBDA n :
       /\ \A m \in Reach(g, n) : n \in Reach(g, m)
       /\ \A m \in Reach(g, n) : \E i, j \in DOMAIN g.nodes : i <= j /\ g.nodes[i] = m /\ g.nodes[j] = n)
=============================================================================
