--------------------------- MODULE PostDominance ---------------------------
(***************************************************************************)
(* compute_post_dominator_tree and PDomTree (src/src/graph/dominance.rs):  *)
(* the components of the graph are computed, a pre-sentinel is chosen in   *)
(* each that no edge leaves, and the dominator tree of the reverse graph   *)
(* is built and its sentinel taken out; control dependence is read off it. *)
(***************************************************************************)
EXTENDS Dominance

VARIABLES original,              \* the graph; the variable graph is its reverse
          roots, call_stack, index_of, lowlink, next_index, scc_stack, sccs

sccVars == <<roots, call_stack, index_of, lowlink, next_index, scc_stack, sccs>>
postVars == <<original, roots, call_stack, index_of, lowlink, next_index, scc_stack, sccs,
              graph, root, seen_nodes, stack, po, po_by_component, dom, pos, changed, dominators_map>>

S == INSTANCE Scc WITH graph <- original

\* The reverse graph has no pre-sentinels until they are chosen.
PostInit ==
    /\ original \in Graphs /\ S!Init
    /\ graph = ReverseOf(original, <<>>) /\ TreeInit

Reversed == graph.succ[Sentinel] # <<>>

FindSccs == S!Next /\ UNCHANGED domVars

\* ReverseGraph::new.
MakeReverse ==
    /\ S!Done /\ ~ Reversed
    /\ graph' = ReverseOf(original, S!find_pre_sentinels)
    /\ UNCHANGED <<original, sccVars, root, seen_nodes, stack, po, po_by_component, treeVars>>

DominatorsOfReverse == Reversed /\ TreeNext /\ UNCHANGED <<original, sccVars>>

PostNext == FindSccs \/ MakeReverse \/ DominatorsOfReverse
PostSpec == PostInit /\ [][PostNext]_postVars

\* Without the sentinel, the children of the sentinel have no parent.
ipdom(n) == IF idom(n) = Sentinel THEN {} ELSE {idom(n)}

post_dominators(n) == SelectSeq(dominators(n), LAMBDA d : d # Sentinel)
post_dominates(p, n) == p \in ToSet(post_dominators(n))

\* None, when the sentinel is the nearest one.
nearest_common_post_dominator(m, n) ==
    LET common == SelectSeq(post_dominators(m), LAMBDA d : post_dominates(d, n))
    IN  IF common = <<>> THEN {} ELSE {common[1]}

(***************************************************************************)
(* compute_control_dependence and its queries                              *)
(* (src/src/graph/control_dependence.rs), on the finished tree.  An edge   *)
(* is a pair <<source, successor index>>.                                  *)
(***************************************************************************)
Edges == {<<b, k>> \in NodeSet(original) \X (1..Cardinality(NodeSet(original))) :
             k \in DOMAIN original.succ[b]}
Target(e) == original.succ[e[1]][e[2]]

\* Mutant: the walk includes the node at which it should stop.
edge_dependents_TooFar(e) ==
    LET chain == post_dominators(Target(e))
        stop == {k \in DOMAIN chain : chain[k] \in ipdom(e[1])}
    IN  IF stop = {} THEN chain ELSE SubSeq(chain, 1, CHOOSE k \in stop : TRUE)

\* The walk from the edge's target up to, and without, the immediate
\* post-dominator of its source.
edge_dependents(e) ==
    LET chain == post_dominators(Target(e))
        stop == {k \in DOMAIN chain : chain[k] \in ipdom(e[1])}
    IN  IF stop = {} THEN chain ELSE SubSeq(chain, 1, (CHOOSE k \in stop : TRUE) - 1)

controlling_edges(x) == {e \in Edges : x \in ToSet(edge_dependents(e))}
direct_controllers(x) == {e[1] : e \in controlling_edges(x)}
direct_dependents(b) == UNION {ToSet(edge_dependents(e)) : e \in {d \in Edges : d[1] = b}}

\* transitive_nodes: the set reached, extended until nothing is new.
transitive_controllers(x) ==
    LET upto[k \in 0..Cardinality(NodeSet(original))] ==
          IF k = 0 THEN direct_controllers(x)
          ELSE LET prev == upto[k - 1] IN prev \cup UNION {direct_controllers(y) : y \in prev}
    IN  upto[Cardinality(NodeSet(original))]

(***************************************************************************)
(* Properties, in terms of the original graph                              *)
(***************************************************************************)

\* Every way from n to a pre-sentinel passes through p.
PostDominatesDef(p, n) ==
    ReachAvoiding(original, {n}, {p}) \cap ToSet(graph.succ[Sentinel]) = {}

\* The nearest common post-dominator is one that all others post-dominate, and it
\* is missing only if there is no common one.
NearestCommonPost ==
    \A m, n \in NodeSet(original) :
       LET common == {p \in NodeSet(original) : PostDominatesDef(p, m) /\ PostDominatesDef(p, n)}
           nearest == nearest_common_post_dominator(m, n)
       IN  /\ nearest = {} <=> common = {}
           /\ \A c \in nearest : c \in common /\ \A p \in common : PostDominatesDef(p, c)

\* The tree has every node of the graph, reachable from its entry or not (the
\* code asserts it), and answers as the definition by paths does.
PostDominatorsCorrect ==
    Computed => /\ DOMAIN dominators_map = NodeSet(original) \cup {Sentinel}
                /\ \A p, n \in NodeSet(original) : post_dominates(p, n) <=> PostDominatesDef(p, n)
                /\ NearestCommonPost

\* The parts of Scc: see ComponentsCorrect and PreSentinelsCover there.
ComponentsCorrect == S!ComponentsCorrect
PreSentinelsCover == S!PreSentinelsCover

\* The walk cannot miss its stop and run past the sentinel (the code's expect).
WalkMeetsStop == \A e \in Edges : ipdom(e[1]) \subseteq ToSet(post_dominators(Target(e)))

\* A block is among its transitive controllers only if it controls itself, and
\* controllers are exactly the starts of chains of direct control.
TransitiveIsClosure ==
    LET N == NodeSet(original)
        direct == [x \in N |-> direct_controllers(x)]
        closed == {T \in SUBSET N : \A y \in T : direct[y] \subseteq T}
    IN  \A x \in N : LET t == transitive_controllers(x)
                     IN  /\ t \in closed /\ direct[x] \subseteq t
                         /\ \A T \in closed : direct[x] \subseteq T => t \subseteq T

\* The definition in the module documentation: X depends on the edge (B, S) when X
\* post-dominates S and does not strictly post-dominate B.  The walk that collects
\* the dependents ends where it should, and the transitive queries are closures.
DependenceCorrect ==
    Computed => /\ WalkMeetsStop /\ TransitiveIsClosure
                /\ \A e \in Edges, x \in NodeSet(original) :
                      x \in ToSet(edge_dependents(e))
                         <=> PostDominatesDef(x, Target(e)) /\ (x = e[1] \/ ~ PostDominatesDef(x, e[1]))
=============================================================================
