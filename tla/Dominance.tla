----------------------------- MODULE Dominance -----------------------------
(***************************************************************************)
(* compute_dominator_tree and DomFrontierMap (src/src/graph/dominance.rs): *)
(* the iterative algorithm of Cooper, Harvey and Kennedy, run after the    *)
(* walk of PostOrder.  One step is one node of one pass.  A block's        *)
(* predecessors come in the order of its use list, so in any order.        *)
(* compute_post_dominator_tree is this algorithm on a reverse graph.       *)
(***************************************************************************)
EXTENDS PostOrder

VARIABLES dom,                   \* dom[i]: position in rpo of the immediate dominator
          pos,                   \* the position in rpo to be handled next
          changed,
          dominators_map         \* the tree: sets of at most one parent

domVars == <<graph, root, seen_nodes, stack, po, po_by_component, dom, pos, changed, dominators_map>>
treeVars == <<dom, pos, changed, dominators_map>>

None == 0

rpo == topological_order_by_component[1]
rpo_index(n) == CHOOSE i \in DOMAIN rpo : rpo[i] = n

TreeInit == WalkInit /\ dom = <<>> /\ pos = 0 /\ changed = TRUE /\ dominators_map = <<>>

\* One turn of the walk of topological_order_by_component.
Order == WalkNext /\ UNCHANGED treeVars

Start ==
    /\ WalkDone /\ dom = <<>>
    /\ dom' = [i \in DOMAIN rpo |-> IF i = 1 THEN 1 ELSE None]
    /\ pos' = 2 /\ changed' = FALSE
    /\ UNCHANGED <<walkVars, dominators_map>>

\* The positions that have a dominator so far: the fingers never leave them.
Handled == {i \in DOMAIN dom : dom[i] # None}

\* Mutant: the finger nearer to the root is the answer.
intersect_Smaller(finger1, finger2) == IF finger1 < finger2 THEN finger1 ELSE finger2

\* Two fingers walk up the tree built so far until they meet.
intersect(finger1, finger2) ==
    LET meet[f \in Handled \X Handled] ==
          CASE f[1] > f[2] -> meet[<<dom[f[1]], f[2]>>]
            [] f[2] > f[1] -> meet[<<f[1], dom[f[2]]>>]
            [] OTHER -> f[1]
    IN  meet[<<finger1, finger2>>]

\* Positions of the predecessors that are reachable and handled already.
ProcessedPreds(i) ==
    {p \in Handled : rpo[p] \in Preds(graph, rpo[i])}

HandleNode ==
    /\ dom # <<>> /\ pos \in DOMAIN rpo
    /\ \E picked_pred \in ProcessedPreds(pos) :
          LET new_idom == FoldSet(intersect, picked_pred, ProcessedPreds(pos) \ {picked_pred})
          IN  /\ dom' = [dom EXCEPT ![pos] = new_idom]
              /\ changed' = (changed \/ dom[pos] # new_idom)
    /\ pos' = pos + 1
    /\ UNCHANGED <<walkVars, dominators_map>>

NextPass ==
    /\ dom # <<>> /\ pos > Len(rpo) /\ changed
    /\ pos' = 2 /\ changed' = FALSE
    /\ UNCHANGED <<walkVars, dom, dominators_map>>

Computed == dominators_map # <<>>

\* The fixed point is turned into a tree of nodes.
BuildTree ==
    /\ dom # <<>> /\ pos > Len(rpo) /\ ~ changed /\ ~ Computed
    /\ dominators_map' = [n \in ToSet(rpo) |-> IF n = rpo[1] THEN {} ELSE {rpo[dom[rpo_index(n)]]}]
    /\ UNCHANGED <<walkVars, dom, pos, changed>>

TreeNext == Order \/ Start \/ HandleNode \/ NextPass \/ BuildTree

(***************************************************************************)
(* Queries on the finished tree                                            *)
(***************************************************************************)

contains(n) == n \in DOMAIN dominators_map

\* The parent of a reachable node other than the entry.
idom(n) == CHOOSE p \in dominators_map[n] : TRUE

\* DomTree::dominators: the node and its ancestors, the root last.
dominators(n) ==
    LET up[k \in 1..Cardinality(DOMAIN dominators_map)] ==
          IF k = 1 THEN <<n>>
          ELSE LET below == up[k - 1]
               IN  IF dominators_map[Last(below)] = {} THEN below
                   ELSE Append(below, idom(Last(below)))
    IN  up[Cardinality(DOMAIN dominators_map)]

\* An unreachable node is in no tree and has itself as only dominator.
dominates(d, n) == d = n \/ (contains(n) /\ d \in ToSet(dominators(n)))

nearest_common_dominator(n1, n2) ==
    dominators(n1)[SelectInSeq(dominators(n1), LAMBDA d : dominates(d, n2))]

\* DomFrontierMap: from every predecessor of a join up to, and without, the
\* join's immediate dominator.
frontier(n) ==
    {b \in NodeSet(graph) :
       /\ contains(b) /\ num_predecessors(graph, b) >= 2
       /\ \E p \in Preds(graph, b) :
             /\ contains(p)
             /\ LET up == dominators(p)
                IN  \E k \in DOMAIN up : up[k] = n /\ \A j \in 1..k : up[j] # idom(b)}

(***************************************************************************)
(* Properties                                                              *)
(***************************************************************************)

\* No unwrap fails and intersect ends: a node in turn has a predecessor that was
\* handled before it, and a handled node hangs below a handled one that comes
\* earlier in reverse post-order.
UnwrapsSucceed ==
    dom # <<>> =>
       /\ pos \in DOMAIN rpo => ProcessedPreds(pos) # {}
       /\ \A i \in 2..Len(dom) : dom[i] # None => dom[i] < i /\ dom[dom[i]] # None

\* nearest_common_dominator is a common dominator that all others dominate.
NearestCommon ==
    \A m, n \in DOMAIN dominators_map :
       LET c == nearest_common_dominator(m, n)
           common == {d \in DOMAIN dominators_map : DominatesDef(graph, d, m) /\ DominatesDef(graph, d, n)}
       IN  c \in common /\ \A d \in common : DominatesDef(graph, d, c)

\* The finished tree answers as the definition by paths does, on irreducible
\* graphs too, and an unreachable node has no dominator but itself.
DominatorsCorrect ==
    Computed => /\ \A d, n \in NodeSet(graph) :
                      dominates(d, n) <=> IF contains(n) THEN DominatesDef(graph, d, n) ELSE d = n
                /\ NearestCommon

\* The frontier of n holds the nodes that n does not strictly dominate although
\* it dominates a predecessor.  Region documents that no block branches to the
\* entry; for such an edge DomFrontierMap has no answer (idom of the entry).
FrontierCorrect ==
    Computed /\ Preds(graph, entry_node(graph)) = {} =>
       \A n \in DOMAIN dominators_map :
          frontier(n) = {b \in DOMAIN dominators_map :
                           /\ ~ (DominatesDef(graph, n, b) /\ n # b)
                           /\ \E p \in Preds(graph, b) : contains(p) /\ DominatesDef(graph, n, p)}

=============================================================================
