------------------------------ MODULE LoopTree ------------------------------
(***************************************************************************)
(* compute_loop_tree (src/src/graph/loop_tree.rs) on a finished dominator  *)
(* tree: natural loops are found in post-order of their headers, inner     *)
(* ones first, and each completed loop is then handled as one unit.  One   *)
(* step is one header.  The headers are taken from a DFSTraversal, made    *)
(* after the dominator tree.  A member of a loop's contents is             *)
(* <<"block", n>> or <<"loop", id>>.                                       *)
(***************************************************************************)
EXTENDS Dominance

VARIABLES dfs_stack, pre_order_number, post_order_number,
          pre_order_counter, post_order_counter,
          loops,                 \* loops[id]: header, latches, contents
          loop_parent,           \* loop_parent[id]: set of at most one loop
          block_parent,          \* block_parent[n]: the innermost loop, if any
          header_pos             \* next header in post-order

dfsVars == <<dfs_stack, pre_order_number, post_order_number, pre_order_counter, post_order_counter>>
loopVars == <<graph, root, seen_nodes, stack, po, po_by_component, dom, pos, changed, dominators_map,
              dfs_stack, pre_order_number, post_order_number, pre_order_counter, post_order_counter,
              loops, loop_parent, block_parent, header_pos>>
foundVars == <<loops, loop_parent, block_parent, header_pos>>

DFS == INSTANCE DFSTraversal WITH stack <- dfs_stack

LoopInit ==
    /\ graph \in Graphs /\ TreeInit /\ DFS!Init
    /\ loops = <<>> /\ loop_parent = <<>> /\ header_pos = 1
    /\ block_parent = [n \in NodeSet(graph) |-> {}]

Dominators == TreeNext /\ UNCHANGED <<dfsVars, foundVars>>
Traverse == Computed /\ DFS!Next /\ UNCHANGED <<treeVars, walkVars, foundVars>>

\* Predecessors that the header dominates, itself included.  The code compares
\* intervals of a walk of the dominator tree, which hold an ancestor relation.
latches_of(header) == {p \in Preds(graph, header) : contains(p) /\ dominates(header, p)}

\* The loops that enclose a loop, itself first.
Enclosing(id) ==
    LET up[k \in 0..Len(loops)] ==
          IF k = 0 THEN <<id>>
          ELSE LET below == up[k - 1]
               IN  IF loop_parent[Last(below)] = {} THEN below
                   ELSE Append(below, CHOOSE p \in loop_parent[Last(below)] : TRUE)
    IN  up[Len(loops)]

\* The block itself, or the outermost loop found so far that contains it.
loop_ancestor(n) ==
    IF block_parent[n] = {} THEN <<"block", n>>
    ELSE <<"loop", Last(Enclosing(CHOOSE id \in block_parent[n] : TRUE))>>

entry_of(x) == IF x[1] = "block" THEN x[2] ELSE loops[x[2]].header

\* Mutant: a self-edge starts a walk out of the loop.
BodyOf_SelfEdge(header, latches) ==
    LET preds(x) == {loop_ancestor(p) : p \in {q \in Preds(graph, entry_of(x)) : q # header /\ contains(q)}}
        upto[k \in 0..Len(graph.nodes)] ==
          IF k = 0 THEN {loop_ancestor(l) : l \in latches}
          ELSE LET prev == upto[k - 1] IN prev \cup UNION {preds(x) : x \in prev}
    IN  upto[Len(graph.nodes)] \cup {<<"block", header>>}

\* The walk backward of find_body, from the latches up to the header.
BodyOf(header, latches) ==
    LET preds(x) == {loop_ancestor(p) : p \in {q \in Preds(graph, entry_of(x)) : q # header /\ contains(q)}}
        upto[k \in 0..Len(graph.nodes)] ==
          IF k = 0 THEN {loop_ancestor(l) : l \in latches \ {header}}
          ELSE LET prev == upto[k - 1] IN prev \cup UNION {preds(x) : x \in prev}
    IN  upto[Len(graph.nodes)] \cup {<<"block", header>>}

find_body(header, latches) ==
    LET body == BodyOf(header, latches)
        id == Len(loops) + 1
    IN  /\ loops' = Append(loops, [header |-> header, latches |-> latches, contents |-> body])
        /\ loop_parent' = Append([c \in DOMAIN loop_parent |->
                                    IF <<"loop", c>> \in body THEN {id} ELSE loop_parent[c]], {})
        /\ block_parent' = [n \in DOMAIN block_parent |->
                              IF <<"block", n>> \in body THEN {id} ELSE block_parent[n]]

FindLoop ==
    /\ Computed /\ DFS!Done /\ header_pos <= Cardinality(DFS!Discovered)
    /\ LET header == CHOOSE n \in DFS!Discovered : post_order_number[n] = header_pos - 1
           latches == latches_of(header)
       IN  IF latches # {} THEN find_body(header, latches) ELSE UNCHANGED <<loops, loop_parent, block_parent>>
    /\ header_pos' = header_pos + 1
    /\ UNCHANGED <<domVars, dfsVars>>

LoopNext == Dominators \/ Traverse \/ FindLoop

LoopSpec == LoopInit /\ [][LoopNext]_loopVars /\ WF_loopVars(LoopNext)

TreeDone == Computed /\ DFS!Done /\ header_pos > Cardinality(DFS!Discovered)

\* What the last part of compute_loop_tree fills in.
blocks(id) == {n \in DOMAIN dominators_map : \E p \in block_parent[n] : id \in ToSet(Enclosing(p))}
depth(id) == Cardinality(ToSet(Enclosing(id)))

(***************************************************************************)
(* Properties                                                              *)
(***************************************************************************)

\* Each header of a back edge has one loop, and it holds the header and the nodes
\* that reach one of its latches without passing the header: the natural loop.
NaturalLoops ==
    LET isLatch(l, h) == h \in Succs(graph, l) /\ DominatesDef(graph, h, l)
        headers == {h \in DOMAIN dominators_map : \E l \in DOMAIN dominators_map : isLatch(l, h)}
    IN  /\ Len(loops) = Cardinality(headers)
        /\ {loops[id].header : id \in DOMAIN loops} = headers
        /\ \A id \in DOMAIN loops :
             LET h == loops[id].header
             IN  /\ loops[id].latches = {l \in DOMAIN dominators_map : isLatch(l, h)}
                 /\ blocks(id) = {h} \cup {n \in DOMAIN dominators_map :
                                    \E l \in ReachAvoiding(graph, {n}, {h}) : isLatch(l, h)}

\* Every member of a loop is a direct child of exactly one parent, and the header
\* of an enclosing loop comes first in reverse post-order, so that listing loops
\* by header puts parents before children.
EachChildOnce ==
    /\ \A i, j \in DOMAIN loops : i # j => loops[i].contents \cap loops[j].contents = {}
    /\ \A i \in DOMAIN loops : \A j \in loop_parent[i] :
          post_order_number[loops[j].header] > post_order_number[loops[i].header] /\ depth(j) < depth(i)

\* loop_tree.rs: the loop tree is a tree, and made of the natural loops, whatever cycles
\* that are no loops the graph has beside them.
LoopTreeCorrect == TreeDone => NaturalLoops /\ EachChildOnce

\* DFSTraversal's part: see TraversalCorrect there.
TraversalCorrect == DFS!TraversalCorrect

\* traversals.rs: a post-order has what its users take from it, and a depth-first walk
\* classifies the edges by their definition.  Later steps leave the post-order alone.
WalksCorrect ==
    /\ header_pos = 1 /\ pre_order_counter = 1 => PostOrderCorrect
    /\ TraversalCorrect

\* dominance.rs: the tree of a graph is computed without an unwrap that fails, and answers
\* as the definition by paths does; so does the frontier.  Later steps leave it alone.
TreeCorrect ==
    header_pos = 1 /\ pre_order_counter = 1 => UnwrapsSucceed /\ DominatorsCorrect /\ FrontierCorrect

\* All of it comes to an end: the walks, on cyclic graphs too, and the passes over
\* the nodes, which reach a fixed point.
Finishes == <>TreeDone
=============================================================================
