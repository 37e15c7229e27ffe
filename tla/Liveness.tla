------------------------------ MODULE Liveness ------------------------------
(***************************************************************************)
(* Liveness queries (src/src/analyses/liveness.rs): for each region the    *)
(* tables of "Fast Liveness Checking for SSA-Form Programs", made from one *)
(* depth-first traversal and the dominator tree, and the queries that are  *)
(* answered from them, at the ends of a block and at any point, in nested  *)
(* regions too.  One step is one of the passes that fill in the tables.    *)
(***************************************************************************)
EXTENDS Program

VARIABLES fn,   \* the function, which is not changed
          st,   \* the tables of each region
          pc

vars == <<fn, st, pc>>

AllRegions(p) == UNION {RegionsOf(p, o) : o \in Ops(p)}

(***************************************************************************)
(* LivenessTq::new                                                         *)
(***************************************************************************)
RECURSIVE dfs_walk(_, _, _)
dfs_walk(p, seen, b) ==
    IF b \in ToSet(seen.pre) THEN seen
    ELSE LET below == FoldLeft(LAMBDA t, s : dfs_walk(p, t, s), [seen EXCEPT !.pre = Append(@, b)], Succs(p, b))
         IN  [below EXCEPT !.post = Append(@, b)]

DFSTraversal ==
    /\ pc = "start" /\ pc' = "reduce" /\ UNCHANGED fn
    /\ st' = [r \in AllRegions(fn) |-> dfs_walk(fn, [pre |-> <<>>, post |-> <<>>], EntryOf(fn, r))]

\* A back edge goes to an ancestor in the traversal's tree, or to the block itself.
At(seq, x) == CHOOSE i \in DOMAIN seq : seq[i] = x
IsBack(t, from, to) == At(t.pre, to) <= At(t.pre, from) /\ At(t.post, from) <= At(t.post, to)

\* sdom_tree holds what a block strictly dominates; successors are without back edges.
ReduceCfg ==
    /\ pc = "reduce" /\ pc' = "reach" /\ UNCHANGED fn
    /\ st' = [r \in DOMAIN st |->
                LET blocks == ToSet(st[r].pre) IN
                [pre |-> st[r].pre, post |-> st[r].post,
                 sdom_tree |-> [d \in blocks |-> Dominated(fn, r, d) \ {d}],
                 reduced_successors |-> [b \in blocks |-> {s \in ToSet(Succs(fn, b)) : ~ IsBack(st[r], b, s)}],
                 back_edges_by_source |-> [b \in blocks |-> {s \in ToSet(Succs(fn, b)) : IsBack(st[r], b, s)}]]]

\* In post-order, so that the sets of the successors are there.
compute_reduced_reachability(t) ==
    FoldLeft(LAMBDA res, b : res @@ (b :> {b} \cup UNION {res[s] : s \in t.reduced_successors[b]}),
             [b \in {} |-> {}], t.post)
compute_t_up_set(t, reach, b) == UNION {t.back_edges_by_source[x] : x \in reach[b]} \ reach[b]
back_edge_targets(t) == UNION {t.back_edges_by_source[b] : b \in DOMAIN t.sdom_tree}
is_reducible(t) ==
    \A b \in DOMAIN t.sdom_tree : \A s \in t.back_edges_by_source[b] \ {b} : b \in t.sdom_tree[s]

Reachability ==
    /\ pc = "reach" /\ pc' = "t_up" /\ UNCHANGED fn
    /\ st' = [r \in DOMAIN st |-> st[r] @@ [reach |-> compute_reduced_reachability(st[r])]]
TUpSets ==
    /\ pc = "t_up" /\ pc' = "tq" /\ UNCHANGED fn
    /\ st' = [r \in DOMAIN st |->
                st[r] @@ [t_up |-> [b \in DOMAIN st[r].reach |-> compute_t_up_set(st[r], st[r].reach, b)]]]

\* Targets of back edges in pre-order, then their sources, then the rest in post-order,
\* where a block has its successors' sets; the sources are not visited again.
compute_tq_sets(t) ==
    LET targets == SelectSeq(t.pre, LAMBDA b : b \in back_edge_targets(t))
        sources == SelectSeq(t.pre, LAMBDA b : t.back_edges_by_source[b] # {})
        others == SelectSeq(t.post, LAMBDA b : b \notin back_edge_targets(t) /\ t.back_edges_by_source[b] = {})
        OfTarget(tq, b) == [tq EXCEPT ![b] = {b} \cup UNION {tq[u] : u \in t.t_up[b]}]
        OfSource(tq, b) == [tq EXCEPT ![b] = @ \cup UNION {tq[u] : u \in t.back_edges_by_source[b]}]
        OfOther(tq, b) == [tq EXCEPT ![b] = UNION {tq[s] : s \in t.reduced_successors[b]}]
        after1 == FoldLeft(OfTarget, [b \in DOMAIN t.reach |-> {}], targets)
        after3 == FoldLeft(OfOther, FoldLeft(OfSource, after1, sources), others)
    IN  [b \in DOMAIN t.reach |-> after3[b] \cup {b}]
TqSets ==
    /\ pc = "tq" /\ pc' = "ready" /\ UNCHANGED fn
    /\ st' = [r \in DOMAIN st |-> st[r] @@ [tq |-> compute_tq_sets(st[r])]]

Next == DFSTraversal \/ ReduceCfg \/ Reachability \/ TUpSets \/ TqSets

(***************************************************************************)
(* Queries at the ends of a block, from the tables of the region in which  *)
(* the value is defined.                                                   *)
(***************************************************************************)
value_def_block(v) ==
    IF DefiningOp(fn, v) = {} THEN CHOOSE b \in DefiningBlock(fn, v) : TRUE
    ELSE BlockOf(fn, CHOOSE o \in DefiningOp(fn, v) : TRUE)
DefRegion(v) == RegionOf(fn, value_def_block(v))

\* The operation of region r that u is in, at some depth.
AncestorIn(u, r) == CHOOSE o \in LiftTo(fn, u, r) : TRUE
use_blocks_in_region(v, r) == {BlockOf(fn, AncestorIn(u, r)) : u \in Users(fn, v)} \cap ToSet(st[r].pre)

\* Mutant: the strict dominators of the definition are not asked for.
t_q_a_AllDominators(t, def, query) == t.tq[query]

\* T(q, a): back-edge targets below the definition, from which the query goes on.
t_q_a(t, def, query) == t.tq[query] \cap t.sdom_tree[def]

ReachesUse(t, b, uses) == t.reach[b] \cap uses # {}
\* The fold over the set, in reverse post-order, that looks for the one that dominates all.
all_dominator(t, blocks) ==
    LET ordered == SelectSeq(Reverse(t.post), LAMBDA b : b \in blocks)
    IN  FoldLeft(LAMBDA dom1, dom2 : IF dom2 \in t.sdom_tree[dom1] THEN dom1 ELSE dom2, Head(ordered), Tail(ordered))

is_live_in_at_block(v, query) ==
    LET r == DefRegion(v)
        t == st[r]
        def == value_def_block(v)
        uses == use_blocks_in_region(v, r)
    IN  /\ {def, query} \subseteq ToSet(t.pre)
        /\ query \in t.sdom_tree[def] /\ uses # {}
        /\ IF is_reducible(t) THEN ReachesUse(t, all_dominator(t, t_q_a(t, def, query)), uses)
           ELSE \E b \in t_q_a(t, def, query) : ReachesUse(t, b, uses)

is_live_out_of_block(v, query) ==
    LET r == DefRegion(v)
        t == st[r]
        def == value_def_block(v)
        uses == use_blocks_in_region(v, r)
        tqa == t_q_a(t, def, query)
        alone == query \in tqa /\ query \notin back_edge_targets(t)
    IN  /\ {def, query} \subseteq ToSet(t.pre)
        /\ IF def = query THEN uses \ {query} # {}
           ELSE /\ query \in t.sdom_tree[def] /\ uses # {}
                /\ \/ alone /\ ReachesUse(t, query, uses \ {query})
                   \/ \E b \in IF alone THEN tqa \ {query} ELSE tqa : ReachesUse(t, b, uses)

(***************************************************************************)
(* Queries at a point: before or after an operation, at the start or the   *)
(* end of a block.                                                         *)
(***************************************************************************)
Before(o) == [kind |-> "before", op |-> o, block |-> BlockOf(fn, o)]
After(o) == [kind |-> "after", op |-> o, block |-> BlockOf(fn, o)]
BlockStart(b) == [kind |-> "start", op |-> 0, block |-> b]
BlockEnd(b) == [kind |-> "end", op |-> 0, block |-> b]

has_use_in_region_subtree(v, r) == \E u \in Users(fn, v) : LiftTo(fn, u, r) # {}

\* The operations from the point to the end of its block, and all they contain.
has_local_use_after_point(v, point) ==
    LET ops == fn.blk[point.block].ops
        first == CASE point.kind = "before" -> At(ops, point.op)
                   [] point.kind = "after" -> At(ops, point.op) + 1
        later == {ops[i] : i \in first..Len(ops)}
    IN  \E u \in Users(fn, v) : ({u} \cup AncestorOps(fn, u)) \cap later # {}

value_strictly_dominates_op(v, o) ==
    LET r == DefRegion(v) IN
    LiftTo(fn, o, r) # {} /\
    LET use == AncestorIn(o, r)
        def == value_def_block(v)
        b == BlockOf(fn, use)
    IN  IF b = def THEN \A d \in DefiningOp(fn, v) : At(fn.blk[b].ops, d) < At(fn.blk[b].ops, use)
        ELSE {def, b} \subseteq ToSet(st[r].pre) /\ b \in st[r].sdom_tree[def]

successor_regions(o, i) ==
    {e.to : e \in {e \in ToSet(region_edges(fn, o)) :
                      e.from # 0 /\ e.to # 0 /\ RegionOf(fn, BlockOf(fn, e.from)) = <<o, i>>}}
reachable_regions(o, i) ==
    LET Grow[n \in Nat] == IF n = 0 THEN successor_regions(o, i)
                           ELSE LET old == Grow[n - 1] IN old \cup UNION {successor_regions(o, j) : j \in old}
    IN  Grow[Len(fn.op[o].regs)]
operands_read_from_region(o, i) ==
    UNION {ToSet(e.reads) : e \in {e \in ToSet(region_edges(fn, o)) :
                                      e.from # 0 /\ RegionOf(fn, BlockOf(fn, e.from)) = <<o, i>>}}

\* The point in the value's own region that stands for the query.
is_live_in_def_region(v, point) ==
    CASE point.kind = "start" -> is_live_in_at_block(v, point.block)
      [] point.kind = "end" -> is_live_out_of_block(v, point.block)
      [] point.kind = "before" -> value_strictly_dominates_op(v, point.op)
                                  /\ (has_local_use_after_point(v, point) \/ is_live_out_of_block(v, point.block))
      [] point.kind = "after" -> (point.op \in DefiningOp(fn, v) \/ value_strictly_dominates_op(v, point.op))
                                  /\ (has_local_use_after_point(v, point) \/ is_live_out_of_block(v, point.block))

\* A point in region i of o, which knows the edges between its regions: a use in a region
\* that can be reached, an operand read on the way, or a use after o.
is_live_in_region_branch_op(v, o, i) ==
    LET regions == {i} \cup reachable_regions(o, i) IN
    /\ value_strictly_dominates_op(v, o)
    /\ \/ \E j \in regions : has_use_in_region_subtree(v, <<o, j>>)
       \/ \E j \in regions : v \in operands_read_from_region(o, j)
       \/ is_live_in_def_region(v, After(o))

is_live_at_point(v, point) ==
    LET query_region == RegionOf(fn, point.block)
        ops == LiftTo(fn, query_region[1], DefRegion(v))
    IN  IF query_region = DefRegion(v) THEN is_live_in_def_region(v, point)
        ELSE \E o \in ops :
            IF fn.op[o].k \in RegionBranches
            THEN is_live_in_region_branch_op(v, o, CHOOSE i \in DOMAIN fn.op[o].regs :
                     LiftTo(fn, fn.blk[point.block].ops[1], <<o, i>>) # {})
            ELSE has_use_in_region_subtree(v, query_region) \/ is_live_in_def_region(v, Before(o))

(***************************************************************************)
(* Liveness by paths.  A position <<b, i>> is before operation i of block  *)
(* b; a step from it goes to a position and defines values on the way.     *)
(***************************************************************************)
\* An operation whose regions are unknown runs any of them, any number of times.
FlowOpaque(o) ==
    {[to |-> <<fn.op[o].regs[i][1], 1>>, defs |-> {}, reads |-> {}] : i \in DOMAIN fn.op[o].regs}
    \cup {[to |-> <<BlockOf(fn, o), At(fn.blk[BlockOf(fn, o)].ops, o) + 1>>, defs |-> Results(fn, o), reads |-> {}]}

Flow(b, i) ==
    LET o == fn.blk[b].ops[i]
        op == fn.op[o]
        Go(owner, e) ==
            IF e.to = 0 THEN [to |-> <<BlockOf(fn, owner), At(fn.blk[BlockOf(fn, owner)].ops, owner) + 1>>,
                              defs |-> Results(fn, owner), reads |-> ToSet(e.reads)]
            ELSE LET entry == fn.op[owner].regs[e.to][1]
                 IN  [to |-> <<entry, 1>>, defs |-> ToSet(fn.blk[entry].args), reads |-> ToSet(e.reads)]
    IN  CASE op.k \in RegionBranches -> {Go(o, e) : e \in ToSet(edges_from(fn, o, 0))}
          [] op.k \in Branches -> {[to |-> <<s, 1>>, defs |-> ToSet(fn.blk[s].args), reads |-> {}] : s \in ToSet(Succs(fn, b))}
          [] op.k = "opaque" -> FlowOpaque(o)
          [] op.k \in {"yield", "loop_cond"} /\ fn.op[ParentOp(fn, o)].k = "opaque" -> FlowOpaque(ParentOp(fn, o))
          [] op.k \in {"yield", "loop_cond"} /\ fn.op[ParentOp(fn, o)].k # "opaque" -> {Go(ParentOp(fn, o), e) : e \in ToSet(edges_from(fn, ParentOp(fn, o), o))}
          [] op.k \in {"ret", "unreachable"} -> {}
          [] OTHER -> {[to |-> <<b, i + 1>>, defs |-> Results(fn, o), reads |-> {}]}

Positions == UNION {{<<b, i>> : i \in DOMAIN fn.blk[b].ops} : b \in DOMAIN fn.blk}
AllFlow == UNION {{[from |-> n] @@ step : step \in Flow(n[1], n[2])} : n \in Positions}

\* What is live before an operation, given all steps.
LivePositions(flow, v) ==
    LET used == {n \in Positions : v \in ToSet(operands(fn.op[fn.blk[n[1]].ops[n[2]]]))}
                \cup {f.from : f \in {f \in flow : v \in f.reads}}
        passing == {f \in flow : v \notin f.defs}
        Grow[n \in Nat] == IF n = 0 THEN used
                           ELSE LET old == Grow[n - 1] IN old \cup {f.from : f \in {f \in passing : f.to \in old}}
    IN  Grow[Cardinality(Positions)]
LiveAlong(flow, live, v, n) == \E f \in flow : f.from = n /\ (v \in f.reads \/ (v \notin f.defs /\ f.to \in live))

LiveByPaths(flow, live, v, point) ==
    LET ops == fn.blk[point.block].ops
        last == <<point.block, Len(ops)>>
    IN  CASE point.kind = "start" -> v \notin ToSet(fn.blk[point.block].args) /\ <<point.block, 1>> \in live
          [] point.kind = "before" -> <<point.block, At(ops, point.op)>> \in live
          [] point.kind = "after" /\ point.op # Last(ops) -> <<point.block, At(ops, point.op) + 1>> \in live
          [] OTHER -> LiveAlong(flow, live, v, last)

CanBeReached(b) ==
    LET r == RegionOf(fn, b) IN
    b \in ToSet(st[r].pre) /\ \A o \in ({r[1]} \cup AncestorOps(fn, r[1])) \ {0} :
        BlockOf(fn, o) \in ToSet(st[RegionOf(fn, BlockOf(fn, o))].pre)
\* The points that matter to v: the ends of blocks, and where it is defined and used.
Points(v) ==
    LET reached == {b \in DOMAIN fn.blk : CanBeReached(b)}
        ops == {o \in DefiningOp(fn, v) \cup Users(fn, v) \cup {x \in Ops(fn) \ {0} : fn.op[x].regs # <<>>} :
                   BlockOf(fn, o) \in reached}
    IN  UNION {{BlockStart(b), BlockEnd(b)} : b \in reached} \cup UNION {{Before(o), After(o)} : o \in ops}

(***************************************************************************)
(* Properties.                                                             *)
(***************************************************************************)

\* "Is `value` live-in at the start of `query_block`?  May conservatively return live": a
\* value that is used on a path from there, before it is defined again, is reported live.
LiveInIsReported ==
    pc = "ready" => \A flow \in {AllFlow} : \A v \in Values(fn) : \A live \in {LivePositions(flow, v)} :
        \A point \in {q \in Points(v) : q.kind = "start"} : LiveByPaths(flow, live, v, point) => is_live_at_point(v, point)

\* Equation 1 of the paper: T(q) holds what T holds of each back-edge target in T_up(q).
\* The tables miss it where the source of a back edge, which is no target, goes on to others.
TableClosed(t, q) == UNION {t.tq[u] : u \in t.t_up[q]} \subseteq t.tq[q]
\* Lemma 3: in a reducible graph one block of T(q, a) dominates the others.  The tables also
\* have back-edge targets that can be reached from q, and with them it may be wrong.
OneDominates(t, blocks) == \E b \in blocks : \A c \in blocks \ {b} : c \in t.sdom_tree[b]

\* Where the tables have the properties above, the answer is liveness by paths, in the region
\* of the value exactly, and in nested regions never missing a use; and wherever a value is
\* reported live in its own region, a use can be reached.
Reliable(v, point) ==
    LET r == DefRegion(v)
        t == st[r]
    IN  \A o \in LiftTo(fn, Last(fn.blk[point.block].ops), r) :
            LET q == BlockOf(fn, o) IN
            /\ TableClosed(t, q)
            /\ point.kind = "start" /\ point.block = q /\ is_reducible(t) /\ q \in t.sdom_tree[value_def_block(v)]
                   => OneDominates(t, t_q_a(t, value_def_block(v), q))
LivenessCorrect ==
    pc = "ready" => \A flow \in {AllFlow} : \A v \in Values(fn) : \A live \in {LivePositions(flow, v)} :
        \A point \in Points(v) :
            /\ Reliable(v, point) /\ LiveByPaths(flow, live, v, point) => is_live_at_point(v, point)
            /\ is_live_at_point(v, point) /\ RegionOf(fn, point.block) = DefRegion(v)
                   => LiveByPaths(flow, live, v, point)
=============================================================================
