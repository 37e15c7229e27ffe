---------------------------- MODULE SimplifyCfg ----------------------------
(***************************************************************************)
(* CFG simplification (src/src/opts/simplify_cfg.rs): branches and region  *)
(* branches whose operands are constants are folded, inner ones first,     *)
(* unreachable blocks are removed, and a block is merged with its only     *)
(* successor when it is the only predecessor of that block.                *)
(***************************************************************************)
EXTENDS Program

VARIABLES fn,   \* the function
          st,   \* the fold candidates that are left, with what is known of their operands
          pc

vars == <<fn, st, pc>>

\* An operand is constant when its definition folds without knowing its own operands.
constant_operand_attrs(o) ==
    LET opds == operands(fn.op[o])
        Def(v) == {d \in DefiningOp(fn, v) : fn.op[d].k \in ConstFolds}
        get_def_const(d) == check_fold(fn.op[d], [i \in DOMAIN fn.op[d].opds |-> None])
    IN  [i \in DOMAIN opds |-> IF Def(opds[i]) = {} THEN None
                               ELSE get_def_const(CHOOSE d \in Def(opds[i]) : TRUE)]

Collect ==
    /\ pc = "start" /\ pc' = "fold" /\ UNCHANGED fn
    /\ LET cands == SelectSeq(WalkPreorder(fn, 0),
                              LAMBDA n : n[1] = "op" /\ fn.op[n[2]].k \in (Branches \cup RegionBranches) \ {"parallel"})
       IN  st' = [i \in DOMAIN cands |-> [op |-> cands[i][2], attrs |-> constant_operand_attrs(cands[i][2])]]

\* CondBrOp::fold_in_place: a branch on poison is unreachable.
fold_branch(o, attrs) ==
    LET left == possible_successor_indices(attrs[1])
        n == Fresh(fn)
        new == IF left = {} THEN Opn("unreachable", <<>>, <<>>)
               ELSE [Opn("br", <<>>, <<>>) EXCEPT !.succs = <<fn.op[o].succs[CHOOSE i \in left : TRUE]>>]
    IN  IF fn.op[o].k # "cond_br" \/ Cardinality(left) = 2 THEN fn
        ELSE RemoveOps(InsertBefore(fn, o, n, new), {o})

\* No region of the operation can execute: its results are the operands that bypass it.
BypassEdges(o) == SelectSeq(edges_from(fn, o, 0), LAMBDA e : e.to = 0)
ErasesRegionBranch(o, attrs) ==
    /\ fn.op[o].k \in Pure
    /\ check_fold_region(fn, o, 0, attrs, <<>>) = {0}
    /\ Len(BypassEdges(o)) = 1
    /\ \A v \in Results(fn, o) : Users(fn, v) = {} \/ v \in {f[2] : f \in ToSet(BypassEdges(o)[1].flows)}
try_erase_region_branch_op(o, attrs) ==
    IF ~ ErasesRegionBranch(o, attrs) THEN fn
    ELSE EraseOp(FoldLeft(LAMBDA p, f : ReplaceUses(p, f[2], f[1]), fn, BypassEdges(o)[1].flows), o)

\* Mutant: the candidates are folded in the order of the walk, outer ones first.
Fold_OuterFirst ==
    /\ pc = "fold" /\ st # <<>>
    /\ st' = Tail(st)
    /\ LET c == Head(st)
       IN  fn' = IF fn.op[c.op].k \in Branches THEN fold_branch(c.op, c.attrs) ELSE try_erase_region_branch_op(c.op, c.attrs)
    /\ UNCHANGED pc

Fold ==
    /\ pc = "fold" /\ st # <<>>
    /\ st' = Front(st)
    /\ LET c == Last(st)
       IN  fn' = IF fn.op[c.op].k \in Branches THEN fold_branch(c.op, c.attrs) ELSE try_erase_region_branch_op(c.op, c.attrs)
    /\ UNCHANGED pc

remove_blocks_inside_op(p) ==
    LET dead == {b \in DOMAIN p.blk : b \notin Reachable(p, RegionOf(p, b))}
    IN  RemoveBlocks(p, dead \cup UNION {InsideBlocks(p, o) : o \in UNION {ToSet(p.blk[b].ops) : b \in dead}})
RemoveUnreachable ==
    /\ pc = "fold" /\ st = <<>> /\ pc' = "merge"
    /\ fn' = remove_blocks_inside_op(fn) /\ UNCHANGED st

Merges(p, pred, entry) ==
    LET succs == Succs(p, pred)
    IN  /\ Len(succs) = 1 /\ succs[1] # entry
        /\ Cardinality(Uses(p, succs[1])) = 1
        /\ p.op[Terminator(p, pred)].k \in Branches
MergeSucc(p, pred) ==
    LET t == Terminator(p, pred)
        succ == Succs(p, pred)[1]
        replaced == FoldLeft(LAMBDA q, f : ReplaceUses(q, f[2], f[1]), p,
                             Flows(p.op[t].succs[1].args, p.blk[succ].args))
        moved == [replaced EXCEPT !.blk[pred].ops = @ \o p.blk[succ].ops, !.blk[succ].ops = <<>>]
    IN  RemoveBlocks(RemoveOps(moved, {t}), {succ})

RECURSIVE try_merge_succs(_, _, _)
try_merge_succs(p, block, entry) ==
    IF Merges(p, block, entry) THEN try_merge_succs(MergeSucc(p, block), block, entry) ELSE p

\* A depth-first search that merges into each block it visits, then inside the regions
\* of its operations, and goes on to the successors it has then.
RECURSIVE MergeFrom(_, _, _, _), merge_inside_region(_, _)
MergeFrom(p, entry, stack, visited) ==
    IF stack = <<>> THEN p
    ELSE IF Last(stack) \in visited THEN MergeFrom(p, entry, Front(stack), visited)
    ELSE LET block == Last(stack)
             merged == try_merge_succs(p, block, entry)
             regions == FlattenSeq([i \in DOMAIN merged.blk[block].ops |->
                            LET o == merged.blk[block].ops[i] IN [j \in DOMAIN merged.op[o].regs |-> <<o, j>>]])
             inside == FoldLeft(merge_inside_region, merged, regions)
         IN  MergeFrom(inside, entry, Front(stack) \o Succs(inside, block), visited \cup {block})
merge_inside_region(p, r) == MergeFrom(p, EntryOf(p, r), <<EntryOf(p, r)>>, {})

Merge == pc = "merge" /\ pc' = "done" /\ fn' = merge_inside_region(fn, <<0, 1>>) /\ UNCHANGED st

Next == Collect \/ Fold \/ RemoveUnreachable \/ Merge

(***************************************************************************)
(* Properties.                                                             *)
(***************************************************************************)

\* Folding an operation never erases another candidate that is still to be folded, and
\* in the end no block is unreachable and none can be merged with its successor.
CfgSimplified ==
    /\ pc = "fold" => \A i \in DOMAIN st : st[i].op \in Ops(fn)
    /\ pc = "done" => \A b \in DOMAIN fn.blk :
          /\ b \in Reachable(fn, RegionOf(fn, b))
          /\ ~ Merges(fn, b, EntryOf(fn, RegionOf(fn, b)))
============================================================================
