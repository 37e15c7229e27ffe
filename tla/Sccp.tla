------------------------------- MODULE Sccp -------------------------------
(***************************************************************************)
(* Sparse conditional constant propagation                                 *)
(* (src/src/opts/constants/sccp.rs, state.rs).  A value is Undetermined, a *)
(* constant, or NotAConstant, and only goes down; operations are processed *)
(* from a worklist as they are found reachable and as their operands go    *)
(* down; when the worklist is empty the reachable operations are folded    *)
(* and the other constants materialized, one by one.                       *)
(*                                                                         *)
(* The worklist is a set, and pop_op takes any of it: the order depends on *)
(* the iteration of a hash set of uses.                                    *)
(***************************************************************************)
EXTENDS Program

VARIABLES fn,   \* the function, root_op its operation 0
          st,   \* SccpState; after the analysis, the candidates that are left
          pc

vars == <<fn, st, pc>>

NotAConstant == None
Undetermined == -4

(***************************************************************************)
(* SccpState                                                               *)
(***************************************************************************)
leq(a, b) == a = NotAConstant \/ b = Undetermined \/ a = b
meet(a, b) ==
    CASE a = Undetermined -> b
      [] b = Undetermined -> a
      [] OTHER -> IF a = b THEN a ELSE NotAConstant

merge_val_state(s, val, incoming) ==
    LET old == s.val_states[val]
        new == meet(old, incoming)
    IN  IF leq(old, new) THEN s
        ELSE [s EXCEPT !.val_states[val] = new,
                       !.op_worklist = @ \cup (Users(fn, val) \cap s.reachable_ops)]

mark_reachable(s, o) ==
    IF o \in s.reachable_ops THEN s
    ELSE [s EXCEPT !.reachable_ops = @ \cup {o}, !.op_worklist = @ \cup {o}]
mark_block_reachable(s, b) == mark_reachable(s, fn.blk[b].ops[1])
mark_next_reachable(s, o) == IF NextOp(fn, o) = 0 THEN s ELSE mark_reachable(s, NextOp(fn, o))

seed_nested_regions(s, o) ==
    LET entries == [i \in DOMAIN fn.op[o].regs |-> EntryOf(fn, <<o, i>>)]
        Seed(acc, b) ==
            mark_block_reachable(FoldLeft(LAMBDA t, v : merge_val_state(t, v, NotAConstant), acc, fn.blk[b].args), b)
    IN  FoldLeft(Seed, s, entries)

(***************************************************************************)
(* Processing an operation                                                 *)
(***************************************************************************)
operand_state(s, v) == s.val_states[v]
\* The attribute of each operand that is known to be constant.
operand_attrs(s, o) ==
    LET opds == operands(fn.op[o])
    IN  [i \in DOMAIN opds |->
            IF operand_state(s, opds[i]) = Undetermined THEN NotAConstant ELSE operand_state(s, opds[i])]

Forward(s, flows) ==
    FoldLeft(LAMBDA t, f : merge_val_state(t, f[2], operand_state(t, f[1])), s, flows)

process_fold_op(s, o) == merge_val_state(s, fn.op[o].res[1], check_fold(fn.op[o], operand_attrs(s, o)))

branch_check_fold(o, attrs) ==
    {fn.op[o].succs[i].to : i \in
        IF fn.op[o].k = "cond_br" THEN possible_successor_indices(attrs[1]) ELSE DOMAIN fn.op[o].succs}

process_branch_op(s, o) ==
    LET feasible == branch_check_fold(o, operand_attrs(s, o))
        Successor(t, succ) ==
            IF succ.to \notin feasible THEN t
            ELSE mark_block_reachable(Forward(t, Flows(succ.args, fn.blk[succ.to].args)), succ.to)
    IN  FoldLeft(Successor, s, fn.op[o].succs)

process_region_branch_edges(s, o, point, attrs, term_attrs) ==
    LET feasible == check_fold_region(fn, o, point, attrs, term_attrs)
        Edge(t, e) ==
            LET forwarded == Forward(t, e.flows)
            IN  IF e.to = 0 THEN mark_next_reachable(forwarded, o)
                ELSE mark_block_reachable(forwarded, EntryOf(fn, <<o, e.to>>))
    IN  FoldLeft(Edge, s, SelectSeq(edges_from(fn, o, point), LAMBDA e : e.to \in feasible))

process_region_terminator(s, terminator, parent) ==
    process_region_branch_edges(s, parent, terminator, operand_attrs(s, parent), operand_attrs(s, terminator))

process_region_branch_op(s, o) ==
    LET edges == region_edges(fn, o)
        receivers == {f[2] : f \in UNION {ToSet(e.flows) : e \in ToSet(edges)}}
        own == fn.op[o].res \o FlattenSeq([i \in DOMAIN fn.op[o].regs |-> fn.blk[EntryOf(fn, <<o, i>>)].args])
        Unknown(t, v) == IF v \in receivers THEN t ELSE merge_val_state(t, v, NotAConstant)
        entered == process_region_branch_edges(FoldLeft(Unknown, s, own), o, 0, operand_attrs(s, o), <<>>)
        terminators == SelectSeq([i \in DOMAIN fn.op[o].regs |-> TailTerminator(fn, o, i)],
                                 LAMBDA t : edges_from(fn, o, t) # <<>>)
        Again(t, terminator) ==
            IF terminator \in t.reachable_ops THEN process_region_terminator(t, terminator, o) ELSE t
    IN  FoldLeft(Again, entered, terminators)

process_generic_op(s, o) ==
    FoldLeft(LAMBDA t, v : merge_val_state(t, v, NotAConstant), s, fn.op[o].res)

StartsRegionEdges(o) ==
    LET parent == ParentOp(fn, o)
    IN  fn.op[o].k \in Terminators /\ fn.op[parent].k \in RegionBranches /\ edges_from(fn, parent, o) # <<>>

process_op(s, o) ==
    LET seeded == seed_nested_regions(s, o)
        k == fn.op[o].k
    IN  CASE k \in RegionBranches -> process_region_branch_op(s, o)
          [] StartsRegionEdges(o) -> process_region_terminator(seeded, o, ParentOp(fn, o))
          [] k \in Branches -> process_branch_op(seeded, o)
          [] k \in ConstFolds -> process_fold_op(seeded, o)
          [] OTHER -> process_generic_op(seeded, o)

\* Mutant: what follows an operation with regions is reached with it.
falls_through_Always(o) == fn.op[o].k # "func"

falls_through(o) == fn.op[o].k \notin RegionBranches

(***************************************************************************)
(* The candidates, in the order of a walk.                                 *)
(***************************************************************************)
FoldCandidates ==
    LET ops == SelectSeq(WalkPreorder(fn, 0), LAMBDA n : n[1] = "op" /\ n[2] \in st.reachable_ops)
        folds == SelectSeq(ops, LAMBDA n : fn.op[n[2]].k \in ConstFolds)
    IN  [i \in DOMAIN folds |-> [op |-> folds[i][2], attrs |-> operand_attrs(st, folds[i][2])]]
ConstValues ==
    LET Own(n) == CASE n[1] = "op" /\ n[2] \in st.reachable_ops /\ fn.op[n[2]].k \notin ConstFolds -> fn.op[n[2]].res
                    [] n[1] = "block" /\ fn.blk[n[2]].ops[1] \in st.reachable_ops -> fn.blk[n[2]].args
                    [] OTHER -> <<>>
        walk == WalkPreorder(fn, 0)
        values == FlattenSeq([i \in DOMAIN walk |-> Own(walk[i])])
        constant == SelectSeq(values, LAMBDA v : st.val_states[v] \notin {Undetermined, NotAConstant})
    IN  [i \in DOMAIN constant |-> [value |-> constant[i], val |-> st.val_states[constant[i]]]]

(***************************************************************************)
(* The steps of sccp                                                       *)
(***************************************************************************)
SccpState ==
    LET empty == [val_states |-> [v \in Values(fn) |-> Undetermined], reachable_ops |-> {}, op_worklist |-> {}]
    IN  seed_nested_regions(empty, 0)

Begin == pc = "start" /\ st' = SccpState /\ pc' = "analyse" /\ UNCHANGED fn

Process(o) ==
    /\ pc = "analyse" /\ o \in st.op_worklist
    /\ LET done == process_op([st EXCEPT !.op_worklist = @ \ {o}], o)
       IN  st' = IF falls_through(o) THEN mark_next_reachable(done, o) ELSE done
    /\ UNCHANGED <<fn, pc>>

Collect ==
    /\ pc = "analyse" /\ st.op_worklist = {}
    /\ st' = [folds |-> FoldCandidates, consts |-> ConstValues]
    /\ pc' = "rewrite" /\ UNCHANGED fn

\* The constant is inserted before the operation and takes over the uses of its result.
Fold ==
    /\ pc = "rewrite" /\ st.folds # <<>>
    /\ st' = [st EXCEPT !.folds = Tail(@)]
    /\ LET c == Head(st.folds)
           val == IF fn.op[c.op].k = "const" THEN None ELSE fold_in_place(fn.op[c.op], c.attrs)
           v == Fresh(fn)
       IN  fn' = IF val = None THEN fn
                 ELSE ReplaceUses(InsertBefore(fn, c.op, v, ConstOp(v, val)), fn.op[c.op].res[1], v)
    /\ UNCHANGED pc

Materialize ==
    /\ pc = "rewrite" /\ st.folds = <<>> /\ st.consts # <<>>
    /\ st' = [st EXCEPT !.consts = Tail(@)]
    /\ LET c == Head(st.consts)
           v == Fresh(fn)
           new == ConstOp(v, c.val)
           blocks == DefiningBlock(fn, c.value)
           inserted == IF blocks = {} THEN InsertBefore(fn, CHOOSE o \in DefiningOp(fn, c.value) : TRUE, v, new)
                       ELSE PutAt(fn, CHOOSE b \in blocks : TRUE, 1, v, new)
       IN  fn' = ReplaceUses(inserted, c.value, v)
    /\ UNCHANGED pc

Return == pc = "rewrite" /\ st.folds = <<>> /\ st.consts = <<>> /\ pc' = "done" /\ st' = <<>> /\ UNCHANGED fn

Next == Begin \/ (\E o \in Ops(fn) : Process(o)) \/ Collect \/ Fold \/ Materialize \/ Return

(***************************************************************************)
(* Properties.                                                             *)
(***************************************************************************)

\* "SCCP must process a definition before its uses in an SSA dominance region": an
\* operation only becomes reachable, and a terminator is only processed again with its
\* parent, when every operand has a state.
OperandsKnown ==
    pc = "analyse" => \A o \in st.reachable_ops : \A v \in ToSet(operands(fn.op[o])) : st.val_states[v] # Undetermined
============================================================================
