--------------------------- MODULE LLVMConversion ---------------------------
(***************************************************************************)
(* A function on its way to LLVM-IR and back                               *)
(* (src/pliron-llvm/src/to_llvm_ir.rs and from_llvm_ir.rs).  LLVM has phis *)
(* for the arguments of blocks, with the values that come in from each     *)
(* predecessor, and constants that are operands and no instructions.       *)
(* Blocks are converted in reverse post-order, one instruction a step, and *)
(* a value must be converted before it is used.                            *)
(***************************************************************************)
EXTENDS Program

VARIABLES fn,   \* the function, and in the end what came back
          st,   \* the conversion contexts: the LLVM function, what is mapped, the work left
          pc

vars == <<fn, st, pc>>

Const(n) == <<"const", n>>
Param(v) == <<"param", v>>
Inst(v) == <<"inst", v>>

\* Reverse post-order, one component after the other: topological_order and rpo.
RECURSIVE walk(_, _, _)
walk(succs, po, b) ==
    IF b \in po.visited THEN po
    ELSE LET below == FoldLeft(LAMBDA t, s : walk(succs, t, s), [po EXCEPT !.visited = @ \cup {b}], succs[b])
         IN  [below EXCEPT !.po = Append(@, b)]
\* Mutant: the post-order is not turned round.
rpo_PostOrder(blocks, succs) ==
    LET Component(acc, b) == LET after == walk(succs, [visited |-> acc.visited, po |-> <<>>], b)
                             IN  [visited |-> after.visited, order |-> acc.order \o after.po]
    IN  FoldLeft(Component, [visited |-> {}, order |-> <<>>], blocks).order

rpo(blocks, succs) ==
    LET Component(acc, b) == LET after == walk(succs, [visited |-> acc.visited, po |-> <<>>], b)
                             IN  [visited |-> after.visited, order |-> acc.order \o Reverse(after.po)]
    IN  FoldLeft(Component, [visited |-> {}, order |-> <<>>], blocks).order

(***************************************************************************)
(* to_llvm_ir.rs                                                           *)
(***************************************************************************)
\* convert_function: the blocks and their phis, before anything is converted.
DeclareBlocks ==
    /\ pc = "start" /\ pc' = "to" /\ UNCHANGED fn
    /\ LET blocks == Blocks(fn, <<0, 1>>)
           entry == blocks[1]
           params == ToSet(fn.blk[entry].args)
           phis == UNION {ToSet(fn.blk[b].args) : b \in ToSet(blocks) \ {entry}}
           order == rpo(blocks, [b \in ToSet(blocks) |-> Succs(fn, b)])
       IN  st' = [work |-> FlattenSeq([i \in DOMAIN order |-> fn.blk[order[i]].ops]),
                  value_map |-> [v \in params |-> Param(v)] @@ [v \in phis |-> Inst(v)],
                  llvm |-> [order |-> blocks, params |-> fn.blk[entry].args,
                            code |-> [b \in ToSet(blocks) |-> <<>>],
                            phis |-> [b \in ToSet(blocks) |->
                                IF b = entry THEN <<>> ELSE [i \in DOMAIN fn.blk[b].args |-> [id |-> fn.blk[b].args[i], incoming |-> <<>>]]]]]

Mapped(vs) == \A i \in DOMAIN vs : vs[i] \in DOMAIN st.value_map
convert_value_operand(vs) == [i \in DOMAIN vs |-> st.value_map[vs[i]]]

\* Each phi of the successor gets the operand that the branch in b passes to it.
link_succ_operands_with_phis(llvm, b, succ) ==
    [llvm EXCEPT !.phis[succ.to] =
        [i \in DOMAIN @ |-> [@[i] EXCEPT !.incoming = Append(@, <<st.value_map[succ.args[i]], b>>)]]]

\* A constant is a value, every other operation an instruction at the end of its block.
ConvertOp ==
    /\ pc = "to" /\ st.work # <<>> /\ UNCHANGED fn
    /\ LET o == Head(st.work)
           op == fn.op[o]
           b == BlockOf(fn, o)
           inst == [k |-> op.k, res |-> op.res, opds |-> convert_value_operand(op.opds),
                    to |-> [i \in DOMAIN op.succs |-> op.succs[i].to]]
           built == [st.llvm EXCEPT !.code[b] = Append(@, inst)]
           linked == FoldLeft(LAMBDA llvm, succ : link_succ_operands_with_phis(llvm, b, succ), built, op.succs)
       IN  IF ~ Mapped(operands(op)) THEN pc' = "error" /\ UNCHANGED st
           ELSE /\ UNCHANGED pc
                /\ st' = [work |-> Tail(st.work),
                          value_map |-> st.value_map @@ [v \in Results(fn, o) |-> IF op.k = "const" THEN Const(op.val) ELSE Inst(v)],
                          llvm |-> IF op.k = "const" THEN st.llvm ELSE linked]

(***************************************************************************)
(* LLVM's verifier, which is external: a phi has an entry for each edge    *)
(* into its block, and entries for the same predecessor are the same.      *)
(***************************************************************************)
Edges(llvm, from, to) == {i \in DOMAIN Last(llvm.code[from]).to : Last(llvm.code[from]).to[i] = to}
PhiValid(llvm, b, phi) ==
    /\ \A from \in ToSet(llvm.order) :
          Cardinality({i \in DOMAIN phi.incoming : phi.incoming[i][2] = from}) = Cardinality(Edges(llvm, from, b))
    /\ \A i, j \in DOMAIN phi.incoming :
          phi.incoming[i][2] = phi.incoming[j][2] => phi.incoming[i][1] = phi.incoming[j][1]
LLVMVerify ==
    /\ pc = "to" /\ st.work = <<>> /\ UNCHANGED <<fn, st>>
    /\ pc' = IF \A b \in ToSet(st.llvm.order) : \A i \in DOMAIN st.llvm.phis[b] : PhiValid(st.llvm, b, st.llvm.phis[b][i])
             THEN "verified" ELSE "rejected"

(***************************************************************************)
(* from_llvm_ir.rs                                                         *)
(***************************************************************************)
FirstConstant == 200

\* convert_function: the blocks in reverse post-order, and the parameters.
CreateBlocks ==
    /\ pc = "verified" /\ pc' = "from"
    /\ LET llvm == st.llvm
           order == rpo(llvm.order, [b \in ToSet(llvm.order) |-> Last(llvm.code[b]).to])
           Work(b) == [i \in DOMAIN llvm.phis[b] |-> [b |-> b, phi |-> i]]
                      \o [i \in DOMAIN llvm.code[b] |-> [b |-> b, inst |-> i]]
       IN  /\ st' = [work |-> FlattenSeq([i \in DOMAIN order |-> Work(order[i])]),
                     value_map |-> [v \in {Param(x) : x \in ToSet(llvm.params)} |-> v[2]],
                     constants |-> 0, llvm |-> llvm]
           /\ fn' = [op |-> 0 :> [Opn("func", <<>>, <<>>) EXCEPT !.regs = <<order>>],
                     blk |-> [b \in ToSet(order) |-> [args |-> IF b = order[1] THEN llvm.params ELSE <<>>, ops |-> <<>>]]]

\* convert_block: a phi is an argument of the block.
Work == Head(st.work)
ConvertPhi ==
    /\ pc = "from" /\ st.work # <<>> /\ "phi" \in DOMAIN Work /\ UNCHANGED pc
    /\ LET v == st.llvm.phis[Work.b][Work.phi].id
       IN  /\ fn' = [fn EXCEPT !.blk[Work.b].args = Append(@, v)]
           /\ st' = [st EXCEPT !.work = Tail(@), !.value_map = @ @@ (Inst(v) :> v)]

\* A constant that is used first becomes an operation behind the earlier ones, at the start
\* of the entry block.
process_constant(acc, val) ==
    IF val \in DOMAIN acc.map \/ val[1] # "const" THEN acc
    ELSE LET new == FirstConstant + acc.n
         IN  [map |-> acc.map @@ (val :> new), n |-> acc.n + 1,
              fn |-> PutAt(acc.fn, EntryOf(acc.fn, <<0, 1>>), acc.n + 1, new, ConstOp(new, val[2]))]

\* convert_branch_args: what the phis of the destination get from this block.
convert_branch_args(b, to) ==
    [i \in DOMAIN st.llvm.phis[to] |->
        LET incoming == st.llvm.phis[to][i].incoming
            first == SelectInSeq(incoming, LAMBDA x : x[2] = b)
        IN  IF first = 0 THEN <<"missing">> ELSE incoming[first][1]]

ConvertInstruction ==
    /\ pc = "from" /\ st.work # <<>> /\ "inst" \in DOMAIN Work
    /\ LET inst == st.llvm.code[Work.b][Work.inst]
           passed == [i \in DOMAIN inst.to |-> convert_branch_args(Work.b, inst.to[i])]
           used == inst.opds \o FlattenSeq(passed)
       IN  \E acc \in {FoldLeft(process_constant, [map |-> st.value_map, n |-> st.constants, fn |-> fn], used)} :
               LET id == 1 + Max(Ops(fn) \cap 0..(FirstConstant - 1))
                   op == [Opn(inst.k, inst.res, [i \in DOMAIN inst.opds |-> acc.map[inst.opds[i]]]) EXCEPT
                             !.succs = [i \in DOMAIN inst.to |->
                                 [to |-> inst.to[i], args |-> [j \in DOMAIN passed[i] |-> acc.map[passed[i][j]]]]]]
               IN  IF \E i \in DOMAIN used : used[i] \notin DOMAIN acc.map THEN pc' = "error" /\ UNCHANGED <<fn, st>>
                   ELSE /\ UNCHANGED pc
                        /\ fn' = PutAt(acc.fn, Work.b, Len(acc.fn.blk[Work.b].ops) + 1, id, op)
                        /\ st' = [st EXCEPT !.work = Tail(@), !.constants = acc.n,
                                            !.value_map = acc.map @@ [v \in {Inst(x) : x \in ToSet(inst.res)} |-> v[2]]]

Return == pc = "from" /\ st.work = <<>> /\ pc' = "done" /\ st' = <<>> /\ UNCHANGED fn

Next == DeclareBlocks \/ ConvertOp \/ LLVMVerify \/ CreateBlocks \/ ConvertPhi \/ ConvertInstruction \/ Return

(***************************************************************************)
(* Properties.                                                             *)
(***************************************************************************)

\* A branch passes different operands to the same block.
DifferentOperands(p) ==
    \E o \in Ops(p) : \E i, j \in DOMAIN p.op[o].succs :
        p.op[o].succs[i].to = p.op[o].succs[j].to
        /\ \E k \in DOMAIN p.op[o].succs[i].args : p.op[o].succs[i].args[k] # p.op[o].succs[j].args[k]

\* "Definition for value not seen yet" and "PHI node must have argument from predecessor
\* block" are never met, in either direction, and what is made is LLVM-IR that its verifier
\* takes, unless a branch passes different operands to the same block.
ConversionSucceeds == pc # "error" /\ (pc = "rejected" => DifferentOperands(fn))
=============================================================================
