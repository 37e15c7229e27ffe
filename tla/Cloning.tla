------------------------------ MODULE Cloning ------------------------------
(***************************************************************************)
(* Cloning an operation with all that is in its regions                    *)
(* (src/src/irbuild/cloning.rs), and the structural equivalence and hash   *)
(* of operations (src/src/irbuild/equivalence.rs).  An operation of the    *)
(* function is cloned, in its context or into another one; the clone may   *)
(* be edited; then the two are compared, either of them on the left.       *)
(***************************************************************************)
EXTENDS Program

VARIABLES fn,   \* the function, with the clone beside it
          st,   \* what was cloned and how, and the outcome of the comparison
          pc

vars == <<fn, st, pc>>

Empty == [x \in {} |-> 0]

(***************************************************************************)
(* cloning.rs.  The clone of x is the new entity NewOf(x); env says where  *)
(* the clone goes, and m is the IrMapping with the IR that is built.       *)
(***************************************************************************)
NewOf(x) == 1000 + x

\* An operand or successor that is not in the mapping: the same one within a context, an
\* error in another one.
Lookup(map, x) == IF x \in DOMAIN map THEN map[x] ELSE x
Unmapped(map, xs) == \E i \in DOMAIN xs : xs[i] \notin DOMAIN map

\* The operation with its results and successors, without operands and with empty regions.
clone_op_shell(env, m, o) ==
    LET op == m.p.op[o]
        to == [i \in DOMAIN op.succs |-> op.succs[i].to]
        shell == [op EXCEPT !.res = [i \in DOMAIN @ |-> NewOf(@[i])], !.opds = <<>>,
                            !.succs = [i \in DOMAIN @ |-> [to |-> Lookup(m.blocks, @[i].to), args |-> <<>>]],
                            !.regs = [i \in DOMAIN @ |-> <<>>]]
    IN  IF m.err \/ (env = "cross" /\ Unmapped(m.blocks, to)) THEN [m EXCEPT !.err = TRUE]
        ELSE [m EXCEPT !.p.op = @ @@ (NewOf(o) :> shell),
                       !.values = [v \in ToSet(op.res) |-> NewOf(v)] @@ @]

create_block(m, dest, i, b) ==
    [m EXCEPT !.p.blk = @ @@ (NewOf(b) :> [args |-> [j \in DOMAIN m.p.blk[b].args |-> NewOf(m.p.blk[b].args[j])], ops |-> <<>>]),
              !.p.op[dest].regs[i] = Append(@, NewOf(b)),
              !.blocks = (b :> NewOf(b)) @@ @,
              !.values = [v \in ToSet(m.p.blk[b].args) |-> NewOf(v)] @@ @]

\* Its operands, through the mapping, and the contents of its regions.
RECURSIVE fill_operation(_, _, _)

OpsIn(p, blocks) == FlattenSeq([i \in DOMAIN blocks |-> p.blk[blocks[i]].ops])
\* Mutant: the operands are filled in before the later shells are there.
clone_blocks_in_OnePass(env, m, blocks, dest, i) ==
    LET Append1(n, o) ==
            LET shell == clone_op_shell(env, n, o)
                placed == IF shell.err THEN shell ELSE [shell EXCEPT !.p.blk[NewOf(BlockOf(n.p, o))].ops = Append(@, NewOf(o))]
            IN  fill_operation(env, placed, o)
    IN  FoldLeft(Append1, FoldLeft(LAMBDA n, b : create_block(n, dest, i, b), m, blocks), OpsIn(m.p, blocks))

\* Blocks and arguments first, then the shells of all operations, then what they use.
clone_blocks_in(env, m, blocks, dest, i) ==
    LET ops == OpsIn(m.p, blocks)
        AppendShell(n, o) ==
            LET shell == clone_op_shell(env, n, o)
            IN  IF shell.err THEN shell ELSE [shell EXCEPT !.p.blk[NewOf(BlockOf(n.p, o))].ops = Append(@, NewOf(o))]
        phase1 == FoldLeft(LAMBDA n, b : create_block(n, dest, i, b), m, blocks)
        phase2 == FoldLeft(AppendShell, phase1, ops)
    IN  FoldLeft(LAMBDA n, o : fill_operation(env, n, o), phase2, ops)

fill_operation(env, m, o) ==
    IF m.err THEN m
    ELSE LET op == m.p.op[o]
             Map(vs) == [i \in DOMAIN vs |-> Lookup(m.values, vs[i])]
             filled == [m EXCEPT !.p.op[NewOf(o)].opds = Map(op.opds),
                                 !.p.op[NewOf(o)].succs = [i \in DOMAIN @ |-> [@[i] EXCEPT !.args = Map(op.succs[i].args)]]]
         IN  IF env = "cross" /\ Unmapped(m.values, operands(op)) THEN [m EXCEPT !.err = TRUE]
             ELSE FoldLeft(LAMBDA n, i : clone_blocks_in(env, n, op.regs[i], NewOf(o), i), filled, [i \in DOMAIN op.regs |-> i])

clone_operation_in(env, p, o) ==
    LET m == [p |-> p, values |-> Empty, blocks |-> Empty, err |-> FALSE]
    IN  fill_operation(env, clone_op_shell(env, m, o), o)

CloneOperation ==
    /\ pc = "start"
    /\ \E o \in {q \in Ops(fn) : fn.op[q].regs # <<>>}, env \in {"same", "cross"} :
       \E m \in {clone_operation_in(env, fn, o)} :
          /\ pc' = IF m.err THEN "error" ELSE "cloned"
          /\ st' = [root |-> o, env |-> env]
          /\ fn' = IF m.err THEN fn ELSE m.p

(***************************************************************************)
(* An edit of the clone: none, another block or another operation at an    *)
(* end, another constant, another operand, another branch.                 *)
(***************************************************************************)
Clone == NewOf(st.root)
NewBlock == 9000
NewOp == 9001
Cloned == {n[2] : n \in {n \in ToSet(WalkPreorder(fn, Clone)) : n[1] = "op"}} \ {Clone}

\* A value that is defined in the original is not visible in the clone.
DefinedIn(root) ==
    UNION {ToSet(IF n[1] = "op" THEN fn.op[n[2]].res ELSE fn.blk[n[2]].args) : n \in ToSet(WalkPreorder(fn, root))}

EditClone ==
    /\ pc = "cloned" /\ st.env = "same" /\ pc' = "edited" /\ UNCHANGED st
    /\ \/ UNCHANGED fn
       \/ fn' = [op |-> [fn.op EXCEPT ![Clone].regs[1] = Append(@, NewBlock)] @@ (NewOp :> Opn("unreachable", <<>>, <<>>)),
                 blk |-> fn.blk @@ (NewBlock :> [args |-> <<>>, ops |-> <<NewOp>>])]
       \/ \E b \in ToSet(fn.op[Clone].regs[1]) :
             /\ fn.op[Last(fn.blk[b].ops)].k \notin Terminators
             /\ fn' = PutAt(fn, b, Len(fn.blk[b].ops) + 1, NewOp, ConstOp(NewOp, 0))
       \/ \E o \in Cloned : fn.op[o].k = "const" /\ fn' = [fn EXCEPT !.op[o].val = 1 - @]
       \/ \E o \in Cloned : \E v \in ({91, NewOf(91)} \cap Values(fn)) \ DefinedIn(st.root) :
             fn.op[o].opds # <<>> /\ fn' = [fn EXCEPT !.op[o].opds[1] = v]
       \/ \E o \in Cloned : Len(fn.op[o].succs) = 2
             /\ fn' = [fn EXCEPT !.op[o].succs[1].to = fn.op[o].succs[2].to]

(***************************************************************************)
(* equivalence.rs.  neq is the first pair that is unequal, <<>> so far.    *)
(***************************************************************************)
\* `zip` takes an element of the left list before it finds the right one at its end, so the
\* test for a next element after it does not see a left list that is longer by one.
LengthsDiffer(l, r) == Len(l) < Len(r) \/ Len(l) > Len(r) + 1
Pairs(l, r) == [i \in 1..Min({Len(l), Len(r)}) |-> <<l[i], r[i]>>]
MapAll(map, l, r) == [x \in ToSet(l) |-> r[CHOOSE i \in DOMAIN l : l[i] = x]] @@ map

op_eq_map(m, l, r) ==
    LET lop == fn.op[l]
        rop == fn.op[r]
    IN  IF m.neq # <<>> THEN m
        ELSE IF \/ lop.k # rop.k \/ Len(lop.regs) # Len(rop.regs) \/ Len(lop.succs) # Len(rop.succs)
                \/ Len(operands(lop)) # Len(operands(rop)) \/ Len(lop.res) # Len(rop.res) \/ lop.val # rop.val
        THEN [m EXCEPT !.neq = <<"ops", l, r>>]
        ELSE [m EXCEPT !.values = MapAll(@, lop.res, rop.res)]

block_eq_map(m, l, r) ==
    IF m.neq # <<>> THEN m
    ELSE IF Len(fn.blk[l].args) # Len(fn.blk[r].args) THEN [m EXCEPT !.neq = <<"blocks", l, r>>]
    ELSE [m EXCEPT !.blocks = (l :> r) @@ @, !.values = MapAll(@, fn.blk[l].args, fn.blk[r].args)]

\* Operands and successors through the mapping, then the regions.
RECURSIVE op_eq_mapped(_, _, _)

\* Mutant: an operation is compared before the definitions behind it are mapped.
blocks_eq_TwoPasses(m, l, r, region) ==
    LET Op(n, y) == LET k == op_eq_map(n, y[1], y[2]) IN op_eq_mapped(k, y[1], y[2])
        pass1 == FoldLeft(LAMBDA n, x : block_eq_map(n, x[1], x[2]), m, Pairs(l, r))
    IN  FoldLeft(LAMBDA n, x : FoldLeft(Op, n, Pairs(fn.blk[x[1]].ops, fn.blk[x[2]].ops)), pass1, Pairs(l, r))

blocks_eq(m, l, r, region) ==
    LET pairs == Pairs(l, r)
        pass1 == FoldLeft(LAMBDA n, x : block_eq_map(n, x[1], x[2]), m, pairs)
        BlockOps(n, x) ==
            LET lops == fn.blk[x[1]].ops
                rops == fn.blk[x[2]].ops
                after == FoldLeft(LAMBDA k, y : op_eq_map(k, y[1], y[2]), n, Pairs(lops, rops))
            IN  IF after.neq = <<>> /\ LengthsDiffer(lops, rops) THEN [after EXCEPT !.neq = <<"blocks", x[1], x[2]>>] ELSE after
        pass2 == FoldLeft(BlockOps, pass1, pairs)
        Full(n, x) == FoldLeft(LAMBDA k, y : op_eq_mapped(k, y[1], y[2]), n, Pairs(fn.blk[x[1]].ops, fn.blk[x[2]].ops))
    IN  CASE pass1.neq # <<>> -> pass1
          [] pass1.neq = <<>> /\ LengthsDiffer(l, r) -> [pass1 EXCEPT !.neq = region]
          [] pass1.neq = <<>> /\ ~ LengthsDiffer(l, r) -> FoldLeft(Full, pass2, pairs)

op_eq_mapped(m, l, r) ==
    LET lop == fn.op[l]
        rop == fn.op[r]
        same == /\ \A i \in DOMAIN operands(lop) : Lookup(m.values, operands(lop)[i]) = operands(rop)[i]
                /\ \A i \in DOMAIN lop.succs : Lookup(m.blocks, lop.succs[i].to) = rop.succs[i].to
    IN  IF m.neq # <<>> THEN m
        ELSE IF ~ same THEN [m EXCEPT !.neq = <<"ops", l, r>>]
        ELSE FoldLeft(LAMBDA n, i : IF n.neq # <<>> THEN n ELSE blocks_eq(n, lop.regs[i], rop.regs[i], <<"regions", <<l, i>>, <<r, i>>>>),
                      m, [i \in DOMAIN lop.regs |-> i])

operation_eq(l, r) ==
    LET m == [values |-> Empty, blocks |-> Empty, neq |-> <<>>]
    IN  op_eq_mapped(op_eq_map(m, l, r), l, r).neq

\* What goes into the hasher, in order; a definition is numbered when it is met.
hash_op_shell(h, o) ==
    LET op == fn.op[o]
    IN  [h EXCEPT !.out = @ \o <<<<"op", op.k, Len(op.regs), op.val, Len(op.res)>>>>, !.values = @ \o op.res]
hash_block_shell(h, b) ==
    [h EXCEPT !.out = Append(@, <<"block", Len(fn.blk[b].args)>>), !.blocks = Append(@, b), !.values = @ \o fn.blk[b].args]
Number(defs, x) == IF x \in ToSet(defs) THEN <<0, CHOOSE i \in DOMAIN defs : defs[i] = x>> ELSE <<1, x>>

RECURSIVE hash_op_full(_, _)

hash_blocks_full(h, blocks) ==
    LET shells == FoldLeft(hash_block_shell, h, blocks)
        all == FoldLeft(hash_op_shell, shells, OpsIn(fn, blocks))
    IN  FoldLeft(hash_op_full, all, OpsIn(fn, blocks))

hash_op_full(h, o) ==
    LET op == fn.op[o]
        opds == [i \in DOMAIN operands(op) |-> Number(h.values, operands(op)[i])]
        succs == [i \in DOMAIN op.succs |-> Number(h.blocks, op.succs[i].to)]
    IN  FoldLeft(hash_blocks_full, [h EXCEPT !.out = @ \o opds \o succs], op.regs)

operation_hash(o) ==
    LET h == [out |-> <<>>, values |-> <<>>, blocks |-> <<>>] IN hash_op_full(hash_op_shell(h, o), o).out

Compare ==
    /\ pc = "edited" /\ pc' = "compared" /\ UNCHANGED fn
    /\ \E sides \in {<<st.root, Clone>>, <<Clone, st.root>>} :
          st' = [root |-> st.root, env |-> st.env, sides |-> sides, neq |-> operation_eq(sides[1], sides[2]),
                 hashes |-> <<operation_hash(sides[1]), operation_hash(sides[2])>>]

Next == CloneOperation \/ EditClone \/ Compare

(***************************************************************************)
(* Properties.                                                             *)
(***************************************************************************)
\* Two operations are the same when they read the same in pre-order, each value and block
\* they define standing for its place.
Read(o) ==
    LET nodes == WalkPreorder(fn, o)
        Defs(n) == IF n[1] = "op" THEN fn.op[n[2]].res ELSE fn.blk[n[2]].args
        values == FlattenSeq([i \in DOMAIN nodes |-> Defs(nodes[i])])
        blocks == SelectSeq(nodes, LAMBDA n : n[1] = "block")
        Place(defs, x) == IF x \in ToSet(defs) THEN <<"in", CHOOSE i \in DOMAIN defs : defs[i] = x>> ELSE <<"out", x>>
        Line(n) ==
            IF n[1] = "block" THEN <<Len(fn.blk[n[2]].args), Len(fn.blk[n[2]].ops)>>
            ELSE LET op == fn.op[n[2]]
                 IN  <<op.k, op.val, Len(op.res), [i \in DOMAIN op.regs |-> Len(op.regs[i])],
                       [i \in DOMAIN operands(op) |-> Place(values, operands(op)[i])],
                       [i \in DOMAIN op.succs |-> Place(blocks, <<"block", op.succs[i].to>>)]>>
    IN  [i \in DOMAIN nodes |-> Line(nodes[i])]
\* A list of the left one is longer by one than that of the right one.
OneLonger == st.sides[1] = Clone /\ NewOp \in Ops(fn)

\* A clone reads as its original, forward references included, and shares nothing with it;
\* into another context everything that is used has to be cloned too, and otherwise it fails.
CloneCorrect ==
    /\ pc = "cloned" => Read(st.root) = Read(Clone)
    /\ pc \in {"error", "cloned"} /\ st.env = "cross" =>
          (pc = "error" <=> \E line \in ToSet(Read(st.root)) : Len(line) = 6 /\ "out" \in {x[1] : x \in ToSet(line[5]) \cup ToSet(line[6])})
    /\ pc = "error" => st.env = "cross"

\* Comparing says equal exactly when the two read the same, and then the hashes are equal,
\* except where the left one has one more block or operation at the end of a list.
EquivalenceCorrect ==
    pc = "compared" =>
        LET same == Read(st.sides[1]) = Read(st.sides[2])
        IN  /\ same => st.neq = <<>> /\ st.hashes[1] = st.hashes[2]
            /\ st.neq = <<>> => same \/ OneLonger

\* "whenever equivalence returns Eq for `lhs` and `rhs` ..., the corresponding hash function
\* returns the same hash for `lhs` and `rhs`" (equivalence.rs).
EqHashesAlike == pc = "compared" /\ st.neq = <<>> => st.hashes[1] = st.hashes[2]
============================================================================
