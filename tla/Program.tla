------------------------------ MODULE Program ------------------------------
(***************************************************************************)
(* Small functions in the IR that the optimisations of src/src/opts work   *)
(* on, the edits the passes make to them, and what they do when they run.  *)
(* A function p has its operations in p.op and its blocks in p.blk.        *)
(* Operation 0 is the function itself; an operation is a record of its     *)
(* kind, results, operands, successors (with the operands each gets) and   *)
(* regions (sequences of blocks, the entry first).  A value is named by a  *)
(* number: the results of an operation and the arguments of a block.       *)
(*                                                                         *)
(* The operations are those of the LLVM dialect on one-bit integers and    *)
(* the region operations of the tests: if, when, loop, parallel, for (the  *)
(* loop of the tests of liveness) and opaque, whose regions have no edges. *)
(***************************************************************************)
EXTENDS ConstFold, Functions

Terminators == {"br", "cond_br", "ret", "unreachable", "yield", "loop_cond"}
Branches == {"br", "cond_br"}
RegionBranches == {"if", "when", "loop", "parallel", "for"}
ConstFolds == {"const", "xor", "and"}
\* SideEffects::has_self_side_effects is false for these.
Pure == {"const", "xor", "and", "copy", "alloca", "when", "br", "cond_br", "ret", "yield"}

(***************************************************************************)
(* Structure.                                                              *)
(***************************************************************************)
Ops(p) == DOMAIN p.op
operands(op) == op.opds \o FlattenSeq([i \in DOMAIN op.succs |-> op.succs[i].args])
Has(seq, x) == \E i \in DOMAIN seq : seq[i] = x
Users(p, v) ==
    {o \in Ops(p) : Has(p.op[o].opds, v) \/ \E i \in DOMAIN p.op[o].succs : Has(p.op[o].succs[i].args, v)}
BlockOf(p, o) == CHOOSE b \in DOMAIN p.blk : Has(p.blk[b].ops, o)
IndexIn(p, b, o) == CHOOSE i \in DOMAIN p.blk[b].ops : p.blk[b].ops[i] = o
RegionsOf(p, o) == {<<o, i>> : i \in DOMAIN p.op[o].regs}
RegionOf(p, b) ==
    LET o == CHOOSE o \in Ops(p) : \E i \in DOMAIN p.op[o].regs : Has(p.op[o].regs[i], b)
    IN  <<o, CHOOSE i \in DOMAIN p.op[o].regs : Has(p.op[o].regs[i], b)>>
Blocks(p, r) == p.op[r[1]].regs[r[2]]
EntryOf(p, r) == Blocks(p, r)[1]
ParentOp(p, o) == RegionOf(p, BlockOf(p, o))[1]
NextOp(p, o) ==
    LET b == BlockOf(p, o)
        i == IndexIn(p, b, o)
    IN  IF i < Len(p.blk[b].ops) THEN p.blk[b].ops[i + 1] ELSE 0
Terminator(p, b) == Last(p.blk[b].ops)
Succs(p, b) == LET t == p.op[Terminator(p, b)] IN [i \in DOMAIN t.succs |-> t.succs[i].to]
Uses(p, b) == {<<o, i>> \in Ops(p) \X (1..2) : i \in DOMAIN p.op[o].succs /\ p.op[o].succs[i].to = b}
Preds(p, b) == {BlockOf(p, u[1]) : u \in Uses(p, b)}
Values(p) ==
    UNION {ToSet(p.op[o].res) : o \in Ops(p)} \cup UNION {ToSet(p.blk[b].args) : b \in DOMAIN p.blk}
Results(p, o) == ToSet(p.op[o].res)
DefiningOp(p, v) == {o \in Ops(p) : Has(p.op[o].res, v)}
DefiningBlock(p, v) == {b \in DOMAIN p.blk : Has(p.blk[b].args, v)}
Fresh(p) == 1 + Max({0} \cup Ops(p) \cup Values(p))

RECURSIVE AncestorOps(_, _)
AncestorOps(p, o) == IF o = 0 THEN {} ELSE {ParentOp(p, o)} \cup AncestorOps(p, ParentOp(p, o))
\* Operations and blocks of the regions of o, at any depth.
InsideOps(p, o) == {q \in Ops(p) : o \in AncestorOps(p, q)}
InsideBlocks(p, o) == LET owners == {o} \cup InsideOps(p, o) IN {b \in DOMAIN p.blk : RegionOf(p, b)[1] \in owners}

\* A walk in pre-order, forward: operations <<"op", o>> and blocks <<"block", b>>.
RECURSIVE WalkPreorder(_, _)
WalkPreorder(p, o) ==
    LET blocks == FlattenSeq(p.op[o].regs)
        Visit(b) == FoldLeft(LAMBDA seen, q : seen \o WalkPreorder(p, q), <<<<"block", b>>>>, p.blk[b].ops)
    IN  FoldLeft(LAMBDA seen, b : seen \o Visit(b), <<<<"op", o>>>>, blocks)

\* Blocks of region r that can be reached from its entry, without going through a.
ReachableAvoiding(p, r, a) ==
    LET Grow[n \in Nat] == IF n = 0 THEN {EntryOf(p, r)} \ {a}
                           ELSE LET old == Grow[n - 1] IN old \cup (UNION {ToSet(Succs(p, x)) : x \in old} \ {a})
    IN  Grow[Len(Blocks(p, r))]
Reachable(p, r) == ReachableAvoiding(p, r, 0)

\* Every path from the entry of the region to b goes through a (b is reachable).
Dominated(p, r, a) == Reachable(p, r) \ ReachableAvoiding(p, r, a)
Dominates(p, r, a, b) == b \in Dominated(p, r, a)

(***************************************************************************)
(* Edits.                                                                  *)
(***************************************************************************)
Subst(s, v, w) == [i \in DOMAIN s |-> IF s[i] = v THEN w ELSE s[i]]
ReplaceUses(p, v, w) ==
    [p EXCEPT !.op = [o \in DOMAIN @ |->
        [@[o] EXCEPT !.opds = Subst(@, v, w),
                     !.succs = [i \in DOMAIN @ |-> [@[i] EXCEPT !.args = Subst(@, v, w)]]]]]
RemoveOps(p, gone) ==
    [op |-> Restrict(p.op, Ops(p) \ gone),
     blk |-> [b \in DOMAIN p.blk |-> [p.blk[b] EXCEPT !.ops = SelectSeq(@, LAMBDA o : o \notin gone)]]]
RemoveBlocks(p, gone) ==
    LET q == RemoveOps(p, UNION {ToSet(p.blk[b].ops) : b \in gone})
    IN  [op |-> [o \in Ops(q) |-> [q.op[o] EXCEPT !.regs =
                    [i \in DOMAIN @ |-> SelectSeq(@[i], LAMBDA b : b \notin gone)]]],
         blk |-> Restrict(q.blk, DOMAIN q.blk \ gone)]
EraseOp(p, o) == RemoveOps(RemoveBlocks(p, InsideBlocks(p, o)), {o})
PutAt(p, b, i, o, op) ==
    [op |-> [x \in Ops(p) \cup {o} |-> IF x = o THEN op ELSE p.op[x]],
     blk |-> [p.blk EXCEPT ![b].ops = InsertAt(@, i, o)]]
InsertBefore(p, before, o, op) ==
    LET b == BlockOf(p, before) IN PutAt(p, b, IndexIn(p, b, before), o, op)

Opn(k, res, opds) == [k |-> k, res |-> res, opds |-> opds, val |-> 0, succs |-> <<>>, regs |-> <<>>, w |-> 1]
ConstOp(v, c) == [Opn("const", <<v>>, <<>>) EXCEPT !.val = c]

(***************************************************************************)
(* Region control flow: RegionBranchOpInterface of the test operations.    *)
(* An edge comes from 0 (the operation itself) or a terminator, and goes   *)
(* to 0 (after the operation) or a region.                                 *)
(***************************************************************************)
Flows(a, b) == [i \in 1..Min({Len(a), Len(b)}) |-> <<a[i], b[i]>>]
TailTerminator(p, o, i) == Terminator(p, Last(p.op[o].regs[i]))
region_edges(p, o) ==
    LET op == p.op[o]
        t == [i \in DOMAIN op.regs |-> TailTerminator(p, o, i)]
        args == p.blk[op.regs[1][1]].args
        Edge(from, to, flows, reads) == [from |-> from, to |-> to, flows |-> flows, reads |-> reads]
        Enter(i, flows, reads) == Edge(0, i, flows, reads)
        Exit(i, opds, reads) == Edge(t[i], 0, Flows(opds, op.res), reads)
        cond == IF op.opds = <<>> THEN <<>> ELSE <<op.opds[1]>>
        again == p.op[t[1]].opds
    IN  CASE op.k = "if" -> <<Enter(1, <<>>, cond), Exit(1, again, <<>>), Enter(2, <<>>, cond), Exit(2, p.op[t[2]].opds, <<>>)>>
          [] op.k = "when" -> <<Enter(1, <<>>, cond), Edge(0, 0, Flows(Tail(op.opds), op.res), cond), Exit(1, again, <<>>)>>
          [] op.k = "loop" -> <<Enter(1, Flows(op.opds, args), <<>>),
                                Edge(t[1], 1, Flows(Tail(again), args), <<again[1]>>),
                                Exit(1, Tail(again), <<again[1]>>)>>
          [] op.k = "parallel" -> <<Enter(1, <<>>, <<>>), Exit(1, <<>>, <<>>)>>
          [] op.k = "for" -> <<Enter(1, Flows(<<op.opds[1], op.opds[3]>>, args), <<op.opds[1], op.opds[2]>>),
                               Edge(0, 0, <<>>, <<op.opds[1], op.opds[2]>>),
                               Edge(t[1], 1, Flows(again, args), <<op.opds[3], again[1]>>),
                               Edge(t[1], 2, <<>>, <<>>), Edge(t[2], 0, <<>>, <<op.opds[2]>>)>>
edges_from(p, o, from) == SelectSeq(region_edges(p, o), LAMBDA e : e.from = from)

\* The successors that are left when the attributes of the operands are known.
check_fold_region(p, o, from, attrs, term_attrs) ==
    LET Two(c, yes, no) == IF IsInt(c) THEN {IF c = 0 THEN no ELSE yes} ELSE {yes, no}
        k == p.op[o].k
    IN  CASE k = "if" /\ from = 0 -> Two(attrs[1], 1, 2)
          [] k = "when" /\ from = 0 -> Two(attrs[1], 1, 0)
          [] k = "loop" /\ from # 0 -> Two(term_attrs[1], 1, 0)
          [] k = "parallel" -> {e.to : e \in ToSet(edges_from(p, o, from))}
          [] OTHER -> {IF from = 0 THEN 1 ELSE 0}

(***************************************************************************)
(* Running a function.                                                     *)
(***************************************************************************)
Unset == -9

Start(p, inputs) ==
    LET entry == p.op[0].regs[1][1] IN
    [at |-> <<entry, 1>>, out |-> <<>>, st |-> "running", mem |-> [o \in {} |-> 0],
     env |-> [v \in Values(p) |-> IF v \in ToSet(p.blk[entry].args) THEN inputs[v] ELSE Unset]]

Assign(env, flows) ==
    [v \in DOMAIN env |->
        LET into == {i \in DOMAIN flows : flows[i][2] = v}
        IN  IF into = {} THEN env[v] ELSE env[flows[CHOOSE i \in into : TRUE][1]]]

\* Control goes to region or point `to` of operation o, or to a block.
GoRegion(p, s, o, edge) ==
    [s EXCEPT !.env = Assign(@, edge.flows),
              !.at = IF edge.to = 0 THEN <<BlockOf(p, o), IndexIn(p, BlockOf(p, o), o) + 1>>
                     ELSE <<p.op[o].regs[edge.to][1], 1>>]
GoBlock(p, s, succ) ==
    [s EXCEPT !.env = Assign(@, Flows(succ.args, p.blk[succ.to].args)), !.at = <<succ.to, 1>>]
TakeEdge(p, s, o, from, to) ==
    GoRegion(p, s, o, CHOOSE e \in ToSet(edges_from(p, o, from)) : e.to = to)

Step(p, s) ==
    LET o == p.blk[s.at[1]].ops[s.at[2]]
        op == p.op[o]
        in == [i \in DOMAIN op.opds |-> s.env[op.opds[i]]]
        Result(x) == [s EXCEPT !.env[op.res[1]] = x, !.at[2] = @ + 1]
    IN  CASE Unset \in ToSet(in) -> [s EXCEPT !.st = "undefined value"]
          [] op.k \in Branches \cup {"if", "when", "loop_cond"} /\ Len(in) > 0 /\ in[1] = Poison ->
                [s EXCEPT !.st = "ub"]
          [] op.k = "const" -> Result(op.val)
          [] op.k = "copy" -> Result(in[1])
          [] op.k = "xor" -> Result(IF Poison \in ToSet(in) THEN Poison ELSE (in[1] + in[2]) % 2)
          [] op.k = "and" -> Result(IF Poison \in ToSet(in) THEN Poison ELSE in[1] * in[2])
          [] op.k = "print" -> [s EXCEPT !.out = Append(@, in[1]), !.at[2] = @ + 1]
          [] op.k = "alloca" -> [Result(o) EXCEPT !.mem = [x \in DOMAIN @ \cup {o} |-> IF x = o THEN Poison ELSE @[x]]]
          [] op.k = "load" -> Result(s.mem[in[1]])
          [] op.k = "store" -> [s EXCEPT !.mem[in[2]] = in[1], !.at[2] = @ + 1]
          [] op.k = "br" -> GoBlock(p, s, op.succs[1])
          [] op.k = "cond_br" -> GoBlock(p, s, op.succs[IF in[1] = 0 THEN 2 ELSE 1])
          [] op.k = "ret" -> [s EXCEPT !.out = Append(@, in[1]), !.st = "returned"]
          [] op.k = "unreachable" -> [s EXCEPT !.st = "ub"]
          [] op.k = "if" -> TakeEdge(p, s, o, 0, IF in[1] = 0 THEN 2 ELSE 1)
          [] op.k = "when" -> TakeEdge(p, s, o, 0, IF in[1] = 0 THEN 0 ELSE 1)
          [] op.k \in {"loop", "parallel"} -> TakeEdge(p, s, o, 0, 1)
          [] op.k = "opaque" -> [s EXCEPT !.at = <<op.regs[1][1], 1>>,
                                          !.env = [v \in DOMAIN @ |-> IF v \in ToSet(op.res) THEN 1 ELSE @[v]]]
          [] op.k = "yield" /\ p.op[ParentOp(p, o)].k = "opaque" ->
                LET parent == ParentOp(p, o)
                IN  [s EXCEPT !.at = <<BlockOf(p, parent), IndexIn(p, BlockOf(p, parent), parent) + 1>>]
          [] op.k = "yield" /\ p.op[ParentOp(p, o)].k # "opaque" -> TakeEdge(p, s, ParentOp(p, o), o, 0)
          [] op.k = "loop_cond" -> TakeEdge(p, s, ParentOp(p, o), o, IF in[1] = 0 THEN 0 ELSE 1)

Run(p, inputs, fuel) ==
    LET After[n \in 0..fuel] ==
            IF n = 0 THEN Start(p, inputs)
            ELSE LET s == After[n - 1] IN IF s.st = "running" THEN Step(p, s) ELSE s
    IN  After[fuel]

\* Poison may become any value, and undefined behaviour anything; a run of p that
\* does not end within its fuel says nothing.
Refines(q, p, fuel) ==
    \A inputs \in [ToSet(p.blk[p.op[0].regs[1][1]].args) -> {0, 1}] :
        LET a == Run(p, inputs, fuel)
            b == Run(q, inputs, 2 * fuel)
        IN  \/ a.st \in {"ub", "running"}
            \/ /\ a.st = b.st /\ Len(a.out) = Len(b.out)
               /\ \A i \in DOMAIN a.out : a.out[i] \in {Poison, b.out[i]}

\* The definition of v dominates the use in o, which is nested in an operation of the
\* region of the definition; a use that cannot be reached may be anything.
RECURSIVE LiftTo(_, _, _)
LiftTo(p, o, r) ==
    CASE o = 0 -> {}
      [] o # 0 /\ RegionOf(p, BlockOf(p, o)) = r -> {o}
      [] OTHER -> LiftTo(p, ParentOp(p, o), r)
DefinedAt(p, v, o) ==
    LET def == DefiningOp(p, v)
        home == IF def = {} THEN CHOOSE b \in DefiningBlock(p, v) : TRUE ELSE BlockOf(p, CHOOSE d \in def : TRUE)
    IN  \E use \in LiftTo(p, o, RegionOf(p, home)) :
           LET b == BlockOf(p, use) IN
           IF b = home THEN def = {} \/ \E d \in def : IndexIn(p, b, d) < IndexIn(p, b, use)
           ELSE b \notin Reachable(p, RegionOf(p, b)) \/ Dominates(p, RegionOf(p, b), home, b)

\* What the verifier asks: operands exist, an edge has an operand for each argument and
\* each result, and definitions dominate their uses.
WellFormed(p) ==
    /\ \A o \in Ops(p) : ToSet(operands(p.op[o])) \subseteq Values(p)
    /\ \A o \in Ops(p) : \A i \in DOMAIN p.op[o].succs :
          LET succ == p.op[o].succs[i]
          IN  succ.to \in DOMAIN p.blk /\ Len(succ.args) = Len(p.blk[succ.to].args)
    /\ \A o \in Ops(p) : p.op[o].k \in RegionBranches =>
          \A e \in ToSet(region_edges(p, o)) :
             Len(e.flows) = IF e.to = 0 THEN Len(p.op[o].res) ELSE Len(p.blk[p.op[o].regs[e.to][1]].args)
    /\ \A o \in Ops(p) \ {0} : \A v \in ToSet(operands(p.op[o])) : DefinedAt(p, v, o)
============================================================================
