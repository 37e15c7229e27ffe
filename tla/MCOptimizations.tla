-------------------------- MODULE MCOptimizations --------------------------
(***************************************************************************)
(* The optimisations, each run on a family of small functions: four blocks *)
(* with every interesting shape of branches between them, loops included,  *)
(* operations with regions, constants, and loads and stores.  What a pass  *)
(* makes of a function is run beside the function it was given.            *)
(***************************************************************************)
EXTENDS Program

CONSTANTS Passes,    \* the passes to run: {"sccp", "dce", "simplify_cfg", "mem2reg", "liveness", "llvm", "clone", "fold"}
          MaxWidth    \* bound: the widest integers that are folded

VARIABLES fn, st, pc, pass, orig

S == INSTANCE Sccp
D == INSTANCE Dce
C == INSTANCE SimplifyCfg
M == INSTANCE Mem2Reg
L == INSTANCE Liveness
V == INSTANCE LLVMConversion
K == INSTANCE Cloning
F == INSTANCE MCConstFold WITH case <- orig, folded <- st

(***************************************************************************)
(* Functions with four blocks.  The entry has the arguments 91 and 92, the *)
(* blocks 2, 3 and 4 the arguments 93, 94 and 95.                          *)
(***************************************************************************)
Fuel == 24

Br(to, v) == [Opn("br", <<>>, <<>>) EXCEPT !.succs = <<[to |-> to, args |-> <<v>>]>>]
CondBr(c, to1, v1, to2, v2) ==
    [Opn("cond_br", <<>>, <<c>>) EXCEPT !.succs = <<[to |-> to1, args |-> <<v1>>], [to |-> to2, args |-> <<v2>>]>>]
Branch(shape, c, v, w) == IF Len(shape) = 1 THEN Br(shape[1], v) ELSE CondBr(c, shape[1], v, shape[2], w)
Shapes == {<<2>>, <<2, 3>>, <<2, 4>>} \X {<<3>>, <<4>>, <<3, 4>>, <<2, 4>>} \X {<<2>>, <<4>>, <<2, 4>>, <<3, 4>>, <<4, 4>>}

Header == 1 :> ConstOp(1, 1) @@ 2 :> ConstOp(2, 0)
Func(regions) == 0 :> [Opn("func", <<>>, <<>>) EXCEPT !.regs = regions]
Arguments(b) == CASE b = 1 -> <<91, 92>> [] b = 2 -> <<93>> [] b = 3 -> <<94>> [] b = 4 -> <<95>>

\* What the blocks compute is passed on; or it is dead; or it is dead and uses 94 twice.
Scalar(shape, e, c1, c2, c3, kind) ==
    LET local == kind = "local"
        opds == CASE local -> <<94, 92, 94, 94>> [] kind = "dead" -> <<94, 92, 94, 31>> [] kind = "twice" -> <<92, 92, 94, 94>>
    IN
    [op |-> Func(<<<<1, 2, 3, 4>>>>) @@ Header
            @@ 10 :> Branch(shape[1], c1, e[1], e[2])
            @@ 21 :> Opn("xor", <<21>>, <<93, 1>>) @@ 22 :> Opn("print", <<>>, <<21>>)
            @@ 20 :> Branch(shape[2], c2, IF local THEN 21 ELSE 93, IF local THEN 93 ELSE 92)
            @@ 31 :> Opn("and", <<31>>, <<opds[1], opds[2]>>)
            @@ 32 :> Opn("and", <<32>>, <<opds[3], opds[4]>>)
            @@ 30 :> Branch(shape[3], c3, CASE local -> 31 [] kind = "dead" -> 94 [] OTHER -> 92, IF local THEN 94 ELSE 1)
            @@ 40 :> Opn("ret", <<>>, IF local THEN <<95>> ELSE <<92>>),
     blk |-> [b \in 1..4 |-> [args |-> Arguments(b),
                              ops |-> CASE b = 1 -> <<1, 2, 10>> [] b = 2 -> <<21, 22, 20>>
                                        [] b = 3 -> <<31, 32, 30>> [] b = 4 -> <<40>>]]]
Scalars ==
    {Scalar(shape, e, c1, c2, c3, kind) :
        shape \in Shapes, e \in {<<1, 2>>, <<92, 92>>, <<1, 1>>},
        c1 \in {91, 1}, c2 \in {91, 21}, c3 \in {91, 94}, kind \in {"local", "dead"}}
    \cup {Scalar(shape, <<1, 2>>, 91, 91, 91, "twice") : shape \in Shapes}

(***************************************************************************)
(* Memory: the alloca is operation 3, or 4 in the first block of a loop.   *)
(***************************************************************************)
Load(o, ptr) == o :> Opn("load", <<o>>, <<ptr>>) @@ (o + 1) :> Opn("print", <<>>, <<o>>)
Store(o, v, ptr) == o :> Opn("store", <<>>, <<v, ptr>>)
\* What a block does to ptr: operations o, o + 1 and o + 2.
Body(kind, o, v, ptr) ==
    CASE kind = "none" -> [x \in {} |-> 0]
      [] kind = "load" -> Load(o, ptr)
      [] kind = "store" -> Store(o + 2, v, ptr)
      [] kind = "load store" -> o :> Opn("load", <<o>>, <<ptr>>) @@ (o + 1) :> Opn("xor", <<o + 1>>, <<o, 1>>)
                                @@ Store(o + 2, o + 1, ptr)
      [] kind = "store load" -> Load(o, ptr) @@ Store(o + 2, v, ptr)
      [] kind = "escape" -> (o + 1) :> Opn("print", <<>>, <<ptr>>)
BodyOps(kind, o) ==
    CASE kind = "none" -> <<>> [] kind = "load" -> <<o, o + 1>> [] kind = "store" -> <<o + 2>>
      [] kind = "load store" -> <<o, o + 1, o + 2>> [] kind = "store load" -> <<o + 2, o, o + 1>> [] kind = "escape" -> <<o + 1>>
Kinds == {"none", "load", "store", "load store", "store load"}

Memory(shape, k1, k2, k3, inner) ==
    [op |-> Func(<<<<1, 2, 3, 4>>>>) @@ Header @@ 3 :> Opn("alloca", <<3>>, <<>>) @@ 4 :> Opn("alloca", <<4>>, <<>>)
            @@ Body(k1, 11, 92, 3) @@ 10 :> Branch(shape[1], 91, 92, 92)
            @@ Body(k2, 21, 92, 3) @@ Body(inner, 25, 91, 4) @@ 20 :> Branch(shape[2], 91, 93, 92)
            @@ Body(k3, 31, 1, 3) @@ 30 :> Branch(shape[3], 91, 94, 91)
            @@ Load(41, 3) @@ 40 :> Opn("ret", <<>>, <<95>>),
     blk |-> [b \in 1..4 |-> [args |-> Arguments(b),
                              ops |-> CASE b = 1 -> <<1, 2, 3>> \o BodyOps(k1, 11) \o <<10>>
                                        [] b = 2 -> <<4>> \o BodyOps(k2, 21) \o BodyOps(inner, 25) \o <<20>>
                                        [] b = 3 -> BodyOps(k3, 31) \o <<30>>
                                        [] b = 4 -> <<41, 42, 40>>]]]
Memories ==
    {Memory(shape, k[1], k[2], k[3], k[4]) : shape \in Shapes,
        k \in {"none", "store"} \X {"none", "store", "load store"} \X Kinds \X {"none", "load store"}}
    \cup {Memory(<<<<2, 3>>, <<3, 4>>, <<2, 4>>>>, "store", "escape", "load", "store load")}

(***************************************************************************)
(* Operations with regions.  Operation 50 has the blocks 5 (and 7) in its  *)
(* first region and 6 in its second; 70, in block 5, has block 8.          *)
(***************************************************************************)
RegionOp(kind, opds, regions, results) ==
    [Opn(kind, IF results THEN <<50>> ELSE <<>>, opds) EXCEPT !.regs = regions]
Blk(args, ops) == [args |-> args, ops |-> ops]

\* kind, condition, the value that goes round or past, what is known of the loop condition,
\* whether the first region has two blocks, and whether the result is used.
ScalarRegion(kind, c, v, again, split, used) ==
    LET opds == CASE kind = "if" -> <<c>> [] kind = "when" -> <<c, v>> [] kind = "loop" -> <<v>> [] kind = "opaque" -> <<>>
        in == IF kind = "loop" THEN 96 ELSE 92
        last == IF split THEN 97 ELSE 51
        first == IF split THEN <<5, 7>> ELSE <<5>>
        exit == IF kind = "loop" THEN Opn("loop_cond", <<>>, <<again, last>>) ELSE Opn("yield", <<>>, <<last>>)
    IN  [op |-> Func(<<<<1>>>>) @@ Header
                @@ 50 :> RegionOp(kind, opds, IF kind = "if" THEN <<first, <<6>>>> ELSE <<first>>, TRUE)
                @@ 51 :> Opn("xor", <<51>>, <<in, 1>>) @@ 52 :> exit
                @@ (IF split THEN 53 :> Br(7, 51) ELSE [x \in {} |-> 0])
                @@ (IF kind = "if" THEN 61 :> Opn("yield", <<>>, <<v>>) ELSE [x \in {} |-> 0])
                @@ 11 :> Opn("print", <<>>, IF used THEN <<50>> ELSE <<92>>) @@ 10 :> Opn("ret", <<>>, <<91>>),
         blk |-> 1 :> Blk(<<91, 92>>, <<1, 2, 50, 11, 10>>)
                 @@ 5 :> Blk(IF kind = "loop" THEN <<96>> ELSE <<>>, IF split THEN <<51, 53>> ELSE <<51, 52>>)
                 @@ (IF split THEN 7 :> Blk(<<97>>, <<52>>) ELSE [x \in {} |-> 0])
                 @@ (IF kind = "if" THEN 6 :> Blk(<<>>, <<61>>) ELSE [x \in {} |-> 0])]
ScalarRegions ==
    {ScalarRegion(x[1], x[2], x[3], x[4], x[5], x[6]) :
        x \in {"if", "when", "loop", "opaque"} \X {91, 1, 2} \X {92, 1} \X {91, 51, 96, 2} \X BOOLEAN \X BOOLEAN}

MemoryRegion(kind, inner, k0, k5, k6, k8) ==
    LET nested == inner # "none"
        exit == IF kind = "loop" THEN Opn("loop_cond", <<>>, <<92>>) ELSE Opn("yield", <<>>, <<>>)
        opds == IF kind \in {"if", "when"} THEN <<91>> ELSE <<>>
    IN  [op |-> Func(<<<<1>>>>) @@ Header @@ 3 :> Opn("alloca", <<3>>, <<>>)
                @@ Body(k0, 11, 92, 3)
                @@ 50 :> RegionOp(kind, opds, IF kind = "if" THEN <<<<5>>, <<6>>>> ELSE <<<<5>>>>, FALSE)
                @@ Body(k5, 53, 91, 3) @@ 52 :> exit
                @@ (IF nested THEN 70 :> RegionOp(inner, IF inner = "when" THEN <<92>> ELSE <<>>, <<<<8>>>>, FALSE)
                                   @@ Body(k8, 81, 1, 3)
                                   @@ 80 :> IF inner = "loop" THEN Opn("loop_cond", <<>>, <<2>>) ELSE Opn("yield", <<>>, <<>>)
                    ELSE [x \in {} |-> 0])
                @@ (IF kind = "if" THEN Body(k6, 61, 2, 3) @@ 60 :> Opn("yield", <<>>, <<>>) ELSE [x \in {} |-> 0])
                @@ Load(15, 3) @@ 10 :> Opn("ret", <<>>, <<91>>),
         blk |-> 1 :> Blk(<<91, 92>>, <<1, 2, 3>> \o BodyOps(k0, 11) \o <<50, 15, 16, 10>>)
                 @@ 5 :> Blk(<<>>, BodyOps(k5, 53) \o (IF nested THEN <<70, 52>> ELSE <<52>>))
                 @@ (IF nested THEN 8 :> Blk(<<>>, BodyOps(k8, 81) \o <<80>>) ELSE [x \in {} |-> 0])
                 @@ (IF kind = "if" THEN 6 :> Blk(<<>>, BodyOps(k6, 61) \o <<60>>) ELSE [x \in {} |-> 0])]
MemoryRegions ==
    {MemoryRegion(x[1], x[2], x[3], x[4], x[5], x[6]) :
        x \in {"if", "when", "loop", "parallel", "opaque"} \X {"none", "when", "loop", "parallel", "opaque"}
              \X {"none", "store"} \X Kinds \X {"none", "store", "load store"} \X {"load", "store", "load store"}}

\* A region with a branch in it: block 5 goes to block 7 or 8, and block 7 to block 8.
MemoryBranch(kind, k0, k5, k7, k8) ==
    LET exit == IF kind = "loop" THEN Opn("loop_cond", <<>>, <<92>>) ELSE Opn("yield", <<>>, <<>>)
        opds == IF kind = "when" THEN <<91>> ELSE <<>>
    IN  [op |-> Func(<<<<1>>>>) @@ Header @@ 3 :> Opn("alloca", <<3>>, <<>>)
                @@ Body(k0, 11, 92, 3) @@ 50 :> RegionOp(kind, opds, <<<<5, 7, 8>>>>, FALSE)
                @@ Body(k5, 53, 91, 3) @@ 52 :> CondBr(92, 7, 1, 8, 91)
                @@ Body(k7, 71, 2, 3) @@ 70 :> Br(8, 96) @@ Body(k8, 81, 97, 3) @@ 80 :> exit
                @@ Load(15, 3) @@ 10 :> Opn("ret", <<>>, <<91>>),
         blk |-> 1 :> Blk(<<91, 92>>, <<1, 2, 3>> \o BodyOps(k0, 11) \o <<50, 15, 16, 10>>)
                 @@ 5 :> Blk(<<>>, BodyOps(k5, 53) \o <<52>>)
                 @@ 7 :> Blk(<<96>>, BodyOps(k7, 71) \o <<70>>) @@ 8 :> Blk(<<97>>, BodyOps(k8, 81) \o <<80>>)]
MemoryBranches ==
    {MemoryBranch(x[1], x[2], x[3], x[4], x[5]) :
        x \in {"when", "loop"} \X {"none", "store"} \X Kinds \X {"none", "load", "store"} \X Kinds}

(***************************************************************************)
(* Liveness: block b defines a value for each block that it dominates, and *)
(* there it is used.                                                       *)
(***************************************************************************)
DefUse(succs) ==
    LET blocks == DOMAIN succs
        Avoiding(a) == LET Grow[n \in Nat] == IF n = 0 THEN {1} \ {a}
                                              ELSE LET old == Grow[n - 1]
                                                   IN  old \cup (UNION {ToSet(succs[x]) : x \in old} \ {a})
                       IN  Grow[Len(succs)]
        pairs == UNION {UNION {{d} \X (reached \ (Avoiding(d) \ {d})) : d \in reached} : reached \in {Avoiding(0)}}
        Named(X) == LET seq == SetToSeq(X) IN [i \in DOMAIN seq |-> 100 + 10 * seq[i][1] + seq[i][2]]
        Exit(b) == CASE Len(succs[b]) = 0 -> Opn("ret", <<>>, <<91>>)
                     [] Len(succs[b]) = 1 -> [Opn("br", <<>>, <<>>) EXCEPT !.succs = <<[to |-> succs[b][1], args |-> <<>>]>>]
                     [] Len(succs[b]) = 2 -> [Opn("cond_br", <<>>, <<91>>) EXCEPT
                            !.succs = <<[to |-> succs[b][1], args |-> <<>>], [to |-> succs[b][2], args |-> <<>>]>>]
        OpOf(o) == CASE o % 10 = 0 -> Exit(o \div 10)
                     [] o % 10 = 1 -> Opn("call", Named({x \in pairs : x[1] = o \div 10}), <<>>)
                     [] o % 10 = 2 -> Opn("call", <<>>, Named({x \in pairs : x[2] = o \div 10}))
    IN  [op |-> Func(<<[i \in blocks |-> i]>>) @@ [o \in UNION {{10 * b, 10 * b + 1, 10 * b + 2} : b \in blocks} |-> OpOf(o)],
         blk |-> [b \in blocks |-> [args |-> IF b = 1 THEN <<91>> ELSE <<>>, ops |-> <<10 * b + 1, 10 * b + 2, 10 * b>>]]]
Few(X) == {SetToSortSeq(x, LAMBDA i, j : i < j) : x \in UNION {kSubset(k, X) : k \in 0..2}}

\* Every graph of four blocks behind an entry, the first of them a branch.
Loops == {DefUse(<<<<2>>, <<3, 4>>, s[1], s[2], s[3]>>) : s \in Few(2..5) \X Few(2..5) \X {<<>>, <<2>>, <<3>>, <<4>>, <<5>>, <<2, 3>>, <<3, 4>>}}
\* An inner loop, with header 3, in an outer one: "continue" and "break" of both.
LoopNests == {DefUse(<<<<2>>, <<3>>, <<4, 6>>, s[1], s[2], s[3]>>) : s \in Few(2..6) \X {<<3>>, <<2, 3>>, <<3, 6>>} \X {<<>>, <<2>>}}

\* An operation with regions in a block that may be a loop, another in its first region; each
\* value is used in one place: operation b3 uses in block b what operations 1, 2 and 51 define
\* for it, and 97, 98 and 99 stand for what the region operation and its terminator take.
LiveRegion(kind, inner, loop, split) ==
    LET Named(d, places) == [i \in DOMAIN places |-> 100 * d + places[i]]
        two == kind \in {"if", "for", "opaque"}
        nested == inner # "none"
        Opds(k) == CASE k \in {"if", "when"} -> <<91>> [] k = "loop" -> <<197>> [] k = "for" -> <<91, 198, 199>> [] OTHER -> <<>>
        Exit(k, opds) == Opn(IF k = "loop" THEN "loop_cond" ELSE "yield", <<>>, IF k \in {"loop", "for"} THEN opds ELSE <<>>)
        Use(b, defs) == Opn("call", <<>>, [i \in DOMAIN defs |-> 100 * defs[i] + b])
        Goto(c, to) == IF Len(to) = 1 THEN [Opn("br", <<>>, <<>>) EXCEPT !.succs = <<[to |-> to[1], args |-> <<>>]>>]
                       ELSE [Opn("cond_br", <<>>, <<c>>) EXCEPT !.succs = [i \in 1..2 |-> [to |-> to[i], args |-> <<>>]]]
        first == IF split THEN <<5, 7>> ELSE <<5>>
        exit == Exit(kind, <<201, 297>>)
        none == [x \in {} |-> 0]
        places == <<2, 3, 5, 6, 7, 8>>
    IN  [op |-> Func(<<<<1, 2, 3>>>>)
                @@ 1 :> Opn("call", Named(1, places \o <<97, 98, 99>>), <<>>) @@ 10 :> Goto(91, <<2>>)
                @@ 2 :> Opn("call", Named(2, places \o <<1, 97>>), <<>>)
                @@ 50 :> RegionOp(kind, Opds(kind), IF two THEN <<first, <<6>>>> ELSE <<first>>, FALSE)
                @@ 23 :> Use(2, <<1, 2>>) @@ 20 :> Goto(91, IF loop THEN <<2, 3>> ELSE <<3>>)
                @@ 33 :> Use(3, <<1, 2>>) @@ 30 :> Opn("ret", <<>>, <<91>>)
                @@ 51 :> Opn("call", Named(5, <<5, 7, 8>>), <<>>) @@ 53 :> Use(5, <<1, 2, 5>>)
                @@ (IF split THEN 52 :> Goto(91, <<5, 7>>) @@ 73 :> Use(7, <<1, 2, 5>>) @@ 72 :> exit ELSE 52 :> exit)
                @@ (IF two THEN 63 :> Use(6, <<1, 2>>) @@ 62 :> Exit("yield", <<>>) ELSE none)
                @@ (IF nested THEN 70 :> RegionOp(inner, IF inner = "loop" THEN <<>> ELSE Opds(inner), <<<<8>>>>, FALSE)
                                   @@ 83 :> Use(8, <<1, 2, 5>>) @@ 82 :> Exit(inner, <<91>>) ELSE none),
         blk |-> 1 :> Blk(<<91>>, <<1, 10>>) @@ 2 :> Blk(<<>>, <<2, 50, 23, 20>>) @@ 3 :> Blk(<<>>, <<33, 30>>)
                 @@ 5 :> Blk(CASE kind = "loop" -> <<96>> [] kind = "for" -> <<95, 96>> [] OTHER -> <<>>,
                             <<51>> \o (IF nested THEN <<70>> ELSE <<>>) \o <<53, 52>>)
                 @@ (IF split THEN 7 :> Blk(<<>>, <<73, 72>>) ELSE none) @@ (IF two THEN 6 :> Blk(<<>>, <<63, 62>>) ELSE none)
                 @@ (IF nested THEN 8 :> Blk(<<>>, <<83, 82>>) ELSE none)]
LiveRegions ==
    {LiveRegion(x[1], x[2], x[3], x[4]) :
        x \in {"if", "when", "loop", "parallel", "for", "opaque"} \X {"none", "when", "loop", "opaque"} \X BOOLEAN \X BOOLEAN}

\* A module: a block without a terminator, in it two functions.
Modules ==
    {[op |-> 0 :> [Opn("module", <<>>, <<>>) EXCEPT !.regs = <<<<1>>>>] @@ 1 :> [Opn("func", <<>>, <<>>) EXCEPT !.regs = <<<<2>>>>]
             @@ 2 :> [Opn("func", <<>>, <<>>) EXCEPT !.regs = <<>>] @@ 3 :> ConstOp(3, 1) @@ 4 :> Opn("ret", <<>>, <<3>>),
      blk |-> 1 :> Blk(<<>>, <<1, 2>>) @@ 2 :> Blk(<<>>, <<3, 4>>)]}

\* A loop with its blocks in an order in which uses come before definitions.
Backwards == {[DefUse(<<<<2>>, <<3, 4>>, <<2>>, <<>>>>) EXCEPT !.op[0].regs = <<<<1, 4, 3, 2>>>>]}

(***************************************************************************)
(* Running the passes.                                                     *)
(***************************************************************************)
vars == <<fn, st, pc, pass, orig>>

Programs(k) ==
    CASE k = "mem2reg" -> Memories \cup MemoryRegions \cup MemoryBranches
      [] k = "liveness" -> Loops \cup LoopNests \cup LiveRegions
      [] k = "llvm" -> Scalars \cup {Memory(shape, "store", "load store", "store load", "none") : shape \in Shapes}
      [] k = "clone" -> Modules \cup LiveRegions \cup Backwards
                        \cup {Scalar(<<<<2, 3>>, <<3, 4>>, third>>, <<1, 2>>, 91, 21, 91, "local") : third \in {<<2>>, <<2, 4>>}}
      [] k = "fold" -> F!Cases
      [] OTHER -> Scalars \cup ScalarRegions

Init == /\ pass \in Passes /\ orig \in Programs(pass)
        /\ fn = orig /\ st = (IF pass = "fold" THEN {} ELSE <<>>) /\ pc = "start"

Next == /\ \/ pass = "sccp" /\ S!Next
           \/ pass = "dce" /\ D!Next
           \/ pass = "simplify_cfg" /\ C!Next
           \/ pass = "mem2reg" /\ M!Next
           \/ pass = "liveness" /\ L!Next
           \/ pass = "llvm" /\ V!Next
           \/ pass = "clone" /\ K!Next
           \/ pass = "fold" /\ F!Next /\ UNCHANGED <<fn, pc>>
        /\ UNCHANGED <<pass, orig>>

Spec == Init /\ [][Next]_vars

(***************************************************************************)
(* Properties.                                                             *)
(***************************************************************************)

\* A function that went through a pass is one the verifier accepts, with definitions that
\* dominate their uses, and does what it did before: it prints and returns the same
\* values, where the original gives poison any value.
SemanticsPreserved == pc = "done" => WellFormed(fn) /\ Refines(fn, orig, Fuel)

\* sccp.rs: a definition is always processed before its uses.
OperandsKnown == pass = "sccp" => S!OperandsKnown

\* simplify_cfg.rs: no fold erases a later candidate, and nothing is left to simplify.
CfgSimplified == pass = "simplify_cfg" => C!CfgSimplified

\* mem2reg.rs: the operands of the new block arguments are at their indices, and the walk ends
\* with nothing pushed and every use promoted.
WalkBalanced == pass = "mem2reg" => M!WalkBalanced

\* liveness.rs: wherever the tables are as the paper has them, the answer to a point query is
\* liveness by paths; and no value is reported live of which no use can be reached.
LivenessCorrect == pass = "liveness" => L!LivenessCorrect

\* liveness.rs: a value that is live-in at a block is reported live-in there.
LiveInIsReported == pass = "liveness" => L!LiveInIsReported

\* to_llvm_ir.rs, from_llvm_ir.rs: the conversion in either direction meets no value it has
\* not seen, and the LLVM verifier takes what comes of it, but for a branch with different
\* operands for one block.
ConversionSucceeds == pass = "llvm" => V!ConversionSucceeds

\* cloning.rs: a clone is the original renamed, and fails only across contexts, on a use of
\* what is outside of it.
CloneCorrect == pass = "clone" => K!CloneCorrect

\* equivalence.rs: equal IR is equivalent and hashes alike, and what is equivalent is equal, but
\* for a left side that is longer by one.
EquivalenceCorrect == pass = "clone" => K!EquivalenceCorrect

\* equivalence.rs: what is equivalent hashes alike.
EqHashesAlike == pass = "clone" => K!EqHashesAlike

\* interface_impls.rs, apint.rs: what an operation folds to is what it computes, and what has
\* undefined behaviour is not folded.
FoldsAreRight == pass = "fold" => F!FoldsAreRight

\* dce.rs: a block argument taken off the cemetery is still an argument of its block.
ArgumentsStillDefined == pass = "dce" => D!ArgumentsStillDefined
============================================================================
