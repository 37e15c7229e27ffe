-------------------------------- MODULE Dce --------------------------------
(***************************************************************************)
(* Dead code elimination (src/src/opts/dce.rs).  Unused operations without *)
(* side effects and unused block arguments are put on a stack, the         *)
(* cemetery; taking one off erases it and may put the definitions of what  *)
(* it used on the stack.                                                   *)
(***************************************************************************)
EXTENDS Program

VARIABLES fn,   \* the function
          st,   \* the cemetery, and the operations and blocks that the listener saw erased
          pc

vars == <<fn, st, pc>>

OpCand(o) == <<"op", o>>
BlockArgCand(v) == <<"arg", v>>
ArgBlock(v) == CHOOSE b \in DOMAIN fn.blk : v \in ToSet(fn.blk[b].args)

has_side_effects(p, o) == \E q \in {o} \cup InsideOps(p, o) : p.op[q].k \notin Pure
\* FuncOp keeps the arguments of its entry, and the region operations all of theirs.
can_remove_block_args(p, b) == RegionOf(p, b)[1] = 0 /\ b # EntryOf(p, <<0, 1>>)

is_safe_to_erase(p, cand) ==
    \/ /\ cand[1] = "op"
       /\ \A v \in Results(p, cand[2]) : Users(p, v) = {}
       /\ p.op[cand[2]].k \notin Terminators \cup {"func"}
       /\ ~ has_side_effects(p, cand[2])
    \/ /\ cand[1] = "arg"
       /\ Users(p, cand[2]) = {}
       /\ \A b \in DefiningBlock(p, cand[2]) :
             /\ can_remove_block_args(p, b)
             /\ \A pred \in Preds(p, b) : p.op[Terminator(p, pred)].k \in Branches

Candidates(n) == IF n[1] = "op" THEN <<OpCand(n[2])>>
                 ELSE [i \in DOMAIN fn.blk[n[2]].args |-> BlockArgCand(fn.blk[n[2]].args[i])]

Collect ==
    /\ pc = "start" /\ pc' = "bury" /\ UNCHANGED fn
    /\ LET walk == WalkPreorder(fn, 0)
           cands == FlattenSeq([i \in DOMAIN walk |-> Candidates(walk[i])])
       IN  st' = [cemetery |-> SelectSeq(cands, LAMBDA c : is_safe_to_erase(fn, c)),
                  erased_ops |-> {}, erased_blocks |-> {}]

Dead == Last(st.cemetery)
\* The definitions of the operands, those that are safe to erase now.
NowDead(p, opds) ==
    LET cands == [i \in DOMAIN opds |-> IF DefiningOp(p, opds[i]) = {} THEN BlockArgCand(opds[i])
                                        ELSE OpCand(CHOOSE o \in DefiningOp(p, opds[i]) : TRUE)]
    IN  SelectSeq(cands, LAMBDA c : is_safe_to_erase(p, c))

Skips == \/ Dead[1] = "op" /\ Dead[2] \in st.erased_ops
         \/ Dead[1] = "arg" /\ Dead[2] \in UNION {b[2] : b \in st.erased_blocks}
Skip == pc = "bury" /\ st.cemetery # <<>> /\ Skips /\ st' = [st EXCEPT !.cemetery = Front(@)] /\ UNCHANGED <<fn, pc>>

EraseDeadOp ==
    /\ pc = "bury" /\ st.cemetery # <<>> /\ ~ Skips /\ Dead[1] = "op"
    /\ LET erased == InsideBlocks(fn, Dead[2])
       IN  /\ fn' = EraseOp(fn, Dead[2])
           /\ st' = [cemetery |-> Front(st.cemetery) \o NowDead(fn', operands(fn.op[Dead[2]])),
                     erased_ops |-> st.erased_ops \cup {Dead[2]} \cup InsideOps(fn, Dead[2]),
                     erased_blocks |-> st.erased_blocks \cup {<<b, ToSet(fn.blk[b].args)>> : b \in erased}]
    /\ UNCHANGED pc

\* The argument goes, and with it the operand that each branch to the block passes to it.
\* An argument that its block does not have any more makes find_index panic.
Defined == DefiningBlock(fn, Dead[2]) # {}
EraseBlockArg ==
    /\ pc = "bury" /\ st.cemetery # <<>> /\ ~ Skips /\ Dead[1] = "arg" /\ Defined
    /\ LET b == ArgBlock(Dead[2])
           arg_idx == CHOOSE i \in DOMAIN fn.blk[b].args : fn.blk[b].args[i] = Dead[2]
           uses == SetToSeq(Uses(fn, b))
           passed == [i \in DOMAIN uses |-> fn.op[uses[i][1]].succs[uses[i][2]].args[arg_idx]]
       IN  /\ fn' = [op |-> [o \in Ops(fn) |-> [fn.op[o] EXCEPT !.succs =
                              [i \in DOMAIN @ |-> IF @[i].to = b THEN [@[i] EXCEPT !.args = RemoveAt(@, arg_idx)] ELSE @[i]]]],
                     blk |-> [fn.blk EXCEPT ![b].args = RemoveAt(@, arg_idx)]]
           /\ st' = [st EXCEPT !.cemetery = Front(@) \o NowDead(fn', passed)]
    /\ UNCHANGED pc
Panic == pc = "bury" /\ st.cemetery # <<>> /\ ~ Skips /\ Dead[1] = "arg" /\ ~ Defined
         /\ pc' = "panic" /\ UNCHANGED <<fn, st>>

Return == pc = "bury" /\ st.cemetery = <<>> /\ pc' = "done" /\ st' = <<>> /\ UNCHANGED fn

Next == Collect \/ Skip \/ EraseDeadOp \/ EraseBlockArg \/ Panic \/ Return

(***************************************************************************)
(* Properties.                                                             *)
(***************************************************************************)

\* Value::find_index: "Value is not currently defined by its defining entity" never
\* happens to a block argument taken off the cemetery.
ArgumentsStillDefined == pc # "panic"
============================================================================
