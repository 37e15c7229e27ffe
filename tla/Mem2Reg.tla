------------------------------ MODULE Mem2Reg ------------------------------
(***************************************************************************)
(* Promotion of memory to registers (src/src/opts/mem2reg.rs).  An         *)
(* allocation that is only loaded from and stored to becomes values: block *)
(* arguments where definitions merge, and, where an operation stores to it *)
(* in its regions, results of the operation and arguments of its regions,  *)
(* the receivers.  A walk down the dominator tree replaces loads by the    *)
(* definition that reaches them.                                           *)
(*                                                                         *)
(* A candidate is named by its alloca.  Dominator trees and frontiers are  *)
(* taken from their definition: Dominance.tla is about how they are        *)
(* computed.                                                               *)
(***************************************************************************)
EXTENDS Program

VARIABLES fn,   \* the function
          st,   \* the regions with candidates that are left, and the nested uses
          pc

vars == <<fn, st, pc>>

Ptr(p, a) == p.op[a].res[1]
RegionOfOp(p, o) == RegionOf(p, BlockOf(p, o))

promotion_kind(p, u, ptr) ==
    CASE p.op[u].k = "load" /\ p.op[u].opds = <<ptr>> -> "load"
      [] p.op[u].k = "store" /\ p.op[u].opds[2] = ptr /\ p.op[u].opds[1] # ptr -> "store"
      [] OTHER -> "nonpromotable"

(***************************************************************************)
(* Candidates                                                              *)
(***************************************************************************)
RECURSIVE regions_up_to(_, _, _)
regions_up_to(p, o, region) ==
    IF RegionOfOp(p, o) = region THEN {} ELSE {RegionOfOp(p, o)} \cup regions_up_to(p, ParentOp(p, o), region)

permits_store_promotion(k) == k # "parallel"
enclosing_regions_permit_promotion(p, u, kind, region) ==
    \A r \in regions_up_to(p, u, region) :
        p.op[r[1]].k \in RegionBranches /\ (kind = "store" => permits_store_promotion(p.op[r[1]].k))

prune_candidates(p, cands) ==
    SelectSeq(cands, LAMBDA a : \A u \in Users(p, Ptr(p, a)) :
        LET kind == promotion_kind(p, u, Ptr(p, a))
        IN  kind # "nonpromotable" /\ enclosing_regions_permit_promotion(p, u, kind, RegionOfOp(p, a)))

\* The nested regions that use a candidate, and those that store to it.
collect_nested_uses(p, cands) ==
    [a \in ToSet(cands) |->
        LET Enclosing(users) == UNION {regions_up_to(p, u, RegionOfOp(p, a)) : u \in users}
            users == Users(p, Ptr(p, a))
        IN  [uses |-> Enclosing(users),
             stores |-> Enclosing({u \in users : promotion_kind(p, u, Ptr(p, a)) = "store"})]]
UsedInRegionsOf(nested, o, a) == \E r \in nested[a].uses : r[1] = o
StoredInRegionsOf(nested, o, a) == \E r \in nested[a].stores : r[1] = o

(***************************************************************************)
(* Where definitions merge                                                 *)
(***************************************************************************)
\* Mutant: the terminator of a region is not taken to read the value it carries out.
Accesses_NoCarry(p, nested, b, a) ==
    LET Access(o) ==
            (IF UsedInRegionsOf(nested, o, a) THEN <<"use">> ELSE <<>>)
            \o (IF StoredInRegionsOf(nested, o, a) THEN <<"store">> ELSE <<>>)
            \o (IF Ptr(p, a) \notin ToSet(p.op[o].opds) THEN <<>>
                ELSE IF promotion_kind(p, o, Ptr(p, a)) = "store" THEN <<"store">> ELSE <<"use">>)
    IN  FlattenSeq([i \in DOMAIN p.blk[b].ops |-> Access(p.blk[b].ops[i])])

\* What block b does to the candidate, in order: a use in the regions of an operation is
\* taken for a load; the terminator of a region that carries the value out reads it.
Accesses(p, nested, b, a) ==
    LET Access(o) ==
            (IF UsedInRegionsOf(nested, o, a) THEN <<"use">> ELSE <<>>)
            \o (IF StoredInRegionsOf(nested, o, a) THEN <<"store">> ELSE <<>>)
            \o (IF Ptr(p, a) \notin ToSet(p.op[o].opds) THEN <<>>
                ELSE IF promotion_kind(p, o, Ptr(p, a)) = "store" THEN <<"store">> ELSE <<"use">>)
        parent == RegionOf(p, b)[1]
        carries == StoredInRegionsOf(nested, parent, a) /\ edges_from(p, parent, Terminator(p, b)) # <<>>
    IN  FlattenSeq([i \in DOMAIN p.blk[b].ops |-> Access(p.blk[b].ops[i])]) \o (IF carries THEN <<"use">> ELSE <<>>)

has_store(p, nested, b, a) == "store" \in ToSet(Accesses(p, nested, b, a))
load_before_store(p, nested, b, a) ==
    Accesses(p, nested, b, a) # <<>> /\ Head(Accesses(p, nested, b, a)) = "use"

DefiningBlocks(p, nested, r, a) == {b \in ToSet(Blocks(p, r)) : has_store(p, nested, b, a)}
LiveIn(p, nested, r, a) ==
    LET defining == DefiningBlocks(p, nested, r, a)
        Grow[n \in Nat] ==
            IF n = 0 THEN {b \in ToSet(Blocks(p, r)) : load_before_store(p, nested, b, a)}
            ELSE LET old == Grow[n - 1] IN old \cup (UNION {Preds(p, b) : b \in old} \ defining)
    IN  Grow[Len(Blocks(p, r))]

\* What each reachable block of region r dominates.
DomInfo(p, r) == [d \in Reachable(p, r) |-> Dominated(p, r, d)]
frontier(p, dom, b) ==
    {f \in DOMAIN dom : (\E q \in Preds(p, f) : q \in dom[b]) /\ (b = f \/ f \notin dom[b])}
compute_candidate_phi_blocks(p, nested, dom, r, a) ==
    LET live_in == LiveIn(p, nested, r, a)
        defining == DefiningBlocks(p, nested, r, a)
        Grow[n \in Nat] ==
            IF n = 0 THEN {}
            ELSE live_in \cap UNION {frontier(p, dom, b) : b \in (defining \cup Grow[n - 1]) \cap DOMAIN dom}
    IN  Grow[Len(Blocks(p, r)) + 1]
PhiBlocks(p, nested, dom, r, a) ==
    UNION {compute_candidate_phi_blocks(p, nested, dom[s], s, a) : s \in {r} \cup nested[a].stores}

\* The walk reaches every use, every predecessor of a block argument and every terminator
\* that has to carry a value.
is_reachable(p, b) == b \in Reachable(p, RegionOf(p, b))
Fillable(p, nested, r, a, phis) ==
    /\ \A b \in phis : \A q \in Preds(p, b) :
          is_reachable(p, q) /\ p.op[Terminator(p, q)].k \in Branches
    /\ \A u \in Users(p, Ptr(p, a)) :
          /\ is_reachable(p, BlockOf(p, u))
          /\ \A s \in regions_up_to(p, u, r) : is_reachable(p, BlockOf(p, s[1]))
    /\ \A s \in nested[a].stores : \A e \in ToSet(region_edges(p, s[1])) :
          e.from = 0 \/ is_reachable(p, BlockOf(p, e.from))

(***************************************************************************)
(* The steps of mem2reg.  The candidates of one region are promoted at a   *)
(* time; st.todo is the rest of the walk, the next task first.             *)
(***************************************************************************)
Collect ==
    /\ pc = "start" /\ pc' = "region" /\ UNCHANGED fn
    /\ \E walk \in {SelectSeq(WalkPreorder(fn, 0), LAMBDA n : n[1] = "op" /\ fn.op[n[2]].k = "alloca")} :
       \E cands \in {prune_candidates(fn, [i \in DOMAIN walk |-> walk[i][2]])} :
          st' = [cands |-> cands, nested |-> collect_nested_uses(fn, cands),
                 by_region |-> [i \in DOMAIN cands |-> RegionOfOp(fn, cands[i])],
                 dom |-> [r \in UNION {RegionsOf(fn, o) : o \in Ops(fn)} |-> DomInfo(fn, r)]]

\* Where the definitions of the candidates of the next region merge.
PlacePhis ==
    /\ pc = "region" /\ st.by_region # <<>>
    /\ \E region \in {Head(st.by_region)} :
       \E cands \in {SelectSeq(st.cands, LAMBDA a : RegionOfOp(fn, a) = region)} :
          st' = [cands |-> SelectSeq(st.cands, LAMBDA a : RegionOfOp(fn, a) # region),
                 nested |-> st.nested, dom |-> st.dom, region |-> region, chosen |-> cands,
                 by_region |-> SelectSeq(st.by_region, LAMBDA r : r # region),
                 phis |-> [a \in ToSet(cands) |-> PhiBlocks(fn, st.nested, st.dom, region, a)]]
    /\ pc' = "prune" /\ UNCHANGED fn

\* prune_unfillable_candidates, and what is left to do for the candidates that remain.
PruneUnfillable ==
    /\ pc = "prune"
    /\ \E cands \in {SelectSeq(st.chosen, LAMBDA a : Fillable(fn, st.nested, st.region, a, st.phis[a]))} :
       LET Phis(a) == SetToSeq({<<"phi", a, b>> : b \in st.phis[a]})
           Receivers(a) == SetToSeq({<<"receiver", a, r[1]>> : r \in st.nested[a].stores})
           Each(Tasks(_)) == FlattenSeq([i \in DOMAIN cands |-> Tasks(cands[i])])
       IN  st' = [cands |-> st.cands, nested |-> st.nested, by_region |-> st.by_region, dom |-> st.dom,
                  promoted |-> ToSet(cands), matched |-> TRUE,
                  todo |-> IF cands = <<>> THEN <<>>
                           ELSE Each(Phis) \o Each(Receivers) \o <<<<"enter", st.region, EntryOf(fn, st.region)>>>>,
                  reaching_defs |-> [a \in ToSet(cands) |-> <<>>], default_def |-> [a \in ToSet(cands) |-> 0],
                  renames_in_block |-> <<>>, new_phis_in_block |-> [b \in DOMAIN fn.blk |-> <<>>],
                  receivers |-> [o \in Ops(fn) |-> <<>>]]
    /\ pc' = "promote" /\ UNCHANGED fn

Task == Head(st.todo)
Doing(kind) == pc = "promote" /\ st.todo # <<>> /\ Task[1] = kind
Then(s, tasks) == [s EXCEPT !.todo = tasks \o Tail(@)]
Done(s) == Then(s, <<>>)

PushArgument(b) == [fn EXCEPT !.blk[b].args = Append(@, Fresh(fn))]

\* new_phis_in_block[b] is the sequence of <<candidate, index of the argument>>.
add_phi ==
    /\ Doing("phi")
    /\ LET b == Task[3]
       IN  /\ fn' = PushArgument(b)
           /\ st' = Done([st EXCEPT !.new_phis_in_block[b] = Append(@, <<Task[2], Len(fn.blk[b].args) + 1>>)])
    /\ UNCHANGED pc

\* A receiver in each successor that a terminator enters: a result, and for a loop an
\* argument of its body.
EnteredFromTerminator(o) == {e.to : e \in {e \in ToSet(region_edges(fn, o)) : e.from # 0}}
add_receiver ==
    /\ Doing("receiver")
    /\ LET o == Task[3]
           arg == IF 1 \in EnteredFromTerminator(o) THEN Fresh(fn) ELSE 0
           result == Fresh(fn) + 1
           sources == {e.from : e \in {e \in ToSet(region_edges(fn, o)) : e.to \in EnteredFromTerminator(o)}}
           inner == IF arg = 0 THEN fn ELSE PushArgument(EntryOf(fn, <<o, 1>>))
       IN  /\ fn' = [inner EXCEPT !.op[o].res = Append(@, result)]
           /\ st' = Done([st EXCEPT !.receivers[o] =
                             Append(@, [cand |-> Task[2], arg |-> arg, result |-> result, sources |-> sources])])
    /\ UNCHANGED pc

(***************************************************************************)
(* The rename walk                                                         *)
(***************************************************************************)
push_defs(s, b, defs) ==
    [s EXCEPT !.reaching_defs = [a \in DOMAIN @ |->
                    @[a] \o LET own == SelectSeq(defs, LAMBDA d : d[1] = a) IN [i \in DOMAIN own |-> own[i][2]]],
              !.renames_in_block = @ \o [i \in DOMAIN defs |-> <<b, defs[i][1]>>]]

\* Mutant: all renames of the block are popped but one.
pop_defs_KeepsOne(s, b) ==
    LET renames == s.renames_in_block
        kept == Min({Len(renames), 1 + Max({0} \cup {i \in DOMAIN renames : renames[i][1] # b})})
        Popped(a) == Cardinality({i \in DOMAIN renames : i > kept /\ renames[i][2] = a})
    IN  [s EXCEPT !.renames_in_block = SubSeq(@, 1, kept),
                  !.reaching_defs = [a \in DOMAIN @ |-> SubSeq(@[a], 1, Len(@[a]) - Popped(a))]]

\* Only what is on top of the stack and was pushed in the block.
pop_defs(s, b) ==
    LET renames == s.renames_in_block
        kept == Max({0} \cup {i \in DOMAIN renames : renames[i][1] # b})
        Popped(a) == Cardinality({i \in DOMAIN renames : i > kept /\ renames[i][2] = a})
    IN  [s EXCEPT !.renames_in_block = SubSeq(@, 1, kept),
                  !.reaching_defs = [a \in DOMAIN @ |-> SubSeq(@[a], 1, Len(@[a]) - Popped(a))]]

Undefined(a) == st.reaching_defs[a] = <<>> /\ st.default_def[a] = 0
current_def(a) == IF st.reaching_defs[a] # <<>> THEN Last(st.reaching_defs[a]) ELSE st.default_def[a]

Children(dom, b) == {c \in dom[b] \ {b} : \A d \in DOMAIN dom \ {c} : c \in dom[d] => b \in dom[d]}

\* process_rename_block: the arguments added to the block are its first definitions; then
\* its operations, its terminator, the blocks it dominates.
Enter ==
    /\ Doing("enter")
    /\ LET r == Task[2]
           b == Task[3]
           new_phis == st.new_phis_in_block[b]
           ops == [i \in DOMAIN fn.blk[b].ops |-> <<"op", b, fn.blk[b].ops[i]>>]
           children == SetToSeq({<<"enter", r, c>> : c \in Children(st.dom[r], b)})
       IN  st' = Then(push_defs(st, b, [i \in DOMAIN new_phis |-> <<new_phis[i][1], fn.blk[b].args[new_phis[i][2]]>>]),
                      ops \o <<<<"leave", r, b>>>> \o children \o <<<<"pop", b>>>>)
    /\ UNCHANGED <<fn, pc>>

Pop == Doing("pop") /\ st' = Done(pop_defs(st, Task[2])) /\ UNCHANGED <<fn, pc>>

\* The definition a task is about to read: the candidates of an operation, of an operand
\* to carry along a region edge, of an operand for a new block argument.
Accessed(o) == {a \in st.promoted : Ptr(fn, a) \in ToSet(fn.op[o].opds)}
Reads == CASE Task[1] = "op" -> IF fn.op[Task[3]].k = "load" THEN Accessed(Task[3]) ELSE {}
           [] Task[1] \in {"carry", "fill"} -> {Task[2]}
           [] OTHER -> {}
ReadsUndefined == pc = "promote" /\ st.todo # <<>> /\ \E a \in Reads : Undefined(a)

\* The default value is put where it dominates the alloca and all uses: in the entry
\* block, before the alloca or the terminator.
get_or_create_default_def ==
    /\ ReadsUndefined
    /\ LET a == CHOOSE a \in Reads : TRUE
           entry == EntryOf(fn, RegionOfOp(fn, a))
           v == Fresh(fn)
       IN  /\ fn' = InsertBefore(fn, IF BlockOf(fn, a) = entry THEN a ELSE Terminator(fn, entry), v, ConstOp(v, Poison))
           /\ st' = [st EXCEPT !.default_def[a] = v]
    /\ UNCHANGED pc

HasUserRegions(o) == \E a \in DOMAIN st.nested : UsedInRegionsOf(st.nested, o, a)
Promote ==
    /\ Doing("op") /\ ~ HasUserRegions(Task[3]) /\ ~ ReadsUndefined
    /\ LET o == Task[3]
           a == CHOOSE a \in Accessed(o) : TRUE
       IN  CASE Accessed(o) = {} -> st' = Done(st) /\ UNCHANGED fn
             [] Accessed(o) # {} /\ fn.op[o].k = "load" ->
                   st' = Done(st) /\ fn' = RemoveOps(ReplaceUses(fn, fn.op[o].res[1], current_def(a)), {o})
             [] Accessed(o) # {} /\ fn.op[o].k = "store" ->
                   st' = Done(push_defs(st, Task[2], <<<<a, fn.op[o].opds[1]>>>>)) /\ fn' = RemoveOps(fn, {o})
    /\ UNCHANGED pc

\* Carry the definitions of the candidates along the edges from the operation (0) or a
\* terminator into their receivers.
add_carried_operands(o, source) ==
    LET from == SelectSeq(st.receivers[o], LAMBDA c : source \in c.sources)
    IN  [i \in DOMAIN from |-> <<"carry", from[i].cand, IF source = 0 THEN o ELSE source>>]
Carry ==
    /\ Doing("carry") /\ ~ ReadsUndefined
    /\ fn' = [fn EXCEPT !.op[Task[3]].opds = Append(@, current_def(Task[2]))]
    /\ st' = Done(st) /\ UNCHANGED pc

rename_in_regions_of ==
    /\ Doing("op") /\ HasUserRegions(Task[3])
    /\ LET o == Task[3]
           Renamed(i) == st.receivers[o] # <<>> \/ \E a \in st.promoted : <<o, i>> \in st.nested[a].uses
           regions == SelectSeq([i \in DOMAIN fn.op[o].regs |-> <<"region", o, i>>], LAMBDA t : Renamed(t[3]))
       IN  st' = Then(st, add_carried_operands(o, 0) \o regions \o <<<<"results", o>>>>)
    /\ UNCHANGED <<fn, pc>>

RenameRegion ==
    /\ Doing("region")
    /\ LET r == <<Task[2], Task[3]>>
           into == SelectSeq(st.receivers[r[1]], LAMBDA c : r[2] = 1 /\ c.arg # 0)
           entry == EntryOf(fn, r)
       IN  st' = Then(push_defs(st, entry, [i \in DOMAIN into |-> <<into[i].cand, into[i].arg>>]),
                      <<<<"enter", r, entry>>>>)
    /\ UNCHANGED <<fn, pc>>

ReceiveResults ==
    /\ Doing("results")
    /\ LET o == Task[2]
           into == st.receivers[o]
       IN  st' = Done([push_defs(st, BlockOf(fn, o), [i \in DOMAIN into |-> <<into[i].cand, into[i].result>>])
                       EXCEPT !.receivers[o] = <<>>])
    /\ UNCHANGED <<fn, pc>>

Leave ==
    /\ Doing("leave")
    /\ LET t == Terminator(fn, Task[3])
           new_phis(i) == st.new_phis_in_block[fn.op[t].succs[i].to]
           Fills(i) == [j \in DOMAIN new_phis(i) |-> <<"fill", new_phis(i)[j][1], t, i, new_phis(i)[j][2]>>]
       IN  st' = Then(st, add_carried_operands(Task[2][1], t) \o FlattenSeq([i \in DOMAIN fn.op[t].succs |-> Fills(i)]))
    /\ UNCHANGED <<fn, pc>>

FillPhi ==
    /\ Doing("fill") /\ ~ ReadsUndefined
    /\ fn' = [fn EXCEPT !.op[Task[3]].succs[Task[4]].args = Append(@, current_def(Task[2]))]
    /\ st' = Done([st EXCEPT !.matched = @ /\ Len(fn.op[Task[3]].succs[Task[4]].args) + 1 = Task[5]])
    /\ UNCHANGED pc

EraseAllocas ==
    /\ pc = "promote" /\ st.todo = <<>> /\ pc' = "region"
    /\ fn' = RemoveOps(fn, st.promoted) /\ UNCHANGED st

Return == pc = "region" /\ st.by_region = <<>> /\ pc' = "done" /\ st' = <<>> /\ UNCHANGED fn

Next == \/ Collect \/ PlacePhis \/ PruneUnfillable \/ add_phi \/ add_receiver \/ Enter \/ Pop \/ get_or_create_default_def \/ Promote
        \/ Carry \/ rename_in_regions_of \/ RenameRegion \/ ReceiveResults \/ Leave \/ FillPhi \/ EraseAllocas \/ Return

(***************************************************************************)
(* Properties.                                                             *)
(***************************************************************************)

\* "Mismatched phi argument index": each branch gets the operand of a new block argument at
\* the index of that argument; and when the walk is over every definition it pushed has
\* been popped and no allocation it erases is used.
WalkBalanced ==
    pc = "promote" =>
        /\ st.matched
        /\ st.todo = <<>> => /\ st.renames_in_block = <<>>
                             /\ \A a \in st.promoted : st.reaching_defs[a] = <<>> /\ Users(fn, Ptr(fn, a)) = {}
============================================================================
