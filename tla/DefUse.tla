------------------------------- MODULE DefUse -------------------------------
(***************************************************************************)
(* The def-use and use-def chains of src/src/value.rs and the operations   *)
(* of src/src/operation.rs and src/src/basic_block.rs that maintain them.  *)
(*                                                                         *)
(* A definition is a Value (a result of an operation or an argument of a   *)
(* block) or a basic block (used as a successor).  A DefNode holds the set *)
(* of its uses; a use is <<user_op, use_uid>>.  The other direction is the *)
(* Operand<T> of the user, a slot [def, uid] in its operands or successors.*)
(* Operand<Value> and Operand<Ptr<BasicBlock>> are one generic type in the *)
(* code and one operator here, for slot kinds "operand" and "successor".   *)
(*                                                                         *)
(* Context::value_counter and use_counter hand out each number once.  Only *)
(* equality of uids matters, so a counter is the set of uids handed out,   *)
(* and a new uid is any other member of Val or Uid (their sizes bound the  *)
(* behaviours TLC explores).  SlotMap keys are never reused either: an     *)
(* erased operation or block does not come back.                           *)
(***************************************************************************)
EXTENDS Naturals, FiniteSets, SequencesExt, TLC

CONSTANTS Op, Block,      \* the keys of the arenas ctx.operations, ctx.basic_blocks
          Val, Uid,       \* value uids and use uids
          MaxSlots        \* bound: operands (successors) of one operation

ASSUME DistinctAssumption == Op \cap Block = {} /\ Val \cap Block = {}
ASSUME MaxSlotsAssumption == MaxSlots \in Nat

Kind == {"operand", "successor"}
Entity == Op \cup Block          \* DefiningEntity
Def == Val \cup Block            \* DefUseParticipant
Use == Op \X Uid
Slot == [def : Def, uid : Uid]

VARIABLES live,        \* the operations and blocks allocated and not erased
          erased,      \* those erased
          vals,        \* vals[e]: results of an operation, arguments of a block
          value_uids,  \* value_counter: the value uids handed out
          slots,       \* slots[o][k]: operands and successors of an operation
          use_uids,    \* use_counter: the use uids handed out
          uses         \* uses[d]: DefNode::uses

duVars == <<live, erased, vals, value_uids, slots, use_uids, uses>>

Init ==
    /\ live = {} /\ erased = {}
    /\ vals = [e \in Entity |-> <<>>]
    /\ value_uids = {}
    /\ slots = [o \in Op |-> [k \in Kind |-> <<>>]]
    /\ use_uids = {}
    /\ uses = [d \in Def |-> {}]

\* The values an entity currently defines, and everything that may be used.
ValuesOf(e) == {vals[e][i] : i \in 1..Len(vals[e])}
DefinedVals == UNION {ValuesOf(e) : e \in live}
DefsOf(k) == IF k = "operand" THEN DefinedVals ELSE live \cap Block

\* The definitions an entity stands for: its values and, of a block, itself.
Defines(e) == ValuesOf(e) \cup ({e} \cap Block)

(***************************************************************************)
(* DefNode and Operand                                                     *)
(***************************************************************************)

\* Operand::new: a new uid, added to the uses of the definition.
add_use(us, d, use) == [us EXCEPT ![d] = @ \cup {use}]
remove_use(us, d, use) == [us EXCEPT ![d] = @ \ {use}]

\* The uses that remain in every DefNode when operation o drops all of its own.
drop_uses_of(o) == [d \in Def |-> {use \in uses[d] :
                      ~ \E k \in Kind : \E i \in 1..Len(slots[o][k]) :
                           slots[o][k][i].def = d /\ use = <<o, slots[o][k][i].uid>>}]

(***************************************************************************)
(* Creation                                                                *)
(***************************************************************************)

\* Operation::new: results first, then operands, then successors, each slot
\* with a uid of its own.
Operation_new(o, vs, ds, ss, us) ==
    /\ o \notin live \cup erased
    /\ Len(us) = Len(ds) + Len(ss)
    /\ LET operands == [i \in 1..Len(ds) |-> [def |-> ds[i], uid |-> us[i]]]
           successors == [i \in 1..Len(ss) |-> [def |-> ss[i], uid |-> us[Len(ds) + i]]]
       IN  /\ slots' = [slots EXCEPT ![o] =
                          [k \in Kind |-> IF k = "operand" THEN operands ELSE successors]]
           /\ uses' = [d \in Def |-> uses[d]
                         \cup {<<o, operands[i].uid>> : i \in {j \in 1..Len(ds) : ds[j] = d}}
                         \cup {<<o, successors[i].uid>> : i \in {j \in 1..Len(ss) : ss[j] = d}}]
    /\ live' = live \cup {o}
    /\ vals' = [vals EXCEPT ![o] = vs]
    /\ value_uids' = value_uids \cup {vs[i] : i \in 1..Len(vs)}
    /\ use_uids' = use_uids \cup {us[i] : i \in 1..Len(us)}
    /\ UNCHANGED erased

BasicBlock_new(b, vs) ==
    /\ b \notin live \cup erased
    /\ live' = live \cup {b}
    /\ vals' = [vals EXCEPT ![b] = vs]
    /\ value_uids' = value_uids \cup {vs[i] : i \in 1..Len(vs)}
    /\ UNCHANGED <<erased, slots, use_uids, uses>>

(***************************************************************************)
(* Results and arguments.  push_result and push_argument insert at the     *)
(* end, pop_result and pop_argument remove the last.                       *)
(***************************************************************************)

insert_value(e, i, v) ==
    /\ e \in live
    /\ i \in 1..(Len(vals[e]) + 1)
    /\ v \notin value_uids
    /\ vals' = [vals EXCEPT ![e] = InsertAt(@, i, v)]
    /\ value_uids' = value_uids \cup {v}
    /\ UNCHANGED <<live, erased, slots, use_uids, uses>>

\* Mutant: the assertion that the value is unused is dropped.
remove_value_Unchecked(e, i) ==
    /\ e \in live
    /\ i \in 1..Len(vals[e])
    /\ vals' = [vals EXCEPT ![e] = RemoveAt(@, i)]
    /\ UNCHANGED <<live, erased, value_uids, slots, use_uids, uses>>

remove_value(e, i) ==
    /\ e \in live
    /\ i \in 1..Len(vals[e])
    /\ uses[vals[e][i]] = {}
    /\ vals' = [vals EXCEPT ![e] = RemoveAt(@, i)]
    /\ UNCHANGED <<live, erased, value_uids, slots, use_uids, uses>>

(***************************************************************************)
(* Operands and successors.                                                *)
(***************************************************************************)

\* Mutant: the uid of a use that was removed is handed out again.
insert_slot_ReusesUid(o, k, i, d, u) ==
    /\ o \in live
    /\ d \in DefsOf(k)
    /\ \A e \in Def : \A use \in uses[e] : use[2] # u
    /\ i \in 1..(Len(slots[o][k]) + 1)
    /\ slots' = [slots EXCEPT ![o][k] = InsertAt(@, i, [def |-> d, uid |-> u])]
    /\ use_uids' = use_uids \cup {u}
    /\ uses' = add_use(uses, d, <<o, u>>)
    /\ UNCHANGED <<live, erased, vals, value_uids>>

insert_slot(o, k, i, d, u) ==
    /\ o \in live
    /\ d \in DefsOf(k)
    /\ u \notin use_uids
    /\ i \in 1..(Len(slots[o][k]) + 1)
    /\ slots' = [slots EXCEPT ![o][k] = InsertAt(@, i, [def |-> d, uid |-> u])]
    /\ use_uids' = use_uids \cup {u}
    /\ uses' = add_use(uses, d, <<o, u>>)
    /\ UNCHANGED <<live, erased, vals, value_uids>>

\* Mutant: the operand that is replaced is not dropped.
replace_slot_NoDrop(o, k, i, d, u) ==
    /\ o \in live
    /\ d \in DefsOf(k)
    /\ u \notin use_uids
    /\ i \in 1..Len(slots[o][k])
    /\ slots' = [slots EXCEPT ![o][k][i] = [def |-> d, uid |-> u]]
    /\ use_uids' = use_uids \cup {u}
    /\ uses' = add_use(uses, d, <<o, u>>)
    /\ UNCHANGED <<live, erased, vals, value_uids>>

\* The new use is added before the old one is dropped: they may be uses of
\* one definition.
replace_slot(o, k, i, d, u) ==
    /\ o \in live
    /\ d \in DefsOf(k)
    /\ u \notin use_uids
    /\ i \in 1..Len(slots[o][k])
    /\ slots' = [slots EXCEPT ![o][k][i] = [def |-> d, uid |-> u]]
    /\ use_uids' = use_uids \cup {u}
    /\ uses' = remove_use(add_use(uses, d, <<o, u>>),
                          slots[o][k][i].def, <<o, slots[o][k][i].uid>>)
    /\ UNCHANGED <<live, erased, vals, value_uids>>

remove_slot(o, k, i) ==
    /\ o \in live
    /\ i \in 1..Len(slots[o][k])
    /\ slots' = [slots EXCEPT ![o][k] = RemoveAt(@, i)]
    /\ uses' = remove_use(uses, slots[o][k][i].def, <<o, slots[o][k][i].uid>>)
    /\ UNCHANGED <<live, erased, vals, value_uids, use_uids>>

\* Value::replace_some_uses_with and Ptr<BasicBlock>::retarget_some_preds_to:
\* DefNode::replace_use_with for each use that satisfies the predicate.  The
\* use keeps its uid, and nothing happens when the two definitions are one.
replace_some_uses_with(k, d, touched, other) ==
    /\ {d, other} \subseteq DefsOf(k)
    /\ touched \subseteq uses[d]
    /\ d # other
    /\ uses' = [uses EXCEPT ![d] = @ \ touched, ![other] = @ \cup touched]
    /\ slots' = [o \in Op |-> [slots[o] EXCEPT ![k] =
                   [i \in 1..Len(@) |-> IF <<o, @[i].uid>> \in touched
                                          THEN [@[i] EXCEPT !.def = other] ELSE @[i]]]]
    /\ UNCHANGED <<live, erased, vals, value_uids, use_uids>>

(***************************************************************************)
(* Erasure.  Operation::erase drops the uses the operation holds, so that  *)
(* it may use its own results, and then asserts that no use is left.       *)
(***************************************************************************)

Operation_erase(o) ==
    /\ o \in live \cap Op
    /\ uses' = drop_uses_of(o)
    /\ slots' = [slots EXCEPT ![o] = [k \in Kind |-> <<>>]]
    /\ \A d \in Defines(o) : uses'[d] = {}
    /\ live' = live \ {o}
    /\ erased' = erased \cup {o}
    /\ vals' = [vals EXCEPT ![o] = <<>>]
    /\ UNCHANGED <<value_uids, use_uids>>

\* BasicBlock::erase of a block without operations (module IR erases the rest).
BasicBlock_erase(b) ==
    /\ b \in live \cap Block
    /\ \A d \in Defines(b) : uses[d] = {}
    /\ live' = live \ {b}
    /\ erased' = erased \cup {b}
    /\ vals' = [vals EXCEPT ![b] = <<>>]
    /\ UNCHANGED <<value_uids, slots, use_uids, uses>>

\* Sequences of distinct new uids.
NewUids(S, n) == {s \in [1..n -> S] : \A i, j \in 1..n : s[i] = s[j] => i = j}

Next ==
    \/ \E o \in Op, n \in 0..1, p, q \in 0..MaxSlots :
         \E vs \in NewUids(Val \ value_uids, n),
            ds \in [1..p -> DefinedVals], ss \in [1..q -> live \cap Block],
            us \in NewUids(Uid \ use_uids, p + q) : Operation_new(o, vs, ds, ss, us)
    \/ \E b \in Block, n \in 0..1 : \E vs \in NewUids(Val \ value_uids, n) : BasicBlock_new(b, vs)
    \/ \E e \in Entity, v \in Val : \E i \in 1..(Len(vals[e]) + 1) : insert_value(e, i, v)
    \/ \E e \in Entity : \E i \in 1..Len(vals[e]) : remove_value(e, i)
    \/ \E o \in Op, k \in Kind, d \in Def, u \in Uid :
         \/ /\ Len(slots[o][k]) < MaxSlots
            /\ \E i \in 1..(Len(slots[o][k]) + 1) : insert_slot(o, k, i, d, u)
         \/ \E i \in 1..Len(slots[o][k]) : replace_slot(o, k, i, d, u)
    \/ \E o \in Op, k \in Kind : \E i \in 1..Len(slots[o][k]) : remove_slot(o, k, i)
    \/ \E k \in Kind, d, other \in Def : \E touched \in SUBSET uses[d] :
         replace_some_uses_with(k, d, touched, other)
    \/ \E o \in Op : Operation_erase(o)
    \/ \E b \in Block : BasicBlock_erase(b)

Spec == Init /\ [][Next]_duVars

(***************************************************************************)
(* Properties                                                              *)
(***************************************************************************)

TypeOK ==
    /\ live \subseteq Entity /\ erased \subseteq Entity /\ live \cap erased = {}
    /\ vals \in [Entity -> Seq(Val)]
    /\ value_uids \subseteq Val
    /\ slots \in [Op -> [Kind -> Seq(Slot)]]
    /\ use_uids \subseteq Uid
    /\ uses \in [Def -> SUBSET Use]

\* The slots of every operation, with where they are.
SlotAt(o, k, i) == slots[o][k][i]
IsSlot(o, k, i) == o \in Op /\ k \in Kind /\ i \in 1..Len(slots[o][k])

\* A use uid names one operand or successor of one operation in the whole
\* context, so a Use finds the slot it was made for whatever was inserted,
\* removed or replaced since; and a value uid names one result or argument.
UidsUnique ==
    /\ \A o, p \in Op, k, l \in Kind : \A i \in 1..Len(slots[o][k]), j \in 1..Len(slots[p][l]) :
          SlotAt(o, k, i).uid = SlotAt(p, l, j).uid => <<o, k, i>> = <<p, l, j>>
    /\ \A e, f \in Entity : \A i \in 1..Len(vals[e]), j \in 1..Len(vals[f]) :
          vals[e][i] = vals[f][j] => <<e, i>> = <<f, j>>

\* Def-use and use-def chains are inverse: DefNode::uses holds <<op, uid>>
\* exactly when op has an operand or successor with that uid whose UseNode
\* names the definition, and there is only one such operand.  (What
\* Operand::verify and Value::verify test, in both directions, and what makes
\* remove_use and Use::find_index never panic.)
ChainsAgree ==
    /\ UidsUnique
    /\ \A d \in Def, o \in Op, u \in Uid :
          <<o, u>> \in uses[d] <=>
             \E k \in Kind : \E i \in 1..Len(slots[o][k]) : SlotAt(o, k, i) = [def |-> d, uid |-> u]

\* No operand or successor of a live operation refers to a value or block that
\* is gone (get_defnode would panic: "Value is not currently defined by its
\* defining entity", "Dangling Ptr deref"), and no use belongs to a dead one.
NothingDangles ==
    /\ \A o \in Op, k \in Kind : \A i \in 1..Len(slots[o][k]) :
          o \in live /\ SlotAt(o, k, i).def \in DefsOf(k)
    /\ \A d \in Def : \A use \in uses[d] : use[1] \in live

\* A Use or a Value that has been invalidated stays so ("Any Use<Value> of the
\* replaced operand will be invalidated"): what a client kept of it never comes
\* to name another operand, result or argument.
InvalidatedForGood ==
    [][/\ \A use \in Use : use[2] \in use_uids /\ (\A d \in Def : use \notin uses[d])
                             => \A d \in Def : use \notin uses'[d]
       /\ \A v \in value_uids \ DefinedVals : v \notin DefinedVals']_duVars

(***************************************************************************)
(* Operations, blocks and uids are interchangeable.                        *)
(***************************************************************************)
Symmetry == Permutations(Op) \cup Permutations(Block)
            \cup Permutations(Val) \cup Permutations(Uid)
=============================================================================
