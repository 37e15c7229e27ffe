--------------------------------- MODULE IR ---------------------------------
(***************************************************************************)
(* The IR owned by a Context: operations, basic blocks and regions in      *)
(* their arenas, nested in each other, with SSA uses between them          *)
(* (src/src/operation.rs, basic_block.rs, region.rs, context.rs).          *)
(*                                                                         *)
(* Two things proved of lower modules are used here.  The lists of a block *)
(* and of a region are sequences (LinkedList implements OrderedLists), and *)
(* the uses of a definition are read off the operands and successors       *)
(* (DefUse: ChainsAgree).  A value is named by what defines it: an         *)
(* operation has one result, a block one argument.                         *)
(*                                                                         *)
(* Panicking assertions are guards.  Two rules for callers that the code   *)
(* does not test are guards as well: an operation, a block or a region is  *)
(* not put inside itself; and, when StrictErase, of the definitions that   *)
(* an erasure frees without looking at them none is used from outside.     *)
(***************************************************************************)
EXTENDS Naturals, FiniteSets, SequencesExt

CONSTANTS Op, Block, Region,     \* the keys of the three arenas
          MaxOperands,           \* bound: operands (successors) of one operation
          StrictErase            \* callers respect the scope of nested definitions

ASSUME IRAssumption ==
    /\ IsFiniteSet(Op) /\ IsFiniteSet(Block) /\ IsFiniteSet(Region)
    /\ Op \cap Block = {} /\ Op \cap Region = {} /\ Block \cap Region = {}
    /\ MaxOperands \in Nat /\ StrictErase \in BOOLEAN

VARIABLES live,        \* allocated objects of the arenas
          erased,      \* keys that were removed: never allocated again
          operands,    \* operands[o]: the values used, in order
          successors,  \* successors[o]: the blocks branched to, in order
          regions,     \* regions[o]: Operation::regions
          parent_op,   \* parent_op[r]: Region::parent_op
          ops,         \* ops[b]: OpsInBlock, in order
          blocks       \* blocks[r]: BlocksInRegion, in order

irVars == <<live, erased, operands, successors, regions, parent_op, ops, blocks>>

Object == Op \cup Block \cup Region
Value == Op \cup Block
Elems(s) == {s[i] : i \in 1..Len(s)}

\* The elements of the sequence s that are in S, in their order.
Retained(s, S) ==
    LET F[i \in 0..Len(s)] ==
            IF i = 0 THEN <<>> ELSE IF s[i] \in S THEN Append(F[i - 1], s[i]) ELSE F[i - 1]
    IN  F[Len(s)]

IRInit ==
    /\ live = {} /\ erased = {}
    /\ operands = [o \in Op |-> <<>>]
    /\ successors = [o \in Op |-> <<>>]
    /\ regions = [o \in Op |-> <<>>]
    /\ parent_op = [r \in Region |-> {}]
    /\ ops = [b \in Block |-> <<>>]
    /\ blocks = [r \in Region |-> <<>>]

(***************************************************************************)
(* Navigation                                                              *)
(***************************************************************************)

\* is_linked of an operation and of a block.
OpLinked(o) == \E b \in Block : o \in Elems(ops[b])
BlockLinked(b) == \E r \in Region : b \in Elems(blocks[r])

Children(x) == IF x \in Op THEN Elems(regions[x])
               ELSE IF x \in Region THEN Elems(blocks[x]) ELSE Elems(ops[x])

\* x and everything nested in it: what dealloc_sub_objects and drop_all_uses
\* visit, recursing through regions, blocks and operations.
Contained(x) ==
    LET below[S \in SUBSET Object] ==
          LET more == S \cup UNION {Children(y) : y \in S}
          IN  IF more = S THEN S ELSE below[more]
    IN  below[{x}]

\* Operations outside D that use a value of D, or branch to a block of D.
UsersOf(V, D) == {p \in (live \cap Op) \ D : Elems(operands[p]) \cap V # {}}
BranchesTo(B, D) == {p \in (live \cap Op) \ D : Elems(successors[p]) \cap B # {}}

\* Nothing outside D uses a definition of the set S, nested in D.
NotUsedOutside(S, D) == UsersOf(S, D) = {} /\ BranchesTo(S, D) = {}

(***************************************************************************)
(* Creation                                                                *)
(***************************************************************************)

Fresh(x) == x \notin live \cup erased

Operation_new(o, ds, ss, rs) ==
    /\ Fresh(o) /\ \A i \in 1..Len(rs) : Fresh(rs[i])
    /\ live' = live \cup {o} \cup Elems(rs)
    /\ operands' = [operands EXCEPT ![o] = ds]
    /\ successors' = [successors EXCEPT ![o] = ss]
    /\ regions' = [regions EXCEPT ![o] = rs]
    /\ parent_op' = [r \in Region |-> IF r \in Elems(rs) THEN {o} ELSE parent_op[r]]
    /\ UNCHANGED <<erased, ops, blocks>>

BasicBlock_new(b) ==
    /\ Fresh(b)
    /\ live' = live \cup {b}
    /\ UNCHANGED <<erased, operands, successors, regions, parent_op, ops, blocks>>

add_region(o, r) ==
    /\ o \in live /\ Fresh(r)
    /\ live' = live \cup {r}
    /\ regions' = [regions EXCEPT ![o] = Append(@, r)]
    /\ parent_op' = [parent_op EXCEPT ![r] = {o}]
    /\ UNCHANGED <<erased, operands, successors, ops, blocks>>

(***************************************************************************)
(* Linking                                                                 *)
(***************************************************************************)

insert_op(o, b, i) ==
    /\ {o, b} \subseteq live
    /\ ~ OpLinked(o)
    /\ b \notin Contained(o)
    /\ ops' = [ops EXCEPT ![b] = InsertAt(@, i, o)]
    /\ UNCHANGED <<live, erased, operands, successors, regions, parent_op, blocks>>

unlink_op(o) ==
    /\ o \in live /\ OpLinked(o)
    /\ ops' = [b \in Block |-> Retained(ops[b], Op \ {o})]
    /\ UNCHANGED <<live, erased, operands, successors, regions, parent_op, blocks>>

insert_block(b, r, i) ==
    /\ {b, r} \subseteq live
    /\ ~ BlockLinked(b)
    /\ r \notin Contained(b)
    /\ blocks' = [blocks EXCEPT ![r] = InsertAt(@, i, b)]
    /\ UNCHANGED <<live, erased, operands, successors, regions, parent_op, ops>>

unlink_block(b) ==
    /\ b \in live /\ BlockLinked(b)
    /\ blocks' = [r \in Region |-> Retained(blocks[r], Block \ {b})]
    /\ UNCHANGED <<live, erased, operands, successors, regions, parent_op, ops>>

\* Vec::swap_remove: the last element takes the place of the removed one.
swap_remove(s, i) == SubSeq([s EXCEPT ![i] = s[Len(s)]], 1, Len(s) - 1)

\* Region::move_to_op; nothing happens when o is the parent already.
move_to_op(r, o) ==
    /\ {r, o} \subseteq live
    /\ o \notin Contained(r)
    /\ parent_op[r] # {o}
    /\ LET src == CHOOSE p \in parent_op[r] : TRUE
           pos == CHOOSE i \in 1..Len(regions[src]) : regions[src][i] = r
       IN  regions' = [regions EXCEPT ![src] = swap_remove(@, pos), ![o] = Append(@, r)]
    /\ parent_op' = [parent_op EXCEPT ![r] = {o}]
    /\ UNCHANGED <<live, erased, operands, successors, ops, blocks>>

(***************************************************************************)
(* Uses                                                                    *)
(***************************************************************************)

push_operand(o, v) ==
    /\ {o, v} \subseteq live
    /\ operands' = [operands EXCEPT ![o] = Append(@, v)]
    /\ UNCHANGED <<live, erased, successors, regions, parent_op, ops, blocks>>

push_successor(o, b) ==
    /\ {o, b} \subseteq live
    /\ successors' = [successors EXCEPT ![o] = Append(@, b)]
    /\ UNCHANGED <<live, erased, operands, regions, parent_op, ops, blocks>>

\* The operands and successors of every operation of D are taken away.
drop_uses(D) ==
    /\ operands' = [o \in Op |-> IF o \in D THEN <<>> ELSE operands[o]]
    /\ successors' = [o \in Op |-> IF o \in D THEN <<>> ELSE successors[o]]

\* Operation::, BasicBlock:: and Region::drop_all_uses.
drop_all_uses(x) ==
    /\ x \in live
    /\ drop_uses(Contained(x))
    /\ UNCHANGED <<live, erased, regions, parent_op, ops, blocks>>

(***************************************************************************)
(* Erasure: drop the uses held inside, assert that no checked definition   *)
(* is used any more, unlink, and deallocate everything nested.             *)
(***************************************************************************)

\* unlink of the outermost object, and ArenaObj::dealloc of all of D.
dealloc(D) ==
    /\ live' = live \ D
    /\ erased' = erased \cup D
    /\ regions' = [o \in Op |-> IF o \in D THEN <<>> ELSE Retained(regions[o], Region \ D)]
    /\ parent_op' = [r \in Region |-> IF r \in D THEN {} ELSE parent_op[r]]
    /\ ops' = [b \in Block |-> IF b \in D THEN <<>> ELSE Retained(ops[b], Op \ D)]
    /\ blocks' = [r \in Region |-> IF r \in D THEN <<>> ELSE Retained(blocks[r], Block \ D)]

\* The result of the operation must not be used; results nested deeper are not
\* looked at.
Operation_erase(o) ==
    /\ o \in live \cap Op
    /\ LET D == Contained(o)
       IN  /\ UsersOf({o}, D) = {}
           /\ StrictErase => NotUsedOutside(D \ {o}, D)
           /\ drop_uses(D)
           /\ dealloc(D)

\* Mutant: the results of the operations in the block are not checked.
BasicBlock_erase_ArgsOnly(b) ==
    /\ b \in live \cap Block
    /\ LET D == Contained(b)
       IN  /\ BranchesTo({b}, D) = {}
           /\ UsersOf({b}, D) = {}
           /\ StrictErase => NotUsedOutside(D \ ({b} \cup Elems(ops[b])), D)
           /\ drop_uses(D)
           /\ dealloc(D)

\* No predecessor, no use of an argument, no use of the result of an operation
\* directly in the block; results nested deeper are not looked at.
BasicBlock_erase(b) ==
    /\ b \in live \cap Block
    /\ LET D == Contained(b)
       IN  /\ BranchesTo({b}, D) = {}
           /\ UsersOf({b}, D) = {}
           /\ UsersOf(Elems(ops[b]), D) = {}
           /\ StrictErase => NotUsedOutside(D \ ({b} \cup Elems(ops[b])), D)
           /\ drop_uses(D)
           /\ dealloc(D)

\* Operation::erase_region checks nothing.
erase_region(o, i) ==
    /\ o \in live \cap Op
    /\ i \in 1..Len(regions[o])
    /\ LET D == Contained(regions[o][i])
       IN  /\ StrictErase => NotUsedOutside(D, D)
           /\ drop_uses(D)
           /\ dealloc(D)

\* Sequences over S of length at most n.
SeqsUpTo(S, n) == UNION {[1..k -> S] : k \in 0..n}

IRNext ==
    \/ \E o \in Op, ds \in SeqsUpTo(live \cap Value, MaxOperands),
          ss \in SeqsUpTo(live \cap Block, MaxOperands), rs \in SeqsUpTo(Region, 1) :
             Operation_new(o, ds, ss, rs)
    \/ \E b \in Block : BasicBlock_new(b)
    \/ \E o \in Op, r \in Region : add_region(o, r)
    \/ \E o \in Op, b \in Block : \E i \in 1..(Len(ops[b]) + 1) : insert_op(o, b, i)
    \/ \E b \in Block, r \in Region : \E i \in 1..(Len(blocks[r]) + 1) : insert_block(b, r, i)
    \/ \E o \in Op : unlink_op(o)
    \/ \E b \in Block : unlink_block(b)
    \/ \E r \in Region, o \in Op : move_to_op(r, o)
    \/ \E o \in Op, v \in Value : Len(operands[o]) < MaxOperands /\ push_operand(o, v)
    \/ \E o \in Op, b \in Block : Len(successors[o]) < MaxOperands /\ push_successor(o, b)
    \/ \E x \in Object : drop_all_uses(x)
    \/ \E o \in Op : Operation_erase(o)
    \/ \E b \in Block : BasicBlock_erase(b)
    \/ \E o \in Op : \E i \in 1..Len(regions[o]) : erase_region(o, i)

IRSpec == IRInit /\ [][IRNext]_irVars

(***************************************************************************)
(* Properties                                                              *)
(***************************************************************************)

IRTypeOK ==
    /\ live \subseteq Object /\ erased \subseteq Object /\ live \cap erased = {}
    /\ operands \in [Op -> Seq(Value)]
    /\ successors \in [Op -> Seq(Block)]
    /\ regions \in [Op -> Seq(Region)]
    /\ parent_op \in [Region -> SUBSET Op]
    /\ ops \in [Block -> Seq(Op)]
    /\ blocks \in [Region -> Seq(Block)]

\* Every operand and successor of an allocated operation names something that
\* is still allocated: no later access panics with "Dangling Ptr deref".
NoDanglingUse ==
    \A o \in live \cap Op : Elems(operands[o]) \cup Elems(successors[o]) \subseteq live

\* Containment is a forest of allocated objects: the children of an allocated
\* object are allocated, a freed one has none, every object has one parent at
\* most and occurs in it once, and nothing is nested in itself.
Forest ==
    /\ \A x \in Object : Children(x) \subseteq live /\ (x \notin live => Children(x) = {})
    /\ \A y \in Object : Cardinality({x \in Object : y \in Children(x)}) <= 1
    /\ \A o \in Op : IsInjective(regions[o])
    /\ \A b \in Block : IsInjective(ops[b])
    /\ \A r \in Region : IsInjective(blocks[r])
    /\ \A x \in Object : \A y \in Children(x) : x \notin Contained(y)

\* A region belongs to exactly the operation its parent_op names and is listed
\* there: find_index_in_parent never panics, and no region outlives its
\* operation or is leaked when regions are moved and erased.
RegionsOwned ==
    \A r \in Region : IF r \in live
                        THEN \E o \in live \cap Op : parent_op[r] = {o} /\ r \in Elems(regions[o])
                        ELSE \A o \in Op : r \notin Elems(regions[o])

\* The IR is what every walk over it relies on, whatever is built, moved and erased.
NestingSound == NoDanglingUse /\ Forest /\ RegionsOwned

\* What BasicBlock::erase promises: "Panics if there are any uses outside the
\* block", so a block it does erase had none.
EraseSeesOutsideUses ==
    [][\A b \in Block : BasicBlock_erase(b) => NotUsedOutside(Contained(b), Contained(b))]_irVars
=============================================================================
