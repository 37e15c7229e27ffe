--------------------------- MODULE RewriterProofs ---------------------------
(***************************************************************************)
(* Proofs about a rewriter, for any IR it is made for and whatever its     *)
(* callers do: it keeps the IR sound, its listener is told of everything   *)
(* that happens and can undo it, and what is only moved keeps its order.   *)
(***************************************************************************)
EXTENDS Rewriter, IRProofs

(***************************************************************************)
(* The rewriter.  Its calls keep the invariant of the IR, whatever the     *)
(* caller does: an erasure is carried out from the inside, so that what is *)
(* freed at last holds nothing any more and all its uses are looked for.   *)
(***************************************************************************)
OpPoint == {Unset} \cup ({"AtBlockStart", "AtBlockEnd"} \X Block)
                   \cup ({"AfterOperation", "BeforeOperation"} \X Op)
BlockPoint == ({"AtRegionStart", "AtRegionEnd"} \X Region) \cup ({"AfterBlock", "BeforeBlock"} \X Block)

\* The tasks of an erasure.
EraseTasks == ({"erase_operation", "free_operation"} \X Op)
              \cup ({"erase_block", "erase_operations", "free_block"} \X Block)
              \cup ({"erase_region", "free_region"} \X Region)
FreeKinds == {"free_operation", "free_block", "free_region"}

\* The task t takes its object away, or gives way to one that does.
Removes(t, y) == t[1] # "erase_operations" /\ t[2] = y

\* What is in an object when its turn comes to be freed has been taken away before.
InnerFirst(tasks, nesting) ==
    \A i \in 1..Len(tasks) : tasks[i][1] \in FreeKinds =>
       \A y \in nesting[tasks[i][2]] : \E j \in 1..(i - 1) : Removes(tasks[j], y)

Nesting == [x \in Object |-> Children(x)]

\* The tasks that link and unlink what there is.
MoveTasks == ({"unlink_operation", "append_operation"} \X Op) \cup ({"unlink_block"} \X Block)
             \cup ({"insert_scoped"} \X Op \X OpPoint) \cup ({"insert_block"} \X Block \X BlockPoint)

\* The phases of a call, by what is left to do of it.
Erases == agenda \in Seq(EraseTasks) /\ InnerFirst(agenda, Nesting)
Moves == agenda \in Seq(MoveTasks)
Replaces ==
    \E v, w \in live \cap Value :
       \/ agenda = <<<<"replace_uses", v, w>>>>
       \/ v \in Op /\ agenda = <<<<"replace_uses", v, w>>, <<"erase_operation", v>>>>
Creates == \E n \in Block \ live, pt \in BlockPoint : Fresh(n) /\ agenda = <<<<"create_block", n, pt>>>>
Splits ==
    \E n, b \in Block, first \in SUBSET Op, pt \in OpPoint :
       /\ n # b /\ first \subseteq Elems(ops[b])
       /\ \/ /\ Fresh(n)
             /\ agenda = <<<<"create_block", n, <<"AfterBlock", b>>>>, <<"move_tail", n, first>>, <<"restore_point", pt>>>>
          \/ /\ \E r \in Region : {n, b} \subseteq Elems(blocks[r])
             /\ agenda = <<<<"move_tail", n, first>>, <<"restore_point", pt>>>>
Restores == \E pt \in OpPoint : agenda = <<<<"restore_point", pt>>>>

AgendaOK == Erases \/ Moves \/ Replaces \/ Creates \/ Splits \/ Restores

RwInv == IInv /\ op_insertion_point \in OpPoint /\ AgendaOK

\* Looking for an element of a list finds it.
LEMMA IndexLemma ==
    ASSUME NEW s, NEW x \in Elems(s)
    PROVE  IndexIn(s, x) \in 1..Len(s) /\ s[IndexIn(s, x)] = x
  BY DEF IndexIn, Elems

LEMMA BlockOfLemma ==
    ASSUME NEW o, OpLinked(o)
    PROVE  BlockOf(o) \in Block /\ o \in Elems(ops[BlockOf(o)])
  BY DEF OpLinked, BlockOf

LEMMA RegionOfLemma ==
    ASSUME NEW b, BlockLinked(b)
    PROVE  RegionOf(b) \in Region /\ b \in Elems(blocks[RegionOf(b)])
  BY DEF BlockLinked, RegionOf

\* The kinds of insertion points.
LEMMA OpPointKinds ==
    ASSUME NEW pt \in OpPoint, pt # Unset
    PROVE  \/ pt[1] \in {"AtBlockStart", "AtBlockEnd"} /\ pt[2] \in Block /\ pt[2] \notin Op
           \/ pt[1] \in {"AfterOperation", "BeforeOperation"} /\ pt[2] \in Op
  BY IRAssumption DEF OpPoint

LEMMA BlockPointKinds ==
    ASSUME NEW pt \in BlockPoint
    PROVE  /\ pt[2] \notin Op
           /\ \/ pt[1] \in {"AtRegionStart", "AtRegionEnd"} /\ pt[2] \in Region
              \/ pt[1] \in {"AfterBlock", "BeforeBlock"} /\ pt[2] \in Block
  BY IRAssumption DEF BlockPoint

\* A usable point stands for a place in the list of a block, or of a region.
LEMMA OpPlace ==
    ASSUME IRTypeOK, NEW pt \in OpPoint, Usable(pt)
    PROVE  /\ Container(pt) \in Block
           /\ Place(pt, ops[Container(pt)]) \in 1..(Len(ops[Container(pt)]) + 1)
<1>1. pt # Unset /\ (pt[2] \in Op => OpLinked(pt[2]))
  BY DEF Usable
<1>2. \A b \in Block : Len(ops[b]) \in Nat
  BY DEF IRTypeOK
<1>3. CASE pt[1] \in {"AtBlockStart", "AtBlockEnd"} /\ pt[2] \in Block /\ pt[2] \notin Op
  <2>1. Container(pt) = pt[2]
    BY <1>3 DEF Container
  <2>2. Place(pt, ops[pt[2]]) = IF pt[1] = "AtBlockStart" THEN 1 ELSE Len(ops[pt[2]]) + 1
    BY <1>3 DEF Place
  <2>3. QED
    BY <1>2, <1>3, <2>1, <2>2
<1>4. CASE pt[1] \in {"AfterOperation", "BeforeOperation"} /\ pt[2] \in Op
  <2> DEFINE b == BlockOf(pt[2])
             i == IndexIn(ops[b], pt[2])
  <2>1. Container(pt) = b /\ b \in Block /\ i \in 1..Len(ops[b])
    BY <1>1, <1>4, BlockOfLemma, IndexLemma DEF Container
  <2>2. Place(pt, ops[b]) = IF pt[1] = "AfterOperation" THEN i + 1 ELSE i
    BY <1>4 DEF Place
  <2> HIDE DEF b, i
  <2>3. QED
    BY <1>2, <2>1, <2>2
<1>5. QED
  BY <1>1, <1>3, <1>4, OpPointKinds

LEMMA BlockPlace ==
    ASSUME IInv, NEW pt \in BlockPoint, Usable(pt)
    PROVE  /\ Container(pt) \in Region \cap live
           /\ Place(pt, blocks[Container(pt)]) \in 1..(Len(blocks[Container(pt)]) + 1)
<1>1. pt[2] \in live /\ (pt[1] \in {"AfterBlock", "BeforeBlock"} => BlockLinked(pt[2]))
  BY DEF Usable
<1>2. \A r \in Region : Len(blocks[r]) \in Nat
  BY DEF IInv, IRTypeOK
<1>3. CASE pt[1] \in {"AtRegionStart", "AtRegionEnd"} /\ pt[2] \in Region /\ pt[2] \notin Op
  <2>1. Container(pt) = pt[2]
    BY <1>3 DEF Container
  <2>2. Place(pt, blocks[pt[2]]) = IF pt[1] = "AtRegionStart" THEN 1 ELSE Len(blocks[pt[2]]) + 1
    BY <1>3 DEF Place
  <2>3. QED
    BY <1>1, <1>2, <1>3, <2>1, <2>2
<1>4. CASE pt[1] \in {"AfterBlock", "BeforeBlock"} /\ pt[2] \in Block /\ pt[2] \notin Op
  <2> DEFINE r == RegionOf(pt[2])
             i == IndexIn(blocks[r], pt[2])
  <2>1. Container(pt) = r /\ r \in Region /\ pt[2] \in Elems(blocks[r]) /\ i \in 1..Len(blocks[r])
    BY <1>1, <1>4, RegionOfLemma, IndexLemma DEF Container
  <2>2. Place(pt, blocks[r]) = IF pt[1] = "AfterBlock" THEN i + 1 ELSE i
    BY <1>4 DEF Place
  <2> HIDE DEF r, i
  <2>3. r \in live
    BY <2>1, ChildrenType DEF IInv, NestOK, ChildrenLive, ChildrenOK, Object
  <2>4. QED
    BY <1>2, <2>1, <2>2, <2>3
<1>5. QED
  BY <1>3, <1>4, BlockPointKinds

\* An object that holds nothing contains itself only.
LEMMA AloneLemma ==
    ASSUME IRTypeOK, NEW x \in Object, Children(x) = {}
    PROVE  Contained(x) = {x}
<1>1. {x} \in SUBSET Object /\ x \in {x} /\ Closed({x})
  BY DEF Closed
<1>2. Contained(x) \subseteq {x} /\ x \in Contained(x)
  BY <1>1, ContainedLemma DEF ContainedOK
<1>3. QED
  BY <1>2

\* What is contained in an object, but for itself, has its parent there.
LEMMA ParentContained ==
    ASSUME IRTypeOK, OneParent, NEW x \in Object, NEW r \in Object, NEW y \in Children(r),
           y \in Contained(x), y # x
    PROVE  r \in Contained(x)
<1> DEFINE T == Contained(x) \ {y}
<1>1. ContainedOK /\ ChildrenOK
  BY ContainedLemma, ChildrenType
<1>2. x \in Contained(x) /\ Contained(x) \subseteq Object /\ \A z \in Contained(x) : Children(z) \subseteq Contained(x)
  BY <1>1 DEF ContainedOK, Closed
<1>3. SUFFICES ASSUME r \notin Contained(x) PROVE FALSE
  OBVIOUS
<1>4. \A z \in T : Children(z) \subseteq T
  BY <1>2, <1>3 DEF OneParent
<1>5. x \in T /\ T \in SUBSET Object
  BY <1>2
<1> HIDE DEF T
<1>6. Contained(x) \subseteq T
  BY <1>1, <1>4, <1>5 DEF ContainedOK, Closed
<1>7. QED
  BY <1>6 DEF T

\* Taking one element out of a list without repetitions.
LEMMA RemoveElems ==
    ASSUME NEW E, NEW s \in Seq(E), NEW i \in 1..Len(s), IsInjective(s)
    PROVE  /\ RemoveAt(s, i) \in Seq(E) /\ Elems(RemoveAt(s, i)) = Elems(s) \ {s[i]}
           /\ IsInjective(RemoveAt(s, i))
<1> DEFINE t == RemoveAt(s, i)
<1>1. t \in Seq(E) /\ ElementsRemoved(s, i, t)
  BY RemoveAtLemma, RemovedElements
<1> HIDE DEF t
<1>2. DOMAIN t = 1..Len(t) /\ DOMAIN s = 1..Len(s) /\ \A j, k \in 1..Len(s) : s[j] = s[k] => j = k
  BY <1>1 DEF IsInjective
<1>3. Elems(t) = Elems(s) \ {s[i]}
  <2>1. ASSUME NEW k \in 1..Len(t) PROVE t[k] \in Elems(s) \ {s[i]}
    <3>1. PICK a \in 1..Len(s) : a # i /\ t[k] = s[a]
      BY <1>1 DEF ElementsRemoved
    <3>2. QED
      BY <1>2, <3>1 DEF Elems
  <2>2. ASSUME NEW j \in 1..Len(s), j # i PROVE s[j] \in Elems(t)
    BY <1>1, <2>2 DEF ElementsRemoved, Elems
  <2>3. QED
    BY <2>1, <2>2 DEF Elems
<1>4. IsInjective(t)
  BY <1>1, <1>2 DEF ElementsRemoved, IsInjective
<1>5. QED
  BY <1>1, <1>3, <1>4 DEF t

\* An allocated object that contains nothing else and that nothing else uses is freed.
LEMMA FreeStep ==
    ASSUME IInv, NEW x \in Object, Children(x) = {}, drop_uses(Contained(x)), dealloc(Contained(x)),
           \A q \in (live \cap Op) \ {x} : x \notin Elems(operands[q]) \cup Elems(successors[q])
    PROVE  /\ IInv' /\ live' = live \ {x}
           /\ \A z \in Object : Children(z)' \subseteq Children(z) \ {x}
<1>1. Contained(x) = {x}
  BY AloneLemma DEF IInv
<1>2. \A q \in (live \cap Op) \ Contained(x) : (Elems(operands[q]) \cup Elems(successors[q])) \cap Contained(x) = {}
  BY <1>1
<1>3. IInv'
  BY <1>2, DeallocStep
<1>4. live' = live \ {x}
  BY <1>1 DEF dealloc
<1>5. ChildrenOK /\ ChildrenOK' /\ ChildrenLive'
  BY <1>3, ChildrenType, NextStateLemma DEF IInv, NestOK
<1>6. \A z \in Object : x \notin Children(z)'
  BY <1>4, <1>5 DEF ChildrenLive
<1>7. \A z \in Object : Children(z)' \subseteq Children(z)
  <2>1. /\ \A o \in Op : regions[o] \in Seq(Region)
        /\ \A b \in Block : ops[b] \in Seq(Op)
        /\ \A r \in Region : blocks[r] \in Seq(Block)
    BY DEF IInv, IRTypeOK
  <2>2. /\ regions' = [o \in Op |-> IF o \in {x} THEN <<>> ELSE Retained(regions[o], Region \ {x})]
        /\ ops' = [b \in Block |-> IF b \in {x} THEN <<>> ELSE Retained(ops[b], Op \ {x})]
        /\ blocks' = [r \in Region |-> IF r \in {x} THEN <<>> ELSE Retained(blocks[r], Block \ {x})]
    BY <1>1 DEF dealloc
  <2>3. Elems(<<>>) = {}
    BY DEF Elems
  <2>4. \A o \in Op : Elems(regions'[o]) \subseteq Elems(regions[o])
    <3>1. \A o \in Op : Elems(Retained(regions[o], Region \ {x})) \subseteq Elems(regions[o])
      BY <2>1, RetainedElements
    <3>2. \A o \in Op : regions'[o] = IF o \in {x} THEN <<>> ELSE Retained(regions[o], Region \ {x})
      BY <2>2
    <3>3. QED
      BY <2>3, <3>1, <3>2
  <2>5. \A b \in Block : Elems(ops'[b]) \subseteq Elems(ops[b])
    <3>1. \A b \in Block : Elems(Retained(ops[b], Op \ {x})) \subseteq Elems(ops[b])
      BY <2>1, RetainedElements
    <3>2. \A b \in Block : ops'[b] = IF b \in {x} THEN <<>> ELSE Retained(ops[b], Op \ {x})
      BY <2>2
    <3>3. QED
      BY <2>3, <3>1, <3>2
  <2>6. \A r \in Region : Elems(blocks'[r]) \subseteq Elems(blocks[r])
    <3>1. \A r \in Region : Elems(Retained(blocks[r], Block \ {x})) \subseteq Elems(blocks[r])
      BY <2>1, RetainedElements
    <3>2. \A r \in Region : blocks'[r] = IF r \in {x} THEN <<>> ELSE Retained(blocks[r], Block \ {x})
      BY <2>2
    <3>3. QED
      BY <2>3, <3>1, <3>2
  <2>7. /\ \A z \in Op : Children(z)' \subseteq Children(z)
        /\ \A z \in Block : Children(z)' \subseteq Children(z)
        /\ \A z \in Region : Children(z)' \subseteq Children(z)
    BY <1>5, <2>4, <2>5, <2>6 DEF ChildrenOK
  <2>8. QED
    BY <2>7 DEF Object
<1>8. QED
  BY <1>3, <1>4, <1>6, <1>7

\* Every use of one allocated value becomes a use of another.
LEMMA ReplaceUsesStep ==
    ASSUME IInv, NEW v \in Value, NEW w \in live \cap Value,
           operands' = [o \in Op |-> [i \in 1..Len(operands[o]) |->
                          IF operands[o][i] = v THEN w ELSE operands[o][i]]],
           UNCHANGED <<live, erased, successors, regions, parent_op, ops, blocks>>
    PROVE  IInv'
<1>1. ASSUME NEW o \in Op
      PROVE  operands'[o] \in Seq(Value) /\ Elems(operands'[o]) \subseteq Elems(operands[o]) \cup {w}
  <2> DEFINE s == operands[o]
             t == [i \in 1..Len(s) |-> IF s[i] = v THEN w ELSE s[i]]
  <2>1. s \in Seq(Value) /\ operands'[o] = t
    BY DEF IInv, IRTypeOK
  <2>2. t \in Seq(Value) /\ Len(t) = Len(s)
    BY <2>1
  <2>3. \A i \in 1..Len(s) : t[i] \in {w, s[i]}
    OBVIOUS
  <2> HIDE DEF s, t
  <2>4. Elems(t) \subseteq Elems(s) \cup {w}
    BY <2>2, <2>3 DEF Elems
  <2>5. QED
    BY <2>1, <2>2, <2>4 DEF s
<1>2. operands' \in [Op -> Seq(Value)]
  <2>1. operands' = [o \in Op |-> operands'[o]]
    OBVIOUS
  <2>2. QED
    BY <1>1, <2>1
<1>3. IRTypeOK'
  BY <1>2 DEF IInv, IRTypeOK
<1>4. NoDanglingUse'
  BY <1>1 DEF IInv, NoDanglingUse, Elems
<1>5. QED
  BY <1>3, <1>4, SameNesting DEF IInv

\* A block is made and inserted in a region.
LEMMA CreateBlockStep ==
    ASSUME IInv, NEW n \in Block, n \notin live, n \notin erased, NEW r \in Region \cap live,
           NEW i \in 1..(Len(blocks[r]) + 1),
           live' = live \cup {n}, blocks' = [blocks EXCEPT ![r] = InsertAt(@, i, n)],
           UNCHANGED <<erased, operands, successors, regions, parent_op, ops>>
    PROVE  IInv' /\ Elems(blocks'[r]) = Elems(blocks[r]) \cup {n}
<1>1. IRTypeOK /\ ChildrenLive /\ OneParent /\ Acyclic /\ ChildrenOK
  BY ChildrenType DEF IInv, NestOK
<1>2. \A z \in Object : n \notin Children(z)
  BY <1>1 DEF ChildrenLive
<1>3. Children(n) = {} /\ n \in Object /\ r \in Object /\ r # n
  BY <1>1, IRAssumption DEF ChildrenLive, Object
<1>4. blocks \in [Region -> Seq(Block)] /\ blocks[r] \in Seq(Block) /\ IsInjective(blocks[r]) /\ n \notin Elems(blocks[r])
  BY <1>1, <1>2, <1>3 DEF IInv, IRTypeOK, OnceInList, ChildrenOK
<1> DEFINE new == InsertAt(blocks[r], i, n)
<1>5. new \in Seq(Block) /\ Elems(new) = Elems(blocks[r]) \cup {n} /\ IsInjective(new)
  BY <1>4, InsertElems
<1> HIDE DEF new
<1>6. \A c \in Region : blocks'[c] = IF c = r THEN new ELSE blocks[c]
  BY <1>4 DEF new
<1>7. IRTypeOK'
  BY <1>3, <1>5 DEF IInv, IRTypeOK, new
<1>8. ChildrenOK'
  BY <1>7, NextStateLemma
<1>9. \A z \in Object : Children(z)' = Children(z) \cup (IF z = r THEN {n} ELSE {})
  <2>1. \A z \in Region : Children(z)' = Children(z) \cup (IF z = r THEN {n} ELSE {})
    BY <1>1, <1>5, <1>6, <1>8 DEF ChildrenOK
  <2>2. \A z \in Op \cup Block : Children(z)' = Children(z)
    BY <1>1, <1>8 DEF ChildrenOK
  <2>3. QED
    BY <2>1, <2>2, IRAssumption DEF Object
<1>10. r \notin Contained(n)
  BY <1>1, <1>3, AloneLemma
<1>11. Acyclic'
  BY <1>1, <1>3, <1>7, <1>9, <1>10, EdgeAdded
<1>12. ChildrenLive'
  BY <1>1, <1>3, <1>9 DEF ChildrenLive
<1>13. OneParent'
  BY <1>1, <1>2, <1>9 DEF OneParent
<1>14. OnceInList'
  BY <1>5, <1>6 DEF IInv, OnceInList
<1>15. RegionsOwned'
  <2>1. live' \cap Region = live \cap Region /\ live' \cap Op = live \cap Op
    BY IRAssumption
  <2>2. QED
    BY <2>1 DEF IInv, RegionsOwned
<1>16. NoDanglingUse'
  BY IRAssumption DEF IInv, NoDanglingUse
<1>17. QED
  BY <1>5, <1>6, <1>7, <1>11, <1>12, <1>13, <1>14, <1>15, <1>16 DEF IInv, NestOK

\* An operation goes from its block to the end of another block of the same region.
LEMMA MoveOpStep ==
    ASSUME IInv, NEW n \in Block, NEW b \in Block, n # b, NEW r \in Region, {n, b} \subseteq Elems(blocks[r]),
           NEW i \in 1..Len(ops[b]),
           ops' = [ops EXCEPT ![b] = RemoveAt(@, i), ![n] = Append(@, ops[b][i])],
           UNCHANGED <<live, erased, operands, successors, regions, parent_op, blocks>>
    PROVE  IInv' /\ Elems(ops'[b]) = Elems(ops[b]) \ {ops[b][i]}
<1> DEFINE o == ops[b][i]
<1>1. IRTypeOK /\ ChildrenLive /\ OneParent /\ Acyclic /\ ChildrenOK
  BY ChildrenType DEF IInv, NestOK
<1>2. /\ ops \in [Block -> Seq(Op)] /\ ops[b] \in Seq(Op) /\ IsInjective(ops[b])
      /\ ops[n] \in Seq(Op) /\ IsInjective(ops[n])
  BY <1>1 DEF IInv, IRTypeOK, OnceInList
<1>3. o \in Op /\ o \in Elems(ops[b])
  BY <1>2 DEF Elems
<1>4. o \in Object /\ n \in Object /\ b \in Object /\ r \in Object /\ o # n
  BY <1>3, IRAssumption DEF Object
<1>5. o \in Children(b) /\ b \in Children(r) /\ n \in Children(r)
  BY <1>1, <1>3 DEF ChildrenOK
<1>6. \A z \in Object : o \in Children(z) => z = b
  BY <1>1, <1>4, <1>5 DEF OneParent
<1>7. o \notin Elems(ops[n])
  BY <1>1, <1>4, <1>6 DEF ChildrenOK
<1>8. o \in live /\ n \in live /\ b \in live
  BY <1>1, <1>4, <1>5 DEF ChildrenLive
<1> DEFINE short == RemoveAt(ops[b], i)
           long == Append(ops[n], o)
<1>9. short \in Seq(Op) /\ Elems(short) = Elems(ops[b]) \ {o} /\ IsInjective(short)
  BY <1>2, RemoveElems
<1>10. long \in Seq(Op) /\ Elems(long) = Elems(ops[n]) \cup {o} /\ IsInjective(long)
  <2> HIDE DEF o
  <2>1. QED
    BY <1>2, <1>3, <1>7, AppendElems
<1>11. ops' \in [Block -> Seq(Op)] /\ \A c \in Block : ops'[c] = IF c = b THEN short ELSE IF c = n THEN long ELSE ops[c]
  <2>1. ops' = [ops EXCEPT ![b] = short, ![n] = long]
    OBVIOUS
  <2> HIDE DEF short, long, o
  <2>2. QED
    BY <1>2, <1>9, <1>10, <2>1
<1> HIDE DEF short, long, o
<1>12. IRTypeOK'
  BY <1>11 DEF IInv, IRTypeOK
<1>13. ChildrenOK'
  BY <1>12, NextStateLemma
<1>14. \A z \in Object : Children(z)' = IF z = b THEN Children(z) \ {o} ELSE IF z = n THEN Children(z) \cup {o} ELSE Children(z)
  <2>1. \A z \in Block : Children(z)' = IF z = b THEN Children(z) \ {o} ELSE IF z = n THEN Children(z) \cup {o} ELSE Children(z)
    BY <1>1, <1>9, <1>10, <1>11, <1>13 DEF ChildrenOK
  <2>2. \A z \in Op \cup Region : Children(z)' = Children(z)
    BY <1>1, <1>13 DEF ChildrenOK
  <2>3. QED
    BY <2>1, <2>2, IRAssumption DEF Object
<1>15. n \notin Contained(o)
  <2>1. SUFFICES ASSUME n \in Contained(o) PROVE FALSE
    OBVIOUS
  <2>2. r \in Contained(o)
    BY <1>1, <1>4, <1>5, <2>1, ParentContained
  <2>3. b \in Contained(o)
    BY <1>1, <1>4, <1>5, <2>2, ContainedLemma DEF ContainedOK, Closed
  <2>4. QED
    BY <1>1, <1>4, <1>5, <2>3 DEF Acyclic
<1>16. Acyclic'
  BY <1>1, <1>4, <1>12, <1>14, <1>15, EdgeAdded
<1>17. ChildrenLive'
  BY <1>1, <1>8, <1>14 DEF ChildrenLive
<1>18. OneParent'
  BY <1>1, <1>6, <1>14 DEF OneParent
<1>19. OnceInList'
  BY <1>9, <1>10, <1>11 DEF IInv, OnceInList
<1>20. RegionsOwned' /\ NoDanglingUse'
  BY DEF IInv, RegionsOwned, NoDanglingUse
<1>21. QED
  BY <1>9, <1>11, <1>12, <1>16, <1>17, <1>18, <1>19, <1>20 DEF IInv, NestOK, o

(***************************************************************************)
(* A walk in post-order leaves every block that it is to visit.            *)
(***************************************************************************)

\* The walk v goes on from w: it has seen the blocks of S too, and every block that was
\* not being visited already has been left.
GoesOn(w, v, S) ==
    /\ v \in Walks /\ w.seen \subseteq v.seen /\ S \subseteq v.seen
    /\ v.seen \ Elems(v.po) \subseteq w.seen \ Elems(w.po)

Visitors == {g \in [Block -> [Walks -> Walks]] : \A b \in Block, w \in Walks : GoesOn(w, g[b][w], {b})}

\* What post_order does at a block, when the blocks after it are visited by g.
VisitAt(d, g) ==
    [b \in Block |-> [walk \in Walks |->
       IF b \in walk.seen THEN walk
       ELSE [VisitAll(g, IF d = 0 THEN <<>> ELSE BlockSuccs(b),
                      [walk EXCEPT !.seen = @ \cup {b}]) EXCEPT !.po = Append(@, b)]]]

\* The function f of numbers up to n is defined by what it is at the number before.
Recursion(f, n, a, V) == f = [i \in 0..n |-> IF i = 0 THEN a ELSE V[i][f[i - 1]]]

LEMMA RecursionExists ==
    ASSUME NEW n \in Nat, NEW a, NEW V
    PROVE  \E f : Recursion(f, n, a, V)
<1> DEFINE G(f, k) == [i \in 0..k |-> IF i = 0 THEN a ELSE V[i][f[i - 1]]]
           Ok(k) == \E f : f = G(f, k)
           P == {k \in 0..n : Ok(k)}
<1>1. 0 \in P
  <2> DEFINE f == [i \in 0..0 |-> a]
  <2>1. f = G(f, 0)
    OBVIOUS
  <2>2. Ok(0)
    BY <2>1, Zenon
  <2> HIDE DEF Ok
  <2>3. QED
    BY <2>2
<1>2. ASSUME NEW k \in 0..n, k < n, k \in P PROVE k + 1 \in P
  <2>1. Ok(k)
    <3> HIDE DEF Ok
    <3>1. QED
      BY <1>2
  <2>2. PICK f : f = G(f, k)
    BY <2>1
  <2> DEFINE h == [i \in 0..(k + 1) |-> IF i <= k THEN f[i] ELSE V[i][f[i - 1]]]
  <2>3. \A i \in 0..k : h[i] = f[i]
    OBVIOUS
  <2>4. ASSUME NEW i \in 0..(k + 1) PROVE h[i] = G(h, k + 1)[i]
    <3>1. CASE i <= k
      <4>1. h[i] = f[i] /\ f[i] = G(f, k)[i]
        BY <2>2, <2>3, <3>1
      <4>2. i # 0 => h[i - 1] = f[i - 1]
        BY <2>3, <3>1
      <4>3. G(f, k)[i] = IF i = 0 THEN a ELSE V[i][f[i - 1]]
        BY <3>1
      <4> HIDE DEF h
      <4>4. QED
        BY <4>1, <4>2, <4>3
    <3>2. CASE i = k + 1
      <4>1. h[i - 1] = f[i - 1]
        BY <2>3, <3>2
      <4>2. h[i] = V[i][f[i - 1]]
        BY <3>2
      <4> HIDE DEF h
      <4>3. QED
        BY <3>2, <4>1, <4>2
    <3>3. QED
      BY <3>1, <3>2
  <2>5. h = G(h, k + 1)
    <3>1. DOMAIN h = 0..(k + 1) /\ h = [i \in 0..(k + 1) |-> h[i]]
      OBVIOUS
    <3> HIDE DEF h
    <3>2. QED
      BY <2>4, <3>1
  <2>6. Ok(k + 1)
    <3> HIDE DEF h, G
    <3>1. QED
      BY <2>5, Zenon
  <2> HIDE DEF Ok
  <2>7. QED
    BY <1>2, <2>6
<1>3. 0..n \subseteq P
  <2> HIDE DEF P
  <2>1. QED
    BY <1>1, <1>2, UpTo
<1>4. Ok(n)
  <2> HIDE DEF Ok
  <2>1. QED
    BY <1>3
<1>5. PICK f : f = G(f, n)
  BY <1>4
<1>6. Recursion(f, n, a, V)
  BY <1>5, Zenon DEF Recursion
<1>7. QED
  BY <1>6

\* Going on twice is going on.
LEMMA GoingOn ==
    ASSUME NEW u \in Walks, NEW v, NEW w, NEW S, NEW T, GoesOn(u, v, S), GoesOn(v, w, T)
    PROVE  GoesOn(u, w, S \cup T)
  BY DEF GoesOn

LEMMA VisitAllLemma ==
    ASSUME NEW s \in Seq(Block), NEW w \in Walks, NEW g, s = <<>> \/ g \in Visitors
    PROVE  GoesOn(w, VisitAll(g, s, w), Elems(s))
<1> DEFINE n == Len(s)
           Q(f) == f = [i \in 0..n |-> IF i = 0 THEN w ELSE g[s[i]][f[i - 1]]]
           after == CHOOSE f : Q(f)
           First(k) == {s[i] : i \in 1..k}
           P == {k \in 0..n : GoesOn(w, after[k], First(k))}
<1>1. n \in Nat
  OBVIOUS
<1>2. \E f : Q(f)
  <2> DEFINE V == [i \in 1..n |-> g[s[i]]]
  <2>0. PICK f : Recursion(f, n, w, V)
    BY <1>1, RecursionExists
  <2>1. f = [i \in 0..n |-> IF i = 0 THEN w ELSE V[i][f[i - 1]]]
    BY <2>0, Zenon DEF Recursion
  <2>2. \A i \in 1..n : V[i] = g[s[i]]
    OBVIOUS
  <2> HIDE DEF V, n
  <2>3. \A i \in 0..n : i # 0 => i \in 1..n
    BY <1>1
  <2>4. f = [i \in 0..n |-> IF i = 0 THEN w ELSE g[s[i]][f[i - 1]]]
    BY <2>1, <2>2, <2>3
  <2>5. QED
    BY <2>4
<1>3. Q(after)
  <2> HIDE DEF Q
  <2>1. QED
    BY <1>2, Zenon
<1>4. VisitAll(g, s, w) = after[n]
  BY Zenon DEF VisitAll
<1> HIDE DEF after
<1>5. after[0] = w /\ \A i \in 1..n : after[i] = g[s[i]][after[i - 1]]
  <2> HIDE DEF n
  <2>1. QED
    BY <1>1, <1>3
<1>6. 0 \in P
  <2>1. First(0) = {}
    OBVIOUS
  <2>2. GoesOn(w, w, {})
    BY DEF GoesOn
  <2> HIDE DEF First, n
  <2>3. GoesOn(w, after[0], First(0))
    BY <1>5, <2>1, <2>2, Zenon
  <2>4. QED
    BY <1>1, <2>3
<1>7. ASSUME NEW k \in 0..n, k < n, k \in P PROVE k + 1 \in P
  <2>1. k + 1 \in 1..n /\ s[k + 1] \in Block /\ g \in Visitors
    BY <1>1, <1>7
  <2>2. GoesOn(w, after[k], First(k))
    BY <1>7
  <2>3. after[k + 1] = g[s[k + 1]][after[k]]
    <3> HIDE DEF n
    <3>1. QED
      BY <1>5, <2>1
  <2>4. GoesOn(after[k], after[k + 1], {s[k + 1]})
    <3>1. after[k] \in Walks
      BY <2>2 DEF GoesOn
    <3>2. QED
      BY <2>1, <2>3, <3>1 DEF Visitors
  <2>5. First(k + 1) = First(k) \cup {s[k + 1]}
    <3> HIDE DEF n
    <3>1. 1..(k + 1) = 1..k \cup {k + 1}
      BY <1>1
    <3>2. QED
      BY <3>1
  <2> HIDE DEF First, n
  <2>6. GoesOn(w, after[k + 1], First(k + 1))
    BY <2>2, <2>4, <2>5, GoingOn
  <2>7. QED
    BY <1>1, <2>1, <2>6
<1>8. 0..n \subseteq P
  <2> HIDE DEF P, n
  <2>1. QED
    BY <1>1, <1>6, <1>7, UpTo
<1>9. GoesOn(w, after[n], First(n))
  <2> HIDE DEF First, n
  <2>1. QED
    BY <1>1, <1>8
<1>10. First(n) = Elems(s)
  BY DEF Elems
<1>11. QED
  BY <1>4, <1>9, <1>10

\* Where there is nothing to visit it does not matter how.
LEMMA NoVisit ==
    ASSUME NEW g, NEW w
    PROVE  VisitAll(g, <<>>, w) = w
<1> DEFINE Q(f) == f = [i \in 0..Len(<<>>) |-> IF i = 0 THEN w ELSE g[<<>>[i]][f[i - 1]]]
<1>1. \E f : Q(f)
  <2> DEFINE f == [i \in 0..0 |-> w]
  <2>1. Len(<<>>) = 0
    OBVIOUS
  <2>2. f = [i \in 0..0 |-> IF i = 0 THEN w ELSE g[<<>>[i]][f[i - 1]]]
    OBVIOUS
  <2>3. Q(f)
    BY <2>1, <2>2
  <2> HIDE DEF f, Q
  <2>4. QED
    BY <2>3
<1>2. Q(CHOOSE f : Q(f))
  <2> HIDE DEF Q
  <2>1. QED
    BY <1>1, Zenon
<1> DEFINE after == CHOOSE f : Q(f)
<1>3. VisitAll(g, <<>>, w) = after[Len(<<>>)]
  BY Zenon DEF VisitAll
<1>4. Q(after)
  BY <1>2
<1> HIDE DEF after
<1>5. Len(<<>>) = 0
  OBVIOUS
<1>6. after[0] = w
  BY <1>4, <1>5
<1>7. QED
  BY <1>3, <1>5, <1>6

\* The blocks that a block branches to.
LEMMA BlockSuccsLemma ==
    ASSUME IRTypeOK, NEW b \in Block
    PROVE  BlockSuccs(b) \in Seq(Block)
<1>1. ops[b] \in Seq(Op) /\ successors \in [Op -> Seq(Block)]
  BY DEF IRTypeOK
<1>2. CASE ops[b] = <<>>
  BY <1>2 DEF BlockSuccs
<1>3. CASE ops[b] # <<>>
  <2>1. Last(ops[b]) \in Op
    BY <1>1, <1>3 DEF Last
  <2>2. QED
    BY <1>1, <1>3, <2>1 DEF BlockSuccs
<1>4. QED
  BY <1>2, <1>3

LEMMA VisitAtLemma ==
    ASSUME IRTypeOK, NEW d \in Nat, NEW g, d = 0 \/ g \in Visitors
    PROVE  VisitAt(d, g) \in Visitors
<1> DEFINE v == VisitAt(d, g)
<1>1. ASSUME NEW b \in Block, NEW w \in Walks
      PROVE  GoesOn(w, v[b][w], {b})
  <2>1. CASE b \in w.seen
    <3>1. v[b][w] = w
      BY <2>1 DEF VisitAt
    <3>2. QED
      BY <2>1, <3>1 DEF GoesOn
  <2>2. CASE b \notin w.seen
    <3> DEFINE s == IF d = 0 THEN <<>> ELSE BlockSuccs(b)
               u == [w EXCEPT !.seen = @ \cup {b}]
               x == VisitAll(g, s, u)
    <3>1. v[b][w] = [x EXCEPT !.po = Append(@, b)]
      BY <2>2 DEF VisitAt
    <3>2. u \in Walks /\ u.seen = w.seen \cup {b} /\ u.po = w.po
      BY DEF Walks
    <3>3. s \in Seq(Block) /\ (s = <<>> \/ g \in Visitors)
      BY BlockSuccsLemma
    <3> HIDE DEF u, s
    <3>4. GoesOn(u, x, Elems(s))
      BY <3>2, <3>3, VisitAllLemma
    <3> HIDE DEF x
    <3>5. x \in Walks /\ u.seen \subseteq x.seen /\ x.seen \ Elems(x.po) \subseteq u.seen \ Elems(u.po)
      BY <3>4 DEF GoesOn
    <3> DEFINE y == [x EXCEPT !.po = Append(@, b)]
    <3>6. Append(x.po, b) \in Seq(Block) /\ Elems(Append(x.po, b)) = Elems(x.po) \cup {b}
      <4>1. x.po \in Seq(Block)
        BY <3>5 DEF Walks
      <4>2. QED
        BY <4>1, AppendElems
    <3>7. y \in Walks /\ y.seen = x.seen /\ y.po = Append(x.po, b)
      BY <3>5, <3>6 DEF Walks
    <3> HIDE DEF y
    <3>8. GoesOn(w, y, {b})
      BY <3>2, <3>5, <3>6, <3>7 DEF GoesOn
    <3>9. QED
      BY <3>1, <3>8 DEF y
  <2>3. QED
    BY <2>1, <2>2
<1>2. v \in [Block -> [Walks -> Walks]]
  <2>1. v = [b \in Block |-> v[b]] /\ \A b \in Block : v[b] = [w \in Walks |-> v[b][w]]
    BY DEF VisitAt
  <2>2. \A b \in Block, w \in Walks : v[b][w] \in Walks
    BY <1>1 DEF GoesOn
  <2> HIDE DEF v
  <2>3. \A b \in Block : v[b] \in [Walks -> Walks]
    BY <2>1, <2>2
  <2>4. QED
    BY <2>1, <2>3
<1>3. QED
  BY <1>1, <1>2 DEF Visitors

\* The walk over a region leaves all its blocks.
LEMMA PostOrderLemma ==
    ASSUME IRTypeOK, NEW r \in Region
    PROVE  post_order(r) \in Seq(Block) /\ Elems(blocks[r]) \subseteq Elems(post_order(r))
<1> DEFINE n == Cardinality(Block)
           Q(f) == f = [d \in 0..n |-> VisitAt(d, f[d - 1])]
           visit == CHOOSE f : Q(f)
           w == [seen |-> {}, po |-> <<>>]
           v == VisitAll(visit[n], blocks[r], w)
<1>1. n \in Nat
  BY IRAssumption, FS_CardinalityType
<1>2. post_order(r) = v.po
  BY Zenon DEF post_order, VisitAt
<1> HIDE DEF n
<1>3. \E f : Q(f)
  <2> DEFINE a == VisitAt(0, 0)
             V == [d \in 1..n |-> [g \in Visitors |-> VisitAt(d, g)]]
  <2>0. PICK f : Recursion(f, n, a, V)
    BY <1>1, RecursionExists
  <2>1. f = [i \in 0..n |-> IF i = 0 THEN a ELSE V[i][f[i - 1]]]
    BY <2>0, Zenon DEF Recursion
  <2> DEFINE P == {k \in 0..n : f[k] \in Visitors}
  <2>2. f[0] = a /\ \A i \in 1..n : f[i] = V[i][f[i - 1]]
    <3> HIDE DEF a, V
    <3>1. QED
      BY <1>1, <2>1
  <2>3. 0 \in P
    BY <1>1, <2>2, VisitAtLemma
  <2>4. ASSUME NEW k \in 0..n, k < n, k \in P PROVE k + 1 \in P
    <3>1. k + 1 \in 1..n /\ (k + 1) - 1 = k /\ k + 1 \in Nat
      BY <1>1, <2>4
    <3>2. f[k + 1] = VisitAt(k + 1, f[k])
      BY <2>2, <2>4, <3>1
    <3>3. QED
      BY <2>4, <3>1, <3>2, VisitAtLemma
  <2>5. 0..n \subseteq P
    <3> HIDE DEF P
    <3>1. QED
      BY <1>1, <2>3, <2>4, UpTo
  <2>6. ASSUME NEW d \in 0..n PROVE f[d] = VisitAt(d, f[d - 1])
    <3>1. CASE d = 0
      <4>1. \A s, g, h : VisitAll(g, <<>>, s) = VisitAll(h, <<>>, s)
        BY NoVisit
      <4>2. VisitAt(0, f[d - 1]) = a
        BY <4>1 DEF VisitAt
      <4>3. QED
        BY <2>2, <3>1, <4>2
    <3>2. CASE d # 0
      <4>1. d \in 1..n /\ d - 1 \in 0..n
        BY <1>1, <3>2
      <4>2. f[d - 1] \in Visitors
        BY <2>5, <4>1
      <4>3. QED
        BY <2>2, <4>1, <4>2
    <3>3. QED
      BY <3>1, <3>2
  <2>7. f = [d \in 0..n |-> VisitAt(d, f[d - 1])]
    <3>1. f = [d \in 0..n |-> f[d]]
      <4> HIDE DEF a, V
      <4>1. QED
        BY <2>1
    <3>2. QED
      BY <2>6, <3>1
  <2>8. QED
    BY <2>7
<1>4. Q(visit)
  <2> HIDE DEF Q
  <2>1. QED
    BY <1>3, Zenon
<1> HIDE DEF visit
<1>5. visit[n] \in Visitors
  <2> DEFINE P == {k \in 0..n : visit[k] \in Visitors}
  <2>1. \A k \in 0..n : visit[k] = VisitAt(k, visit[k - 1])
    BY <1>4
  <2>2. 0 \in P
    BY <1>1, <2>1, VisitAtLemma
  <2>3. ASSUME NEW k \in 0..n, k < n, k \in P PROVE k + 1 \in P
    <3>1. k + 1 \in 0..n /\ (k + 1) - 1 = k /\ k + 1 \in Nat
      BY <1>1, <2>3
    <3>2. visit[k + 1] = VisitAt(k + 1, visit[k])
      BY <2>1, <3>1
    <3>3. QED
      BY <2>3, <3>1, <3>2, VisitAtLemma
  <2>4. 0..n \subseteq P
    <3> HIDE DEF P
    <3>1. QED
      BY <1>1, <2>2, <2>3, UpTo
  <2>5. QED
    BY <1>1, <2>4
<1>6. w \in Walks /\ w.seen = {} /\ blocks[r] \in Seq(Block)
  BY DEF Walks, IRTypeOK
<1>7. GoesOn(w, v, Elems(blocks[r]))
  <2> HIDE DEF w
  <2>1. QED
    BY <1>5, <1>6, VisitAllLemma
<1> HIDE DEF v, w
<1>8. v \in Walks /\ Elems(blocks[r]) \subseteq v.seen /\ v.seen \subseteq Elems(v.po)
  BY <1>6, <1>7 DEF GoesOn
<1>9. QED
  BY <1>2, <1>8 DEF Walks

(***************************************************************************)
(* The tasks of an erasure, in their order.                                *)
(***************************************************************************)
LEMMA EraseTaskKinds ==
    ASSUME NEW t \in EraseTasks
    PROVE  /\ t[2] \in Object
           /\ t[1] \in {"erase_operation", "free_operation"} => t[2] \in Op
           /\ t[1] \in {"erase_block", "erase_operations", "free_block"} => t[2] \in Block
           /\ t[1] \in {"erase_region", "free_region"} => t[2] \in Region
  BY DEF EraseTasks, Object

LEMMA EachLemma ==
    ASSUME NEW E, NEW s \in Seq(E), NEW kind
    PROVE  /\ Each(kind, s) \in Seq({kind} \X E) /\ Len(Each(kind, s)) = Len(s)
           /\ \A i \in 1..Len(s) : Each(kind, s)[i] = <<kind, s[i]>>
<1>1. \A i \in 1..Len(s) : s[i] \in E
  OBVIOUS
<1>2. Each(kind, s) \in [1..Len(s) -> {kind} \X E]
  BY <1>1 DEF Each
<1>3. QED
  BY <1>2, FunctionIsSeq DEF Each

\* A list of tasks none of which frees an object is in order.
LEMMA NothingFreed ==
    ASSUME NEW C, NEW s, \A i \in 1..Len(s) : s[i][1] \notin FreeKinds
    PROVE  InnerFirst(s, C)
  BY DEF InnerFirst

\* Tasks take the place of the first one, and take away what it would.
LEMMA InsteadOfFirst ==
    ASSUME NEW T, NEW C, NEW s \in Seq(T), s # <<>>, InnerFirst(s, C), NEW new \in Seq(T), InnerFirst(new, C),
           \A y : Removes(s[1], y) => \E j \in 1..Len(new) : Removes(new[j], y)
    PROVE  new \o Tail(s) \in Seq(T) /\ InnerFirst(new \o Tail(s), C)
<1> DEFINE m == Len(new)
           n == Len(s)
           t == new \o Tail(s)
<1>1. m \in Nat /\ n \in Nat /\ n >= 1 /\ Tail(s) \in Seq(T) /\ Len(Tail(s)) = n - 1
  OBVIOUS
<1>2. \A i \in 1..(n - 1) : Tail(s)[i] = s[i + 1]
  OBVIOUS
<1>3. /\ t \in Seq(T) /\ Len(t) = m + (n - 1)
      /\ \A i \in 1..(m + (n - 1)) : t[i] = IF i <= m THEN new[i] ELSE Tail(s)[i - m]
  BY <1>1, ConcatProperties
<1>4. /\ \A i \in 1..m : t[i] = new[i]
      /\ \A k \in 2..n : t[k + m - 1] = s[k]
  <2> HIDE DEF t, m, n
  <2>1. ASSUME NEW k \in 2..n PROVE t[k + m - 1] = s[k]
    <3>1. k + m - 1 \in 1..(m + (n - 1)) /\ ~ (k + m - 1 <= m) /\ (k + m - 1) - m = k - 1
          /\ k - 1 \in 1..(n - 1) /\ (k - 1) + 1 = k
      BY <1>1
    <3>2. t[k + m - 1] = Tail(s)[k - 1]
      BY <1>3, <3>1
    <3>3. QED
      BY <1>2, <3>1, <3>2
  <2>2. QED
    BY <1>1, <1>3, <2>1
<1> HIDE DEF t
<1>5. ASSUME NEW i \in 1..Len(t), t[i][1] \in FreeKinds, NEW y \in C[t[i][2]]
      PROVE  \E j \in 1..(i - 1) : Removes(t[j], y)
  <2>1. CASE i <= m
    <3>1. i \in 1..m /\ t[i] = new[i]
      BY <1>4, <2>1
    <3>2. PICK j \in 1..(i - 1) : Removes(new[j], y)
      BY <1>5, <3>1 DEF InnerFirst
    <3>3. j \in 1..m
      BY <1>1, <3>1
    <3>4. QED
      BY <1>4, <3>2, <3>3
  <2>2. CASE ~ (i <= m)
    <3> DEFINE k == i - m + 1
    <3>1. k \in 2..n /\ i = k + m - 1
      BY <1>1, <1>3, <2>2
    <3>2. t[i] = s[k]
      BY <1>4, <3>1
    <3> HIDE DEF k
    <3>3. PICK j \in 1..(k - 1) : Removes(s[j], y)
      <4>1. k \in 1..Len(s) /\ s[k][1] \in FreeKinds /\ y \in C[s[k][2]]
        BY <1>1, <1>5, <3>1, <3>2
      <4> HIDE DEF n, m
      <4>2. QED
        BY <4>1 DEF InnerFirst
    <3>4. CASE j = 1
      <4>1. PICK l \in 1..m : Removes(new[l], y)
        BY <3>3, <3>4
      <4>2. l \in 1..(i - 1) /\ t[l] = new[l]
        BY <1>1, <1>4, <3>1
      <4>3. QED
        BY <4>1, <4>2
    <3>5. CASE j # 1
      <4>1. j \in 2..n /\ j + m - 1 \in 1..(i - 1)
        BY <1>1, <3>1, <3>5
      <4>2. t[j + m - 1] = s[j]
        BY <1>4, <4>1
      <4>3. QED
        BY <3>3, <4>1, <4>2
    <3>6. QED
      BY <3>4, <3>5
  <2>3. QED
    BY <2>1, <2>2
<1>6. InnerFirst(t, C)
  BY <1>5 DEF InnerFirst
<1>7. QED
  BY <1>3, <1>6 DEF t

\* The last task frees an object whose children the others take away.
LEMMA FreedLast ==
    ASSUME NEW T, NEW C, NEW pre \in Seq(T), \A i \in 1..Len(pre) : pre[i][1] \notin FreeKinds,
           NEW free \in T, \A y \in C[free[2]] : \E j \in 1..Len(pre) : Removes(pre[j], y)
    PROVE  /\ pre \o <<free>> \in Seq(T) /\ InnerFirst(pre \o <<free>>, C)
           /\ Len(pre) + 1 \in 1..Len(pre \o <<free>>) /\ (pre \o <<free>>)[Len(pre) + 1] = free
<1> DEFINE m == Len(pre)
           t == pre \o <<free>>
<1>1. m \in Nat /\ <<free>> \in Seq(T) /\ Len(<<free>>) = 1 /\ <<free>>[1] = free
  OBVIOUS
<1>2. t \in Seq(T) /\ Len(t) = m + 1 /\ \A i \in 1..(m + 1) : t[i] = IF i <= m THEN pre[i] ELSE <<free>>[i - m]
  BY <1>1, ConcatProperties
<1> HIDE DEF t
<1>3. (\A i \in 1..m : t[i] = pre[i]) /\ t[m + 1] = free /\ m + 1 \in 1..Len(t)
  <2>1. \A i \in 1..m : i \in 1..(m + 1) /\ i <= m
    BY <1>1
  <2>2. m + 1 \in 1..(m + 1) /\ ~ (m + 1 <= m) /\ (m + 1) - m = 1
    BY <1>1
  <2> HIDE DEF m
  <2>3. QED
    BY <1>1, <1>2, <2>1, <2>2
<1>4. ASSUME NEW i \in 1..Len(t), t[i][1] \in FreeKinds, NEW y \in C[t[i][2]]
      PROVE  \E j \in 1..(i - 1) : Removes(t[j], y)
  <2>1. i = m + 1
    <3>1. i \in 1..m \/ i = m + 1
      BY <1>1, <1>2
    <3>2. QED
      BY <1>3, <1>4, <3>1
  <2>2. PICK j \in 1..m : Removes(pre[j], y)
    BY <1>3, <1>4, <2>1
  <2>3. j \in 1..(i - 1) /\ t[j] = pre[j]
    BY <1>1, <1>3, <2>1
  <2>4. QED
    BY <2>2, <2>3
<1>5. InnerFirst(t, C)
  BY <1>4 DEF InnerFirst
<1>6. QED
  BY <1>2, <1>3, <1>5 DEF t

\* The first task is done, and its object is nowhere any more.
LEMMA FirstDone ==
    ASSUME NEW T, NEW C, NEW D, NEW s \in Seq(T), s # <<>>, InnerFirst(s, C),
           \A i \in 1..Len(s) : D[s[i][2]] \subseteq C[s[i][2]] \ {s[1][2]}
    PROVE  Tail(s) \in Seq(T) /\ InnerFirst(Tail(s), D)
<1> DEFINE n == Len(s)
           t == Tail(s)
<1>1. n \in Nat /\ n >= 1 /\ t \in Seq(T) /\ Len(t) = n - 1 /\ \A i \in 1..(n - 1) : t[i] = s[i + 1]
  OBVIOUS
<1> HIDE DEF t
<1>2. ASSUME NEW i \in 1..Len(t), t[i][1] \in FreeKinds, NEW y \in D[t[i][2]]
      PROVE  \E j \in 1..(i - 1) : Removes(t[j], y)
  <2>1. i + 1 \in 1..n /\ t[i] = s[i + 1] /\ (i + 1) - 1 = i
    BY <1>1
  <2>2. y \in C[s[i + 1][2]] /\ y # s[1][2]
    BY <1>2, <2>1
  <2>3. PICK j \in 1..i : Removes(s[j], y)
    BY <1>2, <2>1, <2>2 DEF InnerFirst
  <2>4. j # 1
    BY <2>2, <2>3 DEF Removes
  <2>5. j - 1 \in 1..(i - 1) /\ j - 1 \in 1..(n - 1) /\ (j - 1) + 1 = j
    BY <1>1, <2>1, <2>4
  <2>6. t[j - 1] = s[j]
    BY <1>1, <2>5
  <2>7. QED
    BY <2>3, <2>5, <2>6
<1>3. QED
  BY <1>1, <1>2 DEF InnerFirst, t

(***************************************************************************)
(* The phase of a call, by its next task.                                  *)
(***************************************************************************)
LEMMA Phase ==
    ASSUME AgendaOK, agenda # <<>>
    PROVE  /\ agenda[1][1] \in {"erase_operation", "erase_block", "erase_region", "erase_operations"} \cup FreeKinds
                => Erases
           /\ agenda[1][1] \in {"unlink_operation", "append_operation", "unlink_block", "insert_scoped", "insert_block"}
                => Moves
           /\ agenda[1][1] = "replace_uses" => Replaces
           /\ agenda[1][1] = "create_block" => Creates \/ Splits
           /\ agenda[1][1] = "move_tail" => Splits
           /\ agenda[1][1] = "restore_point" => Restores
<1>1. ASSUME Erases
      PROVE  agenda[1][1] \in {"erase_operation", "erase_block", "erase_region", "erase_operations"} \cup FreeKinds
  <2>1. agenda[1] \in EraseTasks
    BY <1>1 DEF Erases
  <2>2. QED
    BY <2>1 DEF EraseTasks, FreeKinds
<1>2. ASSUME Moves
      PROVE  agenda[1][1] \in {"unlink_operation", "append_operation", "unlink_block", "insert_scoped", "insert_block"}
  <2>1. agenda[1] \in MoveTasks
    BY <1>2 DEF Moves
  <2>2. QED
    BY <2>1 DEF MoveTasks
<1>3. Replaces => agenda[1][1] = "replace_uses"
  BY DEF Replaces
<1>4. Creates => agenda[1][1] = "create_block"
  BY DEF Creates
<1>5. Splits => agenda[1][1] \in {"create_block", "move_tail"}
  BY DEF Splits
<1>6. Restores => agenda[1][1] = "restore_point"
  BY DEF Restores
<1>7. QED
  BY <1>1, <1>2, <1>3, <1>4, <1>5, <1>6 DEF AgendaOK, FreeKinds

\* The next task of an erasure.
LEMMA NextErasure ==
    ASSUME Erases, agenda # <<>>
    PROVE  /\ agenda[1] \in EraseTasks /\ Subject \in Object
           /\ agenda[1][1] \in {"erase_operation", "free_operation"} => Subject \in Op
           /\ agenda[1][1] \in {"erase_block", "erase_operations", "free_block"} => Subject \in Block
           /\ agenda[1][1] \in {"erase_region", "free_region"} => Subject \in Region
           /\ agenda[1][1] \in FreeKinds => Children(Subject) = {}
<1>1. agenda \in Seq(EraseTasks) /\ InnerFirst(agenda, Nesting) /\ 1 \in 1..Len(agenda)
  BY DEF Erases
<1>2. agenda[1] \in EraseTasks
  BY <1>1
<1>3. ASSUME agenda[1][1] \in FreeKinds PROVE Children(Subject) = {}
  <2>1. \A y \in Nesting[Subject] : \E j \in 1..(1 - 1) : Removes(agenda[j], y)
    BY <1>1, <1>3 DEF InnerFirst, Subject
  <2>2. Nesting[Subject] = Children(Subject)
    BY <1>2, EraseTaskKinds DEF Nesting, Subject
  <2>3. QED
    BY <2>1, <2>2
<1>4. QED
  BY <1>2, <1>3, EraseTaskKinds DEF Subject

(***************************************************************************)
(* Calls and steps that leave the IR alone.                                *)
(***************************************************************************)
SameIR == UNCHANGED <<live, erased, operands, successors, regions, parent_op, ops, blocks>>

LEMMA SameIRLemma ==
    ASSUME IInv, SameIR
    PROVE  IInv' /\ Nesting' = Nesting
<1>1. IInv'
  BY StutterStep DEF SameIR, irVars
<1>2. Nesting' = Nesting
  BY DEF Nesting, SameIR, Children, Elems
<1>3. QED
  BY <1>1, <1>2

\* A list of tasks that frees nothing itself is in order.
LEMMA ErasureBegins ==
    ASSUME NEW t \in EraseTasks, t[1] \notin FreeKinds, agenda' = <<t>>
    PROVE  AgendaOK'
<1>1. <<t>> \in Seq(EraseTasks) /\ Len(<<t>>) = 1 /\ <<t>>[1] = t
  OBVIOUS
<1>2. \A i \in 1..Len(<<t>>) : <<t>>[i][1] \notin FreeKinds
  BY <1>1
<1>3. InnerFirst(<<t>>, Nesting')
  BY <1>2, NothingFreed
<1>4. QED
  BY <1>1, <1>3 DEF AgendaOK, Erases

LEMMA NothingLeft ==
    ASSUME agenda' = <<>>
    PROVE  AgendaOK'
  BY DEF AgendaOK, Moves

LEMMA PanicStep ==
    ASSUME RwInv, Panic
    PROVE  RwInv' /\ Erases'
<1>1. SameIR /\ agenda' = <<>> /\ op_insertion_point' = op_insertion_point
  BY DEF Panic, SameIR
<1>2. RwInv'
  BY <1>1, SameIRLemma, NothingLeft DEF RwInv
<1>3. Erases'
  BY <1>1 DEF Erases, InnerFirst
<1>4. QED
  BY <1>2, <1>3

LEMMA BeginsWell ==
    ASSUME RwInv, NEW c, NEW tasks, Begin(c, tasks)
    PROVE  IInv' /\ op_insertion_point' \in OpPoint /\ SameIR /\ agenda' = tasks
<1>1. SameIR /\ agenda' = tasks /\ op_insertion_point' = op_insertion_point
  BY DEF Begin, SameIR
<1>2. QED
  BY <1>1, SameIRLemma DEF RwInv

LEMMA CallEraseStep ==
    ASSUME RwInv, CallErase
    PROVE  RwInv'
<1>1. ASSUME NEW o \in live \cap Op, Begin(<<"erase_operation", o>>, <<<<"erase_operation", o>>>>)
      PROVE  RwInv'
  <2>1. <<"erase_operation", o>> \in EraseTasks /\ <<"erase_operation", o>>[1] \notin FreeKinds
    BY DEF EraseTasks, FreeKinds
  <2>2. QED
    BY <1>1, <2>1, BeginsWell, ErasureBegins DEF RwInv
<1>2. ASSUME NEW b \in live \cap Block, Begin(<<"erase_block", b>>, <<<<"erase_block", b>>>>)
      PROVE  RwInv'
  <2>1. <<"erase_block", b>> \in EraseTasks /\ <<"erase_block", b>>[1] \notin FreeKinds
    BY DEF EraseTasks, FreeKinds
  <2>2. QED
    BY <1>2, <2>1, BeginsWell, ErasureBegins DEF RwInv
<1>3. ASSUME NEW r \in live \cap Region, Begin(<<"erase_region", r>>, <<<<"erase_region", r>>>>)
      PROVE  RwInv'
  <2>1. <<"erase_region", r>> \in EraseTasks /\ <<"erase_region", r>>[1] \notin FreeKinds
    BY DEF EraseTasks, FreeKinds
  <2>2. QED
    BY <1>3, <2>1, BeginsWell, ErasureBegins DEF RwInv
<1>4. QED
  BY <1>1, <1>2, <1>3 DEF CallErase

LEMMA CallReplaceStep ==
    ASSUME RwInv, CallReplace
    PROVE  RwInv'
<1>1. ASSUME NEW o \in live \cap Op, NEW v \in live \cap Value,
             Begin(<<"replace_operation", o, v>>, <<<<"replace_uses", o, v>>, <<"erase_operation", o>>>>)
      PROVE  RwInv'
  <2>1. IInv' /\ op_insertion_point' \in OpPoint /\ live' = live
        /\ agenda' = <<<<"replace_uses", o, v>>, <<"erase_operation", o>>>>
    BY <1>1, BeginsWell DEF SameIR
  <2>2. o \in live \cap Value
    BY DEF Value
  <2>3. Replaces'
    BY <2>1, <2>2 DEF Replaces
  <2>4. QED
    BY <2>1, <2>3 DEF RwInv, AgendaOK
<1>2. ASSUME NEW v \in live \cap Value, NEW w \in live \cap Value,
             Begin(<<"replace_value_uses_with", v, w>>, <<<<"replace_uses", v, w>>>>)
      PROVE  RwInv'
  <2>1. IInv' /\ op_insertion_point' \in OpPoint /\ live' = live /\ agenda' = <<<<"replace_uses", v, w>>>>
    BY <1>2, BeginsWell DEF SameIR
  <2>2. Replaces'
    BY <2>1 DEF Replaces
  <2>3. QED
    BY <2>1, <2>2 DEF RwInv, AgendaOK
<1>3. QED
  BY <1>1, <1>2 DEF CallReplace

LEMMA CallMoveStep ==
    ASSUME RwInv, CallMove
    PROVE  RwInv'
<1>1. OpPoints \subseteq OpPoint /\ BlockPoints \subseteq BlockPoint
  BY DEF OpPoints, OpPoint, BlockPoints, BlockPoint
<1>2. \A t \in MoveTasks : <<t>> \in Seq(MoveTasks) /\ \A u \in MoveTasks : <<t, u>> \in Seq(MoveTasks)
  OBVIOUS
<1>3. ASSUME NEW o \in live \cap Op, NEW pt \in OpPoints,
             Begin(<<"move_operation", o, pt>>, <<<<"unlink_operation", o>>, <<"insert_scoped", o, pt>>>>)
      PROVE  RwInv'
  <2>1. <<"unlink_operation", o>> \in MoveTasks /\ <<"insert_scoped", o, pt>> \in MoveTasks
    BY <1>1 DEF MoveTasks
  <2>2. IInv' /\ op_insertion_point' \in OpPoint /\ agenda' = <<<<"unlink_operation", o>>, <<"insert_scoped", o, pt>>>>
    BY <1>3, BeginsWell
  <2>3. Moves'
    BY <1>2, <2>1, <2>2 DEF Moves
  <2>4. QED
    BY <2>2, <2>3 DEF RwInv, AgendaOK
<1>4. ASSUME NEW b \in live \cap Block, NEW pt \in BlockPoints,
             Begin(<<"move_block", b, pt>>, <<<<"unlink_block", b>>, <<"insert_block", b, pt>>>>)
      PROVE  RwInv'
  <2>1. <<"unlink_block", b>> \in MoveTasks /\ <<"insert_block", b, pt>> \in MoveTasks
    BY <1>1 DEF MoveTasks
  <2>2. IInv' /\ op_insertion_point' \in OpPoint /\ agenda' = <<<<"unlink_block", b>>, <<"insert_block", b, pt>>>>
    BY <1>4, BeginsWell
  <2>3. Moves'
    BY <1>2, <2>1, <2>2 DEF Moves
  <2>4. QED
    BY <2>2, <2>3 DEF RwInv, AgendaOK
<1>5. ASSUME NEW o \in live \cap Op, Begin(<<"append_operation", o>>, <<<<"append_operation", o>>>>)
      PROVE  RwInv'
  <2>1. <<"append_operation", o>> \in MoveTasks
    BY DEF MoveTasks
  <2>2. IInv' /\ op_insertion_point' \in OpPoint /\ agenda' = <<<<"append_operation", o>>>>
    BY <1>5, BeginsWell
  <2>3. Moves'
    BY <1>2, <2>1, <2>2 DEF Moves
  <2>4. QED
    BY <2>2, <2>3 DEF RwInv, AgendaOK
<1>6. QED
  BY <1>3, <1>4, <1>5 DEF CallMove

\* The first operation that a split moves is in the block that is split.
LEMMA FirstOpLemma ==
    ASSUME IRTypeOK, NEW pos \in OpPoint, Usable(pos), NEW b \in Block, Container(pos) = b
    PROVE  FirstOp(pos) \subseteq Elems(ops[b]) /\ FirstOp(pos) \subseteq Op
<1>1. pos # Unset /\ (pos[2] \in Op => OpLinked(pos[2]))
  BY DEF Usable
<1>2. ops[b] \in Seq(Op) /\ Elems(ops[b]) \subseteq Op
  BY DEF IRTypeOK, Elems
<1>3. CASE pos[1] \in {"AtBlockStart", "AtBlockEnd"} /\ pos[2] \in Block /\ pos[2] \notin Op
  <2>1. pos[2] = b
    BY <1>3 DEF Container
  <2>2. CASE pos[1] = "AtBlockStart"
    <3>1. FirstOp(pos) = IF ops[b] = <<>> THEN {} ELSE {ops[b][1]}
      BY <2>1, <2>2 DEF FirstOp
    <3>2. ops[b] # <<>> => 1 \in 1..Len(ops[b])
      BY <1>2
    <3>3. QED
      BY <1>2, <3>1, <3>2 DEF Elems
  <2>3. CASE pos[1] = "AtBlockEnd"
    BY <2>3 DEF FirstOp
  <2>4. QED
    BY <1>3, <2>2, <2>3
<1>4. CASE pos[1] \in {"AfterOperation", "BeforeOperation"} /\ pos[2] \in Op
  <2> DEFINE i == IndexIn(ops[b], pos[2])
  <2>1. BlockOf(pos[2]) = b
    BY <1>4 DEF Container
  <2>2. pos[2] \in Elems(ops[b])
    BY <1>1, <1>4, <2>1, BlockOfLemma
  <2>3. i \in 1..Len(ops[b]) /\ ops[b][i] = pos[2]
    BY <2>2, IndexLemma
  <2>4. CASE pos[1] = "BeforeOperation"
    <3>1. FirstOp(pos) = {pos[2]}
      BY <2>4 DEF FirstOp
    <3>2. QED
      BY <1>2, <2>2, <3>1
  <2>5. CASE pos[1] = "AfterOperation"
    <3>1. FirstOp(pos) = IF Last(ops[b]) # pos[2] THEN {ops[b][i + 1]} ELSE {}
      BY <2>1, <2>5 DEF FirstOp
    <3> HIDE DEF i
    <3>2. Last(ops[b]) # pos[2] => i + 1 \in 1..Len(ops[b])
      BY <1>2, <2>3 DEF Last
    <3>3. QED
      BY <1>2, <3>1, <3>2 DEF Elems
  <2>6. QED
    BY <1>4, <2>4, <2>5
<1>5. QED
  BY <1>1, <1>3, <1>4, OpPointKinds

LEMMA CallSplitStep ==
    ASSUME RwInv, CallSplit
    PROVE  RwInv'
<1>1. PICK b \in live \cap Block, n \in Block \ live, pos \in OpPoints :
         /\ Fresh(n) /\ BlockLinked(b) /\ Usable(pos) /\ Container(pos) = b
         /\ Begin(<<"split_block", b, n>>,
                  <<<<"create_block", n, <<"AfterBlock", b>>>>, <<"move_tail", n, FirstOp(pos)>>,
                    <<"restore_point", op_insertion_point>>>>)
  BY DEF CallSplit
<1>2. IInv' /\ op_insertion_point' \in OpPoint /\ SameIR
      /\ agenda' = <<<<"create_block", n, <<"AfterBlock", b>>>>, <<"move_tail", n, FirstOp(pos)>>,
                     <<"restore_point", op_insertion_point>>>>
  BY <1>1, BeginsWell
<1>3. pos \in OpPoint /\ op_insertion_point \in OpPoint /\ IRTypeOK
  BY DEF OpPoints, OpPoint, RwInv, IInv
<1>4. FirstOp(pos) \subseteq Elems(ops[b]) /\ FirstOp(pos) \in SUBSET Op
  BY <1>1, <1>3, FirstOpLemma
<1>5. n # b /\ Fresh(n)' /\ Elems(ops[b])' = Elems(ops[b])
  BY <1>1, <1>2 DEF SameIR, Fresh, Elems
<1>6. Splits'
  <2> DEFINE first == FirstOp(pos)
  <2>1. first \in SUBSET Op /\ first \subseteq Elems(ops'[b])
        /\ agenda' = <<<<"create_block", n, <<"AfterBlock", b>>>>, <<"move_tail", n, first>>,
                     <<"restore_point", op_insertion_point>>>>
    BY <1>2, <1>4, <1>5 DEF Elems
  <2> HIDE DEF first
  <2>2. QED
    BY <1>3, <1>5, <2>1 DEF Splits
<1>7. QED
  BY <1>2, <1>6 DEF RwInv, AgendaOK

LEMMA CallCreateStep ==
    ASSUME RwInv, CallCreate
    PROVE  RwInv'
<1>1. PICK n \in Block \ live, pt \in BlockPoints :
         Fresh(n) /\ Begin(<<"create_block", n, pt>>, <<<<"create_block", n, pt>>>>)
  BY DEF CallCreate
<1>2. IInv' /\ op_insertion_point' \in OpPoint /\ SameIR /\ agenda' = <<<<"create_block", n, pt>>>>
  BY <1>1, BeginsWell
<1>3. pt \in BlockPoint /\ n \in Block \ live' /\ Fresh(n)'
  BY <1>1, <1>2 DEF BlockPoints, BlockPoint, SameIR, Fresh
<1>4. Creates'
  BY <1>2, <1>3 DEF Creates
<1>5. QED
  BY <1>2, <1>4 DEF RwInv, AgendaOK

LEMMA CallInlineStep ==
    ASSUME RwInv, CallInline
    PROVE  RwInv'
<1> DEFINE Task_of(r, pt, k) ==
              LET i == (k + 1) \div 2
              IN  IF k % 2 = 1 THEN <<"unlink_block", blocks[r][i]>>
                  ELSE <<"insert_block", blocks[r][i],
                         IF i = 1 THEN pt ELSE <<"AfterBlock", blocks[r][i - 1]>>>>
<1>1. PICK r \in live \cap Region, pt \in BlockPoints :
         Begin(<<"inline_region", r, pt>>, [k \in 1..(2 * Len(blocks[r])) |-> Task_of(r, pt, k)])
  BY DEF CallInline
<1>2. IInv' /\ op_insertion_point' \in OpPoint
      /\ agenda' = [k \in 1..(2 * Len(blocks[r])) |-> Task_of(r, pt, k)]
  BY <1>1, BeginsWell
<1>3. pt \in BlockPoint /\ blocks[r] \in Seq(Block) /\ 2 * Len(blocks[r]) \in Nat
  BY DEF BlockPoints, BlockPoint, RwInv, IInv, IRTypeOK
<1>4. ASSUME NEW k \in 1..(2 * Len(blocks[r])) PROVE Task_of(r, pt, k) \in MoveTasks
  <2> DEFINE i == (k + 1) \div 2
  <2>1. i \in 1..Len(blocks[r])
    BY <1>3
  <2> HIDE DEF i
  <2>2. blocks[r][i] \in Block /\ (i # 1 => blocks[r][i - 1] \in Block)
    BY <1>3, <2>1
  <2>3. CASE k % 2 = 1
    <3>1. Task_of(r, pt, k) = <<"unlink_block", blocks[r][i]>>
      BY <2>3 DEF i
    <3>2. QED
      BY <2>2, <3>1 DEF MoveTasks
  <2>4. CASE k % 2 # 1
    <3> DEFINE at == IF i = 1 THEN pt ELSE <<"AfterBlock", blocks[r][i - 1]>>
    <3>1. Task_of(r, pt, k) = <<"insert_block", blocks[r][i], at>>
      BY <2>4 DEF i
    <3>2. at \in BlockPoint
      BY <1>3, <2>2 DEF BlockPoint
    <3> HIDE DEF at, Task_of
    <3>3. QED
      BY <2>2, <3>1, <3>2 DEF MoveTasks
  <2>5. QED
    BY <2>3, <2>4
<1> HIDE DEF Task_of
<1>5. agenda' \in [1..(2 * Len(blocks[r])) -> MoveTasks]
  BY <1>2, <1>4
<1>6. Moves'
  BY <1>3, <1>5, FunctionIsSeq DEF Moves
<1>7. QED
  BY <1>2, <1>6 DEF RwInv, AgendaOK

(***************************************************************************)
(* The steps of an erasure.                                                *)
(***************************************************************************)
LEMMA ExpandStep ==
    ASSUME RwInv, Erases, agenda # <<>>, NEW new \in Seq(EraseTasks), InnerFirst(new, Nesting),
           \A y : Removes(agenda[1], y) => \E j \in 1..Len(new) : Removes(new[j], y),
           Expand(new)
    PROVE  RwInv' /\ Erases'
<1>1. SameIR /\ agenda' = new \o Tail(agenda) /\ op_insertion_point' = op_insertion_point
  BY DEF Expand, SameIR
<1>2. IInv' /\ Nesting' = Nesting
  BY <1>1, SameIRLemma DEF RwInv
<1>3. agenda' \in Seq(EraseTasks) /\ InnerFirst(agenda', Nesting)
  BY <1>1, InsteadOfFirst DEF Erases
<1>4. Erases'
  BY <1>2, <1>3 DEF Erases
<1>5. QED
  BY <1>1, <1>2, <1>4 DEF RwInv, AgendaOK

\* The erasure of an object becomes that of its children, and then its own.
LEMMA ExpandFreeStep ==
    ASSUME RwInv, Erases, agenda # <<>>, NEW pre \in Seq(EraseTasks),
           \A i \in 1..Len(pre) : pre[i][1] \notin FreeKinds,
           NEW kind, <<kind, Subject>> \in EraseTasks, kind # "erase_operations",
           \A y \in Children(Subject) : \E j \in 1..Len(pre) : Removes(pre[j], y),
           Expand(pre \o <<<<kind, Subject>>>>)
    PROVE  RwInv' /\ Erases'
<1> DEFINE free == <<kind, Subject>>
           new == pre \o <<free>>
<1>1. free[2] = Subject /\ Nesting[Subject] = Children(Subject) /\ free[1] = kind
  BY NextErasure DEF Nesting
<1>2. \A y \in Nesting[free[2]] : \E j \in 1..Len(pre) : Removes(pre[j], y)
  BY <1>1
<1>3. free \in EraseTasks /\ Expand(new)
  OBVIOUS
<1> HIDE DEF free
<1>4. /\ new \in Seq(EraseTasks) /\ InnerFirst(new, Nesting)
      /\ Len(pre) + 1 \in 1..Len(new) /\ new[Len(pre) + 1] = free
  <2>1. pre \in Seq(EraseTasks) /\ \A i \in 1..Len(pre) : pre[i][1] \notin FreeKinds
    OBVIOUS
  <2>2. free \in EraseTasks /\ \A y \in Nesting[free[2]] : \E j \in 1..Len(pre) : Removes(pre[j], y)
    BY <1>2, <1>3
  <2>3. new \in Seq(EraseTasks)
    BY <2>1, <2>2, FreedLast
  <2>4. InnerFirst(new, Nesting)
    BY <2>1, <2>2, FreedLast
  <2>5. Len(pre) + 1 \in 1..Len(new)
    BY <2>1, <2>2, FreedLast
  <2>6. new[Len(pre) + 1] = free
    BY <2>1, <2>2, FreedLast
  <2>7. QED
    BY <2>3, <2>4, <2>5, <2>6
<1> HIDE DEF new
<1>5. ASSUME NEW y, Removes(agenda[1], y) PROVE \E j \in 1..Len(new) : Removes(new[j], y)
  <2>1. Removes(new[Len(pre) + 1], y)
    BY <1>1, <1>4, <1>5 DEF Removes, Subject
  <2>2. QED
    BY <1>4, <2>1
<1>6. QED
  BY <1>3, <1>4, <1>5, ExpandStep

\* Tasks for the elements of a list, backwards.
LEMMA EachBackwards ==
    ASSUME NEW E, NEW s \in Seq(E), NEW kind, {kind} \X E \subseteq EraseTasks, kind \notin FreeKinds,
           kind # "erase_operations"
    PROVE  /\ Each(kind, Reverse(s)) \in Seq(EraseTasks)
           /\ \A i \in 1..Len(Each(kind, Reverse(s))) : Each(kind, Reverse(s))[i][1] \notin FreeKinds
           /\ \A y \in Elems(s) : \E j \in 1..Len(Each(kind, Reverse(s))) : Removes(Each(kind, Reverse(s))[j], y)
<1> DEFINE r == Reverse(s)
           t == Each(kind, r)
<1>1. r \in Seq(E) /\ ToSet(r) = ToSet(s)
  BY ReversedElements
<1>2. Elems(r) = Elems(s)
  BY <1>1, ElemsToSet
<1> HIDE DEF r
<1>3. t \in Seq({kind} \X E) /\ Len(t) = Len(r) /\ \A i \in 1..Len(r) : t[i] = <<kind, r[i]>>
  BY <1>1, EachLemma
<1> HIDE DEF t
<1>4. t \in Seq(EraseTasks)
  BY <1>3
<1>5. ASSUME NEW y \in Elems(s) PROVE \E j \in 1..Len(t) : Removes(t[j], y)
  <2>1. PICK j \in 1..Len(r) : r[j] = y
    BY <1>2 DEF Elems
  <2>2. j \in 1..Len(t) /\ t[j] = <<kind, y>>
    BY <1>3, <2>1
  <2>3. QED
    BY <2>2 DEF Removes
<1>6. \A i \in 1..Len(t) : t[i][1] \notin FreeKinds
  BY <1>3
<1>7. t \in Seq(EraseTasks) /\ (\A i \in 1..Len(t) : t[i][1] \notin FreeKinds)
      /\ \A y \in Elems(s) : \E j \in 1..Len(t) : Removes(t[j], y)
  BY <1>4, <1>5, <1>6
<1>8. QED
  BY <1>7 DEF t, r

LEMMA EraseOperationTask ==
    ASSUME RwInv, EraseOperation
    PROVE  RwInv' /\ Erases'
<1>1. agenda # <<>> /\ agenda[1][1] = "erase_operation"
      /\ Expand(Each("erase_region", Reverse(regions[Subject])) \o <<<<"free_operation", Subject>>>>)
  BY DEF EraseOperation, Task
<1>2. Erases
  BY <1>1, Phase DEF RwInv
<1>3. Subject \in Op
  BY <1>1, <1>2, NextErasure
<1>4. regions[Subject] \in Seq(Region) /\ Children(Subject) = Elems(regions[Subject])
  BY <1>3, ChildrenType DEF RwInv, IInv, IRTypeOK, ChildrenOK
<1>5. {"erase_region"} \X Region \subseteq EraseTasks /\ "erase_region" \notin FreeKinds
      /\ <<"free_operation", Subject>> \in EraseTasks
  BY <1>3 DEF EraseTasks, FreeKinds
<1> DEFINE pre == Each("erase_region", Reverse(regions[Subject]))
<1>6. /\ pre \in Seq(EraseTasks) /\ \A i \in 1..Len(pre) : pre[i][1] \notin FreeKinds
      /\ \A y \in Children(Subject) : \E j \in 1..Len(pre) : Removes(pre[j], y)
  <2>1. /\ pre \in Seq(EraseTasks) /\ \A i \in 1..Len(pre) : pre[i][1] \notin FreeKinds
        /\ \A y \in Elems(regions[Subject]) : \E j \in 1..Len(pre) : Removes(pre[j], y)
    BY <1>4, <1>5, EachBackwards
  <2>2. QED
    BY <1>4, <2>1
<1>7. Expand(pre \o <<<<"free_operation", Subject>>>>)
  BY <1>1
<1> HIDE DEF pre
<1>8. QED
  BY <1>1, <1>2, <1>5, <1>6, <1>7, ExpandFreeStep

LEMMA EraseBlockTask ==
    ASSUME RwInv, EraseBlock
    PROVE  RwInv' /\ Erases'
<1>1. agenda # <<>> /\ agenda[1][1] = "erase_block"
      /\ Expand(Each("erase_operation", Reverse(ops[Subject])) \o <<<<"free_block", Subject>>>>)
  BY DEF EraseBlock, Task
<1>2. Erases
  BY <1>1, Phase DEF RwInv
<1>3. Subject \in Block
  BY <1>1, <1>2, NextErasure
<1>4. ops[Subject] \in Seq(Op) /\ Children(Subject) = Elems(ops[Subject])
  BY <1>3, ChildrenType DEF RwInv, IInv, IRTypeOK, ChildrenOK
<1>5. {"erase_operation"} \X Op \subseteq EraseTasks /\ "erase_operation" \notin FreeKinds
      /\ <<"free_block", Subject>> \in EraseTasks
  BY <1>3 DEF EraseTasks, FreeKinds
<1> DEFINE pre == Each("erase_operation", Reverse(ops[Subject]))
<1>6. /\ pre \in Seq(EraseTasks) /\ \A i \in 1..Len(pre) : pre[i][1] \notin FreeKinds
      /\ \A y \in Children(Subject) : \E j \in 1..Len(pre) : Removes(pre[j], y)
  <2>1. /\ pre \in Seq(EraseTasks) /\ \A i \in 1..Len(pre) : pre[i][1] \notin FreeKinds
        /\ \A y \in Elems(ops[Subject]) : \E j \in 1..Len(pre) : Removes(pre[j], y)
    BY <1>4, <1>5, EachBackwards
  <2>2. QED
    BY <1>4, <2>1
<1>7. Expand(pre \o <<<<"free_block", Subject>>>>)
  BY <1>1
<1> HIDE DEF pre
<1>8. QED
  BY <1>1, <1>2, <1>5, <1>6, <1>7, ExpandFreeStep

LEMMA EraseOperationsTask ==
    ASSUME RwInv, EraseOperations
    PROVE  RwInv' /\ Erases'
<1> DEFINE new == Each("erase_operation", Reverse(ops[Subject]))
<1>1. agenda # <<>> /\ agenda[1][1] = "erase_operations" /\ Expand(new)
  BY DEF EraseOperations, Task
<1>2. Erases
  BY <1>1, Phase DEF RwInv
<1>3. Subject \in Block
  BY <1>1, <1>2, NextErasure
<1>4. ops[Subject] \in Seq(Op)
  BY <1>3 DEF RwInv, IInv, IRTypeOK
<1>5. {"erase_operation"} \X Op \subseteq EraseTasks /\ "erase_operation" \notin FreeKinds
  BY DEF EraseTasks, FreeKinds
<1>6. new \in Seq(EraseTasks) /\ \A i \in 1..Len(new) : new[i][1] \notin FreeKinds
  BY <1>4, <1>5, EachBackwards
<1> HIDE DEF new
<1>7. InnerFirst(new, Nesting)
  BY <1>6, NothingFreed
<1>8. \A y : Removes(agenda[1], y) => \E j \in 1..Len(new) : Removes(new[j], y)
  BY <1>1 DEF Removes
<1>9. QED
  BY <1>1, <1>2, <1>6, <1>7, <1>8, ExpandStep

LEMMA EraseRegionTask ==
    ASSUME RwInv, EraseRegion
    PROVE  RwInv' /\ Erases'
<1> DEFINE po == post_order(Subject)
           first == Each("erase_operations", Reverse(po))
           rest == Each("erase_block", po)
           pre == first \o rest
<1>1. agenda # <<>> /\ agenda[1][1] = "erase_region" /\ Expand(pre \o <<<<"free_region", Subject>>>>)
  BY DEF EraseRegion, Task
<1>2. Erases
  BY <1>1, Phase DEF RwInv
<1>3. Subject \in Region
  BY <1>1, <1>2, NextErasure
<1>4. po \in Seq(Block) /\ Elems(blocks[Subject]) \subseteq Elems(po) /\ Children(Subject) = Elems(blocks[Subject])
  BY <1>3, PostOrderLemma, ChildrenType DEF RwInv, IInv, ChildrenOK
<1> HIDE DEF po
<1>5. {"erase_operations"} \X Block \subseteq EraseTasks /\ {"erase_block"} \X Block \subseteq EraseTasks
      /\ <<"free_region", Subject>> \in EraseTasks
  BY <1>3 DEF EraseTasks
<1>6. /\ first \in Seq({"erase_operations"} \X Block) /\ \A i \in 1..Len(first) : first[i][1] = "erase_operations"
  <2>1. Reverse(po) \in Seq(Block)
    BY <1>4, ReversedElements
  <2>2. /\ first \in Seq({"erase_operations"} \X Block) /\ Len(first) = Len(Reverse(po))
        /\ \A i \in 1..Len(Reverse(po)) : first[i] = <<"erase_operations", Reverse(po)[i]>>
    BY <2>1, EachLemma
  <2> HIDE DEF first
  <2>3. QED
    BY <2>2
<1>7. /\ rest \in Seq({"erase_block"} \X Block) /\ Len(rest) = Len(po)
      /\ \A i \in 1..Len(po) : rest[i] = <<"erase_block", po[i]>>
  BY <1>4, EachLemma
<1> HIDE DEF first, rest
<1>8. first \in Seq(EraseTasks) /\ rest \in Seq(EraseTasks)
  BY <1>5, <1>6, <1>7
<1>9. /\ pre \in Seq(EraseTasks) /\ Len(pre) = Len(first) + Len(rest)
      /\ \A i \in 1..(Len(first) + Len(rest)) : pre[i] = IF i <= Len(first) THEN first[i] ELSE rest[i - Len(first)]
  BY <1>8, ConcatProperties
<1> HIDE DEF pre
<1>10. \A j \in 1..Len(rest) : j + Len(first) \in 1..Len(pre) /\ pre[j + Len(first)] = rest[j]
  <2>1. Len(first) \in Nat /\ Len(rest) \in Nat
    BY <1>8
  <2>2. ASSUME NEW j \in 1..Len(rest)
        PROVE  /\ j + Len(first) \in 1..(Len(first) + Len(rest)) /\ ~ (j + Len(first) <= Len(first))
               /\ (j + Len(first)) - Len(first) = j
    BY <2>1
  <2>3. QED
    BY <1>9, <2>2
<1>11. \A i \in 1..Len(pre) : pre[i][1] \in {"erase_operations", "erase_block"}
  <2> SUFFICES ASSUME NEW i \in 1..Len(pre) PROVE pre[i][1] \in {"erase_operations", "erase_block"}
    OBVIOUS
  <2>1. CASE i <= Len(first)
    BY <1>6, <1>8, <1>9, <2>1
  <2>2. CASE ~ (i <= Len(first))
    <3>1. i - Len(first) \in 1..Len(rest) /\ pre[i] = rest[i - Len(first)]
      BY <1>8, <1>9, <2>2
    <3>2. QED
      BY <1>7, <3>1
  <2>3. QED
    BY <2>1, <2>2
<1>12. \A i \in 1..Len(pre) : pre[i][1] \notin FreeKinds
  BY <1>11 DEF FreeKinds
<1>13. ASSUME NEW y \in Children(Subject) PROVE \E j \in 1..Len(pre) : Removes(pre[j], y)
  <2>1. PICK i \in 1..Len(po) : po[i] = y
    BY <1>4 DEF Elems
  <2>2. i + Len(first) \in 1..Len(pre) /\ pre[i + Len(first)] = <<"erase_block", y>>
    BY <1>7, <1>10, <2>1
  <2>3. QED
    BY <2>2 DEF Removes
<1>14. QED
  BY <1>1, <1>2, <1>5, <1>9, <1>12, <1>13, ExpandFreeStep

\* What was freed leaves the agenda.
LEMMA FreedStep ==
    ASSUME RwInv, Erases, agenda # <<>>, agenda' = Tail(agenda), op_insertion_point' = op_insertion_point, IInv',
           \A z \in Object : Children(z)' \subseteq Children(z) \ {Subject}
    PROVE  RwInv' /\ Erases'
<1>1. agenda \in Seq(EraseTasks) /\ InnerFirst(agenda, Nesting)
  BY DEF Erases
<1>2. ASSUME NEW i \in 1..Len(agenda) PROVE (Nesting')[agenda[i][2]] \subseteq Nesting[agenda[i][2]] \ {agenda[1][2]}
  <2>1. agenda[i][2] \in Object
    BY <1>1, EraseTaskKinds
  <2>2. \A x \in Object : (Nesting')[x] = Children(x)' /\ Nesting[x] = Children(x)
    BY DEF Nesting
  <2>3. \A x \in Object : (Nesting')[x] \subseteq Nesting[x] \ {agenda[1][2]}
    BY <2>2 DEF Subject
  <2>4. QED
    BY <2>1, <2>3
<1>3. Tail(agenda) \in Seq(EraseTasks) /\ InnerFirst(Tail(agenda), Nesting')
  BY <1>1, <1>2, FirstDone
<1>4. Erases'
  BY <1>3 DEF Erases
<1>5. QED
  BY <1>4 DEF RwInv, AgendaOK

LEMMA FreeOperationTask ==
    ASSUME RwInv, FreeOperation
    PROVE  RwInv' /\ Erases'
<1>1. agenda # <<>> /\ agenda[1][1] = "free_operation"
  BY DEF FreeOperation, Task
<1>2. CASE UsersOf({Subject}, Contained(Subject)) # {}
  <2>1. Panic
    BY <1>2 DEF FreeOperation
  <2>2. QED
    BY <2>1, PanicStep
<1>3. CASE UsersOf({Subject}, Contained(Subject)) = {}
  <2>1. Operation_erase(Subject) /\ agenda' = Tail(agenda) /\ op_insertion_point' = op_insertion_point
    BY <1>3 DEF FreeOperation, Done
  <2>2. Erases
    BY <1>1, Phase DEF RwInv, FreeKinds
  <2>3. Subject \in Op /\ Subject \in Object /\ Children(Subject) = {}
    BY <1>1, <2>2, NextErasure DEF FreeKinds
  <2>4. drop_uses(Contained(Subject)) /\ dealloc(Contained(Subject))
    BY <2>1 DEF Operation_erase
  <2>5. Contained(Subject) = {Subject}
    BY <2>3, AloneLemma DEF RwInv, IInv
  <2>6. ASSUME NEW q \in (live \cap Op) \ {Subject} PROVE Subject \notin Elems(operands[q]) \cup Elems(successors[q])
    <3>1. Elems(operands[q]) \cap {Subject} = {}
      BY <1>3, <2>5 DEF UsersOf
    <3>2. Elems(successors[q]) \subseteq Block
      BY DEF RwInv, IInv, IRTypeOK, Elems
    <3>3. QED
      BY <2>3, <3>1, <3>2, IRAssumption
  <2>7. IInv' /\ \A z \in Object : Children(z)' \subseteq Children(z) \ {Subject}
    BY <2>3, <2>4, <2>6, FreeStep DEF RwInv
  <2>8. QED
    BY <1>1, <2>1, <2>2, <2>7, FreedStep
<1>4. QED
  BY <1>2, <1>3

LEMMA FreeBlockTask ==
    ASSUME RwInv, FreeBlock
    PROVE  RwInv' /\ Erases'
<1> DEFINE D == Contained(Subject)
           free == BranchesTo({Subject}, D) = {} /\ UsersOf({Subject} \cup Elems(ops[Subject]), D) = {}
<1>1. agenda # <<>> /\ agenda[1][1] = "free_block"
  BY DEF FreeBlock, Task
<1>2. CASE ~ free
  <2>1. Panic
    BY <1>2 DEF FreeBlock
  <2>2. QED
    BY <2>1, PanicStep
<1>3. CASE free
  <2>1. BasicBlock_erase(Subject) /\ agenda' = Tail(agenda) /\ op_insertion_point' = op_insertion_point
    BY <1>3 DEF FreeBlock, Done
  <2>2. Erases
    BY <1>1, Phase DEF RwInv, FreeKinds
  <2>3. Subject \in Block /\ Subject \in Object /\ Children(Subject) = {}
    BY <1>1, <2>2, NextErasure DEF FreeKinds
  <2>4. drop_uses(D) /\ dealloc(D)
    BY <2>1 DEF BasicBlock_erase
  <2>5. D = {Subject}
    BY <2>3, AloneLemma DEF RwInv, IInv
  <2>6. ASSUME NEW q \in (live \cap Op) \ {Subject} PROVE Subject \notin Elems(operands[q]) \cup Elems(successors[q])
    <3>1. Elems(operands[q]) \cap ({Subject} \cup Elems(ops[Subject])) = {}
      BY <1>3, <2>5 DEF UsersOf
    <3>2. Elems(successors[q]) \cap {Subject} = {}
      BY <1>3, <2>5 DEF BranchesTo
    <3>3. QED
      BY <3>1, <3>2
  <2>7. IInv' /\ \A z \in Object : Children(z)' \subseteq Children(z) \ {Subject}
    BY <2>3, <2>4, <2>6, FreeStep DEF RwInv
  <2>8. QED
    BY <1>1, <2>1, <2>2, <2>7, FreedStep
<1>4. QED
  BY <1>2, <1>3

LEMMA FreeRegionTask ==
    ASSUME RwInv, FreeRegion
    PROVE  RwInv' /\ Erases'
<1>1. agenda # <<>> /\ agenda[1][1] = "free_region" /\ Subject \in live
      /\ agenda' = Tail(agenda) /\ op_insertion_point' = op_insertion_point
  BY DEF FreeRegion, Task, Done
<1>2. PICK p \in parent_op[Subject] : erase_region(p, IndexIn(regions[p], Subject))
  BY DEF FreeRegion
<1>3. Erases
  BY <1>1, Phase DEF RwInv, FreeKinds
<1>4. Subject \in Region /\ Subject \in Object /\ Children(Subject) = {}
  BY <1>1, <1>3, NextErasure DEF FreeKinds
<1>5. PICK o \in live \cap Op : parent_op[Subject] = {o} /\ Subject \in Elems(regions[o])
  BY <1>1, <1>4 DEF RwInv, IInv, RegionsOwned
<1>6. p = o /\ regions[p][IndexIn(regions[p], Subject)] = Subject
  BY <1>2, <1>5, IndexLemma
<1>7. drop_uses(Contained(Subject)) /\ dealloc(Contained(Subject))
  BY <1>2, <1>6 DEF erase_region
<1>8. ASSUME NEW q \in (live \cap Op) \ {Subject} PROVE Subject \notin Elems(operands[q]) \cup Elems(successors[q])
  <2>1. Elems(operands[q]) \subseteq Value /\ Elems(successors[q]) \subseteq Block
    BY DEF RwInv, IInv, IRTypeOK, Elems
  <2>2. QED
    BY <1>4, <2>1, IRAssumption DEF Value
<1>9. IInv' /\ \A z \in Object : Children(z)' \subseteq Children(z) \ {Subject}
  BY <1>4, <1>7, <1>8, FreeStep DEF RwInv
<1>10. QED
  BY <1>1, <1>3, <1>9, FreedStep

(***************************************************************************)
(* The other steps.                                                        *)
(***************************************************************************)
LEMMA ReplaceUsesTask ==
    ASSUME RwInv, ReplaceUses
    PROVE  RwInv'
<1>1. /\ agenda # <<>> /\ agenda[1][1] = "replace_uses" /\ agenda' = Tail(agenda)
      /\ operands' = [o \in Op |-> [i \in 1..Len(operands[o]) |->
                        IF operands[o][i] = Subject THEN Point ELSE operands[o][i]]]
      /\ UNCHANGED <<live, erased, successors, regions, parent_op, ops, blocks, op_insertion_point>>
  BY DEF ReplaceUses, Task, Done
<1>2. PICK v \in live \cap Value, w \in live \cap Value :
         \/ agenda = <<<<"replace_uses", v, w>>>>
         \/ v \in Op /\ agenda = <<<<"replace_uses", v, w>>, <<"erase_operation", v>>>>
  BY <1>1, Phase DEF RwInv, Replaces
<1>3. Subject = v /\ Point = w
  BY <1>2 DEF Subject, Point
<1>4. IInv'
  BY <1>1, <1>3, ReplaceUsesStep DEF RwInv
<1>5. CASE agenda = <<<<"replace_uses", v, w>>>>
  <2>1. agenda' = <<>>
    BY <1>1, <1>5
  <2>2. QED
    BY <1>1, <1>4, <2>1, NothingLeft DEF RwInv
<1>6. CASE v \in Op /\ agenda = <<<<"replace_uses", v, w>>, <<"erase_operation", v>>>>
  <2>1. agenda' = <<<<"erase_operation", v>>>>
    BY <1>1, <1>6
  <2>2. <<"erase_operation", v>> \in EraseTasks /\ <<"erase_operation", v>>[1] \notin FreeKinds
    BY <1>6 DEF EraseTasks, FreeKinds
  <2>3. QED
    BY <1>1, <1>4, <2>1, <2>2, ErasureBegins DEF RwInv
<1>7. QED
  BY <1>2, <1>5, <1>6

\* The next task of a move.
LEMMA NextMove ==
    ASSUME Moves, agenda # <<>>
    PROVE  /\ agenda[1][1] \in {"unlink_operation", "append_operation", "insert_scoped"} => Subject \in Op
           /\ agenda[1][1] \in {"unlink_block", "insert_block"} => Subject \in Block
           /\ agenda[1][1] = "insert_scoped" => Point \in OpPoint
           /\ agenda[1][1] = "insert_block" => Point \in BlockPoint
<1>1. agenda[1] \in MoveTasks
  BY DEF Moves
<1>2. QED
  BY <1>1 DEF MoveTasks, Subject, Point

LEMMA MovedStep ==
    ASSUME Moves, agenda # <<>>, agenda' = Tail(agenda)
    PROVE  AgendaOK'
<1>1. Tail(agenda) \in Seq(MoveTasks)
  BY DEF Moves
<1>2. QED
  BY <1>1 DEF AgendaOK, Moves

LEMMA UnlinkOperationTask ==
    ASSUME RwInv, UnlinkOperation
    PROVE  RwInv'
<1>1. agenda # <<>> /\ agenda[1][1] = "unlink_operation"
  BY DEF UnlinkOperation, Task
<1>2. Moves
  BY <1>1, Phase DEF RwInv
<1>3. CASE ~ OpLinked(Subject)
  BY <1>3, PanicStep DEF UnlinkOperation
<1>4. CASE OpLinked(Subject)
  <2>1. unlink_op(Subject) /\ agenda' = Tail(agenda) /\ op_insertion_point' = op_insertion_point
    BY <1>4 DEF UnlinkOperation, Done
  <2>2. IInv'
    BY <1>1, <1>2, <2>1, NextMove, UnlinkOpStep DEF RwInv
  <2>3. QED
    BY <1>1, <1>2, <2>1, <2>2, MovedStep DEF RwInv
<1>5. QED
  BY <1>3, <1>4

LEMMA UnlinkBlockTask ==
    ASSUME RwInv, UnlinkBlock
    PROVE  RwInv'
<1>1. agenda # <<>> /\ agenda[1][1] = "unlink_block"
  BY DEF UnlinkBlock, Task
<1>2. Moves
  BY <1>1, Phase DEF RwInv
<1>3. CASE ~ BlockLinked(Subject)
  BY <1>3, PanicStep DEF UnlinkBlock
<1>4. CASE BlockLinked(Subject)
  <2>1. unlink_block(Subject) /\ agenda' = Tail(agenda) /\ op_insertion_point' = op_insertion_point
    BY <1>4 DEF UnlinkBlock, Done
  <2>2. IInv'
    BY <1>1, <1>2, <2>1, NextMove, UnlinkBlockStep DEF RwInv
  <2>3. QED
    BY <1>1, <1>2, <2>1, <2>2, MovedStep DEF RwInv
<1>5. QED
  BY <1>3, <1>4

LEMMA InsertScopedTask ==
    ASSUME RwInv, InsertScoped
    PROVE  RwInv'
<1>1. agenda # <<>> /\ agenda[1][1] = "insert_scoped"
  BY DEF InsertScoped, Task
<1>2. Moves
  BY <1>1, Phase DEF RwInv
<1>3. CASE ~ (Usable(Point) /\ ~ OpLinked(Subject))
  BY <1>3, PanicStep DEF InsertScoped
<1>4. CASE Usable(Point) /\ ~ OpLinked(Subject)
  <2> DEFINE b == Container(Point)
  <2>1. insert_op(Subject, b, Place(Point, ops[b])) /\ agenda' = Tail(agenda)
        /\ op_insertion_point' = op_insertion_point
    BY <1>4 DEF InsertScoped, Done
  <2>2. Subject \in Op /\ Point \in OpPoint
    BY <1>1, <1>2, NextMove
  <2>3. b \in Block /\ Place(Point, ops[b]) \in 1..(Len(ops[b]) + 1)
    BY <1>4, <2>2, OpPlace DEF RwInv, IInv
  <2> HIDE DEF b
  <2>4. IInv'
    BY <2>1, <2>2, <2>3, InsertOpStep DEF RwInv
  <2>5. QED
    BY <1>1, <1>2, <2>1, <2>4, MovedStep DEF RwInv
<1>5. QED
  BY <1>3, <1>4

LEMMA AppendOperationTask ==
    ASSUME RwInv, AppendOperation
    PROVE  RwInv'
<1>1. agenda # <<>> /\ agenda[1][1] = "append_operation"
  BY DEF AppendOperation, Task
<1>2. Moves
  BY <1>1, Phase DEF RwInv
<1>3. CASE ~ (Usable(op_insertion_point) /\ ~ OpLinked(Subject))
  BY <1>3, PanicStep DEF AppendOperation
<1>4. CASE Usable(op_insertion_point) /\ ~ OpLinked(Subject)
  <2> DEFINE b == Container(op_insertion_point)
  <2>1. insert_op(Subject, b, Place(op_insertion_point, ops[b])) /\ agenda' = Tail(agenda)
        /\ op_insertion_point' = <<"AfterOperation", Subject>>
    BY <1>4 DEF AppendOperation, Done
  <2>2. Subject \in Op /\ op_insertion_point \in OpPoint
    BY <1>1, <1>2, NextMove DEF RwInv
  <2>3. b \in Block /\ Place(op_insertion_point, ops[b]) \in 1..(Len(ops[b]) + 1)
    BY <1>4, <2>2, OpPlace DEF RwInv, IInv
  <2> HIDE DEF b
  <2>4. IInv'
    BY <2>1, <2>2, <2>3, InsertOpStep DEF RwInv
  <2>5. op_insertion_point' \in OpPoint
    BY <2>1, <2>2 DEF OpPoint
  <2>6. QED
    BY <1>1, <1>2, <2>1, <2>4, <2>5, MovedStep DEF RwInv
<1>5. QED
  BY <1>3, <1>4

LEMMA InsertBlockTask ==
    ASSUME RwInv, InsertBlock
    PROVE  RwInv'
<1>1. agenda # <<>> /\ agenda[1][1] = "insert_block"
  BY DEF InsertBlock, Task
<1>2. Moves
  BY <1>1, Phase DEF RwInv
<1>3. CASE ~ (Usable(Point) /\ ~ BlockLinked(Subject))
  BY <1>3, PanicStep DEF InsertBlock
<1>4. CASE Usable(Point) /\ ~ BlockLinked(Subject)
  <2> DEFINE r == Container(Point)
  <2>1. insert_block(Subject, r, Place(Point, blocks[r])) /\ agenda' = Tail(agenda)
        /\ op_insertion_point' = op_insertion_point
    BY <1>4 DEF InsertBlock, Done
  <2>2. Subject \in Block /\ Point \in BlockPoint
    BY <1>1, <1>2, NextMove
  <2>3. r \in Region /\ Place(Point, blocks[r]) \in 1..(Len(blocks[r]) + 1)
    BY <1>4, <2>2, BlockPlace DEF RwInv
  <2> HIDE DEF r
  <2>4. IInv'
    BY <2>1, <2>2, <2>3, InsertBlockStep DEF RwInv
  <2>5. QED
    BY <1>1, <1>2, <2>1, <2>4, MovedStep DEF RwInv
<1>5. QED
  BY <1>3, <1>4

LEMMA CreateBlockTask ==
    ASSUME RwInv, CreateBlock
    PROVE  RwInv'
<1>1. agenda # <<>> /\ agenda[1][1] = "create_block"
  BY DEF CreateBlock, Task
<1>2. Creates \/ Splits
  BY <1>1, Phase DEF RwInv
<1>3. CASE ~ Usable(Point)
  BY <1>3, PanicStep DEF CreateBlock
<1>4. CASE Usable(Point)
  <2> DEFINE r == Container(Point)
             i == Place(Point, blocks[r])
  <2>1. /\ live' = live \cup {Subject} /\ blocks' = [blocks EXCEPT ![r] = InsertAt(@, Place(Point, @), Subject)]
        /\ op_insertion_point' = <<"AtBlockEnd", Subject>> /\ agenda' = Tail(agenda)
        /\ UNCHANGED <<erased, operands, successors, regions, parent_op, ops>>
    BY <1>4 DEF CreateBlock, Done
  <2>2. Subject \in Block /\ Fresh(Subject) /\ Point \in BlockPoint
    <3>1. CASE Creates
      BY <3>1 DEF Creates, Subject, Point
    <3>2. CASE Splits
      <4>1. PICK n \in Block, b \in Block : /\ Fresh(n) /\ agenda[1] = <<"create_block", n, <<"AfterBlock", b>>>>
        BY <1>1, <3>2 DEF Splits
      <4>2. QED
        BY <4>1 DEF Subject, Point, BlockPoint
    <3>3. QED
      BY <1>2, <3>1, <3>2
  <2>3. r \in Region \cap live /\ i \in 1..(Len(blocks[r]) + 1)
    BY <1>4, <2>2, BlockPlace DEF RwInv
  <2>4. blocks' = [blocks EXCEPT ![r] = InsertAt(@, i, Subject)]
    BY <2>1
  <2> HIDE DEF r, i
  <2>5. IInv' /\ Elems(blocks'[r]) = Elems(blocks[r]) \cup {Subject}
    BY <2>1, <2>2, <2>3, <2>4, CreateBlockStep DEF RwInv, Fresh
  <2>6. op_insertion_point' \in OpPoint
    BY <2>1, <2>2 DEF OpPoint
  <2>7. CASE Creates
    <3>1. agenda' = <<>>
      BY <2>1, <2>7 DEF Creates
    <3>2. QED
      BY <2>5, <2>6, <3>1, NothingLeft DEF RwInv
  <2>8. CASE Splits
    <3>1. PICK n \in Block, b \in Block, first \in SUBSET Op, pt \in OpPoint :
             /\ n # b /\ first \subseteq Elems(ops[b])
             /\ agenda = <<<<"create_block", n, <<"AfterBlock", b>>>>, <<"move_tail", n, first>>, <<"restore_point", pt>>>>
      BY <1>1, <2>8 DEF Splits
    <3>2. Subject = n /\ Point = <<"AfterBlock", b>>
      BY <3>1 DEF Subject, Point
    <3>3. BlockLinked(b) /\ r = RegionOf(b)
      BY <1>4, <3>2, IRAssumption DEF Usable, Container, r
    <3>4. b \in Elems(blocks[r])
      BY <3>3, RegionOfLemma
    <3>5. {n, b} \subseteq Elems(blocks'[r])
      BY <2>5, <3>2, <3>4
    <3>6. agenda' = <<<<"move_tail", n, first>>, <<"restore_point", pt>>>>
      BY <2>1, <3>1
    <3>7. first \subseteq Elems(ops'[b])
      BY <2>1, <3>1
    <3>8. Splits'
      BY <2>3, <3>1, <3>5, <3>6, <3>7 DEF Splits
    <3>9. QED
      BY <2>5, <2>6, <3>8 DEF RwInv, AgendaOK
  <2>9. QED
    BY <1>2, <2>7, <2>8
<1>5. QED
  BY <1>3, <1>4

LEMMA TwoTasks ==
    ASSUME NEW x, NEW y
    PROVE  <<x>> \o <<y>> = <<x, y>>
<1>1. <<x>> \in Seq({x, y}) /\ <<x, y>> \in Seq({x, y})
  OBVIOUS
<1>2. Append(<<x>>, y) = <<x, y>>
  <2>1. Append(<<x>>, y) \in Seq({x, y}) /\ Len(Append(<<x>>, y)) = 2 /\ Len(<<x, y>>) = 2
    OBVIOUS
  <2>2. \A k \in 1..2 : Append(<<x>>, y)[k] = <<x, y>>[k]
    OBVIOUS
  <2>3. QED
    BY <1>1, <2>1, <2>2, SeqEqual
<1>3. Append(<<x>>, y) = <<x>> \o <<y>>
  BY <1>1, AppendIsConcat
<1>4. QED
  BY <1>2, <1>3

LEMMA MoveTailTask ==
    ASSUME RwInv, MoveTail
    PROVE  RwInv'
<1>1. agenda # <<>> /\ agenda[1][1] = "move_tail"
  BY DEF MoveTail, Task
<1>2. Splits
  BY <1>1, Phase DEF RwInv
<1>3. PICK n \in Block, b \in Block, first \in SUBSET Op, pt \in OpPoint, r \in Region :
         /\ n # b /\ first \subseteq Elems(ops[b]) /\ {n, b} \subseteq Elems(blocks[r])
         /\ agenda = <<<<"move_tail", n, first>>, <<"restore_point", pt>>>>
  BY <1>1, <1>2 DEF Splits
<1>4. Subject = n /\ Point = first /\ Tail(agenda) = <<<<"restore_point", pt>>>>
  BY <1>3 DEF Subject, Point
<1>5. CASE first = {}
  <2>1. SameIR /\ agenda' = <<>> \o Tail(agenda) /\ op_insertion_point' = op_insertion_point
    BY <1>4, <1>5 DEF MoveTail, Expand, SameIR
  <2>2. agenda' = <<<<"restore_point", pt>>>>
    BY <1>4, <2>1
  <2>3. Restores'
    BY <2>2 DEF Restores
  <2>4. QED
    BY <2>1, <2>3, SameIRLemma DEF RwInv, AgendaOK
<1>6. CASE first # {}
  <2>1. PICK o \in first :
           LET from == BlockOf(o)
               i == IndexIn(ops[from], o)
               next_op == IF i = Len(ops[from]) THEN {} ELSE {ops[from][i + 1]}
           IN  /\ ops' = [ops EXCEPT ![from] = RemoveAt(@, i), ![n] = Append(@, o)]
               /\ agenda' = <<<<"move_tail", n, next_op>>>> \o Tail(agenda)
               /\ UNCHANGED <<live, erased, operands, successors, regions, parent_op, blocks, op_insertion_point>>
    BY <1>4, <1>6 DEF MoveTail
  <2>2. IRTypeOK /\ OneParent /\ ops[b] \in Seq(Op) /\ IsInjective(ops[b])
    BY DEF RwInv, IInv, NestOK, IRTypeOK, OnceInList
  <2>3. o \in Op /\ o \in Elems(ops[b]) /\ OpLinked(o)
    BY <1>3 DEF OpLinked
  <2>4. BlockOf(o) = b
    <3>1. BlockOf(o) \in Block /\ o \in Elems(ops[BlockOf(o)])
      BY <2>3, BlockOfLemma
    <3>2. o \in Children(b) /\ o \in Children(BlockOf(o))
      BY <2>2, <2>3, <3>1, ChildrenType DEF ChildrenOK
    <3>3. QED
      BY <2>2, <2>3, <3>1, <3>2 DEF OneParent, Object
  <2> DEFINE i == IndexIn(ops[b], o)
             next_op == IF i = Len(ops[b]) THEN {} ELSE {ops[b][i + 1]}
  <2>5. i \in 1..Len(ops[b]) /\ ops[b][i] = o
    BY <2>3, IndexLemma
  <2>6. /\ ops' = [ops EXCEPT ![b] = RemoveAt(@, i), ![n] = Append(@, o)]
        /\ agenda' = <<<<"move_tail", n, next_op>>>> \o Tail(agenda)
        /\ UNCHANGED <<live, erased, operands, successors, regions, parent_op, blocks, op_insertion_point>>
    BY <2>1, <2>4
  <2>7. i = Len(ops[b]) \/ i + 1 \in 1..Len(ops[b])
    BY <2>2, <2>5
  <2> HIDE DEF i
  <2>8. IInv' /\ Elems(ops'[b]) = Elems(ops[b]) \ {o}
    <3>1. ops' = [ops EXCEPT ![b] = RemoveAt(@, i), ![n] = Append(@, ops[b][i])]
      BY <2>5, <2>6
    <3>2. UNCHANGED <<live, erased, operands, successors, regions, parent_op, blocks>>
      BY <2>6
    <3>3. IInv
      BY DEF RwInv
    <3>4. n # b /\ {n, b} \subseteq Elems(blocks[r]) /\ i \in 1..Len(ops[b])
      BY <1>3, <2>5
    <3>5. IInv'
      BY <3>1, <3>2, <3>3, <3>4, MoveOpStep
    <3>6. Elems(ops'[b]) = Elems(ops[b]) \ {ops[b][i]}
      <4>1. ops'[b] = RemoveAt(ops[b], i)
        BY <2>2, <3>1, <3>4 DEF IRTypeOK
      <4>2. QED
        BY <2>2, <3>4, <4>1, RemoveElems
    <3>7. QED
      BY <2>5, <3>5, <3>6
  <2>9. next_op \subseteq Elems(ops[b]) \ {o} /\ next_op \in SUBSET Op
    <3>1. ASSUME i # Len(ops[b]) PROVE ops[b][i + 1] \in Elems(ops[b]) /\ ops[b][i + 1] # o /\ ops[b][i + 1] \in Op
      <4>1. i + 1 \in 1..Len(ops[b]) /\ i + 1 # i
        BY <2>2, <2>5, <2>7, <3>1
      <4>2. DOMAIN ops[b] = 1..Len(ops[b])
        BY <2>2
      <4>3. QED
        BY <2>2, <2>5, <4>1, <4>2 DEF Elems, IsInjective
    <3>2. QED
      BY <3>1
  <2> HIDE DEF next_op
  <2>10. agenda' = <<<<"move_tail", n, next_op>>, <<"restore_point", pt>>>>
    <3> DEFINE first_task == <<"move_tail", n, next_op>>
    <3>1. agenda' = <<first_task>> \o <<<<"restore_point", pt>>>>
      BY <1>4, <2>6
    <3> HIDE DEF first_task
    <3>2. agenda' = <<first_task, <<"restore_point", pt>>>>
      BY <3>1, TwoTasks
    <3>3. QED
      BY <3>2 DEF first_task
  <2>11. {n, b} \subseteq Elems(blocks'[r]) /\ next_op \subseteq Elems(ops'[b])
    BY <1>3, <2>6, <2>8, <2>9
  <2>12. Splits'
    BY <1>3, <2>9, <2>10, <2>11 DEF Splits
  <2>13. QED
    BY <2>6, <2>8, <2>12 DEF RwInv, AgendaOK
<1>7. QED
  BY <1>5, <1>6

LEMMA RestorePointTask ==
    ASSUME RwInv, RestorePoint
    PROVE  RwInv'
<1>1. /\ agenda # <<>> /\ agenda[1][1] = "restore_point" /\ SameIR
      /\ op_insertion_point' = Subject /\ agenda' = Tail(agenda)
  BY DEF RestorePoint, Task, SameIR
<1>2. PICK pt \in OpPoint : agenda = <<<<"restore_point", pt>>>>
  BY <1>1, Phase DEF RwInv, Restores
<1>3. Subject = pt /\ agenda' = <<>>
  BY <1>1, <1>2 DEF Subject
<1>4. QED
  BY <1>1, <1>3, SameIRLemma, NothingLeft DEF RwInv

LEMMA RwNextLemma == RwInv /\ [RwNext]_allVars => RwInv'
<1> SUFFICES ASSUME RwInv, [RwNext]_allVars PROVE RwInv'
  OBVIOUS
<1>1. CASE UNCHANGED allVars
  <2>1. SameIR /\ agenda' = agenda /\ op_insertion_point' = op_insertion_point
    BY <1>1 DEF allVars, SameIR
  <2>2. IInv' /\ Nesting' = Nesting /\ live' = live
    BY <2>1, SameIRLemma DEF RwInv, SameIR
  <2>3. Erases' <=> Erases
    BY <2>1, <2>2 DEF Erases
  <2>4. Moves' <=> Moves
    BY <2>1 DEF Moves
  <2>5. Replaces' <=> Replaces
    BY <2>1, <2>2 DEF Replaces
  <2>6. Creates' <=> Creates
    BY <2>1 DEF Creates, Fresh, SameIR
  <2>7. Splits' <=> Splits
    BY <2>1 DEF Splits, Fresh, SameIR, Elems
  <2>8. Restores' <=> Restores
    BY <2>1 DEF Restores
  <2>9. QED
    BY <2>1, <2>2, <2>3, <2>4, <2>5, <2>6, <2>7, <2>8 DEF RwInv, AgendaOK
<1>2. CASE Calls
  BY <1>2, CallEraseStep, CallReplaceStep, CallMoveStep, CallSplitStep, CallCreateStep, CallInlineStep DEF Calls
<1>3. CASE Steps
  BY <1>3, EraseOperationTask, EraseBlockTask, EraseRegionTask, EraseOperationsTask, FreeOperationTask,
     FreeBlockTask, FreeRegionTask, ReplaceUsesTask, UnlinkOperationTask, UnlinkBlockTask, InsertScopedTask,
     AppendOperationTask, InsertBlockTask, CreateBlockTask, MoveTailTask, RestorePointTask DEF Steps
<1>4. QED
  BY <1>1, <1>2, <1>3 DEF RwNext

\* A sound IR satisfies the invariant: at most one parent means that parents are equal.
LEMMA SoundIsEnough ==
    ASSUME IRTypeOK, NestingSound
    PROVE  IInv
<1>1. ASSUME NEW x \in Object, NEW y \in Object, NEW z \in Object, z \in Children(x), z \in Children(y)
      PROVE  x = y
  <2> DEFINE P == {p \in Object : z \in Children(p)}
  <2>1. IsFiniteSet(P) /\ Cardinality(P) <= 1
    <3>1. P \subseteq Object
      OBVIOUS
    <3>2. IsFiniteSet(P)
      BY <3>1, ObjectsFinite, FS_Subset
    <3>3. QED
      BY <3>2 DEF NestingSound, Forest
  <2>2. x \in P /\ y \in P
    BY <1>1
  <2> HIDE DEF P
  <2>3. SUFFICES ASSUME x # y PROVE FALSE
    OBVIOUS
  <2>4. {x} \cup {y} \subseteq P /\ y \notin {x}
    BY <2>2, <2>3
  <2>5. Cardinality({x}) = 1 /\ IsFiniteSet({x})
    BY FS_Singleton
  <2>6. Cardinality({x} \cup {y}) = 2
    <3> DEFINE S == {x}
    <3>1. IsFiniteSet(S) /\ Cardinality(S) = 1 /\ y \notin S
      BY <2>4, <2>5
    <3> HIDE DEF S
    <3>2. Cardinality(S \cup {y}) = IF y \in S THEN Cardinality(S) ELSE Cardinality(S) + 1
      BY <3>1, FS_AddElement
    <3>3. Cardinality(S \cup {y}) = 2
      BY <3>1, <3>2
    <3>4. QED
      BY <3>3 DEF S
  <2>7. Cardinality({x} \cup {y}) <= Cardinality(P) /\ Cardinality(P) \in Nat
    BY <2>1, <2>4, FS_Subset, FS_CardinalityType
  <2>8. QED
    BY <2>1, <2>6, <2>7
<1>2. OneParent
  BY <1>1 DEF OneParent
<1>3. ChildrenLive /\ Acyclic /\ OnceInList
  BY DEF NestingSound, Forest, ChildrenLive, Acyclic, OnceInList
<1>4. QED
  BY <1>2, <1>3 DEF IInv, NestOK, NestingSound

\* The invariant of the rewriter: that of the IR, and what is left of a call fits the IR.
THEOREM RewriterInvariant == RwSpec => []RwInv
<1>1. RwInit => RwInv
  <2> SUFFICES ASSUME RwInit PROVE RwInv
    OBVIOUS
  <2>1. IRTypeOK /\ NestingSound /\ op_insertion_point \in OpPoints /\ agenda = <<>>
    BY DEF RwInit
  <2>2. op_insertion_point \in OpPoint
    BY <2>1 DEF OpPoints, OpPoint
  <2>3. Moves
    BY <2>1 DEF Moves
  <2>4. QED
    BY <2>1, <2>2, <2>3, SoundIsEnough DEF RwInv, AgendaOK
<1>2. RwInv /\ [RwNext]_allVars => RwInv'
  BY RwNextLemma
<1>3. QED
  BY <1>1, <1>2, PTL DEF RwSpec

\* Whatever is erased, replaced, moved, split and inlined through a rewriter, after each
\* step of it no operand or successor dangles, containment is a forest of allocated
\* objects and regions are owned, although no caller respects the scope of nested
\* definitions: what the rewriter frees is empty, and its uses have all been looked for.
THEOREM RewriterKeepsIRSound == RwSpec => []SoundThroughout
<1>1. RwInv => SoundThroughout
  BY FewParents DEF RwInv, SoundThroughout, IInv, NestOK, OnceInList, ChildrenLive, Acyclic, NestingSound, Forest
<1>2. QED
  BY <1>1, RewriterInvariant, PTL


(***************************************************************************)
(* What a call consists of.  Each invariant below is one more that the     *)
(* steps keep; all of them rest on this one and on RwInv.                  *)
(***************************************************************************)
EraseCalls == {"erase_operation", "erase_block", "erase_region", "replace_operation", "replace_value_uses_with"}
EraseKinds == {"erase_operation", "erase_block", "erase_region", "erase_operations"} \cup FreeKinds

\* The kinds of the tasks of a call that erases nothing.
KindsOf(kind) ==
    CASE kind = "move_operation" -> {"unlink_operation", "insert_scoped"}
      [] kind \in {"move_block", "inline_region"} -> {"unlink_block", "insert_block"}
      [] kind = "split_block" -> {"create_block", "move_tail", "restore_point"}
      [] kind \in {"append_operation", "create_block"} -> {kind}
      [] OTHER -> {}

Unstarted == agenda = <<>> /\ events = <<>> /\ erased = {}

CallOK ==
    IF call = <<>> THEN Unstarted
    ELSE IF call[1] \in EraseCalls THEN Erases \/ (Replaces /\ events = <<>>)
    ELSE \A i \in 1..Len(agenda) : agenda[i][1] \in KindsOf(call[1])

CallInv == RwInv /\ CallOK

\* The agenda is a sequence, of whatever tasks.
LEMMA AgendaLength ==
    ASSUME AgendaOK, agenda # <<>>
    PROVE  /\ Len(agenda) \in Nat /\ Len(agenda) >= 1 /\ Len(Tail(agenda)) = Len(agenda) - 1
           /\ \A i \in 1..(Len(agenda) - 1) : Tail(agenda)[i] = agenda[i + 1]
<1>1. \E T : agenda \in Seq(T)
  <2>1. Erases \/ Moves => \E T : agenda \in Seq(T)
    BY DEF Erases, Moves
  <2>2. ASSUME NEW x PROVE <<x>> \in Seq({x})
    OBVIOUS
  <2>3. ASSUME NEW x, NEW y PROVE <<x, y>> \in Seq({x, y})
    OBVIOUS
  <2>4. ASSUME NEW x, NEW y, NEW z PROVE <<x, y, z>> \in Seq({x, y, z})
    OBVIOUS
  <2>5. ASSUME Replaces PROVE \E T : agenda \in Seq(T)
    <3>1. PICK v, w : agenda = <<<<"replace_uses", v, w>>>>
                      \/ agenda = <<<<"replace_uses", v, w>>, <<"erase_operation", v>>>>
      BY <2>5 DEF Replaces
    <3> DEFINE s == <<"replace_uses", v, w>>
               t == <<"erase_operation", v>>
    <3>2. agenda = <<s>> \/ agenda = <<s, t>>
      BY <3>1
    <3> HIDE DEF s, t
    <3>3. <<s>> \in Seq({s}) /\ <<s, t>> \in Seq({s, t})
      BY <2>2, <2>3
    <3>4. QED
      BY <3>2, <3>3
  <2>6. Creates \/ Restores => \E T : agenda \in Seq(T)
    BY <2>2 DEF Creates, Restores
  <2>7. ASSUME Splits PROVE \E T : agenda \in Seq(T)
    <3>1. PICK n, b, first, pt :
             \/ agenda = <<<<"create_block", n, <<"AfterBlock", b>>>>, <<"move_tail", n, first>>, <<"restore_point", pt>>>>
             \/ agenda = <<<<"move_tail", n, first>>, <<"restore_point", pt>>>>
      BY <2>7 DEF Splits
    <3> DEFINE s == <<"create_block", n, <<"AfterBlock", b>>>>
               t == <<"move_tail", n, first>>
               u == <<"restore_point", pt>>
    <3>2. agenda = <<s, t, u>> \/ agenda = <<t, u>>
      BY <3>1
    <3> HIDE DEF s, t, u
    <3>3. <<s, t, u>> \in Seq({s, t, u}) /\ <<t, u>> \in Seq({t, u})
      BY <2>3, <2>4
    <3>4. QED
      BY <3>2, <3>3
  <2>8. QED
    BY <2>1, <2>5, <2>6, <2>7 DEF AgendaOK
<1>2. PICK T : agenda \in Seq(T)
  BY <1>1
<1>3. QED
  BY <1>2

\* A call that erases goes on with erasures, and what is not one is no such call.
LEMMA CallOfTask ==
    ASSUME CallInv, agenda # <<>>
    PROVE  /\ call # <<>>
           /\ agenda[1][1] \in EraseKinds => call[1] \in EraseCalls /\ Erases
           /\ agenda[1][1] = "replace_uses" => call[1] \in EraseCalls /\ Replaces /\ events = <<>>
           /\ agenda[1][1] \notin EraseKinds \cup {"replace_uses"} =>
                 /\ call[1] \notin EraseCalls
                 /\ \A i \in 1..Len(agenda) : agenda[i][1] \in KindsOf(call[1])
<1>1. call # <<>> /\ AgendaOK /\ 1 \in 1..Len(agenda)
  BY AgendaLength DEF CallInv, CallOK, Unstarted, RwInv
<1>2. \A kind : KindsOf(kind) \cap (EraseKinds \cup {"replace_uses"}) = {}
  BY DEF KindsOf, EraseKinds, FreeKinds
<1>3. Erases => agenda[1][1] \in EraseKinds
  <2>1. Erases => agenda[1] \in EraseTasks
    BY DEF Erases
  <2>2. QED
    BY <2>1 DEF EraseTasks, EraseKinds, FreeKinds
<1>4. Replaces => agenda[1][1] = "replace_uses"
  BY DEF Replaces
<1>5. "replace_uses" \notin EraseKinds
  BY DEF EraseKinds, FreeKinds
<1>6. CASE call[1] \in EraseCalls
  BY <1>1, <1>3, <1>4, <1>5, <1>6 DEF CallInv, CallOK
<1>7. CASE call[1] \notin EraseCalls
  BY <1>1, <1>2, <1>7 DEF CallInv, CallOK
<1>8. QED
  BY <1>1, <1>6, <1>7

\* The steps that leave everything but the agenda alone.
Quiet == SameIR /\ UNCHANGED <<call, op_insertion_point, modified, events, before>>

LEMMA CallOKBegins ==
    ASSUME CallInv, NEW kind, NEW x, NEW tasks, NEW more, more = <<kind, x>> \/ \E y : more = <<kind, x, y>>,
           Begin(more, tasks),
           IF kind \in EraseCalls THEN Erases' \/ Replaces'
           ELSE \A i \in 1..Len(tasks) : tasks[i][1] \in KindsOf(kind)
    PROVE  CallOK'
<1>1. call' = more /\ agenda' = tasks /\ events' = <<>>
  BY DEF Begin
<1>2. more # <<>> /\ more[1] = kind
  OBVIOUS
<1>3. QED
  BY <1>1, <1>2 DEF CallOK

LEMMA CallOKCalls == CallInv /\ Calls => CallOK'
<1> SUFFICES ASSUME CallInv, Calls PROVE CallOK'
  OBVIOUS
<1>1. RwInv'
  BY RwNextLemma DEF RwNext, CallInv
<1>2. ASSUME NEW t, t \in EraseTasks, t[1] \notin FreeKinds, agenda' = <<t>> PROVE Erases'
  <2>1. <<t>> \in Seq(EraseTasks) /\ Len(<<t>>) = 1 /\ <<t>>[1] = t
    BY <1>2
  <2>2. InnerFirst(<<t>>, Nesting')
    BY <1>2, <2>1, NothingFreed
  <2>3. QED
    BY <1>2, <2>1, <2>2 DEF Erases
<1>3. CASE CallErase
  <2>1. ASSUME NEW o \in live \cap Op, Begin(<<"erase_operation", o>>, <<<<"erase_operation", o>>>>)
        PROVE  CallOK'
    <3>1. agenda' = <<<<"erase_operation", o>>>> /\ <<"erase_operation", o>> \in EraseTasks
          /\ <<"erase_operation", o>>[1] \notin FreeKinds
      BY <2>1 DEF Begin, EraseTasks, FreeKinds
    <3>2. Erases'
      BY <1>2, <3>1
    <3>3. QED
      BY <2>1, <3>2, CallOKBegins DEF EraseCalls
  <2>2. ASSUME NEW b \in live \cap Block, Begin(<<"erase_block", b>>, <<<<"erase_block", b>>>>)
        PROVE  CallOK'
    <3>1. agenda' = <<<<"erase_block", b>>>> /\ <<"erase_block", b>> \in EraseTasks
          /\ <<"erase_block", b>>[1] \notin FreeKinds
      BY <2>2 DEF Begin, EraseTasks, FreeKinds
    <3>2. Erases'
      BY <1>2, <3>1
    <3>3. QED
      BY <2>2, <3>2, CallOKBegins DEF EraseCalls
  <2>3. ASSUME NEW r \in live \cap Region, Begin(<<"erase_region", r>>, <<<<"erase_region", r>>>>)
        PROVE  CallOK'
    <3>1. agenda' = <<<<"erase_region", r>>>> /\ <<"erase_region", r>> \in EraseTasks
          /\ <<"erase_region", r>>[1] \notin FreeKinds
      BY <2>3 DEF Begin, EraseTasks, FreeKinds
    <3>2. Erases'
      BY <1>2, <3>1
    <3>3. QED
      BY <2>3, <3>2, CallOKBegins DEF EraseCalls
  <2>4. QED
    BY <1>3, <2>1, <2>2, <2>3 DEF CallErase
<1>4. CASE CallReplace
  <2>1. ASSUME NEW o \in live \cap Op, NEW v \in live \cap Value,
               Begin(<<"replace_operation", o, v>>, <<<<"replace_uses", o, v>>, <<"erase_operation", o>>>>)
        PROVE  CallOK'
    <3>1. agenda' = <<<<"replace_uses", o, v>>, <<"erase_operation", o>>>> /\ live' = live /\ o \in live \cap Value
      BY <2>1 DEF Begin, Value
    <3>2. Replaces'
      BY <3>1 DEF Replaces
    <3>3. QED
      BY <2>1, <3>2, CallOKBegins DEF EraseCalls
  <2>2. ASSUME NEW v \in live \cap Value, NEW w \in live \cap Value,
               Begin(<<"replace_value_uses_with", v, w>>, <<<<"replace_uses", v, w>>>>)
        PROVE  CallOK'
    <3>1. agenda' = <<<<"replace_uses", v, w>>>> /\ live' = live
      BY <2>2 DEF Begin
    <3>2. Replaces'
      BY <3>1 DEF Replaces
    <3>3. QED
      BY <2>2, <3>2, CallOKBegins DEF EraseCalls
  <2>3. QED
    BY <1>4, <2>1, <2>2 DEF CallReplace
<1>5. CASE CallMove
  <2>1. ASSUME NEW o \in live \cap Op, NEW pt \in OpPoints,
               Begin(<<"move_operation", o, pt>>, <<<<"unlink_operation", o>>, <<"insert_scoped", o, pt>>>>)
        PROVE  CallOK'
    <3> DEFINE ts == <<<<"unlink_operation", o>>, <<"insert_scoped", o, pt>>>>
    <3>1. \A i \in 1..Len(ts) : ts[i][1] \in KindsOf("move_operation")
      BY DEF KindsOf
    <3>2. QED
      BY <2>1, <3>1, CallOKBegins DEF EraseCalls
  <2>2. ASSUME NEW b \in live \cap Block, NEW pt \in BlockPoints,
               Begin(<<"move_block", b, pt>>, <<<<"unlink_block", b>>, <<"insert_block", b, pt>>>>)
        PROVE  CallOK'
    <3> DEFINE ts == <<<<"unlink_block", b>>, <<"insert_block", b, pt>>>>
    <3>1. \A i \in 1..Len(ts) : ts[i][1] \in KindsOf("move_block")
      BY DEF KindsOf
    <3>2. QED
      BY <2>2, <3>1, CallOKBegins DEF EraseCalls
  <2>3. ASSUME NEW o \in live \cap Op, Begin(<<"append_operation", o>>, <<<<"append_operation", o>>>>)
        PROVE  CallOK'
    <3> DEFINE ts == <<<<"append_operation", o>>>>
    <3>1. \A i \in 1..Len(ts) : ts[i][1] \in KindsOf("append_operation")
      BY DEF KindsOf
    <3>2. QED
      BY <2>3, <3>1, CallOKBegins DEF EraseCalls
  <2>4. QED
    BY <1>5, <2>1, <2>2, <2>3 DEF CallMove
<1>6. CASE CallSplit
  <2>1. PICK b \in live \cap Block, n \in Block \ live, pos \in OpPoints :
           Begin(<<"split_block", b, n>>,
                 <<<<"create_block", n, <<"AfterBlock", b>>>>, <<"move_tail", n, FirstOp(pos)>>,
                   <<"restore_point", op_insertion_point>>>>)
    BY <1>6 DEF CallSplit
  <2> DEFINE ts == <<<<"create_block", n, <<"AfterBlock", b>>>>, <<"move_tail", n, FirstOp(pos)>>,
                     <<"restore_point", op_insertion_point>>>>
  <2>2. \A i \in 1..Len(ts) : ts[i][1] \in KindsOf("split_block")
    BY DEF KindsOf
  <2>3. QED
    BY <2>1, <2>2, CallOKBegins DEF EraseCalls
<1>7. CASE CallCreate
  <2>1. PICK n \in Block \ live, pt \in BlockPoints :
           Begin(<<"create_block", n, pt>>, <<<<"create_block", n, pt>>>>)
    BY <1>7 DEF CallCreate
  <2> DEFINE ts == <<<<"create_block", n, pt>>>>
  <2>2. \A i \in 1..Len(ts) : ts[i][1] \in KindsOf("create_block")
    BY DEF KindsOf
  <2>3. QED
    BY <2>1, <2>2, CallOKBegins DEF EraseCalls
<1>8. CASE CallInline
  <2>1. PICK r \in live \cap Region, pt \in BlockPoints :
           Begin(<<"inline_region", r, pt>>,
                 [k \in 1..(2 * Len(blocks[r])) |->
                   LET i == (k + 1) \div 2
                   IN  IF k % 2 = 1 THEN <<"unlink_block", blocks[r][i]>>
                       ELSE <<"insert_block", blocks[r][i],
                              IF i = 1 THEN pt ELSE <<"AfterBlock", blocks[r][i - 1]>>>>])
    BY <1>8 DEF CallInline
  <2> DEFINE ts == [k \in 1..(2 * Len(blocks[r])) |->
                   LET i == (k + 1) \div 2
                   IN  IF k % 2 = 1 THEN <<"unlink_block", blocks[r][i]>>
                       ELSE <<"insert_block", blocks[r][i],
                              IF i = 1 THEN pt ELSE <<"AfterBlock", blocks[r][i - 1]>>>>]
  <2>2. \A i \in DOMAIN ts : ts[i][1] \in {"unlink_block", "insert_block"}
    OBVIOUS
  <2>3. 1..Len(ts) = DOMAIN ts
    <3>1. 2 * Len(blocks[r]) \in Nat
      BY DEF CallInv, RwInv, IInv, IRTypeOK
    <3>2. QED
      BY <3>1
  <2>4. \A i \in 1..Len(ts) : ts[i][1] \in KindsOf("inline_region")
    BY <2>2, <2>3 DEF KindsOf
  <2>5. Begin(<<"inline_region", r, pt>>, ts)
    BY <2>1
  <2> HIDE DEF ts
  <2>6. QED
    BY <2>4, <2>5, CallOKBegins DEF EraseCalls
<1>9. QED
  BY <1>3, <1>4, <1>5, <1>6, <1>7, <1>8 DEF Calls

\* The first task is done, of a call that erases nothing.
LEMMA CallOKDone ==
    ASSUME CallInv, agenda # <<>>, agenda[1][1] \notin EraseKinds \cup {"replace_uses"}, call' = call,
           agenda' = Tail(agenda) \/ agenda' = <<>>
    PROVE  CallOK'
<1>1. call # <<>> /\ call[1] \notin EraseCalls /\ \A i \in 1..Len(agenda) : agenda[i][1] \in KindsOf(call[1])
  BY CallOfTask
<1>2. \A i \in 1..Len(agenda') : agenda'[i][1] \in KindsOf(call[1])
  BY <1>1, AgendaLength DEF CallInv, RwInv
<1>3. QED
  BY <1>1, <1>2 DEF CallOK

LEMMA CallOKErases ==
    ASSUME CallInv, agenda # <<>>, agenda[1][1] \in EraseKinds, call' = call, Erases'
    PROVE  CallOK'
<1>1. call # <<>> /\ call[1] \in EraseCalls
  BY CallOfTask
<1>2. QED
  BY <1>1 DEF CallOK

LEMMA CallOKSteps == CallInv /\ Steps => CallOK'
<1> SUFFICES ASSUME CallInv, Steps PROVE CallOK'
  OBVIOUS
<1>1. RwInv
  BY DEF CallInv
<1>2. CASE EraseOperation
  BY <1>1, <1>2, EraseOperationTask, CallOKErases DEF EraseOperation, Task, Expand, EraseKinds
<1>3. CASE EraseBlock
  BY <1>1, <1>3, EraseBlockTask, CallOKErases DEF EraseBlock, Task, Expand, EraseKinds
<1>4. CASE EraseRegion
  BY <1>1, <1>4, EraseRegionTask, CallOKErases DEF EraseRegion, Task, Expand, EraseKinds
<1>5. CASE EraseOperations
  BY <1>1, <1>5, EraseOperationsTask, CallOKErases DEF EraseOperations, Task, Expand, EraseKinds
<1>6. CASE FreeOperation
  BY <1>1, <1>6, FreeOperationTask, CallOKErases DEF FreeOperation, Task, Done, Panic, EraseKinds, FreeKinds
<1>7. CASE FreeBlock
  BY <1>1, <1>7, FreeBlockTask, CallOKErases DEF FreeBlock, Task, Done, Panic, EraseKinds, FreeKinds
<1>8. CASE FreeRegion
  BY <1>1, <1>8, FreeRegionTask, CallOKErases DEF FreeRegion, Task, Done, EraseKinds, FreeKinds
<1>9. CASE ReplaceUses
  <2>1. agenda # <<>> /\ agenda[1][1] = "replace_uses" /\ agenda' = Tail(agenda) /\ call' = call
    BY <1>9 DEF ReplaceUses, Task, Done
  <2>2. call # <<>> /\ call[1] \in EraseCalls /\ Replaces
    BY <2>1, CallOfTask
  <2>3. Erases'
    <3>1. PICK v \in live \cap Value, w \in live \cap Value :
             \/ agenda = <<<<"replace_uses", v, w>>>>
             \/ v \in Op /\ agenda = <<<<"replace_uses", v, w>>, <<"erase_operation", v>>>>
      BY <2>2 DEF Replaces
    <3>2. CASE agenda = <<<<"replace_uses", v, w>>>>
      <4>1. agenda' = <<>>
        BY <2>1, <3>2
      <4>2. QED
        BY <4>1 DEF Erases, InnerFirst
    <3>3. CASE v \in Op /\ agenda = <<<<"replace_uses", v, w>>, <<"erase_operation", v>>>>
      <4>1. agenda' = <<<<"erase_operation", v>>>>
        BY <2>1, <3>3
      <4>2. agenda' \in Seq(EraseTasks) /\ Len(agenda') = 1 /\ agenda'[1][1] \notin FreeKinds
        BY <3>3, <4>1 DEF EraseTasks, FreeKinds
      <4>3. InnerFirst(agenda', Nesting')
        BY <4>2, NothingFreed
      <4>4. QED
        BY <4>2, <4>3 DEF Erases
    <3>4. QED
      BY <3>1, <3>2, <3>3
  <2>4. QED
    BY <2>1, <2>2, <2>3 DEF CallOK
<1>10. CASE UnlinkOperation \/ UnlinkBlock \/ InsertScoped \/ AppendOperation \/ InsertBlock \/ CreateBlock \/ RestorePoint
  <2>1. /\ agenda # <<>> /\ call' = call /\ (agenda' = Tail(agenda) \/ agenda' = <<>>)
        /\ agenda[1][1] \in {"unlink_operation", "unlink_block", "insert_scoped", "append_operation", "insert_block",
                             "create_block", "restore_point"}
    BY <1>10 DEF UnlinkOperation, UnlinkBlock, InsertScoped, AppendOperation, InsertBlock, CreateBlock, RestorePoint,
                 Task, Done, Panic
  <2>2. agenda[1][1] \notin EraseKinds \cup {"replace_uses"}
    BY <2>1 DEF EraseKinds, FreeKinds
  <2>3. QED
    BY <2>1, <2>2, CallOKDone
<1>11. CASE MoveTail
  <2>1. agenda # <<>> /\ agenda[1][1] = "move_tail" /\ call' = call
    BY <1>11 DEF MoveTail, Task, Expand
  <2>2. agenda[1][1] \notin EraseKinds \cup {"replace_uses"}
    BY <2>1 DEF EraseKinds, FreeKinds
  <2>3. call # <<>> /\ call[1] \notin EraseCalls /\ \A i \in 1..Len(agenda) : agenda[i][1] \in KindsOf(call[1])
    BY <2>1, <2>2, CallOfTask
  <2>4. PICK pt : Tail(agenda) = <<<<"restore_point", pt>>>> /\ agenda[2] = <<"restore_point", pt>> /\ Len(agenda) = 2
    <3>1. Splits
      BY <1>1, <2>1, Phase DEF RwInv
    <3>2. PICK n, first, pt : agenda = <<<<"move_tail", n, first>>, <<"restore_point", pt>>>>
      BY <2>1, <3>1 DEF Splits
    <3>3. QED
      BY <3>2
  <2>5. /\ 1 \in 1..Len(agenda) /\ 2 \in 1..Len(agenda)
        /\ {"move_tail", "restore_point"} \subseteq KindsOf(call[1])
    BY <2>1, <2>3, <2>4
  <2>6. CASE Point = {}
    <3>1. agenda' = <<>> \o Tail(agenda)
      BY <1>11, <2>6 DEF MoveTail, Expand
    <3>2. agenda' = <<<<"restore_point", pt>>>>
      BY <2>4, <3>1
    <3>3. QED
      BY <2>1, <2>3, <2>5, <3>2 DEF CallOK
  <2>7. CASE Point # {}
    <3>1. PICK t : agenda' = <<t>> \o Tail(agenda) /\ t[1] = "move_tail"
      <4>1. PICK next_op : agenda' = <<<<"move_tail", Subject, next_op>>>> \o Tail(agenda)
        BY <1>11, <2>7 DEF MoveTail
      <4>2. <<"move_tail", Subject, next_op>>[1] = "move_tail"
        OBVIOUS
      <4>3. QED
        BY <4>1, <4>2
    <3>2. \A i \in 1..Len(agenda') : agenda'[i] \in {t, <<"restore_point", pt>>}
      <4> DEFINE u == <<"restore_point", pt>>
      <4>1. <<t>> \in Seq({t, u}) /\ <<u>> \in Seq({t, u})
        OBVIOUS
      <4>2. agenda' \in Seq({t, u})
        <5> HIDE DEF u
        <5>1. <<t>> \o <<u>> \in Seq({t, u})
          BY <4>1, ConcatProperties
        <5>2. QED
          BY <2>4, <3>1, <5>1 DEF u
      <4>3. QED
        BY <4>2
    <3>3. QED
      BY <2>1, <2>3, <2>5, <3>1, <3>2 DEF CallOK
  <2>8. QED
    BY <2>6, <2>7
<1>12. QED
  BY <1>2, <1>3, <1>4, <1>5, <1>6, <1>7, <1>8, <1>9, <1>10, <1>11 DEF Steps

LEMMA CallInvStep == CallInv /\ [RwNext]_allVars => CallInv'
<1> SUFFICES ASSUME CallInv, [RwNext]_allVars PROVE CallInv'
  OBVIOUS
<1>1. RwInv'
  BY RwNextLemma DEF CallInv
<1>2. CASE UNCHANGED allVars
  <2>1. SameIR /\ UNCHANGED <<agenda, call, events>>
    BY <1>2 DEF allVars, SameIR
  <2>2. Nesting' = Nesting
    BY <2>1, SameIRLemma DEF CallInv, RwInv
  <2>3. (Erases' <=> Erases) /\ (Replaces' <=> Replaces) /\ (Unstarted' <=> Unstarted)
    BY <2>1, <2>2 DEF Erases, Replaces, Unstarted, SameIR
  <2>4. CallOK'
    BY <2>1, <2>3 DEF CallInv, CallOK
  <2>5. QED
    BY <1>1, <2>4 DEF CallInv
<1>3. QED
  BY <1>1, <1>2, CallOKCalls, CallOKSteps DEF RwNext, CallInv

\* A call is worked off with the tasks of its own kind only, and what was told so far is
\* what its steps so far have done.
THEOREM CallInvariant == RwSpec => []CallInv
<1>1. RwInit => CallOK
  BY DEF RwInit, CallOK, Unstarted
<1>2. RwInit /\ RwInv => CallInv
  BY <1>1 DEF CallInv
<1>3. QED
  BY <1>2, CallInvStep, RewriterInvariant, PTL DEF RwSpec

\* A step is a step of one of these kinds: nothing but the agenda changes; the call
\* has changed the IR and says so; or the insertion point is put back.
LEMMA StepKinds ==
    ASSUME Steps
    PROVE  /\ agenda # <<>> /\ call' = call /\ before' = before
           /\ \/ Quiet
              \/ modified' = TRUE
              \/ RestorePoint /\ SameIR /\ UNCHANGED <<modified, events>>
<1>1. CASE EraseOperation \/ EraseBlock \/ EraseRegion \/ EraseOperations
  BY <1>1 DEF EraseOperation, EraseBlock, EraseRegion, EraseOperations, Task, Expand, Quiet, SameIR
<1>2. CASE FreeOperation
  BY <1>2 DEF FreeOperation, Task, Done, Panic, Quiet, SameIR
<1>3. CASE FreeBlock
  BY <1>3 DEF FreeBlock, Task, Done, Panic, Quiet, SameIR
<1>4. CASE FreeRegion \/ ReplaceUses
  BY <1>4 DEF FreeRegion, ReplaceUses, Task, Done
<1>5. CASE UnlinkOperation \/ UnlinkBlock
  BY <1>5 DEF UnlinkOperation, UnlinkBlock, Task, Done, Panic, Quiet, SameIR
<1>6. CASE InsertScoped \/ AppendOperation \/ InsertBlock \/ CreateBlock
  BY <1>6 DEF InsertScoped, AppendOperation, InsertBlock, CreateBlock, Task, Done, Panic, Quiet, SameIR
<1>7. CASE MoveTail
  BY <1>7 DEF MoveTail, Task, Expand, Quiet, SameIR
<1>8. CASE RestorePoint
  BY <1>8 DEF RestorePoint, Task, SameIR
<1>9. QED
  BY <1>1, <1>2, <1>3, <1>4, <1>5, <1>6, <1>7, <1>8 DEF Steps

\* A call begins: the IR is remembered, and nothing has been told yet.
LEMMA CallBegins ==
    ASSUME Calls
    PROVE  /\ \E c, tasks : c # <<>> /\ Begin(c, tasks)
           /\ SameIR /\ UNCHANGED <<op_insertion_point, modified, panicked>> /\ before' = IRNow /\ events' = <<>>
           /\ call = <<>> /\ call' # <<>>
<1>1. \E c, tasks : c # <<>> /\ Begin(c, tasks)
  <2>1. ASSUME NEW x, NEW y, NEW z PROVE <<x, y>> # <<>> /\ <<x, y, z>> # <<>>
    OBVIOUS
  <2>2. CallErase => \E c, tasks : c # <<>> /\ Begin(c, tasks)
    BY <2>1, Zenon DEF CallErase
  <2>3. CallReplace => \E c, tasks : c # <<>> /\ Begin(c, tasks)
    BY <2>1, Zenon DEF CallReplace
  <2>4. CallMove => \E c, tasks : c # <<>> /\ Begin(c, tasks)
    BY <2>1, Zenon DEF CallMove
  <2>5. CallSplit => \E c, tasks : c # <<>> /\ Begin(c, tasks)
    BY <2>1, Zenon DEF CallSplit
  <2>6. CallCreate => \E c, tasks : c # <<>> /\ Begin(c, tasks)
    BY <2>1, Zenon DEF CallCreate
  <2>7. CallInline => \E c, tasks : c # <<>> /\ Begin(c, tasks)
    BY <2>1, Zenon DEF CallInline
  <2>8. QED
    BY <2>2, <2>3, <2>4, <2>5, <2>6, <2>7 DEF Calls
<1>2. PICK c, tasks : c # <<>> /\ Begin(c, tasks)
  BY <1>1
<1>3. SameIR /\ UNCHANGED <<op_insertion_point, modified, panicked>> /\ before' = IRNow /\ events' = <<>> /\ call' = c
  BY <1>2 DEF Begin, SameIR
<1>4. QED
  BY <1>1, <1>2, <1>3 DEF Calls

(***************************************************************************)
(* A rewriter that was not modified has changed nothing.                   *)
(***************************************************************************)
\* Putting the insertion point back does not set the flag, but comes after a change.
ModifiedInv ==
    /\ ~ modified => IRNow = before
    /\ call # <<>> /\ call[1] = "split_block" /\ agenda # <<>> /\ agenda[1][1] # "create_block" => modified

LEMMA ModifiedStep == CallInv /\ ModifiedInv /\ [RwNext]_allVars => ModifiedInv'
<1> SUFFICES ASSUME CallInv, ModifiedInv, [RwNext]_allVars PROVE ModifiedInv'
  OBVIOUS
<1>1. CASE UNCHANGED allVars
  BY <1>1 DEF allVars, ModifiedInv, IRNow
<1>2. CASE Calls
  <2>1. IRNow' = before'
    BY <1>2, CallBegins DEF IRNow, SameIR
  <2>2. ASSUME call'[1] = "split_block" PROVE agenda'[1][1] = "create_block"
    <3>1. CallSplit
      BY <1>2, <2>2 DEF Calls, CallErase, CallReplace, CallMove, CallCreate, CallInline, Begin
    <3>2. PICK t, u, n, pt : agenda' = <<<<"create_block", n, pt>>, t, u>>
      BY <3>1 DEF CallSplit, Begin
    <3>3. QED
      BY <3>2
  <2>3. QED
    BY <2>1, <2>2 DEF ModifiedInv
<1>3. CASE Steps
  <2>1. agenda # <<>> /\ call' = call /\ before' = before
    BY <1>3, StepKinds
  <2>2. CASE modified' = TRUE
    BY <2>2 DEF ModifiedInv
  <2>3. CASE Quiet
    <3>1. IRNow' = IRNow /\ modified' = modified
      BY <2>3 DEF Quiet, SameIR, IRNow
    <3>2. SUFFICES ASSUME ~ modified, call[1] = "split_block", agenda' # <<>> PROVE FALSE
      BY <2>1, <3>1 DEF ModifiedInv
    <3>3. call # <<>> /\ agenda[1][1] = "create_block"
      BY <2>1, <3>2, CallOfTask DEF ModifiedInv
    <3>4. CreateBlock
      BY <1>3, <3>3 DEF Steps, EraseOperation, EraseBlock, EraseRegion, EraseOperations, FreeOperation, FreeBlock,
         FreeRegion, ReplaceUses, UnlinkOperation, UnlinkBlock, InsertScoped, AppendOperation, InsertBlock, MoveTail,
         RestorePoint, Task
    <3>5. modified' = TRUE
      BY <3>2, <3>4 DEF CreateBlock, Done, Panic
    <3>6. QED
      BY <3>1, <3>2, <3>5
  <2>4. CASE RestorePoint /\ SameIR /\ UNCHANGED <<modified, events>>
    <3>1. agenda[1][1] = "restore_point"
      BY <2>4 DEF RestorePoint, Task
    <3>2. call # <<>> /\ "restore_point" \in KindsOf(call[1])
      <4>1. 1 \in 1..Len(agenda)
        BY <2>1, AgendaLength DEF CallInv, RwInv
      <4>2. agenda[1][1] \notin EraseKinds \cup {"replace_uses"}
        BY <3>1 DEF EraseKinds, FreeKinds
      <4>3. QED
        BY <2>1, <3>1, <4>1, <4>2, CallOfTask
    <3>3. call[1] = "split_block"
      BY <3>2 DEF KindsOf
    <3>4. modified
      BY <2>1, <3>1, <3>2, <3>3 DEF ModifiedInv
    <3>5. QED
      BY <2>4, <3>4 DEF ModifiedInv
  <2>5. QED
    BY <1>3, <2>2, <2>3, <2>4, StepKinds
<1>4. QED
  BY <1>1, <1>2, <1>3 DEF RwNext

\* Until a step of a call marks the rewriter as modified, the IR is as the call found it.
THEOREM ModifiedInvariant == RwSpec => []ModifiedInv
<1>1. RwInit => ModifiedInv
  BY DEF RwInit, ModifiedInv
<1>2. QED
  BY <1>1, ModifiedStep, CallInvariant, PTL DEF RwSpec

(***************************************************************************)
(* The insertion point of the caller.                                      *)
(***************************************************************************)
\* Splitting a block, which moves the insertion point, ends with putting it back.
PointInv ==
    call # <<>> =>
       /\ call[1] \notin {"append_operation", "create_block", "split_block"} => op_insertion_point = before.point
       /\ call[1] = "split_block" =>
             IF agenda = <<>> THEN panicked \/ op_insertion_point = before.point
             ELSE agenda[Len(agenda)] = <<"restore_point", before.point>>

LEMMA PointStep == CallInv /\ PointInv /\ [RwNext]_allVars => PointInv'
<1> SUFFICES ASSUME CallInv, PointInv, [RwNext]_allVars PROVE PointInv'
  OBVIOUS
<1>1. CASE UNCHANGED allVars
  BY <1>1 DEF allVars, PointInv
<1>2. CASE Calls
  <2>1. op_insertion_point' = before'.point /\ before'.point = op_insertion_point
    BY <1>2, CallBegins DEF IRNow
  <2>2. ASSUME call'[1] = "split_block"
        PROVE agenda' # <<>> /\ agenda'[Len(agenda')] = <<"restore_point", op_insertion_point>>
    <3>1. CallSplit
      BY <1>2, <2>2 DEF Calls, CallErase, CallReplace, CallMove, CallCreate, CallInline, Begin
    <3>2. PICK t, u : agenda' = <<t, u, <<"restore_point", op_insertion_point>>>>
      BY <3>1 DEF CallSplit, Begin
    <3>3. QED
      BY <3>2
  <2>3. QED
    BY <2>1, <2>2 DEF PointInv
<1>3. CASE Steps
  <2>1. agenda # <<>> /\ call' = call /\ before' = before /\ call # <<>> /\ AgendaOK
    BY <1>3, StepKinds, CallOfTask DEF CallInv, RwInv
  <2>2. \/ agenda[1][1] \in EraseKinds \cup {"replace_uses"} /\ call[1] \in EraseCalls
        \/ agenda[1][1] \in KindsOf(call[1])
    BY <2>1, CallOfTask, AgendaLength
  <2>3. CASE call[1] \notin {"append_operation", "create_block", "split_block"}
    <3>1. agenda[1][1] \notin {"append_operation", "create_block", "move_tail", "restore_point"}
      BY <2>2, <2>3 DEF KindsOf, EraseKinds, FreeKinds
    <3>2. op_insertion_point' = op_insertion_point
      BY <1>3, <3>1 DEF Steps, EraseOperation, EraseBlock, EraseRegion, EraseOperations, FreeOperation, FreeBlock,
         FreeRegion, ReplaceUses, UnlinkOperation, UnlinkBlock, InsertScoped, AppendOperation, InsertBlock, CreateBlock,
         MoveTail, RestorePoint, Task, Expand, Panic
    <3>3. QED
      BY <2>1, <2>3, <3>2 DEF PointInv
  <2>4. CASE call[1] = "split_block"
    <3>1. agenda[1][1] \in {"create_block", "move_tail", "restore_point"}
      BY <2>2, <2>4 DEF KindsOf, EraseCalls
    <3>2. agenda[Len(agenda)] = <<"restore_point", before.point>>
      BY <2>1, <2>4 DEF PointInv
    <3>3. CASE Panic
      BY <2>1, <2>4, <3>3 DEF Panic, PointInv
    <3>4. CASE CreateBlock /\ ~ Panic
      <4>1. agenda[1][1] = "create_block" /\ agenda' = Tail(agenda)
        BY <3>4 DEF CreateBlock, Task, Done
      <4>2. \/ \E n, pt : agenda = <<<<"create_block", n, pt>>>>
            \/ \E t, u, v : agenda = <<t, u, v>>
        BY <2>1, <4>1, Phase DEF Creates, Splits
      <4>3. PICK t, u, v : agenda = <<t, u, v>>
        BY <3>2, <4>2
      <4>4. agenda' = <<u, v>> /\ v = <<"restore_point", before.point>>
        BY <3>2, <4>1, <4>3
      <4>5. agenda' # <<>> /\ agenda'[Len(agenda')] = <<"restore_point", before'.point>>
        BY <2>1, <4>4
      <4>6. QED
        BY <2>1, <2>4, <4>5 DEF PointInv
    <3>5. CASE MoveTail
      <4>1. agenda[1][1] = "move_tail"
        BY <3>5 DEF MoveTail, Task
      <4>2. PICK t, u : agenda = <<t, u>>
        BY <2>1, <4>1, Phase DEF Splits
      <4>3. Tail(agenda) = <<u>> /\ u = <<"restore_point", before.point>>
        BY <3>2, <4>2
      <4>4. \E s : agenda' = s \o Tail(agenda) /\ (s = <<>> \/ \E x : s = <<x>>)
        BY <3>5 DEF MoveTail, Expand
      <4>5. agenda' # <<>> /\ agenda'[Len(agenda')] = u
        <5> HIDE DEF Panic
        <5>1. \A x : <<x>> \o <<u>> # <<>> /\ (<<x>> \o <<u>>)[Len(<<x>> \o <<u>>)] = u
          OBVIOUS
        <5>2. <<>> \o <<u>> = <<u>>
          OBVIOUS
        <5>3. <<u>> # <<>> /\ <<u>>[Len(<<u>>)] = u
          OBVIOUS
        <5>4. agenda' = <<u>> \/ \E x : agenda' = <<x>> \o <<u>>
          BY <4>3, <4>4, <5>2
        <5>5. QED
          BY <5>1, <5>3, <5>4
      <4>6. QED
        BY <2>1, <2>4, <4>3, <4>5 DEF PointInv
    <3>6. CASE RestorePoint
      <4>1. agenda[1][1] = "restore_point" /\ agenda' = Tail(agenda) /\ op_insertion_point' = Subject
        BY <3>6 DEF RestorePoint, Task
      <4>2. PICK pt : agenda = <<<<"restore_point", pt>>>>
        BY <2>1, <4>1, Phase DEF Restores
      <4>3. pt = before.point /\ Subject = pt /\ agenda' = <<>>
        BY <3>2, <4>1, <4>2 DEF Subject
      <4>4. QED
        BY <2>1, <2>4, <4>1, <4>3 DEF PointInv
    <3>7. Panic \/ CreateBlock \/ MoveTail \/ RestorePoint
      BY <1>3, <3>1 DEF Steps, EraseOperation, EraseBlock, EraseRegion, EraseOperations, FreeOperation, FreeBlock,
         FreeRegion, ReplaceUses, UnlinkOperation, UnlinkBlock, InsertScoped, AppendOperation, InsertBlock, Task
    <3>8. QED
      BY <3>3, <3>4, <3>5, <3>6, <3>7
  <2>5. CASE call[1] \in {"append_operation", "create_block"}
    BY <2>1, <2>5 DEF PointInv
  <2>6. QED
    BY <2>3, <2>4, <2>5
<1>4. QED
  BY <1>1, <1>2, <1>3 DEF RwNext

\* The caller's insertion point stays where it is in every call but append_operation and
\* create_block; split_block ends by putting it back.
THEOREM PointInvariant == RwSpec => []PointInv
<1>1. RwInit => PointInv
  BY DEF RwInit, PointInv
<1>2. QED
  BY <1>1, PointStep, CallInvariant, PTL DEF RwSpec

(***************************************************************************)
(* The lists of the blocks, and of the regions, as one object: an element  *)
(* is in one list at most, and once.  All that a rewriter does to them is  *)
(* to take an element out, and to put in one that is in no list.           *)
(***************************************************************************)
ListsOK(lists, K, E) ==
    /\ lists \in [K -> Seq(E)]
    /\ \A k \in K : \A i, j \in 1..Len(lists[k]) : lists[k][i] = lists[k][j] => i = j
    /\ \A k, l \in K : \A x \in Elems(lists[k]) : x \in Elems(lists[l]) => k = l

TakeOut(lists, k, i) == [lists EXCEPT ![k] = RemoveAt(@, i)]
PutInto(lists, k, i, x) == [lists EXCEPT ![k] = InsertAt(@, i, x)]

\* What is kept of a list is the list without the only element that is not kept, or all
\* of it.
LEMMA RetainedAllButOne ==
    ASSUME NEW E, NEW s \in Seq(E), NEW S, NEW i \in 1..(Len(s) + 1), \A j \in 1..Len(s) : s[j] \in S <=> j # i
    PROVE  /\ Retained(s, S) \in Seq(E)
           /\ i = Len(s) + 1 => Retained(s, S) = s
           /\ i # Len(s) + 1 => RemovedAt(s, i, Retained(s, S))
<1> DEFINE P(G) == G = Filtering(s, S, G)
           F == CHOOSE G : P(G)
           Ok(k) == /\ F[k] \in Seq(E) /\ Len(F[k]) = IF k < i THEN k ELSE k - 1
                    /\ \A j \in 1..Len(F[k]) : F[k][j] = IF j < i THEN s[j] ELSE s[j + 1]
           Q == {k \in 0..Len(s) : Ok(k)}
<1>0. Len(s) \in Nat /\ DOMAIN s = 1..Len(s)
  OBVIOUS
<1>1. F = Filtering(s, S, F)
  <2>1. \E G : P(G)
    BY FilteringExists, Zenon
  <2>2. P(F)
    <3> HIDE DEF P
    <3>1. QED
      BY <2>1, Zenon
  <2>3. QED
    BY <2>2, Zenon
<1>2. Retained(s, S) = F[Len(s)]
  BY Zenon DEF Retained, Filtering
<1> HIDE DEF F
<1>3. \A k \in 0..Len(s) : F[k] = IF k = 0 THEN <<>> ELSE IF s[k] \in S THEN Append(F[k - 1], s[k]) ELSE F[k - 1]
  <2> DEFINE G == Filtering(s, S, F)
  <2>1. \A k \in 0..Len(s) : G[k] = IF k = 0 THEN <<>> ELSE IF s[k] \in S THEN Append(F[k - 1], s[k]) ELSE F[k - 1]
    BY DEF Filtering
  <2>2. F = G
    BY <1>1
  <2> HIDE DEF G
  <2>3. QED
    BY <2>1, <2>2
<1>4. 0 \in Q
  <2>1. F[0] = <<>>
    BY <1>0, <1>3
  <2>2. Ok(0)
    BY <2>1
  <2> HIDE DEF Ok
  <2>3. QED
    BY <1>0, <2>2
<1>5. ASSUME NEW k \in 0..Len(s), k < Len(s), k \in Q PROVE k + 1 \in Q
  <2>1. k + 1 \in 1..Len(s) /\ s[k + 1] \in E /\ k + 1 \in 0..Len(s) /\ (k + 1) - 1 = k /\ k + 1 # 0
    BY <1>5
  <2>2. /\ F[k] \in Seq(E) /\ Len(F[k]) = IF k < i THEN k ELSE k - 1
        /\ \A j \in 1..Len(F[k]) : F[k][j] = IF j < i THEN s[j] ELSE s[j + 1]
    <3>1. Ok(k)
      <4> HIDE DEF Ok
      <4>1. QED
        BY <1>5
    <3>2. QED
      BY <3>1
  <2>3. F[k + 1] = IF k + 1 # i THEN Append(F[k], s[k + 1]) ELSE F[k]
    BY <1>3, <2>1
  <2>4. CASE k + 1 # i
    <3> DEFINE t == Append(F[k], s[k + 1])
               n == Len(F[k])
    <3>1. t \in Seq(E) /\ Len(t) = n + 1 /\ (\A j \in 1..n : t[j] = F[k][j]) /\ t[n + 1] = s[k + 1] /\ n \in Nat
      BY <2>1, <2>2
    <3>2. n + 1 = IF k + 1 < i THEN k + 1 ELSE k
      BY <1>5, <2>2, <2>4
    <3>3. F[k + 1] = t
      BY <2>3, <2>4
    <3> HIDE DEF t, n
    <3>4. ASSUME NEW j \in 1..(n + 1) PROVE t[j] = IF j < i THEN s[j] ELSE s[j + 1]
      <4>1. CASE j = n + 1
        <5>1. k + 1 = IF j < i THEN j ELSE j + 1
          BY <1>5, <2>4, <3>2, <4>1
        <5>2. QED
          BY <3>1, <4>1, <5>1
      <4>2. CASE j # n + 1
        <5>1. j \in 1..n
          BY <3>1, <4>2
        <5>2. QED
          BY <2>2, <3>1, <5>1 DEF n
      <4>3. QED
        BY <4>1, <4>2
    <3>5. Ok(k + 1)
      BY <3>1, <3>2, <3>3, <3>4, <1>5
    <3> HIDE DEF Ok
    <3>6. QED
      BY <2>1, <3>5
  <2>5. CASE k + 1 = i
    <3>1. F[k + 1] = F[k]
      BY <2>3, <2>5
    <3>2. Ok(k + 1)
      BY <1>5, <2>2, <2>5, <3>1
    <3> HIDE DEF Ok
    <3>3. QED
      BY <2>1, <3>2
  <2>6. QED
    BY <2>4, <2>5
<1>6. 0..Len(s) \subseteq Q
  <2> HIDE DEF Q
  <2>1. QED
    BY <1>0, <1>4, <1>5, UpTo
<1>7. Ok(Len(s))
  <2> HIDE DEF Ok
  <2>1. QED
    BY <1>0, <1>6
<1> DEFINE u == F[Len(s)]
<1>8. /\ u \in Seq(E) /\ Len(u) = IF Len(s) < i THEN Len(s) ELSE Len(s) - 1
      /\ \A j \in 1..Len(u) : u[j] = IF j < i THEN s[j] ELSE s[j + 1]
  BY <1>7
<1>81. Len(u) = IF Len(s) < i THEN Len(s) ELSE Len(s) - 1
  BY <1>8
<1>82. u \in Seq(E) /\ \A j \in 1..Len(u) : u[j] = IF j < i THEN s[j] ELSE s[j + 1]
  BY <1>8
<1> HIDE DEF u, Ok
<1>9. CASE i = Len(s) + 1
  <2>0. Len(s) < i
    BY <1>0, <1>9
  <2>1. Len(u) = Len(s)
    BY <1>81, <2>0, Zenon
  <2>2. u = s
    <3>1. ASSUME NEW j \in 1..Len(u) PROVE u[j] = s[j]
      <4>1. j < i
        BY <1>0, <1>9, <2>1
      <4>2. QED
        BY <1>82, <4>1
    <3>2. QED
      BY <1>82, <2>1, <3>1, SeqEqual
  <2>3. QED
    BY <1>2, <1>82, <1>9, <2>2 DEF u
<1>10. CASE i # Len(s) + 1
  <2>0. ~ (Len(s) < i)
    BY <1>0, <1>10
  <2>1. Len(u) = Len(s) - 1
    BY <1>81, <2>0, Zenon
  <2>2. QED
    BY <1>2, <1>82, <1>10, <2>1 DEF u, RemovedAt
<1>11. QED
  BY <1>9, <1>10

\* Two lists without the same position of the same list are the same.
LEMMA RemovedSame ==
    ASSUME NEW E, NEW s \in Seq(E), NEW t \in Seq(E), NEW u \in Seq(E), NEW i \in 1..Len(s),
           RemovedAt(s, i, t), RemovedAt(s, i, u)
    PROVE  t = u
<1>1. Len(t) = Len(s) - 1 /\ Len(u) = Len(s) - 1 /\ Len(s) \in Nat
  BY DEF RemovedAt
<1>2. \A k \in 1..Len(t) : t[k] = u[k]
  BY <1>1 DEF RemovedAt
<1>3. QED
  BY <1>1, <1>2, SeqEqual

KeepsAllBut(lists, K, S, x) == \A l \in K : \A j \in 1..Len(lists[l]) : lists[l][j] \in S[l] <=> lists[l][j] # x

\* Keeping what is not x in every list takes x out of its list.
LEMMA RetainedTakesOut ==
    ASSUME NEW K, NEW E, NEW lists, ListsOK(lists, K, E), NEW k \in K, NEW i \in 1..Len(lists[k]),
           NEW x, x = lists[k][i], NEW S, KeepsAllBut(lists, K, S, x),
           NEW new, new = [l \in K |-> Retained(lists[l], S[l])]
    PROVE  new = TakeOut(lists, k, i)
<1>1. lists \in [K -> Seq(E)] /\ lists[k] \in Seq(E)
  BY DEF ListsOK
<1>2. Retained(lists[k], S[k]) = RemoveAt(lists[k], i)
  <2>1. \A j \in 1..Len(lists[k]) : lists[k][j] \in S[k] <=> j # i
    BY DEF ListsOK, KeepsAllBut
  <2>2. i \in 1..(Len(lists[k]) + 1) /\ i # Len(lists[k]) + 1
    BY <1>1
  <2>3. Retained(lists[k], S[k]) \in Seq(E) /\ RemovedAt(lists[k], i, Retained(lists[k], S[k]))
    BY <1>1, <2>1, <2>2, RetainedAllButOne
  <2>4. RemoveAt(lists[k], i) \in Seq(E) /\ RemovedAt(lists[k], i, RemoveAt(lists[k], i))
    BY <1>1, RemoveAtLemma
  <2>5. QED
    BY <1>1, <2>3, <2>4, RemovedSame
<1>3. ASSUME NEW l \in K, l # k PROVE Retained(lists[l], S[l]) = lists[l]
  <2>1. lists[l] \in Seq(E) /\ Len(lists[l]) + 1 \in 1..(Len(lists[l]) + 1)
    BY <1>1
  <2>2. \A j \in 1..Len(lists[l]) : lists[l][j] # lists[k][i]
    <3>1. ASSUME NEW j \in 1..Len(lists[l]), lists[l][j] = lists[k][i] PROVE FALSE
      <4>1. lists[l][j] \in Elems(lists[l]) /\ lists[l][j] \in Elems(lists[k])
        BY <3>1 DEF Elems
      <4>2. QED
        BY <1>3, <4>1 DEF ListsOK
    <3>2. QED
      BY <3>1
  <2>3. \A j \in 1..Len(lists[l]) : lists[l][j] \in S[l] <=> j # Len(lists[l]) + 1
    BY <2>1, <2>2 DEF KeepsAllBut
  <2>4. QED
    BY <2>1, <2>3, RetainedAllButOne
<1>4. QED
  BY <1>1, <1>2, <1>3 DEF TakeOut

\* What taking an element out, and putting one in, make of the lists.
TookOut(lists, K, E, k, i, new) ==
    /\ ListsOK(new, K, E) /\ RemovedAt(lists[k], i, new[k]) /\ \A l \in K : l # k => new[l] = lists[l]
    /\ \A l \in K : Elems(new[l]) = Elems(lists[l]) \ {lists[k][i]}
    /\ lists[k][i] \in E

PutIn(lists, K, E, k, i, x, new) ==
    /\ ListsOK(new, K, E) /\ Inserted(lists[k], i, x, new[k]) /\ \A l \in K : l # k => new[l] = lists[l]
    /\ Elems(new[k]) = Elems(lists[k]) \cup {x}

LEMMA TakeOutLemma ==
    ASSUME NEW K, NEW E, NEW lists, ListsOK(lists, K, E), NEW k \in K, NEW i \in 1..Len(lists[k]),
           NEW new, new = TakeOut(lists, k, i)
    PROVE  TookOut(lists, K, E, k, i, new)
<1>1. lists \in [K -> Seq(E)] /\ lists[k] \in Seq(E)
  BY DEF ListsOK
<1>2. lists[k][i] \in E /\ lists[k][i] \in Elems(lists[k])
  BY <1>1 DEF Elems
<1>3. new[k] = RemoveAt(lists[k], i) /\ new \in [K -> Seq(E)] /\ (\A l \in K : l # k => new[l] = lists[l])
  BY <1>1, RemoveAtLemma DEF TakeOut
<1>4. RemovedAt(lists[k], i, new[k])
  BY <1>1, <1>3, RemoveAtLemma
<1>5. Elems(new[k]) = Elems(lists[k]) \ {lists[k][i]} /\ IsInjective(new[k])
  <2>1. IsInjective(lists[k])
    <3>1. DOMAIN lists[k] = 1..Len(lists[k])
      BY <1>1
    <3>2. QED
      BY <3>1 DEF ListsOK, IsInjective
  <2>2. QED
    BY <1>1, <1>3, <2>1, RemoveElems
<1>6. \A l \in K : l # k => Elems(new[l]) = Elems(lists[l]) \ {lists[k][i]}
  BY <1>2, <1>3 DEF ListsOK
<1>7. \A a, b \in 1..Len(new[k]) : new[k][a] = new[k][b] => a = b
  <2>1. DOMAIN new[k] = 1..Len(new[k])
    BY <1>3
  <2>2. QED
    BY <1>5, <2>1 DEF IsInjective
<1>8. ListsOK(new, K, E)
  <2>1. \A m \in K : \A a, b \in 1..Len(new[m]) : new[m][a] = new[m][b] => a = b
    <3>1. ASSUME NEW m \in K, m # k PROVE \A a, b \in 1..Len(new[m]) : new[m][a] = new[m][b] => a = b
      <4>1. new[m] = lists[m]
        BY <1>3, <3>1
      <4>2. QED
        BY <4>1 DEF ListsOK
    <3>2. QED
      BY <1>7, <3>1
  <2>2. \A m, l \in K : \A x \in Elems(new[m]) : x \in Elems(new[l]) => m = l
    <3>1. \A m \in K : Elems(new[m]) \subseteq Elems(lists[m])
      BY <1>5, <1>6
    <3>2. QED
      BY <3>1 DEF ListsOK
  <2>3. QED
    BY <1>3, <2>1, <2>2 DEF ListsOK
<1>9. QED
  BY <1>2, <1>3, <1>4, <1>5, <1>6, <1>8 DEF TookOut

LEMMA PutIntoLemma ==
    ASSUME NEW K, NEW E, NEW lists, ListsOK(lists, K, E), NEW k \in K, NEW i \in 1..(Len(lists[k]) + 1), NEW x \in E,
           \A l \in K : x \notin Elems(lists[l]),
           NEW new, new = PutInto(lists, k, i, x)
    PROVE  PutIn(lists, K, E, k, i, x, new)
<1>1. lists \in [K -> Seq(E)] /\ lists[k] \in Seq(E)
  BY DEF ListsOK
<1>2. new[k] = InsertAt(lists[k], i, x) /\ new \in [K -> Seq(E)] /\ (\A l \in K : l # k => new[l] = lists[l])
  BY <1>1, InsertAtLemma DEF PutInto
<1>3. Inserted(lists[k], i, x, new[k])
  BY <1>1, <1>2, InsertAtLemma
<1>4. Elems(new[k]) = Elems(lists[k]) \cup {x} /\ IsInjective(new[k])
  <2>1. IsInjective(lists[k])
    <3>1. DOMAIN lists[k] = 1..Len(lists[k])
      BY <1>1
    <3>2. QED
      BY <3>1 DEF ListsOK, IsInjective
  <2>2. QED
    BY <1>1, <1>2, <2>1, InsertElems
<1>5. \A a, b \in 1..Len(new[k]) : new[k][a] = new[k][b] => a = b
  <2>1. DOMAIN new[k] = 1..Len(new[k])
    BY <1>2
  <2>2. QED
    BY <1>4, <2>1 DEF IsInjective
<1>6. ListsOK(new, K, E)
  <2>1. \A m \in K : \A a, b \in 1..Len(new[m]) : new[m][a] = new[m][b] => a = b
    <3>1. ASSUME NEW m \in K, m # k PROVE \A a, b \in 1..Len(new[m]) : new[m][a] = new[m][b] => a = b
      <4>1. new[m] = lists[m]
        BY <1>2, <3>1
      <4>2. QED
        BY <4>1 DEF ListsOK
    <3>2. QED
      BY <1>5, <3>1
  <2>2. \A m, l \in K : \A y \in Elems(new[m]) : y \in Elems(new[l]) => m = l
    <3>1. \A m \in K : Elems(new[m]) = Elems(lists[m]) \cup (IF m = k THEN {x} ELSE {})
      BY <1>2, <1>4
    <3>2. ASSUME NEW m \in K, NEW l \in K, NEW y \in Elems(new[m]), y \in Elems(new[l]) PROVE m = l
      <4>1. CASE y = x
        BY <3>1, <3>2, <4>1
      <4>2. CASE y # x
        <5>1. y \in Elems(lists[m]) /\ y \in Elems(lists[l])
          BY <3>1, <3>2, <4>2
        <5>2. QED
          BY <5>1 DEF ListsOK
      <4>3. QED
        BY <4>1, <4>2
    <3>3. QED
      BY <3>2
  <2>3. QED
    BY <1>2, <2>1, <2>2 DEF ListsOK
<1>7. QED
  BY <1>2, <1>3, <1>4, <1>6 DEF PutIn

\* Taking out what was put in, and putting back what was taken out.
LEMMA PutBack ==
    ASSUME NEW K, NEW E, NEW lists, ListsOK(lists, K, E), NEW k \in K, NEW i \in 1..(Len(lists[k]) + 1), NEW x \in E,
           \A l \in K : x \notin Elems(lists[l])
    PROVE  Without(PutInto(lists, k, i, x), x) = lists
<1> DEFINE new == PutInto(lists, k, i, x)
<1>0. new = PutInto(lists, k, i, x)
  OBVIOUS
<1> HIDE DEF new
<1>1. /\ ListsOK(new, K, E) /\ Inserted(lists[k], i, x, new[k]) /\ \A l \in K : l # k => new[l] = lists[l]
  BY <1>0, PutIntoLemma DEF PutIn
<1>2. lists \in [K -> Seq(E)] /\ new \in [K -> Seq(E)] /\ DOMAIN new = K /\ lists[k] \in Seq(E) /\ new[k] \in Seq(E)
  BY <1>1 DEF ListsOK
<1>3. i \in 1..Len(new[k]) /\ new[k][i] = x
  BY <1>1, <1>2 DEF Inserted
<1> DEFINE S == [l \in K |-> Elems(new[l]) \ {x}]
           out == [l \in K |-> Retained(new[l], S[l])]
<1>4. out = TakeOut(new, k, i)
  <2>1. KeepsAllBut(new, K, S, x)
    <3>1. ASSUME NEW l \in K, NEW j \in 1..Len(new[l]) PROVE new[l][j] \in S[l] <=> new[l][j] # x
      <4>1. S[l] = Elems(new[l]) \ {x} /\ new[l][j] \in Elems(new[l])
        BY DEF Elems
      <4>2. QED
        BY <4>1
    <3> HIDE DEF S
    <3>2. QED
      BY <1>3, <3>1 DEF KeepsAllBut
  <2>2. out = [l \in K |-> Retained(new[l], S[l])]
    OBVIOUS
  <2> HIDE DEF S, out
  <2>3. QED
    BY <1>1, <1>3, <2>1, <2>2, RetainedTakesOut
<1>5. Without(new, x) = TakeOut(new, k, i)
  BY <1>2, <1>4 DEF Without
<1>6. RemoveAt(new[k], i) = lists[k]
  <2>1. RemoveAt(new[k], i) \in Seq(E) /\ RemovedAt(new[k], i, RemoveAt(new[k], i))
    BY <1>2, <1>3, RemoveAtLemma
  <2>2. Len(new[k]) = Len(lists[k]) + 1 /\ Len(lists[k]) \in Nat
    BY <1>1, <1>2 DEF Inserted
  <2>3. RemovedAt(new[k], i, lists[k])
    <3>1. ASSUME NEW j \in 1..(Len(new[k]) - 1) PROVE lists[k][j] = IF j < i THEN new[k][j] ELSE new[k][j + 1]
      <4>1. j \in 1..(Len(lists[k]) + 1) /\ j + 1 \in 1..(Len(lists[k]) + 1) /\ (j + 1) - 1 = j
        BY <2>2
      <4>2. CASE j < i
        BY <1>1, <4>1, <4>2 DEF Inserted
      <4>3. CASE ~ (j < i)
        <5>1. ~ (j + 1 < i) /\ j + 1 # i
          BY <4>1, <4>3
        <5>2. new[k][j + 1] = lists[k][(j + 1) - 1]
          BY <1>1, <4>1, <5>1 DEF Inserted
        <5>3. QED
          BY <4>1, <4>3, <5>2
      <4>4. QED
        BY <4>2, <4>3
    <3>2. QED
      BY <2>2, <3>1 DEF RemovedAt
  <2>4. QED
    BY <1>2, <1>3, <2>1, <2>3, RemovedSame
<1>7. TakeOut(new, k, i) = lists
  BY <1>1, <1>2, <1>6 DEF TakeOut
<1>8. QED
  BY <1>0, <1>5, <1>7

LEMMA TakenBack ==
    ASSUME NEW K, NEW E, NEW lists, ListsOK(lists, K, E), NEW k \in K, NEW i \in 1..Len(lists[k]),
           NEW new, new = TakeOut(lists, k, i), NEW pt,
           \/ i = 1 /\ pt[2] = k /\ Place(pt, new[k]) = 1
           \/ i = Len(lists[k]) /\ pt[2] = k /\ Place(pt, new[k]) = Len(new[k]) + 1
           \/ i > 1 /\ pt[2] \notin K /\ pt[2] = lists[k][i - 1] /\ Place(pt, new[k]) = IndexIn(new[k], pt[2]) + 1
    PROVE  With(new, pt, lists[k][i]) = lists
<1>1. /\ ListsOK(new, K, E) /\ RemovedAt(lists[k], i, new[k]) /\ \A l \in K : l # k => new[l] = lists[l]
      /\ lists[k][i] \in E
  BY TakeOutLemma DEF TookOut
<1>2. lists \in [K -> Seq(E)] /\ new \in [K -> Seq(E)] /\ DOMAIN new = K /\ lists[k] \in Seq(E) /\ new[k] \in Seq(E)
  BY <1>1 DEF ListsOK
<1>3. Len(new[k]) = Len(lists[k]) - 1 /\ Len(lists[k]) \in Nat
  BY <1>1, <1>2 DEF RemovedAt
<1> DEFINE c == IF pt[2] \in DOMAIN new THEN pt[2] ELSE CHOOSE l \in DOMAIN new : pt[2] \in Elems(new[l])
<1>4. c = k /\ Place(pt, new[k]) = i
  <2>1. CASE i > 1 /\ pt[2] \notin K /\ pt[2] = lists[k][i - 1] /\ Place(pt, new[k]) = IndexIn(new[k], pt[2]) + 1
    <3>1. i - 1 \in 1..Len(new[k]) /\ i - 1 < i /\ i \in Nat
      BY <1>3, <2>1
    <3>2. new[k][i - 1] = pt[2]
      BY <1>1, <1>3, <2>1, <3>1 DEF RemovedAt
    <3>3. pt[2] \in Elems(new[k])
      BY <3>1, <3>2 DEF Elems
    <3>4. \A l \in K : pt[2] \in Elems(new[l]) => l = k
      BY <1>1, <3>3 DEF ListsOK
    <3>5. c = k
      BY <1>2, <2>1, <3>3, <3>4
    <3>6. IndexIn(new[k], pt[2]) = i - 1
      <4>1. IndexIn(new[k], pt[2]) \in 1..Len(new[k]) /\ new[k][IndexIn(new[k], pt[2])] = pt[2]
        BY <3>3, IndexLemma
      <4>2. QED
        BY <1>1, <3>1, <3>2, <4>1 DEF ListsOK
    <3>7. QED
      BY <2>1, <3>1, <3>5, <3>6
  <2>2. CASE ~ (i > 1 /\ pt[2] \notin K /\ pt[2] = lists[k][i - 1] /\ Place(pt, new[k]) = IndexIn(new[k], pt[2]) + 1)
    <3>1. pt[2] = k /\ ((i = 1 /\ Place(pt, new[k]) = 1) \/ (i = Len(lists[k]) /\ Place(pt, new[k]) = Len(new[k]) + 1))
      BY <2>2
    <3>2. QED
      BY <1>2, <1>3, <3>1
  <2>3. QED
    BY <2>1, <2>2
<1>5. With(new, pt, lists[k][i]) = [new EXCEPT ![k] = InsertAt(@, i, lists[k][i])]
  BY <1>4 DEF With
<1>6. InsertAt(new[k], i, lists[k][i]) = lists[k]
  <2> DEFINE t == InsertAt(new[k], i, lists[k][i])
  <2>1. i \in 1..(Len(new[k]) + 1)
    BY <1>3
  <2>2. t \in Seq(E) /\ Inserted(new[k], i, lists[k][i], t)
    BY <1>1, <1>2, <2>1, InsertAtLemma
  <2> HIDE DEF t
  <2>3. Len(t) = Len(lists[k])
    BY <1>3, <2>2 DEF Inserted
  <2>4. ASSUME NEW j \in 1..Len(t) PROVE t[j] = lists[k][j]
    <3>1. t[j] = IF j < i THEN new[k][j] ELSE IF j = i THEN lists[k][i] ELSE new[k][j - 1]
      BY <1>3, <2>2, <2>3 DEF Inserted
    <3>2. CASE j < i
      <4>1. j \in 1..(Len(lists[k]) - 1)
        BY <1>3, <2>3, <3>2
      <4>2. QED
        BY <1>1, <3>1, <3>2, <4>1 DEF RemovedAt
    <3>3. CASE j = i
      BY <3>1, <3>3
    <3>4. CASE j > i
      <4>1. j - 1 \in 1..(Len(lists[k]) - 1) /\ ~ (j - 1 < i) /\ (j - 1) + 1 = j
        BY <1>3, <2>3, <3>4
      <4>2. new[k][j - 1] = lists[k][(j - 1) + 1]
        BY <1>1, <4>1 DEF RemovedAt
      <4>3. QED
        BY <3>1, <3>4, <4>1, <4>2
    <3>5. QED
      BY <2>1, <3>2, <3>3, <3>4
  <2>5. t = lists[k]
    BY <1>2, <2>2, <2>3, <2>4, SeqEqual
  <2>6. QED
    BY <2>5 DEF t
<1>7. QED
  BY <1>1, <1>2, <1>5, <1>6

(***************************************************************************)
(* What a step does to the lists, and what the listener is told of it.     *)
(***************************************************************************)
EventSet == ({"ErasedOperation", "ErasedBlock", "ErasedRegion", "ReplacedValueUses",
              "InsertedOperation", "InsertedBlock"} \X Object)
            \cup ({"UnlinkedOperation"} \X Op \X OpPoint) \cup ({"UnlinkedBlock"} \X Block \X BlockPoint)

HistoryOK ==
    /\ events \in Seq(EventSet)
    /\ ListsOK(before.ops, Block, Op) /\ ListsOK(before.blocks, Region, Block)

Tell(e) == e \in EventSet /\ events' = Append(events, e)

\* The operation o, or the block b, is taken out of its list, or put in at the point pt;
\* or o goes to the end of the block n.
OpTaken(o) ==
    /\ o \in Op /\ OpLinked(o)
    /\ ops' = TakeOut(ops, BlockOf(o), IndexIn(ops[BlockOf(o)], o)) /\ blocks' = blocks
    /\ Tell(<<"UnlinkedOperation", o, RecordedPoint(o)>>)
OpPut(o, pt) ==
    /\ o \in Op /\ ~ OpLinked(o) /\ pt \in OpPoint /\ Usable(pt)
    /\ ops' = PutInto(ops, Container(pt), Place(pt, ops[Container(pt)]), o) /\ blocks' = blocks
    /\ Tell(<<"InsertedOperation", o>>)
BlockTaken(b) ==
    /\ b \in Block /\ BlockLinked(b)
    /\ blocks' = TakeOut(blocks, RegionOf(b), IndexIn(blocks[RegionOf(b)], b)) /\ ops' = ops
    /\ Tell(<<"UnlinkedBlock", b, RecordedBlockPoint(b)>>)
BlockPut(b, pt) ==
    /\ b \in Block /\ ~ BlockLinked(b) /\ pt \in BlockPoint /\ Usable(pt)
    /\ blocks' = PutInto(blocks, Container(pt), Place(pt, blocks[Container(pt)]), b) /\ ops' = ops
    /\ Tell(<<"InsertedBlock", b>>)
OpMoved(o, n) ==
    /\ o \in Op /\ OpLinked(o) /\ n \in Block /\ n # BlockOf(o)
    /\ ops' = PutInto(TakeOut(ops, BlockOf(o), IndexIn(ops[BlockOf(o)], o)), n, Len(ops[n]) + 1, o)
    /\ blocks' = blocks
    /\ <<"UnlinkedOperation", o, RecordedPoint(o)>> \in EventSet /\ <<"InsertedOperation", o>> \in EventSet
    /\ events' = Append(Append(events, <<"UnlinkedOperation", o, RecordedPoint(o)>>), <<"InsertedOperation", o>>)

\* Nothing is freed, and the call is the same.
SameCall == UNCHANGED <<erased, call, before>>

LEMMA ListsSound ==
    ASSUME IInv
    PROVE  ListsOK(ops, Block, Op) /\ ListsOK(blocks, Region, Block)
<1>1. IRTypeOK /\ OnceInList /\ OneParent /\ ChildrenOK
  BY ChildrenType DEF IInv, NestOK
<1>2. ListsOK(ops, Block, Op)
  <2>1. \A b \in Block : DOMAIN ops[b] = 1..Len(ops[b])
    BY <1>1 DEF IRTypeOK
  <2>2. \A b \in Block : \A i, j \in 1..Len(ops[b]) : ops[b][i] = ops[b][j] => i = j
    BY <1>1, <2>1 DEF OnceInList, IsInjective
  <2>3. ASSUME NEW b \in Block, NEW c \in Block, NEW o \in Elems(ops[b]), o \in Elems(ops[c]) PROVE b = c
    <3>1. o \in Children(b) /\ o \in Children(c) /\ b \in Object /\ c \in Object /\ o \in Object
      BY <1>1, <2>3 DEF ChildrenOK, Object
    <3>2. QED
      BY <1>1, <3>1 DEF OneParent
  <2>4. QED
    BY <1>1, <2>2, <2>3 DEF ListsOK, IRTypeOK
<1>3. ListsOK(blocks, Region, Block)
  <2>1. \A r \in Region : DOMAIN blocks[r] = 1..Len(blocks[r])
    BY <1>1 DEF IRTypeOK
  <2>2. \A r \in Region : \A i, j \in 1..Len(blocks[r]) : blocks[r][i] = blocks[r][j] => i = j
    BY <1>1, <2>1 DEF OnceInList, IsInjective
  <2>3. ASSUME NEW r \in Region, NEW s \in Region, NEW b \in Elems(blocks[r]), b \in Elems(blocks[s]) PROVE r = s
    <3>1. b \in Children(r) /\ b \in Children(s) /\ r \in Object /\ s \in Object /\ b \in Object
      BY <1>1, <2>3 DEF ChildrenOK, Object
    <3>2. QED
      BY <1>1, <3>1 DEF OneParent
  <2>4. QED
    BY <1>1, <2>2, <2>3 DEF ListsOK, IRTypeOK
<1>4. QED
  BY <1>2, <1>3

\* One or two more at the end.
LEMMA OneMore ==
    ASSUME NEW E, NEW s \in Seq(E), NEW e \in E
    PROVE  s \o <<e>> = Append(s, e) /\ \A f \in E : s \o <<e, f>> = Append(Append(s, e), f)
<1>1. s \o <<e>> = Append(s, e)
  <2>1. <<e>> \in Seq(E) /\ Len(<<e>>) = 1 /\ <<e>>[1] = e
    OBVIOUS
  <2>2. s \o <<e>> \in Seq(E) /\ Append(s, e) \in Seq(E) /\ Len(s \o <<e>>) = Len(s) + 1 /\ Len(Append(s, e)) = Len(s) + 1
    BY <2>1
  <2>3. \A k \in 1..(Len(s) + 1) : (s \o <<e>>)[k] = Append(s, e)[k]
    BY <2>1
  <2>4. QED
    BY <2>2, <2>3, SeqEqual
<1>2. ASSUME NEW f \in E PROVE s \o <<e, f>> = Append(Append(s, e), f)
  <2> DEFINE t == Append(s, e)
  <2>1. <<e, f>> \in Seq(E) /\ Len(<<e, f>>) = 2 /\ <<e, f>>[1] = e /\ <<e, f>>[2] = f /\ Len(s) \in Nat
    OBVIOUS
  <2>2. t \in Seq(E) /\ Len(t) = Len(s) + 1 /\ (\A k \in 1..Len(s) : t[k] = s[k]) /\ t[Len(s) + 1] = e
    OBVIOUS
  <2> HIDE DEF t
  <2>3. /\ s \o <<e, f>> \in Seq(E) /\ Append(t, f) \in Seq(E)
        /\ Len(s \o <<e, f>>) = Len(s) + 2 /\ Len(Append(t, f)) = Len(s) + 2
    BY <2>1, <2>2
  <2>4. ASSUME NEW k \in 1..(Len(s) + 2) PROVE (s \o <<e, f>>)[k] = Append(t, f)[k]
    <3>1. CASE k \in 1..Len(s)
      <4>1. (s \o <<e, f>>)[k] = s[k]
        BY <2>1, <3>1
      <4>2. Append(t, f)[k] = t[k]
        BY <2>1, <2>2, <3>1
      <4>3. QED
        BY <2>2, <3>1, <4>1, <4>2
    <3>2. CASE k = Len(s) + 1
      <4>1. (s \o <<e, f>>)[k] = e
        BY <2>1, <3>2
      <4>2. Append(t, f)[k] = t[k]
        BY <2>1, <2>2, <3>2
      <4>3. QED
        BY <2>2, <3>2, <4>1, <4>2
    <3>3. CASE k = Len(s) + 2
      <4>1. (s \o <<e, f>>)[k] = f
        BY <2>1, <3>3
      <4>2. Append(t, f)[k] = f
        BY <2>1, <2>2, <3>3
      <4>3. QED
        BY <4>1, <4>2
    <3>4. k \in 1..Len(s) \/ k = Len(s) + 1 \/ k = Len(s) + 2
      <4>1. Len(s) \in Nat
        OBVIOUS
      <4>2. QED
        BY <4>1
    <3>5. QED
      BY <3>1, <3>2, <3>3, <3>4
  <2>5. s \o <<e, f>> = Append(t, f)
    BY <2>3, <2>4, SeqEqual
  <2>6. QED
    BY <2>5 DEF t
<1>3. QED
  BY <1>1, <1>2

LEMMA ToldOnly ==
    ASSUME HistoryOK, NEW e \in EventSet, Done(<<e>>)
    PROVE  Tell(e) /\ UNCHANGED <<call, before>>
<1>1. events' = events \o <<e>> /\ UNCHANGED <<call, before>>
  BY DEF Done
<1>2. QED
  BY <1>1, OneMore DEF Tell, HistoryOK

\* Where what is linked is found; the Recorder keeps a point of its list.
LEMMA Found ==
    ASSUME IInv
    PROVE  /\ \A o \in Op : OpLinked(o) =>
                 /\ BlockOf(o) \in Block /\ IndexIn(ops[BlockOf(o)], o) \in 1..Len(ops[BlockOf(o)])
                 /\ ops[BlockOf(o)][IndexIn(ops[BlockOf(o)], o)] = o
                 /\ <<"UnlinkedOperation", o, RecordedPoint(o)>> \in EventSet
           /\ \A b \in Block : BlockLinked(b) =>
                 /\ RegionOf(b) \in Region /\ IndexIn(blocks[RegionOf(b)], b) \in 1..Len(blocks[RegionOf(b)])
                 /\ blocks[RegionOf(b)][IndexIn(blocks[RegionOf(b)], b)] = b
                 /\ <<"UnlinkedBlock", b, RecordedBlockPoint(b)>> \in EventSet
<1>1. ASSUME NEW o \in Op, OpLinked(o)
      PROVE  /\ BlockOf(o) \in Block /\ IndexIn(ops[BlockOf(o)], o) \in 1..Len(ops[BlockOf(o)])
             /\ ops[BlockOf(o)][IndexIn(ops[BlockOf(o)], o)] = o
             /\ <<"UnlinkedOperation", o, RecordedPoint(o)>> \in EventSet
  <2> DEFINE b == BlockOf(o)
             i == IndexIn(ops[b], o)
  <2>1. b \in Block /\ i \in 1..Len(ops[b]) /\ ops[b][i] = o
    BY <1>1, BlockOfLemma, IndexLemma
  <2>2. ops[b] \in Seq(Op)
    BY <2>1 DEF IInv, IRTypeOK
  <2>3. RecordedPoint(o) = CASE i = 1 -> <<"AtBlockStart", b>>
                             [] i # 1 /\ i = Len(ops[b]) -> <<"AtBlockEnd", b>>
                             [] OTHER -> <<"AfterOperation", ops[b][i - 1]>>
    BY DEF RecordedPoint
  <2> HIDE DEF b, i
  <2>4. i # 1 => ops[b][i - 1] \in Op
    BY <2>1, <2>2
  <2>5. RecordedPoint(o) \in OpPoint
    BY <2>1, <2>3, <2>4 DEF OpPoint
  <2>6. QED
    BY <2>1, <2>5 DEF EventSet, b, i
<1>2. ASSUME NEW o \in Block, BlockLinked(o)
      PROVE  /\ RegionOf(o) \in Region /\ IndexIn(blocks[RegionOf(o)], o) \in 1..Len(blocks[RegionOf(o)])
             /\ blocks[RegionOf(o)][IndexIn(blocks[RegionOf(o)], o)] = o
             /\ <<"UnlinkedBlock", o, RecordedBlockPoint(o)>> \in EventSet
  <2> DEFINE b == RegionOf(o)
             i == IndexIn(blocks[b], o)
  <2>1. b \in Region /\ i \in 1..Len(blocks[b]) /\ blocks[b][i] = o
    BY <1>2, RegionOfLemma, IndexLemma
  <2>2. blocks[b] \in Seq(Block)
    BY <2>1 DEF IInv, IRTypeOK
  <2>3. RecordedBlockPoint(o) = CASE i = 1 -> <<"AtRegionStart", b>>
                             [] i # 1 /\ i = Len(blocks[b]) -> <<"AtRegionEnd", b>>
                             [] OTHER -> <<"AfterBlock", blocks[b][i - 1]>>
    BY DEF RecordedBlockPoint
  <2> HIDE DEF b, i
  <2>4. i # 1 => blocks[b][i - 1] \in Block
    BY <2>1, <2>2
  <2>5. RecordedBlockPoint(o) \in BlockPoint
    BY <2>1, <2>3, <2>4 DEF BlockPoint
  <2>6. QED
    BY <2>1, <2>5 DEF EventSet, b, i
<1>3. QED
  BY <1>1, <1>2

LEMMA UnlinkOperationChange ==
    ASSUME CallInv, HistoryOK, UnlinkOperation
    PROVE  SameCall /\ (Quiet \/ OpTaken(Subject))
<1>1. agenda # <<>> /\ agenda[1][1] = "unlink_operation" /\ RwInv /\ IInv
  BY DEF UnlinkOperation, Task, CallInv, RwInv
<1>2. Subject \in Op
  BY <1>1, Phase, NextMove DEF RwInv
<1>3. CASE ~ OpLinked(Subject)
  BY <1>3 DEF UnlinkOperation, Panic, Quiet, SameIR, SameCall
<1>4. CASE OpLinked(Subject)
  <2> DEFINE b == BlockOf(Subject)
             i == IndexIn(ops[b], Subject)
             S == [c \in Block |-> Op \ {Subject}]
  <2>1. /\ b \in Block /\ i \in 1..Len(ops[b]) /\ ops[b][i] = Subject
        /\ <<"UnlinkedOperation", Subject, RecordedPoint(Subject)>> \in EventSet
    BY <1>1, <1>2, <1>4, Found
  <2>2. /\ ops' = [c \in Block |-> Retained(ops[c], Op \ {Subject})] /\ blocks' = blocks /\ erased' = erased
        /\ Done(<<<<"UnlinkedOperation", Subject, RecordedPoint(Subject)>>>>)
    BY <1>4 DEF UnlinkOperation, unlink_op
  <2>3. ops' = [c \in Block |-> Retained(ops[c], S[c])]
    BY <2>2
  <2>4. KeepsAllBut(ops, Block, S, Subject)
    BY <1>1 DEF KeepsAllBut, IInv, IRTypeOK
  <2> HIDE DEF b, i, S
  <2>5. ops' = TakeOut(ops, b, i)
    BY <1>1, <2>1, <2>3, <2>4, ListsSound, RetainedTakesOut
  <2>6. Tell(<<"UnlinkedOperation", Subject, RecordedPoint(Subject)>>) /\ UNCHANGED <<call, before>>
    BY <2>1, <2>2, ToldOnly
  <2>7. QED
    BY <1>2, <1>4, <2>2, <2>5, <2>6 DEF OpTaken, SameCall, b, i
<1>5. QED
  BY <1>3, <1>4

LEMMA UnlinkBlockChange ==
    ASSUME CallInv, HistoryOK, UnlinkBlock
    PROVE  SameCall /\ ((Quiet /\ panicked') \/ BlockTaken(Subject))
<1>1. agenda # <<>> /\ agenda[1][1] = "unlink_block" /\ RwInv /\ IInv
  BY DEF UnlinkBlock, Task, CallInv, RwInv
<1>2. Subject \in Block
  BY <1>1, Phase, NextMove DEF RwInv
<1>3. CASE ~ BlockLinked(Subject)
  BY <1>3 DEF UnlinkBlock, Panic, Quiet, SameIR, SameCall
<1>4. CASE BlockLinked(Subject)
  <2> DEFINE r == RegionOf(Subject)
             i == IndexIn(blocks[r], Subject)
             S == [c \in Region |-> Block \ {Subject}]
  <2>1. /\ r \in Region /\ i \in 1..Len(blocks[r]) /\ blocks[r][i] = Subject
        /\ <<"UnlinkedBlock", Subject, RecordedBlockPoint(Subject)>> \in EventSet
    BY <1>1, <1>2, <1>4, Found
  <2>2. /\ blocks' = [c \in Region |-> Retained(blocks[c], Block \ {Subject})] /\ ops' = ops /\ erased' = erased
        /\ Done(<<<<"UnlinkedBlock", Subject, RecordedBlockPoint(Subject)>>>>)
    BY <1>4 DEF UnlinkBlock, unlink_block
  <2>3. blocks' = [c \in Region |-> Retained(blocks[c], S[c])]
    BY <2>2
  <2>4. KeepsAllBut(blocks, Region, S, Subject)
    BY <1>1 DEF KeepsAllBut, IInv, IRTypeOK
  <2> HIDE DEF r, i, S
  <2>5. blocks' = TakeOut(blocks, r, i)
    BY <1>1, <2>1, <2>3, <2>4, ListsSound, RetainedTakesOut
  <2>6. Tell(<<"UnlinkedBlock", Subject, RecordedBlockPoint(Subject)>>) /\ UNCHANGED <<call, before>>
    BY <2>1, <2>2, ToldOnly
  <2>7. QED
    BY <1>2, <1>4, <2>2, <2>5, <2>6 DEF BlockTaken, SameCall, r, i
<1>5. QED
  BY <1>3, <1>4

LEMMA InsertScopedChange ==
    ASSUME CallInv, HistoryOK, InsertScoped
    PROVE  SameCall /\ (Quiet \/ OpPut(Subject, Point))
<1>1. agenda # <<>> /\ agenda[1][1] = "insert_scoped" /\ RwInv
  BY DEF InsertScoped, Task, CallInv
<1>2. Subject \in Op /\ Point \in OpPoint
  BY <1>1, Phase, NextMove DEF RwInv
<1>3. CASE ~ (Usable(Point) /\ ~ OpLinked(Subject))
  BY <1>3 DEF InsertScoped, Panic, Quiet, SameIR, SameCall
<1>4. CASE Usable(Point) /\ ~ OpLinked(Subject)
  <2>1. /\ insert_op(Subject, Container(Point), Place(Point, ops[Container(Point)]))
        /\ Done(<<<<"InsertedOperation", Subject>>>>)
    BY <1>4 DEF InsertScoped
  <2>2. <<"InsertedOperation", Subject>> \in EventSet
    BY <1>2 DEF EventSet, Object
  <2>3. Tell(<<"InsertedOperation", Subject>>) /\ UNCHANGED <<call, before>>
    BY <2>1, <2>2, ToldOnly
  <2>4. QED
    BY <1>2, <1>4, <2>1, <2>3 DEF insert_op, OpPut, PutInto, SameCall
<1>5. QED
  BY <1>3, <1>4

LEMMA AppendOperationChange ==
    ASSUME CallInv, HistoryOK, AppendOperation
    PROVE  SameCall /\ (Quiet \/ OpPut(Subject, op_insertion_point))
<1>1. agenda # <<>> /\ agenda[1][1] = "append_operation" /\ RwInv
  BY DEF AppendOperation, Task, CallInv
<1> DEFINE pt == op_insertion_point
<1>2. Subject \in Op /\ pt \in OpPoint
  BY <1>1, Phase, NextMove DEF RwInv
<1>3. CASE ~ (Usable(pt) /\ ~ OpLinked(Subject))
  BY <1>3 DEF AppendOperation, Panic, Quiet, SameIR, SameCall
<1>4. CASE Usable(pt) /\ ~ OpLinked(Subject)
  <2>1. /\ insert_op(Subject, Container(pt), Place(pt, ops[Container(pt)]))
        /\ Done(<<<<"InsertedOperation", Subject>>>>)
    BY <1>4 DEF AppendOperation
  <2>2. <<"InsertedOperation", Subject>> \in EventSet
    BY <1>2 DEF EventSet, Object
  <2>3. Tell(<<"InsertedOperation", Subject>>) /\ UNCHANGED <<call, before>>
    BY <2>1, <2>2, ToldOnly
  <2>4. QED
    BY <1>2, <1>4, <2>1, <2>3 DEF insert_op, OpPut, PutInto, SameCall
<1>5. QED
  BY <1>3, <1>4

LEMMA InsertBlockChange ==
    ASSUME CallInv, HistoryOK, InsertBlock
    PROVE  SameCall /\ ((Quiet /\ panicked') \/ BlockPut(Subject, Point))
<1>1. agenda # <<>> /\ agenda[1][1] = "insert_block" /\ RwInv
  BY DEF InsertBlock, Task, CallInv
<1>2. Subject \in Block /\ Point \in BlockPoint
  BY <1>1, Phase, NextMove DEF RwInv
<1>3. CASE ~ (Usable(Point) /\ ~ BlockLinked(Subject))
  BY <1>3 DEF InsertBlock, Panic, Quiet, SameIR, SameCall
<1>4. CASE Usable(Point) /\ ~ BlockLinked(Subject)
  <2>1. /\ insert_block(Subject, Container(Point), Place(Point, blocks[Container(Point)]))
        /\ Done(<<<<"InsertedBlock", Subject>>>>)
    BY <1>4 DEF InsertBlock
  <2>2. <<"InsertedBlock", Subject>> \in EventSet
    BY <1>2 DEF EventSet, Object
  <2>3. Tell(<<"InsertedBlock", Subject>>) /\ UNCHANGED <<call, before>>
    BY <2>1, <2>2, ToldOnly
  <2>4. QED
    BY <1>2, <1>4, <2>1, <2>3 DEF insert_block, BlockPut, PutInto, SameCall
<1>5. QED
  BY <1>3, <1>4

LEMMA CreateBlockChange ==
    ASSUME CallInv, HistoryOK, CreateBlock
    PROVE  SameCall /\ (Quiet \/ (BlockPut(Subject, Point) /\ Subject \notin live))
<1>1. agenda # <<>> /\ agenda[1][1] = "create_block" /\ RwInv
  BY DEF CreateBlock, Task, CallInv
<1>2. Subject \in Block /\ Subject \notin live /\ Point \in BlockPoint
  <2>1. Creates \/ Splits
    BY <1>1, Phase DEF RwInv
  <2>2. CASE Creates
    BY <2>2 DEF Creates, Subject, Point
  <2>3. CASE Splits
    <3>1. PICK n \in Block, b \in Block : Fresh(n) /\ agenda[1] = <<"create_block", n, <<"AfterBlock", b>>>>
      BY <1>1, <2>3 DEF Splits
    <3>2. QED
      BY <3>1 DEF Subject, Point, BlockPoint, Fresh
  <2>4. QED
    BY <2>1, <2>2, <2>3
<1>3. CASE ~ Usable(Point)
  BY <1>3 DEF CreateBlock, Panic, Quiet, SameIR, SameCall
<1>4. CASE Usable(Point)
  <2>1. /\ blocks' = [blocks EXCEPT ![Container(Point)] = InsertAt(@, Place(Point, @), Subject)]
        /\ ops' = ops /\ erased' = erased /\ Done(<<<<"InsertedBlock", Subject>>>>)
    BY <1>4 DEF CreateBlock
  <2>2. <<"InsertedBlock", Subject>> \in EventSet
    BY <1>2 DEF EventSet, Object
  <2>3. Tell(<<"InsertedBlock", Subject>>) /\ UNCHANGED <<call, before>>
    BY <2>1, <2>2, ToldOnly
  <2>4. ~ BlockLinked(Subject)
    <3>1. \A r \in Region : Elems(blocks[r]) \subseteq live
      <4>1. ChildrenOK /\ ChildrenLive
        BY <1>1, ChildrenType DEF RwInv, IInv, NestOK
      <4>2. QED
        BY <4>1 DEF ChildrenOK, ChildrenLive, Object
    <3>2. QED
      BY <1>2, <3>1 DEF BlockLinked
  <2>5. blocks' = PutInto(blocks, Container(Point), Place(Point, blocks[Container(Point)]), Subject)
    BY <2>1 DEF PutInto
  <2>6. QED
    BY <1>2, <1>4, <2>1, <2>3, <2>4, <2>5 DEF BlockPut, SameCall
<1>5. QED
  BY <1>3, <1>4

LEMMA MoveTailChange ==
    ASSUME CallInv, HistoryOK, MoveTail
    PROVE  SameCall /\ (Quiet \/ \E o \in Point : OpMoved(o, Subject))
<1>1. agenda # <<>> /\ agenda[1][1] = "move_tail" /\ RwInv /\ IInv
  BY DEF MoveTail, Task, CallInv, RwInv
<1>2. PICK n \in Block, b \in Block, first \in SUBSET Op, pt \in OpPoint, r \in Region :
         /\ n # b /\ first \subseteq Elems(ops[b]) /\ {n, b} \subseteq Elems(blocks[r])
         /\ agenda = <<<<"move_tail", n, first>>, <<"restore_point", pt>>>>
  BY <1>1, Phase DEF Splits, RwInv
<1>3. Subject = n /\ Point = first
  BY <1>2 DEF Subject, Point
<1>4. CASE first = {}
  BY <1>3, <1>4 DEF MoveTail, Expand, Quiet, SameIR, SameCall
<1>5. CASE first # {}
  <2>1. PICK o \in first :
           /\ ops' = [ops EXCEPT ![BlockOf(o)] = RemoveAt(@, IndexIn(ops[BlockOf(o)], o)), ![n] = Append(@, o)]
           /\ events' = events \o <<<<"UnlinkedOperation", o, RecordedPoint(o)>>, <<"InsertedOperation", o>>>>
           /\ UNCHANGED <<erased, blocks, call, before>>
    BY <1>3, <1>5 DEF MoveTail
  <2>2. o \in Op /\ o \in Elems(ops[b]) /\ OpLinked(o)
    BY <1>2 DEF OpLinked
  <2>3. /\ BlockOf(o) \in Block /\ IndexIn(ops[BlockOf(o)], o) \in 1..Len(ops[BlockOf(o)])
        /\ ops[BlockOf(o)][IndexIn(ops[BlockOf(o)], o)] = o
        /\ <<"UnlinkedOperation", o, RecordedPoint(o)>> \in EventSet
    BY <1>1, <2>2, Found
  <2> DEFINE c == BlockOf(o)
             i == IndexIn(ops[c], o)
             new == TakeOut(ops, c, i)
  <2>4. ListsOK(ops, Block, Op)
    BY <1>1, ListsSound
  <2>5. c = b
    <3>1. o \in Elems(ops[c])
      BY <2>2, BlockOfLemma
    <3>2. QED
      BY <2>2, <2>3, <2>4, <3>1 DEF ListsOK
  <2>6. c \in Block /\ i \in 1..Len(ops[c]) /\ ops[c][i] = o /\ n # c
    BY <1>2, <2>3, <2>5
  <2>7. ops' = [ops EXCEPT ![c] = RemoveAt(@, i), ![n] = Append(@, o)]
    BY <2>1
  <2>8. ops \in [Block -> Seq(Op)] /\ ops[c] \in Seq(Op) /\ ops[n] \in Seq(Op) /\ DOMAIN ops = Block
    BY <2>3, <2>4 DEF ListsOK
  <2>9. new \in [Block -> Seq(Op)] /\ new[n] = ops[n]
    BY <2>6, <2>8, RemoveAtLemma DEF TakeOut
  <2>10. InsertAt(ops[n], Len(ops[n]) + 1, o) = Append(ops[n], o)
    <3> DEFINE s == ops[n]
               t == InsertAt(s, Len(s) + 1, o)
    <3>1. s \in Seq(Op) /\ Len(s) \in Nat /\ Len(s) + 1 \in 1..(Len(s) + 1)
      BY <2>8
    <3> HIDE DEF s
    <3>2. t \in Seq(Op) /\ Inserted(s, Len(s) + 1, o, t)
      BY <2>2, <3>1, InsertAtLemma
    <3> HIDE DEF t
    <3>3. /\ Append(s, o) \in Seq(Op) /\ Len(Append(s, o)) = Len(s) + 1
          /\ (\A k \in 1..Len(s) : Append(s, o)[k] = s[k]) /\ Append(s, o)[Len(s) + 1] = o
      BY <2>2, <3>1
    <3>4. Len(t) = Len(s) + 1 /\ \A k \in 1..(Len(s) + 1) : t[k] = IF k < Len(s) + 1 THEN s[k] ELSE o
      BY <3>1, <3>2 DEF Inserted
    <3>5. ASSUME NEW k \in 1..Len(t) PROVE t[k] = Append(s, o)[k]
      <4>1. CASE k = Len(s) + 1
        BY <3>1, <3>3, <3>4, <4>1
      <4>2. CASE k # Len(s) + 1
        <5>1. k \in 1..Len(s) /\ k < Len(s) + 1 /\ k \in 1..(Len(s) + 1)
          BY <3>1, <3>4, <4>2
        <5>2. QED
          BY <3>3, <3>4, <5>1
      <4>3. QED
        BY <4>1, <4>2
    <3>6. t = Append(s, o)
      BY <3>2, <3>3, <3>4, <3>5, SeqEqual
    <3>7. QED
      BY <3>6 DEF t, s
  <2>11. ops' = PutInto(new, n, Len(ops[n]) + 1, o)
    <3>1. PutInto(new, n, Len(ops[n]) + 1, o) = [new EXCEPT ![n] = Append(ops[n], o)]
      <4>1. PutInto(new, n, Len(ops[n]) + 1, o) = [new EXCEPT ![n] = InsertAt(new[n], Len(ops[n]) + 1, o)]
        BY DEF PutInto
      <4> HIDE DEF new
      <4>2. QED
        BY <2>9, <2>10, <4>1
    <3>2. new = [ops EXCEPT ![c] = RemoveAt(ops[c], i)]
      BY DEF TakeOut
    <3> HIDE DEF new, c, i
    <3>3. QED
      BY <2>6, <2>7, <2>8, <3>1, <3>2
  <2>12. <<"InsertedOperation", o>> \in EventSet
    BY <2>2 DEF EventSet, Object
  <2>13. events' = Append(Append(events, <<"UnlinkedOperation", o, RecordedPoint(o)>>), <<"InsertedOperation", o>>)
    <3> DEFINE e == <<"UnlinkedOperation", o, RecordedPoint(o)>>
               f == <<"InsertedOperation", o>>
    <3>1. e \in EventSet /\ f \in EventSet /\ events' = events \o <<e, f>>
      BY <2>1, <2>3, <2>12
    <3> HIDE DEF e, f
    <3>2. events' = Append(Append(events, e), f)
      BY <3>1, OneMore DEF HistoryOK
    <3>3. QED
      BY <3>2 DEF e, f
  <2>14. OpMoved(o, n)
    BY <1>2, <2>1, <2>2, <2>3, <2>6, <2>11, <2>12, <2>13 DEF OpMoved
  <2>15. QED
    BY <1>3, <2>1, <2>14 DEF SameCall
<1>6. QED
  BY <1>4, <1>5

\* An object that holds nothing is freed; or the uses of a value are replaced.
Freed(x) ==
    /\ x \in Object /\ x \in live /\ Children(x) = {}
    /\ erased' = erased \cup {x} /\ \A z \in Object : Children(z)' = Children(z) \ {x}
    /\ \E kind \in Erasures : Tell(<<kind, x>>)
UsesReplaced(v) ==
    /\ events = <<>> /\ Tell(<<"ReplacedValueUses", v>>)
    /\ UNCHANGED <<live, erased, regions, ops, blocks>>

LEMMA FreedChildren ==
    ASSUME IRTypeOK, NEW x \in Object, dealloc({x})
    PROVE  /\ erased' = erased \cup {x}
           /\ \A z \in Object : Children(z)' = IF z = x THEN {} ELSE Children(z) \ {x}
<1>1. /\ erased' = erased \cup {x}
      /\ regions' = [o \in Op |-> IF o \in {x} THEN <<>> ELSE Retained(regions[o], Region \ {x})]
      /\ ops' = [b \in Block |-> IF b \in {x} THEN <<>> ELSE Retained(ops[b], Op \ {x})]
      /\ blocks' = [r \in Region |-> IF r \in {x} THEN <<>> ELSE Retained(blocks[r], Block \ {x})]
  BY DEF dealloc
<1>2. /\ \A o \in Op : regions[o] \in Seq(Region)
      /\ \A b \in Block : ops[b] \in Seq(Op)
      /\ \A r \in Region : blocks[r] \in Seq(Block)
      /\ ChildrenOK
  BY ChildrenType DEF IRTypeOK
<1>3. ASSUME NEW z \in Object, z # x PROVE Children(z)' = Children(z) \ {x}
  <2>1. CASE z \in Op
    <3>1. Children(z)' = Elems(regions'[z]) /\ Children(z) = Elems(regions[z]) /\ Elems(regions[z]) \subseteq Region
      BY <1>2, <2>1 DEF Children, Elems, ChildrenOK
    <3>2. regions'[z] = Retained(regions[z], Region \ {x})
      BY <1>1, <1>3, <2>1
    <3>3. Elems(Retained(regions[z], Region \ {x})) = Elems(regions[z]) \cap (Region \ {x})
      BY <1>2, <2>1, RetainedElements
    <3>4. Children(z)' = Elems(regions[z]) \cap (Region \ {x})
      BY <3>1, <3>2, <3>3
    <3>5. QED
      BY <3>1, <3>4
  <2>2. CASE z \in Region
    <3>1. Children(z)' = Elems(blocks'[z]) /\ Children(z) = Elems(blocks[z]) /\ Elems(blocks[z]) \subseteq Block
      BY <1>2, <2>2, IRAssumption DEF Children, Elems, ChildrenOK
    <3>2. blocks'[z] = Retained(blocks[z], Block \ {x})
      BY <1>1, <1>3, <2>2
    <3>3. Elems(Retained(blocks[z], Block \ {x})) = Elems(blocks[z]) \cap (Block \ {x})
      BY <1>2, <2>2, RetainedElements
    <3>4. Children(z)' = Elems(blocks[z]) \cap (Block \ {x})
      BY <3>1, <3>2, <3>3
    <3>5. QED
      BY <3>1, <3>4
  <2>3. CASE z \in Block
    <3>1. Children(z)' = Elems(ops'[z]) /\ Children(z) = Elems(ops[z]) /\ Elems(ops[z]) \subseteq Op
      BY <1>2, <2>3, IRAssumption DEF Children, Elems, ChildrenOK
    <3>2. ops'[z] = Retained(ops[z], Op \ {x})
      BY <1>1, <1>3, <2>3
    <3>3. Elems(Retained(ops[z], Op \ {x})) = Elems(ops[z]) \cap (Op \ {x})
      BY <1>2, <2>3, RetainedElements
    <3>4. Children(z)' = Elems(ops[z]) \cap (Op \ {x})
      BY <3>1, <3>2, <3>3
    <3>5. QED
      BY <3>1, <3>4
  <2>4. QED
    BY <2>1, <2>2, <2>3 DEF Object
<1>4. ASSUME NEW z \in Object, z = x PROVE Children(z)' = {}
  <2>1. Elems(<<>>) = {}
    BY DEF Elems
  <2>2. /\ z \in Op => Children(z)' = Elems(regions'[z])
        /\ z \in Region => Children(z)' = Elems(blocks'[z])
        /\ z \in Block => Children(z)' = Elems(ops'[z])
    BY IRAssumption DEF Children, Elems
  <2>3. /\ z \in Op => regions'[z] = <<>>
        /\ z \in Region => blocks'[z] = <<>>
        /\ z \in Block => ops'[z] = <<>>
    BY <1>1, <1>4
  <2>4. QED
    BY <2>1, <2>2, <2>3 DEF Object
<1>5. QED
  BY <1>1, <1>3, <1>4

LEMMA FreeChange ==
    ASSUME CallInv, HistoryOK, FreeOperation \/ FreeBlock \/ FreeRegion
    PROVE  UNCHANGED <<call, before>> /\ (Quiet \/ Freed(Subject))
<1>1. agenda # <<>> /\ agenda[1][1] \in FreeKinds /\ RwInv /\ IInv
  BY DEF FreeOperation, FreeBlock, FreeRegion, Task, CallInv, RwInv, FreeKinds
<1>2. Subject \in Object /\ Children(Subject) = {}
  BY <1>1, Phase, NextErasure DEF RwInv
<1>3. Contained(Subject) = {Subject}
  BY <1>1, <1>2, AloneLemma DEF IInv
<1>4. ASSUME NEW kind \in Erasures, Subject \in live, dealloc(Contained(Subject)), Done(<<<<kind, Subject>>>>)
      PROVE  UNCHANGED <<call, before>> /\ Freed(Subject)
  <2>1. <<kind, Subject>> \in EventSet
    BY <1>2 DEF EventSet, Erasures
  <2>2. Tell(<<kind, Subject>>) /\ UNCHANGED <<call, before>>
    BY <1>4, <2>1, ToldOnly
  <2>3. dealloc({Subject}) /\ IRTypeOK
    BY <1>1, <1>3, <1>4 DEF IInv
  <2>4. erased' = erased \cup {Subject} /\ \A z \in Object : Children(z)' = IF z = Subject THEN {} ELSE Children(z) \ {Subject}
    BY <1>2, <2>3, FreedChildren
  <2>5. \A z \in Object : Children(z)' = Children(z) \ {Subject}
    BY <1>2, <2>4
  <2>6. QED
    BY <1>2, <1>4, <2>2, <2>4, <2>5 DEF Freed
<1>5. CASE FreeOperation
  BY <1>4, <1>5 DEF FreeOperation, Operation_erase, Panic, Quiet, SameIR, Erasures
<1>6. CASE FreeBlock
  BY <1>4, <1>6 DEF FreeBlock, BasicBlock_erase, Panic, Quiet, SameIR, Erasures
<1>7. CASE FreeRegion
  <2>1. Subject \in live /\ agenda[1][1] = "free_region" /\ Done(<<<<"ErasedRegion", Subject>>>>)
    BY <1>7 DEF FreeRegion, Task
  <2>2. PICK p \in parent_op[Subject] : erase_region(p, IndexIn(regions[p], Subject))
    BY <1>7 DEF FreeRegion
  <2>3. Subject \in Region
    BY <1>1, <2>1, Phase, NextErasure DEF RwInv
  <2>4. PICK o \in live \cap Op : parent_op[Subject] = {o} /\ Subject \in Elems(regions[o])
    BY <1>1, <2>1, <2>3 DEF IInv, RegionsOwned
  <2>5. p = o /\ regions[p][IndexIn(regions[p], Subject)] = Subject
    BY <2>2, <2>4, IndexLemma
  <2>6. dealloc(Contained(Subject))
    BY <2>2, <2>5 DEF erase_region
  <2>7. QED
    BY <1>4, <2>1, <2>6 DEF Erasures
<1>8. QED
  BY <1>5, <1>6, <1>7

LEMMA ReplaceUsesChange ==
    ASSUME CallInv, HistoryOK, ReplaceUses
    PROVE  UNCHANGED <<call, before>> /\ UsesReplaced(Subject)
<1>1. agenda # <<>> /\ agenda[1][1] = "replace_uses"
  BY DEF ReplaceUses, Task
<1>2. Replaces /\ events = <<>>
  BY <1>1, CallOfTask
<1>3. Subject \in Object
  <2>1. PICK v, w \in live \cap Value : agenda[1] = <<"replace_uses", v, w>>
    BY <1>2 DEF Replaces
  <2>2. QED
    BY <2>1 DEF Subject, Value, Object
<1>4. <<"ReplacedValueUses", Subject>> \in EventSet
  BY <1>3 DEF EventSet
<1>5. Done(<<<<"ReplacedValueUses", Subject>>>>) /\ UNCHANGED <<live, erased, regions, ops, blocks>>
  BY DEF ReplaceUses
<1>6. QED
  BY <1>2, <1>4, <1>5, ToldOnly DEF UsesReplaced

\* One of these is what a step does.
NothingTold == SameIR /\ events' = events
SomethingMoved ==
    \/ \E x : OpTaken(x) \/ BlockTaken(x)
    \/ \E x, pt : OpPut(x, pt) \/ BlockPut(x, pt)
    \/ \E x, n : OpMoved(x, n)

LEMMA StepChange ==
    ASSUME CallInv, HistoryOK, Steps
    PROVE  /\ UNCHANGED <<call, before>> /\ call # <<>>
           /\ \/ NothingTold
              \/ call[1] \in EraseCalls /\ \E x : UsesReplaced(x) \/ Freed(x)
              \/ call[1] \notin EraseCalls /\ erased' = erased /\ SomethingMoved
<1>1. agenda # <<>> /\ UNCHANGED <<call, before>> /\ call # <<>>
  BY StepKinds, CallOfTask
<1>2. CASE EraseOperation \/ EraseBlock \/ EraseRegion \/ EraseOperations \/ RestorePoint
  BY <1>1, <1>2 DEF EraseOperation, EraseBlock, EraseRegion, EraseOperations, RestorePoint, Expand, NothingTold, SameIR
<1>3. CASE FreeOperation \/ FreeBlock \/ FreeRegion
  <2>1. agenda[1][1] \in EraseKinds
    BY <1>3 DEF FreeOperation, FreeBlock, FreeRegion, Task, EraseKinds, FreeKinds
  <2>2. call[1] \in EraseCalls
    BY <1>1, <2>1, CallOfTask
  <2>3. Quiet \/ Freed(Subject)
    BY <1>3, FreeChange
  <2>4. QED
    BY <1>1, <2>2, <2>3 DEF Quiet, NothingTold
<1>4. CASE ReplaceUses
  <2>1. call[1] \in EraseCalls
    BY <1>1, <1>4, CallOfTask DEF ReplaceUses, Task
  <2>2. QED
    BY <1>1, <1>4, <2>1, ReplaceUsesChange
<1>5. CASE UnlinkOperation \/ UnlinkBlock \/ InsertScoped \/ AppendOperation \/ InsertBlock \/ CreateBlock \/ MoveTail
  <2>1. agenda[1][1] \in {"unlink_operation", "unlink_block", "insert_scoped", "append_operation", "insert_block",
                          "create_block", "move_tail"}
    BY <1>5 DEF UnlinkOperation, UnlinkBlock, InsertScoped, AppendOperation, InsertBlock, CreateBlock, MoveTail, Task
  <2>2. agenda[1][1] \notin EraseKinds \cup {"replace_uses"}
    BY <2>1 DEF EraseKinds, FreeKinds
  <2>3. call[1] \notin EraseCalls
    BY <1>1, <2>2, CallOfTask
  <2>4. SameCall /\ (Quiet \/ SomethingMoved)
    <3>1. CASE UnlinkOperation
      BY <3>1, UnlinkOperationChange DEF SomethingMoved
    <3>2. CASE UnlinkBlock
      BY <3>2, UnlinkBlockChange DEF SomethingMoved
    <3>3. CASE InsertScoped
      BY <3>3, InsertScopedChange DEF SomethingMoved
    <3>4. CASE AppendOperation
      BY <3>4, AppendOperationChange DEF SomethingMoved
    <3>5. CASE InsertBlock
      BY <3>5, InsertBlockChange DEF SomethingMoved
    <3>6. CASE CreateBlock
      BY <3>6, CreateBlockChange DEF SomethingMoved
    <3>7. CASE MoveTail
      BY <3>7, MoveTailChange DEF SomethingMoved
    <3>8. QED
      BY <1>5, <3>1, <3>2, <3>3, <3>4, <3>5, <3>6, <3>7
  <2>5. QED
    BY <1>1, <2>3, <2>4 DEF SameCall, Quiet, NothingTold
<1>6. QED
  BY <1>2, <1>3, <1>4, <1>5 DEF Steps

LEMMA HistoryStep == CallInv /\ HistoryOK /\ [RwNext]_allVars => HistoryOK'
<1> SUFFICES ASSUME CallInv, HistoryOK, [RwNext]_allVars PROVE HistoryOK'
  OBVIOUS
<1>1. CASE UNCHANGED allVars
  BY <1>1 DEF allVars, HistoryOK
<1>2. CASE Calls
  <2>1. before' = IRNow /\ events' = <<>>
    BY <1>2, CallBegins
  <2>2. ListsOK(ops, Block, Op) /\ ListsOK(blocks, Region, Block)
    BY ListsSound DEF CallInv, RwInv
  <2>3. before'.ops = ops /\ before'.blocks = blocks
    BY <2>1 DEF IRNow
  <2>4. <<>> \in Seq(EventSet)
    OBVIOUS
  <2>5. QED
    BY <2>1, <2>2, <2>3, <2>4 DEF HistoryOK
<1>3. CASE Steps
  <2>1. before' = before
    BY <1>3, StepChange
  <2>2. events' = events \/ (\E e \in EventSet : events' = Append(events, e))
           \/ \E e, f \in EventSet : events' = Append(Append(events, e), f)
    <3>1. CASE NothingTold
      BY <3>1 DEF NothingTold
    <3>2. CASE \E x : UsesReplaced(x) \/ Freed(x)
      BY <3>2 DEF UsesReplaced, Freed, Tell
    <3>3. CASE SomethingMoved
      <4>1. CASE \E x : OpTaken(x) \/ BlockTaken(x)
        BY <4>1 DEF OpTaken, BlockTaken, Tell
      <4>2. CASE \E x, pt : OpPut(x, pt) \/ BlockPut(x, pt)
        BY <4>2 DEF OpPut, BlockPut, Tell
      <4>3. CASE \E x, n : OpMoved(x, n)
        BY <4>3 DEF OpMoved
      <4>4. QED
        BY <3>3, <4>1, <4>2, <4>3 DEF SomethingMoved
    <3>4. QED
      BY <1>3, <3>1, <3>2, <3>3, StepChange
  <2>3. events' \in Seq(EventSet)
    BY <2>2 DEF HistoryOK
  <2>4. QED
    BY <2>1, <2>3 DEF HistoryOK
<1>4. QED
  BY <1>1, <1>2, <1>3 DEF RwNext

\* The events of a call are well-formed notifications, and before are lists in which every
\* operation and every block has one place.
THEOREM HistoryInvariant == RwSpec => []HistoryOK
<1>1. RwInit /\ RwInv => HistoryOK
  <2> SUFFICES ASSUME RwInit, RwInv PROVE HistoryOK
    OBVIOUS
  <2>1. ListsOK(ops, Block, Op) /\ ListsOK(blocks, Region, Block)
    BY ListsSound DEF RwInv
  <2>2. events = <<>> /\ before.ops = ops /\ before.blocks = blocks
    BY DEF RwInit, IRNow
  <2>3. QED
    BY <2>1, <2>2 DEF HistoryOK
<1>2. QED
  BY <1>1, HistoryStep, CallInvariant, RewriterInvariant, PTL DEF RwSpec

(***************************************************************************)
(* The listener of a call that returns was told of everything.             *)
(***************************************************************************)
KidsBefore(x) == Elems(IF x \in Op THEN before.regions[x]
                       ELSE IF x \in Region THEN before.blocks[x] ELSE before.ops[x])

Heard(kinds, x) == \E i \in 1..Len(events) : events[i][1] \in kinds /\ events[i][2] = x

\* While a call erases, it only erases, from the inside, and says so of each object, once.
ErasuresTold ==
    /\ \A x \in Object : Children(x) = KidsBefore(x) \ erased
    /\ \A x \in erased : x \in Object /\ KidsBefore(x) \subseteq erased /\ Heard(Erasures, x)
    /\ \A i \in 1..Len(events) : IF events[i][1] \in Erasures THEN events[i][2] \in erased
                                 ELSE i = 1 /\ events[i][1] = "ReplacedValueUses"
    /\ \A i, j \in 1..Len(events) :
          events[i][1] \in Erasures /\ events[j][1] \in Erasures /\ events[i][2] = events[j][2] => i = j
    /\ \A i, j \in 1..Len(events) : i < j /\ events[i][1] \in Erasures => events[j][2] \notin KidsBefore(events[i][2])

\* Another call erases nothing, and what is somewhere else was heard of.
MovesTold ==
    /\ erased = {} /\ \A i \in 1..Len(events) : events[i][1] \notin Erasures
    /\ \A b \in Block : /\ \A o \in Elems(ops[b]) : o \in Elems(before.ops[b]) \/ Heard({"InsertedOperation"}, o)
                        /\ \A o \in Elems(before.ops[b]) : o \in Elems(ops[b]) \/ Heard({"UnlinkedOperation"}, o)
    /\ \A r \in Region : \A b \in Elems(blocks[r]) : b \in Elems(before.blocks[r]) \/ Heard({"InsertedBlock"}, b)

ToldInv ==
    IF call = <<>> THEN erased = {}
    ELSE IF call[1] \in EraseCalls THEN ErasuresTold ELSE MovesTold

LEMMA TellLemma ==
    ASSUME HistoryOK, NEW e, Tell(e)
    PROVE  /\ Len(events) \in Nat /\ Len(events') = Len(events) + 1
           /\ \A i \in 1..Len(events) : events'[i] = events[i]
           /\ events'[Len(events) + 1] = e
  BY DEF HistoryOK, Tell

LEMMA StillHeard ==
    ASSUME HistoryOK, NEW e, Tell(e)
    PROVE  /\ \A kinds, x : Heard(kinds, x) => Heard(kinds, x)'
           /\ \A kinds : e[1] \in kinds => Heard(kinds, e[2])'
<1>1. /\ Len(events) \in Nat /\ Len(events') = Len(events) + 1
      /\ \A i \in 1..Len(events) : events'[i] = events[i]
      /\ events'[Len(events) + 1] = e
  BY TellLemma
<1>2. \A i \in 1..Len(events) : i \in 1..Len(events')
  BY <1>1
<1>3. Len(events) + 1 \in 1..Len(events')
  BY <1>1
<1>4. QED
  BY <1>1, <1>2, <1>3 DEF Heard

LEMMA ToldBegins ==
    ASSUME ToldInv, Calls
    PROVE  ToldInv'
<1>1. /\ SameIR /\ before' = IRNow /\ events' = <<>> /\ call = <<>> /\ call' # <<>>
  BY CallBegins
<1>2. erased' = {} /\ Len(events') = 0
  BY <1>1 DEF ToldInv, SameIR
<1>3. \A x : KidsBefore(x)' = Children(x)'
  BY <1>1 DEF KidsBefore, Children, IRNow, SameIR
<1>4. ErasuresTold'
  BY <1>2, <1>3 DEF ErasuresTold
<1>5. MovesTold'
  BY <1>1, <1>2 DEF MovesTold, IRNow, SameIR
<1>6. QED
  BY <1>1, <1>4, <1>5 DEF ToldInv

LEMMA ToldFrame ==
    ASSUME ToldInv, NothingTold, UNCHANGED <<call, before>>
    PROVE  ToldInv'
<1>1. UNCHANGED <<call, before, events, erased, ops, blocks, regions>>
  BY DEF NothingTold, SameIR
<1>2. \A x : Children(x)' = Children(x) /\ KidsBefore(x)' = KidsBefore(x)
  BY <1>1 DEF Children, KidsBefore
<1>3. \A kinds, x : Heard(kinds, x)' = Heard(kinds, x)
  BY <1>1 DEF Heard
<1>4. ErasuresTold => ErasuresTold'
  BY <1>1, <1>2, <1>3 DEF ErasuresTold
<1>5. MovesTold => MovesTold'
  BY <1>1, <1>3 DEF MovesTold
<1>6. QED
  BY <1>1, <1>4, <1>5 DEF ToldInv

LEMMA ToldFreed ==
    ASSUME HistoryOK, ErasuresTold, IRTypeOK, NEW x, Freed(x), UNCHANGED before
    PROVE  ErasuresTold'
<1>1. /\ x \in Object /\ x \in live /\ Children(x) = {}
      /\ erased' = erased \cup {x} /\ \A z \in Object : Children(z)' = Children(z) \ {x}
  BY DEF Freed
<1>2. PICK kind \in Erasures : Tell(<<kind, x>>)
  BY DEF Freed
<1> DEFINE n == Len(events)
<1>3. /\ n \in Nat /\ Len(events') = n + 1
      /\ \A i \in 1..n : events'[i] = events[i]
      /\ events'[n + 1] = <<kind, x>>
  BY <1>2, TellLemma
<1>4. \A i \in 1..Len(events') : i = n + 1 \/ i \in 1..n
  BY <1>3
<1>5. events'[n + 1][1] \in Erasures /\ events'[n + 1][2] = x
  BY <1>2, <1>3
<1>6. \A z : KidsBefore(z)' = KidsBefore(z)
  BY DEF KidsBefore
<1>7. x \notin erased /\ KidsBefore(x) \subseteq erased
  BY <1>1 DEF ErasuresTold, IRTypeOK
<1> HIDE DEF n
<1>8. (\A z \in Object : Children(z) = KidsBefore(z) \ erased)'
  <2>1. \A z \in Object : Children(z)' = KidsBefore(z)' \ erased'
    BY <1>1, <1>6 DEF ErasuresTold
  <2>2. QED
    BY <2>1
<1>9. (\A z \in erased : z \in Object /\ KidsBefore(z) \subseteq erased /\ Heard(Erasures, z))'
  <2>1. ASSUME NEW z \in erased' PROVE z \in Object /\ KidsBefore(z)' \subseteq erased' /\ Heard(Erasures, z)'
    <3>1. \A kinds, y : Heard(kinds, y) => Heard(kinds, y)'
      BY <1>2, StillHeard
    <3>2. Heard(Erasures, x)'
      <4>1. \A kinds : <<kind, x>>[1] \in kinds => Heard(kinds, <<kind, x>>[2])'
        BY <1>2, StillHeard
      <4>2. <<kind, x>>[1] = kind /\ <<kind, x>>[2] = x
        OBVIOUS
      <4>3. QED
        BY <4>1, <4>2
    <3>3. CASE z = x
      BY <1>1, <1>6, <1>7, <3>2, <3>3
    <3>4. CASE z # x
      <4>1. z \in erased
        BY <1>1, <3>4
      <4>2. z \in Object /\ KidsBefore(z) \subseteq erased /\ Heard(Erasures, z)
        BY <4>1 DEF ErasuresTold
      <4>3. QED
        BY <1>1, <1>6, <3>1, <4>2
    <3>5. QED
      BY <3>3, <3>4
  <2>2. QED
    BY <2>1
<1>10. \A i \in 1..Len(events') : IF events'[i][1] \in Erasures THEN events'[i][2] \in erased'
                                 ELSE i = 1 /\ events'[i][1] = "ReplacedValueUses"
  BY <1>1, <1>3, <1>4, <1>5 DEF ErasuresTold, n
<1>11. \A i \in 1..n : events[i][1] \in Erasures => events[i][2] \in erased /\ events[i][2] # x
  BY <1>7 DEF ErasuresTold, n
<1>12. ASSUME NEW i \in 1..Len(events'), NEW j \in 1..Len(events'),
              events'[i][1] \in Erasures, events'[j][1] \in Erasures, events'[i][2] = events'[j][2]
       PROVE  i = j
  <2>1. CASE i = n + 1
    BY <1>3, <1>4, <1>5, <1>11, <1>12, <2>1
  <2>2. CASE j = n + 1
    BY <1>3, <1>4, <1>5, <1>11, <1>12, <2>2
  <2>3. CASE i \in 1..n /\ j \in 1..n
    BY <1>3, <1>12, <2>3 DEF ErasuresTold, n
  <2>4. QED
    BY <1>4, <2>1, <2>2, <2>3
<1>13. ASSUME NEW i \in 1..Len(events'), NEW j \in 1..Len(events'), i < j, events'[i][1] \in Erasures
       PROVE  events'[j][2] \notin KidsBefore(events'[i][2])
  <2>1. i \in 1..n
    BY <1>3, <1>4, <1>13
  <2>2. events'[i] = events[i] /\ events[i][2] \in erased
    BY <1>3, <1>11, <1>13, <2>1
  <2>4. CASE j = n + 1
    <3>1. KidsBefore(events[i][2]) \subseteq erased
      BY <2>2 DEF ErasuresTold
    <3>2. QED
      BY <1>5, <1>7, <2>2, <2>4, <3>1
  <2>5. CASE j \in 1..n
    <3>1. events[j][2] \notin KidsBefore(events[i][2])
      BY <1>13, <2>1, <2>2, <2>5 DEF ErasuresTold, n
    <3>2. QED
      BY <1>3, <2>2, <2>5, <3>1
  <2>6. QED
    BY <1>4, <2>4, <2>5
<1>14. (\A i, j \in 1..Len(events) : i < j /\ events[i][1] \in Erasures
                                   => events[j][2] \notin KidsBefore(events[i][2]))'
  BY <1>13 DEF KidsBefore
<1>15. QED
  BY <1>8, <1>9, <1>10, <1>12, <1>14 DEF ErasuresTold

LEMMA ToldReplaced ==
    ASSUME HistoryOK, ErasuresTold, NEW v, UsesReplaced(v), UNCHANGED before
    PROVE  ErasuresTold'
<1>1. Len(events) = 0 /\ Tell(<<"ReplacedValueUses", v>>) /\ UNCHANGED <<live, erased, regions, ops, blocks>>
  BY DEF UsesReplaced
<1>2. Len(events') = 1 /\ events'[1] = <<"ReplacedValueUses", v>>
  BY <1>1, TellLemma
<1>3. \A x : Children(x)' = Children(x) /\ KidsBefore(x)' = KidsBefore(x)
  BY <1>1 DEF Children, KidsBefore
<1>4. \A kinds, x : ~ Heard(kinds, x)
  BY <1>1 DEF Heard
<1>5. erased' = {}
  BY <1>1, <1>4 DEF ErasuresTold
<1>6. "ReplacedValueUses" \notin Erasures
  BY DEF Erasures
<1>7. (\A z \in Object : Children(z) = KidsBefore(z) \ erased)'
  <2>1. \A z \in Object : Children(z)' = KidsBefore(z)' \ erased'
    BY <1>1, <1>3 DEF ErasuresTold
  <2>2. QED
    BY <2>1
<1>8. (\A i, j \in 1..Len(events) : i < j /\ events[i][1] \in Erasures
                                   => events[j][2] \notin KidsBefore(events[i][2]))'
  BY <1>2, <1>6
<1>9. QED
  BY <1>2, <1>5, <1>6, <1>7, <1>8 DEF ErasuresTold

\* Two notifications at once.
LEMMA TwoHeard ==
    ASSUME HistoryOK, NEW e \in EventSet, NEW f \in EventSet, events' = Append(Append(events, e), f)
    PROVE  /\ \A kinds, x : Heard(kinds, x) => Heard(kinds, x)'
           /\ \A kinds : (e[1] \in kinds => Heard(kinds, e[2])') /\ (f[1] \in kinds => Heard(kinds, f[2])')
           /\ \A i \in 1..Len(events') : (i \in 1..Len(events) /\ events'[i] = events[i]) \/ events'[i] \in {e, f}
<1> DEFINE n == Len(events)
<1>1. /\ n \in Nat /\ Len(events') = n + 2 /\ \A i \in 1..n : events'[i] = events[i]
      /\ events'[n + 1] = e /\ events'[n + 2] = f
  <2> DEFINE t == Append(events, e)
  <2>1. t \in Seq(EventSet) /\ Len(t) = n + 1 /\ (\A i \in 1..n : t[i] = events[i]) /\ t[n + 1] = e /\ n \in Nat
    BY DEF HistoryOK
  <2>2. events' = Append(t, f)
    OBVIOUS
  <2> HIDE DEF t
  <2>3. Len(events') = n + 2 /\ (\A i \in 1..(n + 1) : events'[i] = t[i]) /\ events'[n + 2] = f
    BY <2>1, <2>2
  <2>4. \A i \in 1..n : i \in 1..(n + 1)
    BY <2>1
  <2>5. n + 1 \in 1..(n + 1)
    BY <2>1
  <2> HIDE DEF n
  <2>6. QED
    BY <2>1, <2>3, <2>4, <2>5
<1> HIDE DEF n
<1>2. (\A i \in 1..n : i \in 1..Len(events')) /\ n + 1 \in 1..Len(events') /\ n + 2 \in 1..Len(events')
  BY <1>1
<1>3. \A i \in 1..Len(events') : i \in 1..n \/ i = n + 1 \/ i = n + 2
  BY <1>1
<1>4. \A kinds, x : Heard(kinds, x) => Heard(kinds, x)'
  BY <1>1, <1>2 DEF Heard, n
<1>5. \A kinds : (e[1] \in kinds => Heard(kinds, e[2])') /\ (f[1] \in kinds => Heard(kinds, f[2])')
  BY <1>1, <1>2 DEF Heard
<1>6. QED
  BY <1>1, <1>3, <1>4, <1>5 DEF n

\* What a change of the lists must be, to be followed.
LEMMA MovesFollowed ==
    ASSUME MovesTold, UNCHANGED <<before, erased>>,
           \A kinds, x : Heard(kinds, x) => Heard(kinds, x)',
           \A i \in 1..Len(events') : events'[i][1] \notin Erasures,
           \A b \in Block : \A o \in Elems(ops'[b]) : o \in Elems(ops[b]) \/ Heard({"InsertedOperation"}, o)',
           \A b \in Block : \A o \in Elems(ops[b]) : o \in Elems(ops'[b]) \/ Heard({"UnlinkedOperation"}, o)',
           \A r \in Region : \A b \in Elems(blocks'[r]) : b \in Elems(blocks[r]) \/ Heard({"InsertedBlock"}, b)'
    PROVE  MovesTold'
<1>1. ASSUME NEW b \in Block, NEW o \in Elems(ops'[b]) PROVE o \in Elems(before'.ops[b]) \/ Heard({"InsertedOperation"}, o)'
  BY DEF MovesTold
<1>2. ASSUME NEW b \in Block, NEW o \in Elems(before'.ops[b]) PROVE o \in Elems(ops'[b]) \/ Heard({"UnlinkedOperation"}, o)'
  BY DEF MovesTold
<1>3. ASSUME NEW r \in Region, NEW b \in Elems(blocks'[r]) PROVE b \in Elems(before'.blocks[r]) \/ Heard({"InsertedBlock"}, b)'
  BY DEF MovesTold
<1>4. (/\ erased = {}
       /\ \A b \in Block : /\ \A o \in Elems(ops[b]) : o \in Elems(before.ops[b]) \/ Heard({"InsertedOperation"}, o)
                           /\ \A o \in Elems(before.ops[b]) : o \in Elems(ops[b]) \/ Heard({"UnlinkedOperation"}, o)
       /\ \A r \in Region : \A b \in Elems(blocks[r]) : b \in Elems(before.blocks[r]) \/ Heard({"InsertedBlock"}, b))'
  <2>1. erased' = {}
    BY DEF MovesTold
  <2>2. \A b \in Block : /\ \A o \in Elems(ops'[b]) : o \in Elems(before'.ops[b]) \/ Heard({"InsertedOperation"}, o)'
                         /\ \A o \in Elems(before'.ops[b]) : o \in Elems(ops'[b]) \/ Heard({"UnlinkedOperation"}, o)'
    BY <1>1, <1>2
  <2>3. \A r \in Region : \A b \in Elems(blocks'[r]) : b \in Elems(before'.blocks[r]) \/ Heard({"InsertedBlock"}, b)'
    BY <1>3
  <2>4. QED
    BY <2>1, <2>2, <2>3 DEF Elems
<1>5. QED
  BY <1>4 DEF MovesTold

\* Where something is put.
LEMMA PutPlace ==
    ASSUME IInv
    PROVE  /\ \A o, pt : OpPut(o, pt) =>
                 /\ Container(pt) \in Block /\ Place(pt, ops[Container(pt)]) \in 1..(Len(ops[Container(pt)]) + 1)
                 /\ \A b \in Block : o \notin Elems(ops[b])
           /\ \A b, pt : BlockPut(b, pt) =>
                 /\ Container(pt) \in Region
                 /\ Place(pt, blocks[Container(pt)]) \in 1..(Len(blocks[Container(pt)]) + 1)
                 /\ \A r \in Region : b \notin Elems(blocks[r])
<1>1. ASSUME NEW o, NEW pt, OpPut(o, pt)
      PROVE  /\ Container(pt) \in Block /\ Place(pt, ops[Container(pt)]) \in 1..(Len(ops[Container(pt)]) + 1)
             /\ \A b \in Block : o \notin Elems(ops[b])
  <2>1. pt \in OpPoint /\ Usable(pt) /\ ~ OpLinked(o)
    BY <1>1 DEF OpPut
  <2>2. Container(pt) \in Block /\ Place(pt, ops[Container(pt)]) \in 1..(Len(ops[Container(pt)]) + 1)
    BY <2>1, OpPlace DEF IInv
  <2>3. QED
    BY <2>1, <2>2 DEF OpLinked
<1>2. ASSUME NEW b, NEW pt, BlockPut(b, pt)
      PROVE  /\ Container(pt) \in Region
             /\ Place(pt, blocks[Container(pt)]) \in 1..(Len(blocks[Container(pt)]) + 1)
             /\ \A r \in Region : b \notin Elems(blocks[r])
  <2>1. pt \in BlockPoint /\ Usable(pt) /\ ~ BlockLinked(b)
    BY <1>2 DEF BlockPut
  <2>2. Container(pt) \in Region /\ Place(pt, blocks[Container(pt)]) \in 1..(Len(blocks[Container(pt)]) + 1)
    BY <2>1, BlockPlace
  <2>3. QED
    BY <2>1, <2>2 DEF BlockLinked
<1>3. QED
  BY <1>1, <1>2

LEMMA ToldMoved ==
    ASSUME IInv, HistoryOK, MovesTold, UNCHANGED <<before, erased>>, SomethingMoved
    PROVE  MovesTold'
<1>1. ListsOK(ops, Block, Op) /\ ListsOK(blocks, Region, Block)
  BY ListsSound
<1>2. ASSUME NEW e, Tell(e), e[1] \notin Erasures
      PROVE  /\ \A kinds, x : Heard(kinds, x) => Heard(kinds, x)'
             /\ \A i \in 1..Len(events') : events'[i][1] \notin Erasures
             /\ \A kinds : e[1] \in kinds => Heard(kinds, e[2])'
  <2>1. /\ Len(events) \in Nat /\ Len(events') = Len(events) + 1
        /\ \A i \in 1..Len(events) : events'[i] = events[i]
        /\ events'[Len(events) + 1] = e
    BY <1>2, TellLemma
  <2>2. \A i \in 1..Len(events') : i \in 1..Len(events) \/ i = Len(events) + 1
    BY <2>1
  <2>3. \A i \in 1..Len(events') : events'[i][1] \notin Erasures
    BY <1>2, <2>1, <2>2 DEF MovesTold
  <2>4. QED
    BY <1>2, <2>3, StillHeard
<1>3. ASSUME NEW o, OpTaken(o) PROVE MovesTold'
  <2> DEFINE b == BlockOf(o)
             e == <<"UnlinkedOperation", o, RecordedPoint(o)>>
  <2>1. /\ b \in Block /\ IndexIn(ops[b], o) \in 1..Len(ops[b]) /\ ops[b][IndexIn(ops[b], o)] = o
        /\ ops' = TakeOut(ops, b, IndexIn(ops[b], o)) /\ blocks' = blocks /\ Tell(e)
    BY <1>3, Found DEF OpTaken
  <2>2. \A c \in Block : Elems(ops'[c]) = Elems(ops[c]) \ {o}
    <3> DEFINE i == IndexIn(ops[b], o)
    <3>1. b \in Block /\ i \in 1..Len(ops[b]) /\ ops[b][i] = o /\ ops' = TakeOut(ops, b, i)
      BY <2>1
    <3> HIDE DEF b, i
    <3>2. QED
      <4>1. TookOut(ops, Block, Op, b, i, ops')
        BY <1>1, <3>1, TakeOutLemma
      <4>2. QED
        BY <3>1, <4>1 DEF TookOut
  <2>3. e[1] = "UnlinkedOperation" /\ e[2] = o
    OBVIOUS
  <2> HIDE DEF e
  <2>4. Heard({"UnlinkedOperation"}, o)' /\ (\A kinds, x : Heard(kinds, x) => Heard(kinds, x)')
        /\ \A i \in 1..Len(events') : events'[i][1] \notin Erasures
    BY <1>2, <2>1, <2>3 DEF Erasures
  <2>5. QED
    BY <2>1, <2>2, <2>4, MovesFollowed
<1>4. ASSUME NEW x, BlockTaken(x) PROVE MovesTold'
  <2> DEFINE r == RegionOf(x)
             e == <<"UnlinkedBlock", x, RecordedBlockPoint(x)>>
  <2>1. /\ r \in Region /\ IndexIn(blocks[r], x) \in 1..Len(blocks[r]) /\ blocks[r][IndexIn(blocks[r], x)] = x
        /\ blocks' = TakeOut(blocks, r, IndexIn(blocks[r], x)) /\ ops' = ops /\ Tell(e)
    BY <1>4, Found DEF BlockTaken
  <2>2. \A c \in Region : Elems(blocks'[c]) = Elems(blocks[c]) \ {x}
    <3> DEFINE i == IndexIn(blocks[r], x)
    <3>1. r \in Region /\ i \in 1..Len(blocks[r]) /\ blocks[r][i] = x /\ blocks' = TakeOut(blocks, r, i)
      BY <2>1
    <3> HIDE DEF r, i
    <3>2. QED
      <4>1. TookOut(blocks, Region, Block, r, i, blocks')
        BY <1>1, <3>1, TakeOutLemma
      <4>2. QED
        BY <3>1, <4>1 DEF TookOut
  <2>3. e[1] = "UnlinkedBlock" /\ e[2] = x
    OBVIOUS
  <2> HIDE DEF e
  <2>4. (\A kinds, y : Heard(kinds, y) => Heard(kinds, y)') /\ \A i \in 1..Len(events') : events'[i][1] \notin Erasures
    BY <1>2, <2>1, <2>3 DEF Erasures
  <2>5. QED
    BY <2>1, <2>2, <2>4, MovesFollowed
<1>5. ASSUME NEW o, NEW pt, OpPut(o, pt) PROVE MovesTold'
  <2> DEFINE b == Container(pt)
             e == <<"InsertedOperation", o>>
  <2>1. /\ o \in Op /\ ops' = PutInto(ops, b, Place(pt, ops[b]), o) /\ blocks' = blocks /\ Tell(e)
    BY <1>5 DEF OpPut
  <2>2. b \in Block /\ Place(pt, ops[b]) \in 1..(Len(ops[b]) + 1) /\ \A c \in Block : o \notin Elems(ops[c])
    BY <1>5, PutPlace
  <2>3. Elems(ops'[b]) = Elems(ops[b]) \cup {o} /\ \A c \in Block : c # b => ops'[c] = ops[c]
    <3> DEFINE i == Place(pt, ops[b])
    <3>1. b \in Block /\ i \in 1..(Len(ops[b]) + 1) /\ (\A c \in Block : o \notin Elems(ops[c])) /\ ops' = PutInto(ops, b, i, o)
      BY <2>1, <2>2
    <3>2. o \in Op
      BY <2>1
    <3> HIDE DEF b, i
    <3>3. QED
      <4>1. PutIn(ops, Block, Op, b, i, o, ops')
        BY <1>1, <3>1, <3>2, PutIntoLemma
      <4>2. QED
        BY <4>1 DEF PutIn
  <2>4. e[1] = "InsertedOperation" /\ e[2] = o
    OBVIOUS
  <2> HIDE DEF e, b
  <2>5. Heard({"InsertedOperation"}, o)' /\ (\A kinds, x : Heard(kinds, x) => Heard(kinds, x)')
        /\ \A i \in 1..Len(events') : events'[i][1] \notin Erasures
    BY <1>2, <2>1, <2>4 DEF Erasures
  <2>6. \A c \in Block : Elems(ops'[c]) = Elems(ops[c]) \cup (IF c = b THEN {o} ELSE {})
    BY <2>3
  <2>7. QED
    BY <2>1, <2>5, <2>6, MovesFollowed
<1>6. ASSUME NEW x, NEW pt, BlockPut(x, pt) PROVE MovesTold'
  <2> DEFINE r == Container(pt)
             e == <<"InsertedBlock", x>>
  <2>1. /\ x \in Block /\ blocks' = PutInto(blocks, r, Place(pt, blocks[r]), x) /\ ops' = ops /\ Tell(e)
    BY <1>6 DEF BlockPut
  <2>2. r \in Region /\ Place(pt, blocks[r]) \in 1..(Len(blocks[r]) + 1) /\ \A c \in Region : x \notin Elems(blocks[c])
    BY <1>6, PutPlace
  <2>3. Elems(blocks'[r]) = Elems(blocks[r]) \cup {x} /\ \A c \in Region : c # r => blocks'[c] = blocks[c]
    <3> DEFINE i == Place(pt, blocks[r])
    <3>1. r \in Region /\ i \in 1..(Len(blocks[r]) + 1) /\ (\A c \in Region : x \notin Elems(blocks[c]))
          /\ blocks' = PutInto(blocks, r, i, x)
      BY <2>1, <2>2
    <3>2. x \in Block
      BY <2>1
    <3> HIDE DEF r, i
    <3>3. QED
      <4>1. PutIn(blocks, Region, Block, r, i, x, blocks')
        BY <1>1, <3>1, <3>2, PutIntoLemma
      <4>2. QED
        BY <4>1 DEF PutIn
  <2>4. e[1] = "InsertedBlock" /\ e[2] = x
    OBVIOUS
  <2> HIDE DEF e, r
  <2>5. Heard({"InsertedBlock"}, x)' /\ (\A kinds, y : Heard(kinds, y) => Heard(kinds, y)')
        /\ \A i \in 1..Len(events') : events'[i][1] \notin Erasures
    BY <1>2, <2>1, <2>4 DEF Erasures
  <2>6. \A c \in Region : Elems(blocks'[c]) = Elems(blocks[c]) \cup (IF c = r THEN {x} ELSE {})
    BY <2>3
  <2>7. QED
    BY <2>1, <2>5, <2>6, MovesFollowed
<1>7. ASSUME NEW o, NEW n, OpMoved(o, n) PROVE MovesTold'
  <2> DEFINE b == BlockOf(o)
             e == <<"UnlinkedOperation", o, RecordedPoint(o)>>
             f == <<"InsertedOperation", o>>
             new == TakeOut(ops, b, IndexIn(ops[b], o))
  <2>1. /\ b \in Block /\ IndexIn(ops[b], o) \in 1..Len(ops[b]) /\ ops[b][IndexIn(ops[b], o)] = o
        /\ o \in Op /\ n \in Block /\ n # b
        /\ ops' = PutInto(new, n, Len(ops[n]) + 1, o) /\ blocks' = blocks
        /\ e \in EventSet /\ f \in EventSet /\ events' = Append(Append(events, e), f)
    BY <1>7, Found DEF OpMoved
  <2>2. /\ ListsOK(new, Block, Op) /\ \A c \in Block : Elems(new[c]) = Elems(ops[c]) \ {o}
        /\ new[n] = ops[n]
    <3> DEFINE i == IndexIn(ops[b], o)
    <3>1. b \in Block /\ i \in 1..Len(ops[b]) /\ ops[b][i] = o /\ new = TakeOut(ops, b, i) /\ n \in Block /\ n # b
      BY <2>1
    <3> HIDE DEF b, i, new
    <3>2. QED
      <4>1. TookOut(ops, Block, Op, b, i, new)
        BY <1>1, <3>1, TakeOutLemma
      <4>2. QED
        BY <3>1, <4>1 DEF TookOut
  <2>3. Len(ops[n]) + 1 \in 1..(Len(new[n]) + 1)
    <3>1. Len(ops[n]) \in Nat
      BY <1>1, <2>1 DEF ListsOK
    <3> HIDE DEF new
    <3>2. QED
      BY <2>2, <3>1
  <2>4. e[1] = "UnlinkedOperation" /\ e[2] = o /\ f[1] = "InsertedOperation" /\ f[2] = o
    OBVIOUS
  <2> HIDE DEF e, f, b, new
  <2>5. Elems(ops'[n]) = Elems(new[n]) \cup {o} /\ \A c \in Block : c # n => ops'[c] = new[c]
    <3> DEFINE i == Len(ops[n]) + 1
    <3>1. n \in Block /\ i \in 1..(Len(new[n]) + 1) /\ ops' = PutInto(new, n, i, o)
      BY <2>1, <2>3
    <3>2. ListsOK(new, Block, Op) /\ o \in Op /\ \A c \in Block : o \notin Elems(new[c])
      BY <2>1, <2>2
    <3> HIDE DEF i
    <3>3. QED
      <4>1. PutIn(new, Block, Op, n, i, o, ops')
        BY <3>1, <3>2, PutIntoLemma
      <4>2. QED
        BY <4>1 DEF PutIn
  <2>6. /\ Heard({"InsertedOperation"}, o)' /\ Heard({"UnlinkedOperation"}, o)'
        /\ (\A kinds, x : Heard(kinds, x) => Heard(kinds, x)')
    <3>1. HistoryOK /\ e \in EventSet /\ f \in EventSet /\ events' = Append(Append(events, e), f)
      BY <2>1
    <3>2. \A kinds, x : Heard(kinds, x) => Heard(kinds, x)'
      BY <3>1, TwoHeard
    <3>3. \A g \in EventSet, h \in EventSet : events' = Append(Append(events, g), h)
              => \A kinds : (g[1] \in kinds => Heard(kinds, g[2])') /\ (h[1] \in kinds => Heard(kinds, h[2])')
      BY <3>1, TwoHeard
    <3>4. Heard({"InsertedOperation"}, o)' /\ Heard({"UnlinkedOperation"}, o)'
      BY <2>4, <3>1, <3>3
    <3>5. QED
      BY <3>2, <3>4
  <2>7. \A i \in 1..Len(events') : events'[i][1] \notin Erasures
    <3>1. \A i \in 1..Len(events') : (i \in 1..Len(events) /\ events'[i] = events[i]) \/ events'[i] \in {e, f}
      BY <2>1, TwoHeard
    <3>2. QED
      BY <2>4, <3>1 DEF Erasures, MovesTold
  <2>8. \A c \in Block : /\ Elems(ops'[c]) \subseteq Elems(ops[c]) \cup {o}
                         /\ Elems(ops[c]) \subseteq Elems(ops'[c]) \cup {o}
    BY <2>2, <2>5
  <2>9. QED
    BY <2>1, <2>6, <2>7, <2>8, MovesFollowed
<1>8. QED
  BY <1>3, <1>4, <1>5, <1>6, <1>7 DEF SomethingMoved

LEMMA ToldStep == CallInv /\ HistoryOK /\ ToldInv /\ [RwNext]_allVars => ToldInv'
<1> SUFFICES ASSUME CallInv, HistoryOK, ToldInv, [RwNext]_allVars PROVE ToldInv'
  OBVIOUS
<1>1. CASE UNCHANGED allVars
  BY <1>1, ToldFrame DEF allVars, NothingTold, SameIR
<1>2. CASE Calls
  BY <1>2, ToldBegins
<1>3. CASE Steps
  <2>1. /\ UNCHANGED <<call, before>> /\ call # <<>>
        /\ \/ NothingTold
           \/ call[1] \in EraseCalls /\ \E x : UsesReplaced(x) \/ Freed(x)
           \/ call[1] \notin EraseCalls /\ erased' = erased /\ SomethingMoved
    BY <1>3, StepChange
  <2>2. CASE NothingTold
    BY <2>1, <2>2, ToldFrame
  <2>3. CASE call[1] \in EraseCalls /\ \E x : UsesReplaced(x) \/ Freed(x)
    <3>1. ErasuresTold'
      BY <2>1, <2>3, ToldReplaced, ToldFreed DEF ToldInv, CallInv, RwInv, IInv
    <3>2. QED
      BY <2>1, <2>3, <3>1 DEF ToldInv
  <2>4. CASE call[1] \notin EraseCalls /\ erased' = erased /\ SomethingMoved
    <3>1. MovesTold'
      BY <2>1, <2>4, ToldMoved DEF ToldInv, CallInv, RwInv
    <3>2. QED
      BY <2>1, <2>4, <3>1 DEF ToldInv
  <2>5. QED
    BY <2>1, <2>2, <2>3, <2>4
<1>4. QED
  BY <1>1, <1>2, <1>3 DEF RwNext

LEMMA ToldIsAll ==
    ASSUME CallInv, HistoryOK, ToldInv
    PROVE  ListenerToldAll
<1> SUFFICES ASSUME Returned PROVE ListenerToldAll
  BY DEF ListenerToldAll
<1>1. call # <<>>
  BY DEF Returned
<1>2. \A kind, x : x \in Told(kind) <=> Heard({kind}, x)
  BY DEF Told, Heard
<1>3. \A x : Heard(Erasures, x) <=> x \in Told("ErasedOperation") \cup Told("ErasedBlock") \cup Told("ErasedRegion")
  <2>1. \A x : Heard(Erasures, x) <=> Heard({"ErasedOperation"}, x) \/ Heard({"ErasedBlock"}, x) \/ Heard({"ErasedRegion"}, x)
    BY DEF Heard, Erasures
  <2>2. QED
    BY <1>2, <2>1
<1>4. \A x : ChildrenBefore(x) \subseteq KidsBefore(x)
  BY DEF ChildrenBefore, KidsBefore
<1>5. CASE call[1] \in EraseCalls
  <2>1. ErasuresTold
    BY <1>1, <1>5 DEF ToldInv
  <2>2. \A x : Heard(Erasures, x) <=> x \in erased
    BY <2>1 DEF ErasuresTold, Heard
  <2>3. Told("ErasedOperation") \cup Told("ErasedBlock") \cup Told("ErasedRegion") = erased
    BY <1>3, <2>2
  <2>4. \A i, j \in 1..Len(events) : i # j /\ events[i][2] \in erased /\ events[i][2] = events[j][2]
                                       => events[i][1] # events[j][1]
    BY <2>1 DEF ErasuresTold
  <2>5. \A i, j \in 1..Len(events) : i < j /\ events[i][1] \in Erasures
                                       => events[j][2] \notin ChildrenBefore(events[i][2])
    BY <1>4, <2>1 DEF ErasuresTold
  <2>6. /\ \A b \in Block : Elems(ops[b]) = Elems(before.ops[b]) \ erased
        /\ \A r \in Region : Elems(blocks[r]) = Elems(before.blocks[r]) \ erased
    <3>1. \A b \in Block : b \in Object /\ Children(b) = Elems(ops[b]) /\ KidsBefore(b) = Elems(before.ops[b])
      BY IRAssumption DEF Object, Children, KidsBefore
    <3>2. \A r \in Region : r \in Object /\ Children(r) = Elems(blocks[r]) /\ KidsBefore(r) = Elems(before.blocks[r])
      BY IRAssumption DEF Object, Children, KidsBefore
    <3>3. QED
      BY <2>1, <3>1, <3>2 DEF ErasuresTold
  <2>7. \A x \in live : x \notin erased
    BY DEF CallInv, RwInv, IInv, IRTypeOK
  <2>8. QED
    BY <2>3, <2>4, <2>5, <2>6, <2>7 DEF ListenerToldAll
<1>6. CASE call[1] \notin EraseCalls
  <2>1. MovesTold
    BY <1>1, <1>6 DEF ToldInv
  <2>2. Told("ErasedOperation") \cup Told("ErasedBlock") \cup Told("ErasedRegion") = erased
    <3>1. \A x : ~ Heard(Erasures, x)
      BY <2>1 DEF MovesTold, Heard
    <3>2. erased = {}
      BY <2>1 DEF MovesTold
    <3>3. QED
      BY <1>3, <3>1, <3>2
  <2>3. QED
    BY <1>2, <2>1, <2>2 DEF MovesTold, ListenerToldAll
<1>7. QED
  BY <1>5, <1>6

\* The listener of a call that returns has been told of all that happened, in an order it
\* can follow, and a rewriter that says it was not modified has changed nothing.
THEOREM ListenerIsTold == RwSpec => []AllTold
<1>1. RwInit => ToldInv
  BY DEF RwInit, ToldInv
<1>2. RwSpec => []ToldInv
  BY <1>1, ToldStep, CallInvariant, HistoryInvariant, PTL DEF RwSpec
<1>3. CallInv /\ HistoryOK /\ ToldInv /\ ModifiedInv => AllTold
  BY ToldIsAll DEF AllTold, ModifiedIsHonest, ModifiedInv
<1>4. QED
  BY <1>2, <1>3, CallInvariant, HistoryInvariant, ModifiedInvariant, PTL

(***************************************************************************)
(* Undoing what the Recorder kept.                                         *)
(***************************************************************************)

\* The recursive definition of the lists after the last i events of es are undone.
Undoing(ir, es, n, G) == [i \in 0..n |-> IF i = 0 THEN ir ELSE UndoEvent(G[i - 1], es[Len(es) - i + 1])]

LEMMA UndoingExists ==
    ASSUME NEW ir, NEW es, NEW n \in Nat
    PROVE  \E G : G = Undoing(ir, es, n, G)
<1> DEFINE Ok(k) == \E F : F = Undoing(ir, es, k, F)
           P == {k \in 0..n : Ok(k)}
<1>1. 0 \in P
  <2> DEFINE F == [i \in 0..0 |-> ir]
  <2>1. F = Undoing(ir, es, 0, F)
    BY DEF Undoing
  <2>2. Ok(0)
    BY <2>1, Zenon
  <2> HIDE DEF Ok
  <2>3. QED
    BY <2>2
<1>2. ASSUME NEW k \in 0..n, k < n, k \in P PROVE k + 1 \in P
  <2>0. Ok(k)
    <3> HIDE DEF Ok
    <3>1. QED
      BY <1>2
  <2>1. PICK F : F = Undoing(ir, es, k, F)
    BY <2>0
  <2> DEFINE H == [i \in 0..(k + 1) |-> IF i <= k THEN F[i] ELSE UndoEvent(F[i - 1], es[Len(es) - i + 1])]
  <2>2. \A i \in 0..k : H[i] = F[i]
    OBVIOUS
  <2>3. ASSUME NEW i \in 0..(k + 1)
        PROVE  H[i] = IF i = 0 THEN ir ELSE UndoEvent(H[i - 1], es[Len(es) - i + 1])
    <3>1. CASE i <= k
      <4>1. H[i] = F[i] /\ F[i] = Undoing(ir, es, k, F)[i]
        BY <2>1, <2>2, <3>1
      <4>2. i # 0 => H[i - 1] = F[i - 1]
        BY <2>2, <3>1
      <4>3. Undoing(ir, es, k, F)[i] = IF i = 0 THEN ir ELSE UndoEvent(F[i - 1], es[Len(es) - i + 1])
        BY <3>1 DEF Undoing
      <4> HIDE DEF H
      <4>4. QED
        BY <4>1, <4>2, <4>3
    <3>2. CASE i = k + 1
      <4>1. H[i - 1] = F[i - 1]
        BY <2>2, <3>2
      <4>2. H[i] = UndoEvent(F[i - 1], es[Len(es) - i + 1]) /\ i # 0
        BY <3>2
      <4> HIDE DEF H
      <4>3. QED
        BY <4>1, <4>2
    <3>3. QED
      BY <3>1, <3>2
  <2>4. H = Undoing(ir, es, k + 1, H)
    <3>1. DOMAIN H = 0..(k + 1) /\ H = [i \in 0..(k + 1) |-> H[i]]
      OBVIOUS
    <3> HIDE DEF H
    <3>2. QED
      BY <2>3, <3>1 DEF Undoing
  <2>5. Ok(k + 1)
    <3> HIDE DEF H
    <3>1. QED
      BY <2>4, Zenon
  <2> HIDE DEF Ok
  <2>6. QED
    BY <1>2, <2>5
<1>3. 0..n \subseteq P
  <2> HIDE DEF P
  <2>1. QED
    BY <1>1, <1>2, UpTo
<1>4. Ok(n)
  <2> HIDE DEF Ok
  <2>1. QED
    BY <1>3
<1>5. QED
  BY <1>4

UndoneBy(ir, es, G) ==
    /\ Undone(ir, es) = G[Len(es)] /\ G[0] = ir
    /\ \A i \in 0..Len(es) : i # 0 => G[i] = UndoEvent(G[i - 1], es[Len(es) - i + 1])

LEMMA UndoneSteps ==
    ASSUME NEW ir, NEW S, NEW es \in Seq(S)
    PROVE  \E G : UndoneBy(ir, es, G)
<1> DEFINE P(G) == G = Undoing(ir, es, Len(es), G)
           F == CHOOSE G : P(G)
<1>0. Len(es) \in Nat
  OBVIOUS
<1>1. P(F)
  <2>1. \E G : P(G)
    BY <1>0, UndoingExists
  <2> HIDE DEF P
  <2>2. QED
    BY <2>1, Zenon
<1>2. F = Undoing(ir, es, Len(es), F)
  BY <1>1, Zenon
<1>3. Undone(ir, es) = F[Len(es)]
  BY Zenon DEF Undone, Undoing
<1> HIDE DEF F
<1>4. \A i \in 0..Len(es) : F[i] = IF i = 0 THEN ir ELSE UndoEvent(F[i - 1], es[Len(es) - i + 1])
  <2> DEFINE G == Undoing(ir, es, Len(es), F)
  <2>1. \A i \in 0..Len(es) : G[i] = IF i = 0 THEN ir ELSE UndoEvent(F[i - 1], es[Len(es) - i + 1])
    BY DEF Undoing
  <2>2. F = G
    BY <1>2
  <2> HIDE DEF G
  <2>3. QED
    BY <2>1, <2>2
<1>5. F[0] = ir /\ \A i \in 0..Len(es) : i # 0 => F[i] = UndoEvent(F[i - 1], es[Len(es) - i + 1])
  BY <1>0, <1>4
<1>6. QED
  BY <1>3, <1>5 DEF UndoneBy

\* The last event is undone first.
LEMMA UndoneAppend ==
    ASSUME NEW ir, NEW S, NEW es \in Seq(S), NEW e \in S
    PROVE  Undone(ir, Append(es, e)) = Undone(UndoEvent(ir, e), es)
<1> DEFINE n == Len(es)
           t == Append(es, e)
<1>1. n \in Nat /\ t \in Seq(S) /\ Len(t) = n + 1 /\ (\A i \in 1..n : t[i] = es[i]) /\ t[n + 1] = e
  OBVIOUS
<1> HIDE DEF n, t
<1>2. PICK F : /\ Undone(ir, t) = F[n + 1] /\ F[0] = ir
               /\ \A i \in 0..(n + 1) : i # 0 => F[i] = UndoEvent(F[i - 1], t[(n + 1) - i + 1])
  <2>1. \E G : UndoneBy(ir, t, G)
    BY <1>1, UndoneSteps
  <2>2. QED
    BY <1>1, <2>1 DEF UndoneBy
<1>3. PICK G : /\ Undone(UndoEvent(ir, e), es) = G[n] /\ G[0] = UndoEvent(ir, e)
               /\ \A i \in 0..n : i # 0 => G[i] = UndoEvent(G[i - 1], es[n - i + 1])
  <2>1. \E G : UndoneBy(UndoEvent(ir, e), es, G)
    BY UndoneSteps
  <2>2. QED
    BY <2>1 DEF UndoneBy, n
<1> DEFINE P == {i \in 0..n : F[i + 1] = G[i]}
<1>4. 0 \in P
  <2>1. F[1] = UndoEvent(F[0], t[n + 1])
    <3>1. 1 \in 0..(n + 1) /\ 1 # 0 /\ (n + 1) - 1 + 1 = n + 1 /\ 1 - 1 = 0
      BY <1>1
    <3>2. QED
      BY <1>2, <3>1
  <2>2. QED
    BY <1>1, <1>2, <1>3, <2>1
<1>5. ASSUME NEW i \in 0..n, i < n, i \in P PROVE i + 1 \in P
  <2>1. /\ i + 2 \in 0..(n + 1) /\ i + 2 # 0 /\ (i + 2) - 1 = i + 1 /\ (n + 1) - (i + 2) + 1 = n - i /\ (i + 1) + 1 = i + 2
        /\ i + 1 \in 0..n /\ i + 1 # 0 /\ (i + 1) - 1 = i /\ n - (i + 1) + 1 = n - i /\ n - i \in 1..n
    BY <1>1, <1>5
  <2>2. F[i + 2] = UndoEvent(F[i + 1], t[n - i])
    BY <1>2, <2>1
  <2>3. G[i + 1] = UndoEvent(G[i], es[n - i])
    BY <1>3, <2>1
  <2>4. F[i + 1] = G[i] /\ t[n - i] = es[n - i]
    BY <1>1, <1>5, <2>1
  <2>5. F[(i + 1) + 1] = G[i + 1]
    BY <2>1, <2>2, <2>3, <2>4
  <2>6. QED
    BY <2>1, <2>5
<1>6. 0..n \subseteq P
  <2> HIDE DEF P
  <2>1. QED
    BY <1>1, <1>4, <1>5, UpTo
<1>7. F[n + 1] = G[n]
  BY <1>1, <1>6
<1>8. QED
  BY <1>2, <1>3, <1>7 DEF t

LEMMA UndoEventCases ==
    ASSUME NEW A, NEW B, NEW x, NEW pt
    PROVE  /\ UndoEvent([ops |-> A, blocks |-> B], <<"InsertedOperation", x>>) = [ops |-> Without(A, x), blocks |-> B]
           /\ UndoEvent([ops |-> A, blocks |-> B], <<"UnlinkedOperation", x, pt>>) = [ops |-> With(A, pt, x), blocks |-> B]
           /\ UndoEvent([ops |-> A, blocks |-> B], <<"InsertedBlock", x>>) = [ops |-> A, blocks |-> Without(B, x)]
           /\ UndoEvent([ops |-> A, blocks |-> B], <<"UnlinkedBlock", x, pt>>) = [ops |-> A, blocks |-> With(B, pt, x)]
           /\ UndoEvent([ops |-> A, blocks |-> B], <<"ReplacedValueUses", x>>) = [ops |-> A, blocks |-> B]
<1>1. UndoEvent([ops |-> A, blocks |-> B], <<"InsertedOperation", x>>) = [ops |-> Without(A, x), blocks |-> B]
  BY DEF UndoEvent
<1>2. UndoEvent([ops |-> A, blocks |-> B], <<"UnlinkedOperation", x, pt>>) = [ops |-> With(A, pt, x), blocks |-> B]
  BY DEF UndoEvent
<1>3. UndoEvent([ops |-> A, blocks |-> B], <<"InsertedBlock", x>>) = [ops |-> A, blocks |-> Without(B, x)]
  BY DEF UndoEvent
<1>4. UndoEvent([ops |-> A, blocks |-> B], <<"UnlinkedBlock", x, pt>>) = [ops |-> A, blocks |-> With(B, pt, x)]
  BY DEF UndoEvent
<1>5. UndoEvent([ops |-> A, blocks |-> B], <<"ReplacedValueUses", x>>) = [ops |-> A, blocks |-> B]
  BY DEF UndoEvent
<1>6. QED
  BY <1>1, <1>2, <1>3, <1>4, <1>5

\* The lists of a record of lists before the undone events.
Lists == [ops |-> ops, blocks |-> blocks]
UndoInv == erased = {} => Undone(Lists, events) = [ops |-> before.ops, blocks |-> before.blocks]

\* The point that the Recorder keeps of the i-th element of the list s of k.
KeptPoint(pt, s, k, i) ==
    \/ i = 1 /\ pt \in {"AtBlockStart", "AtRegionStart"} \X {k}
    \/ i # 1 /\ i = Len(s) /\ pt \in {"AtBlockEnd", "AtRegionEnd"} \X {k}
    \/ i # 1 /\ i # Len(s) /\ pt \in {"AfterOperation", "AfterBlock"} \X {s[i - 1]}
GivenBack(lists, k, i, pt) == With(TakeOut(lists, k, i), pt, lists[k][i]) = lists

LEMMA TakenPoint ==
    ASSUME NEW K, NEW E, NEW lists, ListsOK(lists, K, E), K \cap E = {}, NEW k \in K, NEW i \in 1..Len(lists[k]),
           NEW pt, KeptPoint(pt, lists[k], k, i)
    PROVE  GivenBack(lists, k, i, pt)
<1> DEFINE new == TakeOut(lists, k, i)
<1>0. new = TakeOut(lists, k, i)
  OBVIOUS
<1> HIDE DEF new
<1>1. lists[k] \in Seq(E) /\ Len(lists[k]) \in Nat
  BY DEF ListsOK
<1>2. With(new, pt, lists[k][i]) = lists
  <2>1. CASE i = 1
    <3>1. pt \in {"AtBlockStart", "AtRegionStart"} \X {k}
      BY <2>1 DEF KeptPoint
    <3>2. pt[2] = k /\ Place(pt, new[k]) = 1
      BY <3>1 DEF Place
    <3>3. QED
      BY <1>0, <2>1, <3>2, TakenBack
  <2>2. CASE i # 1 /\ i = Len(lists[k])
    <3>1. pt \in {"AtBlockEnd", "AtRegionEnd"} \X {k}
      BY <2>2 DEF KeptPoint
    <3>2. pt[2] = k /\ Place(pt, new[k]) = Len(new[k]) + 1
      BY <3>1 DEF Place
    <3>3. QED
      BY <1>0, <2>2, <3>2, TakenBack
  <2>3. CASE i # 1 /\ i # Len(lists[k])
    <3>1. pt \in {"AfterOperation", "AfterBlock"} \X {lists[k][i - 1]}
      BY <2>3 DEF KeptPoint
    <3>2. i > 1 /\ i - 1 \in 1..Len(lists[k])
      BY <1>1, <2>3
    <3>3. pt[2] = lists[k][i - 1] /\ pt[2] \in E
      BY <1>1, <3>1, <3>2
    <3>4. Place(pt, new[k]) = IndexIn(new[k], pt[2]) + 1
      BY <3>1 DEF Place
    <3>5. pt[2] \notin K
      BY <3>3
    <3>6. QED
      BY <1>0, <3>2, <3>3, <3>4, <3>5, TakenBack
  <2>4. QED
    BY <2>1, <2>2, <2>3
<1>3. QED
  BY <1>0, <1>2 DEF GivenBack

\* It is such a point.
LEMMA KeptPoints ==
    ASSUME IInv
    PROVE  /\ \A o \in Op : OpLinked(o) => KeptPoint(RecordedPoint(o), ops[BlockOf(o)], BlockOf(o), IndexIn(ops[BlockOf(o)], o))
           /\ \A b \in Block : BlockLinked(b) =>
                 KeptPoint(RecordedBlockPoint(b), blocks[RegionOf(b)], RegionOf(b), IndexIn(blocks[RegionOf(b)], b))
<1>1. ASSUME NEW o PROVE KeptPoint(RecordedPoint(o), ops[BlockOf(o)], BlockOf(o), IndexIn(ops[BlockOf(o)], o))
  <2> DEFINE b == BlockOf(o)
             i == IndexIn(ops[b], o)
             pt == RecordedPoint(o)
  <2>1. pt = CASE i = 1 -> <<"AtBlockStart", b>>
               [] i # 1 /\ i = Len(ops[b]) -> <<"AtBlockEnd", b>>
               [] OTHER -> <<"AfterOperation", ops[b][i - 1]>>
    BY DEF RecordedPoint
  <2> HIDE DEF b, i, pt
  <2>2. KeptPoint(pt, ops[b], b, i)
    BY <2>1 DEF KeptPoint
  <2>3. QED
    BY <2>2 DEF b, i, pt
<1>2. ASSUME NEW x PROVE KeptPoint(RecordedBlockPoint(x), blocks[RegionOf(x)], RegionOf(x), IndexIn(blocks[RegionOf(x)], x))
  <2> DEFINE b == RegionOf(x)
             i == IndexIn(blocks[b], x)
             pt == RecordedBlockPoint(x)
  <2>1. pt = CASE i = 1 -> <<"AtRegionStart", b>>
               [] i # 1 /\ i = Len(blocks[b]) -> <<"AtRegionEnd", b>>
               [] OTHER -> <<"AfterBlock", blocks[b][i - 1]>>
    BY DEF RecordedBlockPoint
  <2> HIDE DEF b, i, pt
  <2>2. KeptPoint(pt, blocks[b], b, i)
    BY <2>1 DEF KeptPoint
  <2>3. QED
    BY <2>2 DEF b, i, pt
<1>3. QED
  BY <1>1, <1>2

LEMMA OneUndone ==
    ASSUME HistoryOK, NEW e \in EventSet, events' = Append(events, e), UndoEvent(Lists', e) = Lists
    PROVE  Undone(Lists', events') = Undone(Lists, events)
<1> DEFINE ir == Lists'
           old == Lists
<1>1. UndoEvent(ir, e) = old /\ events \in Seq(EventSet)
  BY DEF HistoryOK
<1> HIDE DEF ir, old
<1>2. Undone(ir, Append(events, e)) = Undone(UndoEvent(ir, e), events)
  BY <1>1, UndoneAppend
<1>3. Undone(ir, events') = Undone(old, events)
  BY <1>1, <1>2
<1>4. QED
  BY <1>3 DEF ir, old

LEMMA UndoMoved ==
    ASSUME IInv, HistoryOK, SomethingMoved
    PROVE  Undone(Lists', events') = Undone(Lists, events)
<1>1. ListsOK(ops, Block, Op) /\ ListsOK(blocks, Region, Block)
  BY ListsSound
<1>2. ASSUME NEW o \in Op, OpLinked(o)
      PROVE  With(TakeOut(ops, BlockOf(o), IndexIn(ops[BlockOf(o)], o)), RecordedPoint(o), o) = ops
  <2> DEFINE b == BlockOf(o)
             i == IndexIn(ops[b], o)
             pt == RecordedPoint(o)
  <2>1. b \in Block /\ i \in 1..Len(ops[b]) /\ ops[b][i] = o
    BY <1>2, Found
  <2>2. KeptPoint(pt, ops[b], b, i) /\ Block \cap Op = {}
    BY <1>2, IRAssumption, KeptPoints
  <2> HIDE DEF b, i, pt
  <2>3. GivenBack(ops, b, i, pt)
    BY <1>1, <2>1, <2>2, TakenPoint
  <2>4. QED
    BY <2>1, <2>3 DEF GivenBack, b, i, pt
<1>3. ASSUME NEW x, OpTaken(x) PROVE Undone(Lists', events') = Undone(Lists, events)
  <2> DEFINE e == <<"UnlinkedOperation", x, RecordedPoint(x)>>
  <2>1. /\ x \in Op /\ OpLinked(x) /\ blocks' = blocks /\ e \in EventSet /\ events' = Append(events, e)
        /\ ops' = TakeOut(ops, BlockOf(x), IndexIn(ops[BlockOf(x)], x))
    BY <1>3 DEF OpTaken, Tell
  <2>2. With(ops', RecordedPoint(x), x) = ops
    BY <1>2, <2>1
  <2>3. UndoEvent([ops |-> ops', blocks |-> blocks'], e) = [ops |-> With(ops', RecordedPoint(x), x), blocks |-> blocks']
    BY DEF UndoEvent
  <2>4. UndoEvent(Lists', e) = Lists
    BY <2>1, <2>2, <2>3 DEF Lists
  <2> HIDE DEF e
  <2>5. QED
    BY <2>1, <2>4, OneUndone
<1>4. ASSUME NEW x, BlockTaken(x) PROVE Undone(Lists', events') = Undone(Lists, events)
  <2> DEFINE r == RegionOf(x)
             i == IndexIn(blocks[r], x)
             pt == RecordedBlockPoint(x)
             e == <<"UnlinkedBlock", x, pt>>
  <2>1. x \in Block /\ BlockLinked(x) /\ ops' = ops /\ e \in EventSet /\ events' = Append(events, e)
        /\ blocks' = TakeOut(blocks, r, i)
    BY <1>4 DEF BlockTaken, Tell
  <2>2. r \in Region /\ i \in 1..Len(blocks[r]) /\ blocks[r][i] = x
    BY <2>1, Found
  <2>3. KeptPoint(pt, blocks[r], r, i) /\ Region \cap Block = {}
    BY <2>1, IRAssumption, KeptPoints
  <2>4. UndoEvent([ops |-> ops', blocks |-> blocks'], e) = [ops |-> ops', blocks |-> With(blocks', pt, x)]
    BY DEF UndoEvent
  <2> HIDE DEF r, i, pt
  <2>5. GivenBack(blocks, r, i, pt)
    BY <1>1, <2>2, <2>3, TakenPoint
  <2>6. With(blocks', pt, x) = blocks
    BY <2>1, <2>2, <2>5 DEF GivenBack
  <2>7. UndoEvent(Lists', e) = Lists
    BY <2>1, <2>4, <2>6 DEF Lists
  <2> HIDE DEF e
  <2>8. QED
    BY <2>1, <2>7, OneUndone
<1>5. ASSUME NEW x, NEW pt, OpPut(x, pt) PROVE Undone(Lists', events') = Undone(Lists, events)
  <2> DEFINE b == Container(pt)
             i == Place(pt, ops[b])
             e == <<"InsertedOperation", x>>
  <2>1. x \in Op /\ ops' = PutInto(ops, b, i, x) /\ blocks' = blocks /\ e \in EventSet /\ events' = Append(events, e)
    BY <1>5 DEF OpPut, Tell
  <2>2. b \in Block /\ i \in 1..(Len(ops[b]) + 1) /\ \A c \in Block : x \notin Elems(ops[c])
    BY <1>5, PutPlace
  <2>3. UndoEvent([ops |-> ops', blocks |-> blocks'], e) = [ops |-> Without(ops', x), blocks |-> blocks']
    BY DEF UndoEvent
  <2> HIDE DEF b, i
  <2>4. Without(ops', x) = ops
    <3>1. Without(PutInto(ops, b, i, x), x) = ops
      BY <1>1, <2>1, <2>2, PutBack
    <3>2. QED
      BY <2>1, <3>1
  <2>5. UndoEvent(Lists', e) = Lists
    BY <2>1, <2>3, <2>4 DEF Lists
  <2> HIDE DEF e
  <2>6. QED
    BY <2>1, <2>5, OneUndone
<1>6. ASSUME NEW x, NEW pt, BlockPut(x, pt) PROVE Undone(Lists', events') = Undone(Lists, events)
  <2> DEFINE r == Container(pt)
             i == Place(pt, blocks[r])
             e == <<"InsertedBlock", x>>
  <2>1. x \in Block /\ blocks' = PutInto(blocks, r, i, x) /\ ops' = ops /\ e \in EventSet /\ events' = Append(events, e)
    BY <1>6 DEF BlockPut, Tell
  <2>2. r \in Region /\ i \in 1..(Len(blocks[r]) + 1) /\ \A c \in Region : x \notin Elems(blocks[c])
    BY <1>6, PutPlace
  <2>3. UndoEvent([ops |-> ops', blocks |-> blocks'], e) = [ops |-> ops', blocks |-> Without(blocks', x)]
    BY DEF UndoEvent
  <2> HIDE DEF r, i
  <2>4. Without(blocks', x) = blocks
    <3>1. Without(PutInto(blocks, r, i, x), x) = blocks
      BY <1>1, <2>1, <2>2, PutBack
    <3>2. QED
      BY <2>1, <3>1
  <2>5. UndoEvent(Lists', e) = Lists
    BY <2>1, <2>3, <2>4 DEF Lists
  <2> HIDE DEF e
  <2>6. QED
    BY <2>1, <2>5, OneUndone
<1>7. ASSUME NEW o, NEW n, OpMoved(o, n) PROVE Undone(Lists', events') = Undone(Lists, events)
  <2> DEFINE b == BlockOf(o)
             i == IndexIn(ops[b], o)
             e == <<"UnlinkedOperation", o, RecordedPoint(o)>>
             f == <<"InsertedOperation", o>>
             new == TakeOut(ops, b, i)
  <2>1. /\ b \in Block /\ i \in 1..Len(ops[b]) /\ ops[b][i] = o /\ o \in Op /\ OpLinked(o) /\ n \in Block /\ n # b
        /\ ops' = PutInto(new, n, Len(ops[n]) + 1, o) /\ blocks' = blocks
        /\ e \in EventSet /\ f \in EventSet /\ events' = Append(Append(events, e), f)
    BY <1>7, Found DEF OpMoved
  <2>2. With(new, RecordedPoint(o), o) = ops
    BY <1>2, <2>1
  <2>3. /\ UndoEvent([ops |-> ops', blocks |-> blocks'], f) = [ops |-> Without(ops', o), blocks |-> blocks']
        /\ UndoEvent([ops |-> new, blocks |-> blocks'], e) = [ops |-> With(new, RecordedPoint(o), o), blocks |-> blocks']
    BY DEF UndoEvent
  <2>4. new = TakeOut(ops, b, i)
    OBVIOUS
  <2> HIDE DEF b, i, e, f, new
  <2>5. TookOut(ops, Block, Op, b, i, new)
    BY <1>1, <2>1, <2>4, TakeOutLemma
  <2>6. ListsOK(new, Block, Op) /\ new[n] = ops[n] /\ \A c \in Block : o \notin Elems(new[c])
    BY <2>1, <2>5 DEF TookOut
  <2>7. Without(ops', o) = new
    <3> DEFINE j == Len(ops[n]) + 1
    <3>1. j \in 1..(Len(new[n]) + 1)
      <4>1. Len(ops[n]) \in Nat
        BY <1>1, <2>1 DEF ListsOK
      <4>2. QED
        BY <2>6, <4>1
    <3>2. ops' = PutInto(new, n, j, o)
      BY <2>1
    <3> HIDE DEF j
    <3>3. QED
      BY <2>1, <2>6, <3>1, <3>2, PutBack
  <2>8. UndoEvent(UndoEvent(Lists', f), e) = Lists
    BY <2>1, <2>2, <2>3, <2>7 DEF Lists
  <2>9. Undone(Lists', Append(Append(events, e), f)) = Undone(UndoEvent(Lists', f), Append(events, e))
    <3> DEFINE es == Append(events, e)
               ir == Lists'
    <3>1. es \in Seq(EventSet) /\ f \in EventSet
      BY <2>1 DEF HistoryOK
    <3> HIDE DEF es, ir
    <3>2. Undone(ir, Append(es, f)) = Undone(UndoEvent(ir, f), es)
      BY <3>1, UndoneAppend
    <3>3. QED
      BY <3>2 DEF es, ir
  <2>10. Undone(UndoEvent(Lists', f), Append(events, e)) = Undone(UndoEvent(UndoEvent(Lists', f), e), events)
    <3> DEFINE ir == UndoEvent(Lists', f)
    <3>1. events \in Seq(EventSet) /\ e \in EventSet
      BY <2>1 DEF HistoryOK
    <3> HIDE DEF ir
    <3>2. Undone(ir, Append(events, e)) = Undone(UndoEvent(ir, e), events)
      BY <3>1, UndoneAppend
    <3>3. QED
      BY <3>2 DEF ir
  <2>11. QED
    BY <2>1, <2>8, <2>9, <2>10
<1>8. QED
  BY <1>3, <1>4, <1>5, <1>6, <1>7 DEF SomethingMoved

LEMMA UndoStep == CallInv /\ HistoryOK /\ UndoInv /\ [RwNext]_allVars => UndoInv'
<1> SUFFICES ASSUME CallInv, HistoryOK, UndoInv, [RwNext]_allVars PROVE UndoInv'
  OBVIOUS
<1>1. ASSUME Undone(Lists', events') = Undone(Lists, events), UNCHANGED <<erased, before>> PROVE UndoInv'
  BY <1>1 DEF UndoInv
<1>2. CASE UNCHANGED allVars
  BY <1>2 DEF allVars, UndoInv, Lists
<1>3. CASE Calls
  <2>1. before' = IRNow /\ events' = <<>> /\ SameIR
    BY <1>3, CallBegins
  <2>2. Lists' = [ops |-> before'.ops, blocks |-> before'.blocks]
    BY <2>1 DEF Lists, IRNow, SameIR
  <2>3. Undone(Lists', <<>>) = Lists'
    <3> DEFINE ir == Lists'
    <3> HIDE DEF ir
    <3>1. \E G : UndoneBy(ir, <<>>, G)
      <4>1. <<>> \in Seq(Nat)
        OBVIOUS
      <4>2. QED
        BY <4>1, UndoneSteps
    <3>2. Undone(ir, <<>>) = ir
      BY <3>1 DEF UndoneBy
    <3>3. QED
      BY <3>2 DEF ir
  <2>4. QED
    BY <2>1, <2>2, <2>3 DEF UndoInv
<1>4. CASE Steps
  <2>1. /\ UNCHANGED <<call, before>>
        /\ \/ NothingTold
           \/ \E x : UsesReplaced(x) \/ Freed(x)
           \/ erased' = erased /\ SomethingMoved
    BY <1>4, StepChange
  <2>2. CASE NothingTold
    BY <1>1, <2>1, <2>2 DEF NothingTold, SameIR, Lists
  <2>3. ASSUME NEW x, UsesReplaced(x) PROVE UndoInv'
    <3> DEFINE e == <<"ReplacedValueUses", x>>
    <3>1. e \in EventSet /\ events' = Append(events, e) /\ UNCHANGED <<erased, ops, blocks>>
      BY <2>3 DEF UsesReplaced, Tell
    <3>2. UndoEvent([ops |-> ops, blocks |-> blocks], e) = [ops |-> ops, blocks |-> blocks]
      BY DEF UndoEvent
    <3> HIDE DEF e
    <3>3. UndoEvent(Lists', e) = Lists
      BY <3>1, <3>2 DEF Lists
    <3>4. Undone(Lists', events') = Undone(Lists, events)
      BY <3>1, <3>3, OneUndone
    <3>5. QED
      BY <1>1, <2>1, <3>1, <3>4
  <2>4. ASSUME NEW x, Freed(x) PROVE UndoInv'
    <3>1. erased' # {}
      BY <2>4 DEF Freed
    <3>2. QED
      BY <3>1 DEF UndoInv
  <2>5. CASE erased' = erased /\ SomethingMoved
    <3>1. IInv
      BY DEF CallInv, RwInv
    <3>2. Undone(Lists', events') = Undone(Lists, events)
      BY <2>5, <3>1, UndoMoved
    <3>3. QED
      BY <1>1, <2>1, <2>5, <3>2
  <2>6. QED
    BY <2>1, <2>2, <2>3, <2>4, <2>5
<1>5. QED
  BY <1>2, <1>3, <1>4 DEF RwNext

\* Every call that erases nothing can be taken back with what the Recorder kept of it:
\* undone from the last to the first, the events give the lists of before the call.
THEOREM CallIsUndoable == RwSpec => []CallsUndoable
<1>1. RwInit => UndoInv
  <2> SUFFICES ASSUME RwInit PROVE UndoInv
    OBVIOUS
  <2>1. events = <<>> /\ before = IRNow
    BY DEF RwInit
  <2>2. Lists = [ops |-> before.ops, blocks |-> before.blocks]
    BY <2>1 DEF Lists, IRNow
  <2>3. Undone(Lists, <<>>) = Lists
    <3>1. \E G : UndoneBy(Lists, <<>>, G)
      <4>1. <<>> \in Seq(Nat)
        OBVIOUS
      <4>2. QED
        BY <4>1, UndoneSteps
    <3>2. QED
      BY <3>1 DEF UndoneBy
  <2>4. QED
    BY <2>1, <2>2, <2>3 DEF UndoInv
<1>2. RwSpec => []UndoInv
  BY <1>1, UndoStep, CallInvariant, HistoryInvariant, PTL DEF RwSpec
<1>3. UndoInv => CallsUndoable
  BY DEF UndoInv, CallsUndoable, Lists
<1>4. QED
  BY <1>2, <1>3, PTL

(***************************************************************************)
(* Splitting a block.                                                      *)
(***************************************************************************)

\* rest is s without the elements after the p-th up to the q-th, and tail has those.
CutOut(s, p, q, rest, tail) ==
    /\ Len(rest) = Len(s) - (q - p) /\ Len(tail) = q - p
    /\ \A k \in 1..Len(rest) : rest[k] = IF k <= p THEN s[k] ELSE s[k + (q - p)]
    /\ \A k \in 1..Len(tail) : tail[k] = s[k + p]

AfterCut(s, q) == IF q = Len(s) THEN {} ELSE {s[q + 1]}

LEMMA CutBegins ==
    ASSUME NEW E, NEW s \in Seq(E), NEW q \in 0..Len(s)
    PROVE  CutOut(s, q, q, s, <<>>)
  BY DEF CutOut

\* The i-th of the rest is the next to go to the tail.
CutNext(s, p, q, rest, tail, i) ==
    /\ q + 1 \in 0..Len(s) /\ p \in 0..(q + 1)
    /\ CutOut(s, p, q + 1, RemoveAt(rest, i), Append(tail, s[q + 1]))
    /\ AfterCut(s, q + 1) = IF i = Len(rest) THEN {} ELSE {rest[i + 1]}

LEMMA CutFurther ==
    ASSUME NEW E, NEW s \in Seq(E), NEW rest \in Seq(E), NEW tail \in Seq(E), NEW q \in 0..Len(s), NEW p \in 0..q,
           q # Len(s), CutOut(s, p, q, rest, tail), NEW i \in 1..Len(rest), rest[i] = s[q + 1],
           \A j, k \in 1..Len(rest) : rest[j] = rest[k] => j = k
    PROVE  CutNext(s, p, q, rest, tail, i)
<1>0. Len(s) \in Nat /\ Len(rest) \in Nat /\ Len(tail) \in Nat /\ q \in Nat /\ p \in Nat /\ p <= q /\ q < Len(s)
  OBVIOUS
<1>1. Len(rest) = Len(s) - (q - p) /\ Len(tail) = q - p
  BY DEF CutOut
<1>2. i = p + 1
  <2>1. p + 1 \in 1..Len(rest) /\ ~ (p + 1 <= p) /\ (p + 1) + (q - p) = q + 1
    BY <1>0, <1>1
  <2>2. rest[p + 1] = s[q + 1]
    BY <2>1 DEF CutOut
  <2>3. QED
    BY <2>1, <2>2
<1>3. q + 1 \in 0..Len(s) /\ p \in 0..(q + 1) /\ q + 1 \in 1..Len(s)
  BY <1>0
<1> DEFINE less == RemoveAt(rest, i)
           more == Append(tail, s[q + 1])
<1>4. less \in Seq(E) /\ RemovedAt(rest, i, less)
  BY RemoveAtLemma
<1>5. s[q + 1] \in E
  BY <1>3
<1>6. /\ more \in Seq(E) /\ Len(more) = Len(tail) + 1 /\ more[Len(tail) + 1] = s[q + 1]
      /\ \A k \in 1..Len(tail) : more[k] = tail[k]
  BY <1>5
<1> HIDE DEF less, more
<1>7. Len(less) = Len(s) - ((q + 1) - p) /\ Len(more) = (q + 1) - p
  BY <1>0, <1>1, <1>4, <1>6 DEF RemovedAt
<1>8. ASSUME NEW k \in 1..Len(less) PROVE less[k] = IF k <= p THEN s[k] ELSE s[k + ((q + 1) - p)]
  <2>1. k \in 1..(Len(rest) - 1) /\ less[k] = IF k < i THEN rest[k] ELSE rest[k + 1]
    BY <1>4 DEF RemovedAt
  <2>2. CASE k <= p
    <3>1. k < i /\ k \in 1..Len(rest)
      BY <1>0, <1>2, <2>1, <2>2
    <3>2. rest[k] = s[k]
      BY <2>2, <3>1 DEF CutOut
    <3>3. QED
      BY <2>1, <2>2, <3>1, <3>2
  <2>3. CASE ~ (k <= p)
    <3> DEFINE m == Len(rest)
    <3>0. m \in Nat /\ k \in 1..(m - 1)
      BY <1>0, <2>1
    <3> HIDE DEF m
    <3>1. ~ (k < i) /\ k + 1 \in 1..m /\ ~ (k + 1 <= p) /\ (k + 1) + (q - p) = k + ((q + 1) - p)
      BY <1>0, <1>2, <2>3, <3>0
    <3>2. rest[k + 1] = s[k + ((q + 1) - p)]
      BY <3>1 DEF CutOut, m
    <3>3. QED
      BY <2>1, <2>3, <3>1, <3>2
  <2>4. QED
    BY <2>2, <2>3
<1>9. ASSUME NEW k \in 1..Len(more) PROVE more[k] = s[k + p]
  <2>1. CASE k = Len(tail) + 1
    <3>1. k + p = q + 1
      BY <1>0, <1>1, <2>1
    <3>2. QED
      BY <1>6, <2>1, <3>1
  <2>2. CASE k # Len(tail) + 1
    <3>1. k \in 1..Len(tail)
      BY <1>0, <1>6, <2>2
    <3>2. QED
      BY <1>6, <3>1 DEF CutOut
  <2>3. QED
    BY <2>1, <2>2
<1>10. CutOut(s, p, q + 1, less, more)
  BY <1>7, <1>8, <1>9 DEF CutOut
<1>11. AfterCut(s, q + 1) = IF i = Len(rest) THEN {} ELSE {rest[i + 1]}
  <2> DEFINE n == Len(s)
             m == Len(rest)
  <2>0. n \in Nat /\ m \in Nat /\ m = n - (q - p) /\ i \in 1..m
    BY <1>0, <1>1
  <2> HIDE DEF n, m
  <2>1. i = m <=> q + 1 = n
    BY <1>0, <1>2, <2>0
  <2>2. CASE i # m
    <3>1. i + 1 \in 1..m /\ ~ (i + 1 <= p) /\ (i + 1) + (q - p) = (q + 1) + 1
      BY <1>0, <1>2, <2>0, <2>2
    <3>2. rest[i + 1] = s[(q + 1) + 1]
      BY <3>1 DEF CutOut, m
    <3>3. QED
      BY <2>1, <2>2, <3>2 DEF AfterCut, n, m
  <2>3. CASE i = m
    BY <2>1, <2>3 DEF AfterCut, n, m
  <2>4. QED
    BY <2>2, <2>3
<1>12. QED
  BY <1>3, <1>10, <1>11 DEF CutNext, less, more

LEMMA CutDone ==
    ASSUME NEW E, NEW s \in Seq(E), NEW rest \in Seq(E), NEW tail \in Seq(E), NEW p \in 0..Len(s),
           CutOut(s, p, Len(s), rest, tail)
    PROVE  rest \o tail = s
<1>0. Len(s) \in Nat /\ Len(rest) = p /\ Len(tail) = Len(s) - p /\ p <= Len(s) /\ p \in Nat
  BY DEF CutOut
<1>1. /\ rest \o tail \in Seq(E) /\ Len(rest \o tail) = Len(rest) + Len(tail)
      /\ \A k \in 1..(Len(rest) + Len(tail)) :
            (rest \o tail)[k] = IF k <= Len(rest) THEN rest[k] ELSE tail[k - Len(rest)]
  OBVIOUS
<1>2. ASSUME NEW k \in 1..Len(s) PROVE (rest \o tail)[k] = s[k]
  <2>1. (rest \o tail)[k] = IF k <= p THEN rest[k] ELSE tail[k - p]
    BY <1>0, <1>1
  <2>2. CASE k <= p
    <3>1. k \in 1..Len(rest)
      BY <1>0, <2>2
    <3>2. rest[k] = s[k]
      BY <2>2, <3>1 DEF CutOut
    <3>3. QED
      BY <2>1, <2>2, <3>2
  <2>3. CASE ~ (k <= p)
    <3>1. k - p \in 1..Len(tail) /\ (k - p) + p = k
      BY <1>0, <2>3
    <3>2. tail[k - p] = s[k]
      BY <3>1 DEF CutOut
    <3>3. QED
      BY <2>1, <2>3, <3>2
  <2>4. QED
    BY <2>2, <2>3
<1>3. Len(rest \o tail) = Len(s)
  BY <1>0, <1>1
<1>4. QED
  BY <1>1, <1>2, <1>3, SeqEqual

\* A call of split_block has moved the operations after the p-th up to the q-th.
SplitTasks(n, b, first) ==
    \/ \E pt : agenda = <<<<"create_block", n, <<"AfterBlock", b>>>>, <<"move_tail", n, first>>, <<"restore_point", pt>>>>
    \/ \E pt : agenda = <<<<"move_tail", n, first>>, <<"restore_point", pt>>>>
    \/ first = {} /\ (agenda = <<>> \/ \E pt : agenda = <<<<"restore_point", pt>>>>)
SplitAt(s, n, b, p, q) == CutOut(s, p, q, ops[b], ops[n]) /\ SplitTasks(n, b, AfterCut(s, q))
SplitInv ==
    call # <<>> /\ call[1] = "split_block" /\ ~ panicked =>
       \E s \in Seq(Op), n \in Block, b \in Block :
          /\ call[2] = b /\ call[3] = n /\ s = before.ops[b] /\ n # b
          /\ \E q \in 0..Len(s) : \E p \in 0..q : SplitAt(s, n, b, p, q)

\* The first operation to move is that after a prefix of the block.
LEMMA FirstOpPlace ==
    ASSUME IInv, NEW b \in Block, NEW pos \in OpPoint, Usable(pos), Container(pos) = b
    PROVE  \E q \in 0..Len(ops[b]) : FirstOp(pos) = AfterCut(ops[b], q)
<1> DEFINE s == ops[b]
<1>0. s \in Seq(Op) /\ Len(s) \in Nat
  BY DEF IInv, IRTypeOK
<1>1. pos # Unset /\ (pos[2] \in Op => OpLinked(pos[2]))
  BY DEF Usable
<1>2. CASE pos[1] = "AtBlockStart" /\ pos[2] \in Block
  <2>1. pos[2] \notin Op /\ pos[2] = b
    BY <1>2, IRAssumption DEF Container
  <2>2. FirstOp(pos) = IF s = <<>> THEN {} ELSE {s[1]}
    BY <1>2, <2>1 DEF FirstOp
  <2>3. s = <<>> <=> 0 = Len(s)
    BY <1>0
  <2>4. 0 \in 0..Len(s) /\ FirstOp(pos) = AfterCut(s, 0)
    BY <1>0, <2>2, <2>3 DEF AfterCut
  <2>5. QED
    BY <2>4
<1>3. CASE pos[1] = "AtBlockEnd"
  <2>1. FirstOp(pos) = {}
    BY <1>3 DEF FirstOp
  <2>2. Len(s) \in 0..Len(s) /\ FirstOp(pos) = AfterCut(s, Len(s))
    BY <1>0, <2>1 DEF AfterCut
  <2>3. QED
    BY <2>2
<1>4. CASE pos[1] \in {"AfterOperation", "BeforeOperation"} /\ pos[2] \in Op
  <2> DEFINE o == pos[2]
             i == IndexIn(s, o)
  <2>1. BlockOf(o) = b /\ o \in Elems(s)
    BY <1>1, <1>4, BlockOfLemma DEF Container
  <2>2. i \in 1..Len(s) /\ s[i] = o
    BY <2>1, IndexLemma
  <2>3. \A j, k \in 1..Len(s) : s[j] = s[k] => j = k
    <3>1. ListsOK(ops, Block, Op)
      BY ListsSound
    <3>2. QED
      BY <3>1 DEF ListsOK
  <2>4. s # <<>> /\ Last(s) = s[Len(s)] /\ Len(s) \in 1..Len(s)
    BY <1>0, <2>2 DEF Last
  <2>5. Last(s) = o <=> i = Len(s)
    BY <2>2, <2>3, <2>4
  <2>6. CASE pos[1] = "BeforeOperation"
    <3>1. FirstOp(pos) = {o}
      BY <2>6 DEF FirstOp
    <3> HIDE DEF i, s
    <3>2. i - 1 \in 0..Len(s) /\ i - 1 # Len(s) /\ (i - 1) + 1 = i
      BY <1>0, <2>2
    <3>3. FirstOp(pos) = AfterCut(s, i - 1)
      BY <2>2, <3>1, <3>2 DEF AfterCut
    <3>4. \E q \in 0..Len(s) : FirstOp(pos) = AfterCut(s, q)
      BY <3>2, <3>3
    <3>5. QED
      BY <3>4 DEF s
  <2>7. CASE pos[1] = "AfterOperation"
    <3>1. FirstOp(pos) = IF Last(s) # o THEN {s[i + 1]} ELSE {}
      BY <2>1, <2>7 DEF FirstOp
    <3>2. FirstOp(pos) = AfterCut(s, i)
      BY <2>5, <3>1 DEF AfterCut
    <3> HIDE DEF i, s
    <3>3. i \in 0..Len(s)
      BY <1>0, <2>2
    <3>4. \E q \in 0..Len(s) : FirstOp(pos) = AfterCut(s, q)
      BY <3>2, <3>3
    <3>5. QED
      BY <3>4 DEF s
  <2>8. QED
    BY <1>4, <2>6, <2>7
<1>5. QED
  BY <1>1, <1>2, <1>3, <1>4 DEF OpPoint

LEMMA SplitBegins ==
    ASSUME RwInv, CallSplit
    PROVE  SplitInv'
<1>1. PICK b \in live \cap Block, n \in Block \ live, pos \in OpPoints :
         /\ Fresh(n) /\ BlockLinked(b) /\ Usable(pos) /\ Container(pos) = b
         /\ Begin(<<"split_block", b, n>>,
                <<<<"create_block", n, <<"AfterBlock", b>>>>, <<"move_tail", n, FirstOp(pos)>>,
                  <<"restore_point", op_insertion_point>>>>)
  BY DEF CallSplit
<1>2. PICK s, first, pt : s = ops[b] /\ first = FirstOp(pos) /\ pt = op_insertion_point
  OBVIOUS
<1>3. pos \in OpPoint /\ IInv /\ s \in Seq(Op)
  BY <1>2 DEF OpPoints, OpPoint, RwInv, IInv, IRTypeOK
<1>4. PICK q \in 0..Len(s) : first = AfterCut(s, q)
  <2>1. \E q \in 0..Len(ops[b]) : FirstOp(pos) = AfterCut(ops[b], q)
    BY <1>1, <1>3, FirstOpPlace
  <2>2. QED
    BY <1>2, <2>1
<1>5. ops[n] = <<>>
  <2>1. n \in Block /\ n \in Object /\ n \notin live
    BY <1>1 DEF Object
  <2>2. ChildrenOK /\ ChildrenLive /\ IRTypeOK
    BY <1>3, ChildrenType DEF IInv, NestOK
  <2>3. Elems(ops[n]) = {} /\ ops[n] \in Seq(Op)
    BY <2>1, <2>2 DEF ChildrenLive, ChildrenOK, IRTypeOK
  <2>4. ASSUME NEW t \in Seq(Op), t # <<>> PROVE Elems(t) # {}
    <3>1. 1 \in 1..Len(t)
      BY <2>4
    <3>2. t[1] \in Elems(t)
      BY <3>1 DEF Elems
    <3>3. QED
      BY <3>2
  <2>5. QED
    BY <2>3, <2>4
<1>6. CutOut(s, q, q, s, <<>>)
  BY <1>3, CutBegins
<1>7. /\ agenda' = <<<<"create_block", n, <<"AfterBlock", b>>>>, <<"move_tail", n, first>>, <<"restore_point", pt>>>>
      /\ call' = <<"split_block", b, n>> /\ ops' = ops /\ before'.ops = ops
  BY <1>1, <1>2 DEF Begin, IRNow
<1>8. SplitTasks(n, b, first)'
  BY <1>7 DEF SplitTasks
<1>9. n # b /\ n \in Block /\ b \in Block /\ q \in 0..q
  BY <1>1
<1>10. SplitAt(s, n, b, q, q)'
  BY <1>2, <1>4, <1>5, <1>6, <1>7, <1>8 DEF SplitAt
<1>11. call'[2] = b /\ call'[3] = n /\ s = before'.ops[b]
  BY <1>2, <1>7
<1>12. QED
  BY <1>3, <1>9, <1>10, <1>11 DEF SplitInv

LEMMA SplitStep == CallInv /\ SplitInv /\ [RwNext]_allVars => SplitInv'
<1> SUFFICES ASSUME CallInv, SplitInv, [RwNext]_allVars, call' # <<>>, call'[1] = "split_block", ~ panicked' PROVE SplitInv'
  BY DEF SplitInv
<1>0. RwInv
  BY DEF CallInv
<1>1. CASE UNCHANGED allVars
  <2>1. UNCHANGED <<agenda, call, ops, before, panicked>>
    BY <1>1 DEF allVars
  <2>2. PICK s \in Seq(Op), n \in Block, b \in Block :
          /\ call[2] = b /\ call[3] = n /\ s = before.ops[b] /\ n # b
          /\ \E q \in 0..Len(s) : \E p \in 0..q : SplitAt(s, n, b, p, q)
    BY <2>1 DEF SplitInv
  <2>21. PICK q \in 0..Len(s) : \E p \in 0..q : SplitAt(s, n, b, p, q)
    BY <2>2
  <2>22. PICK p \in 0..q : SplitAt(s, n, b, p, q)
    BY <2>21
  <2>3. SplitAt(s, n, b, p, q)'
    BY <2>1, <2>22 DEF SplitAt, SplitTasks
  <2>4. QED
    BY <2>1, <2>2, <2>3 DEF SplitInv
<1>2. CASE Calls
  <2>1. CallSplit
    BY <1>2 DEF Calls, CallErase, CallReplace, CallMove, CallCreate, CallInline, Begin
  <2>2. QED
    BY <1>0, <2>1, SplitBegins
<1>3. CASE Steps
  <2>1. agenda # <<>> /\ call' = call /\ before' = before
    BY <1>3, StepKinds
  <2>2. ~ panicked
    BY <1>3 DEF Steps, EraseOperation, EraseBlock, EraseRegion, EraseOperations, FreeOperation, FreeBlock, FreeRegion,
                ReplaceUses, UnlinkOperation, UnlinkBlock, InsertScoped, AppendOperation, InsertBlock, CreateBlock,
                MoveTail, RestorePoint, Task
  <2>3. PICK s \in Seq(Op), n \in Block, b \in Block :
          /\ call[2] = b /\ call[3] = n /\ s = before.ops[b] /\ n # b
          /\ \E q \in 0..Len(s) : \E p \in 0..q : SplitAt(s, n, b, p, q)
    BY <2>1, <2>2 DEF SplitInv
  <2>31. PICK q \in 0..Len(s) : \E p \in 0..q : SplitAt(s, n, b, p, q)
    BY <2>3
  <2>32. PICK p \in 0..q : SplitAt(s, n, b, p, q)
    BY <2>31
  <2>4. SUFFICES \E r \in 0..Len(s) : \E t \in 0..r : SplitAt(s, n, b, t, r)'
    BY <2>1, <2>3 DEF SplitInv
  <2>5. PICK first : first = AfterCut(s, q)
    OBVIOUS
  <2>6. CutOut(s, p, q, ops[b], ops[n]) /\ SplitTasks(n, b, first)
    BY <2>32, <2>5 DEF SplitAt
  <2>7. CASE \E pt : agenda = <<<<"create_block", n, <<"AfterBlock", b>>>>, <<"move_tail", n, first>>, <<"restore_point", pt>>>>
    <3>1. PICK pt : agenda = <<<<"create_block", n, <<"AfterBlock", b>>>>, <<"move_tail", n, first>>, <<"restore_point", pt>>>>
      BY <2>7
    <3>2. agenda[1][1] = "create_block" /\ Tail(agenda) = <<<<"move_tail", n, first>>, <<"restore_point", pt>>>>
      BY <3>1
    <3>3. CreateBlock
      BY <1>3, <3>2 DEF Steps, EraseOperation, EraseBlock, EraseRegion, EraseOperations, FreeOperation, FreeBlock, FreeRegion,
                ReplaceUses, UnlinkOperation, UnlinkBlock, InsertScoped, AppendOperation, InsertBlock,
                MoveTail, RestorePoint, Task
    <3>4. ops' = ops /\ agenda' = Tail(agenda)
      BY <3>3 DEF CreateBlock, Done, Panic
    <3>5. agenda' = <<<<"move_tail", n, first>>, <<"restore_point", pt>>>>
      BY <3>2, <3>4
    <3>6. SplitTasks(n, b, first)'
      BY <3>5 DEF SplitTasks
    <3>7. SplitAt(s, n, b, p, q)'
      BY <2>5, <2>6, <3>4, <3>6 DEF SplitAt
    <3>8. QED
      BY <3>7
  <2>8. CASE \E pt : agenda = <<<<"move_tail", n, first>>, <<"restore_point", pt>>>>
    <3>1. PICK pt : agenda = <<<<"move_tail", n, first>>, <<"restore_point", pt>>>>
      BY <2>8
    <3>2. agenda[1][1] = "move_tail" /\ Tail(agenda) = <<<<"restore_point", pt>>>> /\ Subject = n /\ Point = first
      BY <3>1 DEF Subject, Point
    <3>3. MoveTail
      BY <1>3, <3>2 DEF Steps, EraseOperation, EraseBlock, EraseRegion, EraseOperations, FreeOperation, FreeBlock, FreeRegion,
                ReplaceUses, UnlinkOperation, UnlinkBlock, InsertScoped, AppendOperation, InsertBlock,
                CreateBlock, RestorePoint, Task
    <3>4. CASE first = {}
      <4>1. ops' = ops /\ agenda' = <<>> \o Tail(agenda)
        BY <3>2, <3>3, <3>4 DEF MoveTail, Expand
      <4>2. agenda' = <<<<"restore_point", pt>>>>
        BY <3>2, <4>1
      <4>3. SplitTasks(n, b, first)'
        BY <3>4, <4>2 DEF SplitTasks
      <4>4. SplitAt(s, n, b, p, q)'
        BY <2>5, <2>6, <4>1, <4>3 DEF SplitAt
      <4>5. QED
        BY <4>4
    <3>5. CASE first # {}
      <4>1. q # Len(s) /\ first = {s[q + 1]}
        BY <2>5, <3>5 DEF AfterCut
      <4>2. PICK o, from, i, next :
               /\ o = s[q + 1] /\ from = BlockOf(o) /\ i = IndexIn(ops[from], o)
               /\ next = IF i = Len(ops[from]) THEN {} ELSE {ops[from][i + 1]}
        OBVIOUS
      <4>3. /\ ops' = [ops EXCEPT ![from] = RemoveAt(@, i), ![n] = Append(@, o)]
            /\ agenda' = <<<<"move_tail", n, next>>>> \o Tail(agenda)
        BY <3>2, <3>3, <4>1, <4>2 DEF MoveTail
      <4>4. ListsOK(ops, Block, Op)
        BY <1>0, ListsSound DEF RwInv
      <4>5. /\ ops \in [Block -> Seq(Op)] /\ ops[b] \in Seq(Op) /\ ops[n] \in Seq(Op)
            /\ \A j, k \in 1..Len(ops[b]) : ops[b][j] = ops[b][k] => j = k
        BY <4>4 DEF ListsOK
      <4>6. o \in Elems(ops[b])
        <5>1. Splits
          BY <1>0, <2>1, <3>2, Phase DEF RwInv
        <5>2. PICK m, c, f, x : m \in Block /\ c \in Block /\ f \subseteq Elems(ops[c]) /\ m # c /\ agenda = <<<<"move_tail", m, f>>, x>>
          BY <3>2, <5>1 DEF Splits
        <5>3. f = first /\ o \in Elems(ops[c])
          BY <3>1, <4>1, <4>2, <5>2
        <5>4. p + 1 \in 1..Len(ops[b]) /\ ops[b][p + 1] = o
          <6>1. Len(s) \in Nat /\ Len(ops[b]) = Len(s) - (q - p) /\ p <= q /\ q < Len(s) /\ p \in Nat /\ q \in Nat
            BY <2>6, <4>1 DEF CutOut
          <6>2. p + 1 \in 1..Len(ops[b]) /\ ~ (p + 1 <= p) /\ (p + 1) + (q - p) = q + 1
            BY <6>1
          <6>3. QED
            BY <2>6, <4>2, <6>2 DEF CutOut
        <5>5. QED
          BY <5>4 DEF Elems
      <4>7. from = b /\ i \in 1..Len(ops[b]) /\ ops[b][i] = o
        <5>1. OpLinked(o)
          BY <4>6 DEF OpLinked
        <5>2. from \in Block /\ o \in Elems(ops[from])
          BY <4>2, <5>1, BlockOfLemma
        <5>3. from = b
          BY <4>4, <4>6, <5>2 DEF ListsOK
        <5>4. QED
          BY <4>2, <4>6, <5>3, IndexLemma
      <4>8. /\ q + 1 \in 0..Len(s) /\ p \in 0..(q + 1)
            /\ CutOut(s, p, q + 1, RemoveAt(ops[b], i), Append(ops[n], s[q + 1]))
            /\ AfterCut(s, q + 1) = IF i = Len(ops[b]) THEN {} ELSE {ops[b][i + 1]}
        <5> DEFINE rest == ops[b]
                   tail == ops[n]
        <5>1. /\ rest \in Seq(Op) /\ tail \in Seq(Op) /\ CutOut(s, p, q, rest, tail) /\ i \in 1..Len(rest)
              /\ rest[i] = s[q + 1] /\ \A j, k \in 1..Len(rest) : rest[j] = rest[k] => j = k
          BY <2>6, <4>2, <4>5, <4>7
        <5> HIDE DEF rest, tail
        <5>2. CutNext(s, p, q, rest, tail, i)
          BY <4>1, <5>1, CutFurther
        <5>3. QED
          BY <5>2 DEF CutNext, rest, tail
      <4>9. ops'[b] = RemoveAt(ops[b], i) /\ ops'[n] = Append(ops[n], o)
        BY <2>3, <4>3, <4>5, <4>7
      <4>10. CutOut(s, p, q + 1, ops[b], ops[n])'
        BY <4>2, <4>8, <4>9
      <4>11. agenda' = <<<<"move_tail", n, next>>, <<"restore_point", pt>>>> /\ next = AfterCut(s, q + 1)
        <5>1. next = AfterCut(s, q + 1)
          BY <4>2, <4>7, <4>8
        <5>2. agenda' = <<<<"move_tail", n, next>>>> \o <<<<"restore_point", pt>>>>
          BY <3>2, <4>3
        <5>3. agenda' = <<<<"move_tail", n, next>>, <<"restore_point", pt>>>>
          BY <5>2, TwoTasks, Zenon
        <5>4. QED
          BY <5>1, <5>3
      <4>12. SplitTasks(n, b, next)'
        BY <4>11 DEF SplitTasks
      <4>13. SplitAt(s, n, b, p, q + 1)'
        BY <4>10, <4>11, <4>12 DEF SplitAt
      <4>14. QED
        BY <4>8, <4>13
    <3>6. QED
      BY <3>4, <3>5
  <2>9. CASE first = {} /\ (agenda = <<>> \/ \E pt : agenda = <<<<"restore_point", pt>>>>)
    <3>1. PICK pt : agenda = <<<<"restore_point", pt>>>>
      BY <2>1, <2>9
    <3>2. agenda[1][1] = "restore_point" /\ Tail(agenda) = <<>>
      BY <3>1
    <3>3. RestorePoint
      BY <1>3, <3>2 DEF Steps, EraseOperation, EraseBlock, EraseRegion, EraseOperations, FreeOperation, FreeBlock, FreeRegion,
                ReplaceUses, UnlinkOperation, UnlinkBlock, InsertScoped, AppendOperation, InsertBlock,
                CreateBlock, MoveTail, Task
    <3>4. ops' = ops /\ agenda' = <<>>
      BY <3>2, <3>3 DEF RestorePoint
    <3>5. SplitTasks(n, b, first)'
      BY <2>9, <3>4 DEF SplitTasks
    <3>6. SplitAt(s, n, b, p, q)'
      BY <2>5, <2>6, <3>4, <3>5 DEF SplitAt
    <3>7. QED
      BY <3>6
  <2>10. QED
    BY <2>6, <2>7, <2>8, <2>9 DEF SplitTasks
<1>4. QED
  BY <1>1, <1>2, <1>3 DEF RwNext

LEMMA SplitDone ==
    ASSUME SplitInv, call # <<>>, call[1] = "split_block", agenda = <<>>, ~ panicked, IInv
    PROVE  ops[call[2]] \o ops[call[3]] = before.ops[call[2]]
<1>1. PICK s \in Seq(Op), n \in Block, b \in Block :
          /\ call[2] = b /\ call[3] = n /\ s = before.ops[b] /\ n # b
          /\ \E q \in 0..Len(s) : \E p \in 0..q : SplitAt(s, n, b, p, q)
  BY DEF SplitInv
<1>11. PICK q \in 0..Len(s) : \E p \in 0..q : SplitAt(s, n, b, p, q)
  BY <1>1
<1>12. PICK p \in 0..q : SplitAt(s, n, b, p, q)
  BY <1>11
<1>2. CutOut(s, p, q, ops[b], ops[n]) /\ AfterCut(s, q) = {}
  BY <1>12 DEF SplitAt, SplitTasks
<1>3. q = Len(s)
  BY <1>2 DEF AfterCut
<1>4. ops[b] \in Seq(Op) /\ ops[n] \in Seq(Op)
  BY DEF IInv, IRTypeOK
<1>5. ops[b] \o ops[n] = s
  BY <1>2, <1>3, <1>4, CutDone
<1>6. QED
  BY <1>1, <1>5

\* What split_block has moved, whenever it is interrupted, is a run of the block's
\* operations in their order, next to those that it leaves and those still to come.
THEOREM SplitInvariant == RwSpec => []SplitInv
<1>1. RwInit => SplitInv
  BY DEF RwInit, SplitInv
<1>2. QED
  BY <1>1, SplitStep, CallInvariant, PTL DEF RwSpec

(***************************************************************************)
(* Inlining a region.                                                      *)
(***************************************************************************)

\* u is s without its first l elements; u is t with the first k of s put in at i.
Shifted(s, l, u) == Len(u) = Len(s) - l /\ \A m \in 1..Len(u) : u[m] = s[m + l]
PutRun(t, i, s, k, u) ==
    /\ Len(u) = Len(t) + k
    /\ \A m \in 1..Len(u) : u[m] = IF m < i THEN t[m] ELSE IF m < i + k THEN s[m - i + 1] ELSE t[m - k]

LEMMA ShiftedFurther ==
    ASSUME NEW E, NEW s \in Seq(E), NEW u \in Seq(E), NEW l \in Nat, l < Len(s), Shifted(s, l, u)
    PROVE  /\ 1 \in 1..Len(u) /\ u[1] = s[l + 1]
           /\ Shifted(s, l + 1, RemoveAt(u, 1))
<1> DEFINE n == Len(s)
           m == Len(u)
           v == RemoveAt(u, 1)
<1>1. n \in Nat /\ m \in Nat /\ m = n - l /\ l < n
  BY DEF Shifted
<1>2. 1 \in 1..Len(u)
  BY <1>1
<1>3. v \in Seq(E) /\ RemovedAt(u, 1, v)
  BY <1>2, RemoveAtLemma
<1> HIDE DEF n, m, v
<1>4. Len(v) = m - 1 /\ \A k \in 1..(m - 1) : v[k] = u[k + 1]
  BY <1>3 DEF RemovedAt, m
<1>5. Len(v) = n - (l + 1)
  BY <1>1, <1>4
<1>6. ASSUME NEW k \in 1..Len(v) PROVE v[k] = s[k + (l + 1)]
  <2>1. k \in 1..(m - 1) /\ k + 1 \in 1..m /\ (k + 1) + l = k + (l + 1)
    BY <1>1, <1>4
  <2>2. u[k + 1] = s[(k + 1) + l]
    BY <2>1 DEF Shifted, m
  <2>3. QED
    BY <1>4, <2>1, <2>2
<1>7. Shifted(s, l + 1, v)
  BY <1>5, <1>6 DEF Shifted, n
<1>8. u[1] = s[l + 1]
  <2>1. u[1] = s[1 + l] /\ 1 + l = l + 1
    BY <1>2 DEF Shifted
  <2>2. QED
    BY <2>1
<1>9. QED
  BY <1>2, <1>7, <1>8 DEF v

LEMMA PutRunFurther ==
    ASSUME NEW E, NEW s \in Seq(E), NEW t \in Seq(E), NEW u \in Seq(E), NEW i \in 1..(Len(t) + 1), NEW k \in Nat,
           k < Len(s), PutRun(t, i, s, k, u)
    PROVE  i + k \in 1..(Len(u) + 1) /\ PutRun(t, i, s, k + 1, InsertAt(u, i + k, s[k + 1]))
<1> DEFINE n == Len(t)
           m == Len(u)
           x == s[k + 1]
           v == InsertAt(u, i + k, x)
<1>1. n \in Nat /\ m \in Nat /\ m = n + k /\ i \in 1..(n + 1)
  BY DEF PutRun
<1>2. i + k \in 1..(Len(u) + 1) /\ x \in E
  <2>1. k + 1 \in 1..Len(s)
    OBVIOUS
  <2>2. x \in E
    BY <2>1
  <2> HIDE DEF n, x
  <2>3. QED
    BY <1>1, <2>2
<1>3. v \in Seq(E) /\ Inserted(u, i + k, x, v)
  <2> HIDE DEF x
  <2>1. QED
    BY <1>2, InsertAtLemma
<1> HIDE DEF n, m, v
<1>4. Len(v) = m + 1
      /\ \A j \in 1..(m + 1) : v[j] = IF j < i + k THEN u[j] ELSE IF j = i + k THEN x ELSE u[j - 1]
  BY <1>3 DEF Inserted, m
<1>5. \A j \in 1..m : u[j] = IF j < i THEN t[j] ELSE IF j < i + k THEN s[j - i + 1] ELSE t[j - k]
  BY DEF PutRun, m
<1>6. ASSUME NEW j \in 1..(m + 1)
      PROVE  v[j] = IF j < i THEN t[j] ELSE IF j < i + (k + 1) THEN s[j - i + 1] ELSE t[j - (k + 1)]
  <2>1. CASE j < i
    <3>1. j < i + k /\ j \in 1..m
      BY <1>1, <2>1
    <3>2. QED
      BY <1>4, <1>5, <2>1, <3>1
  <2>2. CASE ~ (j < i) /\ j < i + k
    <3>1. j \in 1..m /\ j < i + (k + 1)
      BY <1>1, <2>2
    <3>2. QED
      BY <1>4, <1>5, <2>2, <3>1
  <2>3. CASE j = i + k
    <3>1. ~ (j < i + k) /\ ~ (j < i) /\ j < i + (k + 1) /\ j - i + 1 = k + 1
      BY <1>1, <2>3
    <3>2. v[j] = x
      BY <1>4, <2>3, <3>1
    <3>3. QED
      BY <3>1, <3>2
  <2>4. CASE j > i + k
    <3>1. /\ ~ (j < i + k) /\ j # i + k /\ ~ (j < i) /\ ~ (j < i + (k + 1)) /\ j - 1 \in 1..m
          /\ ~ (j - 1 < i) /\ ~ (j - 1 < i + k) /\ (j - 1) - k = j - (k + 1)
      BY <1>1, <2>4
    <3>2. v[j] = u[j - 1]
      BY <1>4, <3>1
    <3>3. u[j - 1] = t[(j - 1) - k]
      BY <1>5, <3>1
    <3>4. QED
      BY <3>1, <3>2, <3>3
  <2>5. j < i \/ (~ (j < i) /\ j < i + k) \/ j = i + k \/ j > i + k
    BY <1>1
  <2>6. QED
    BY <2>1, <2>2, <2>3, <2>4, <2>5
<1>7. Len(v) = n + (k + 1)
  BY <1>1, <1>4
<1>8. PutRun(t, i, s, k + 1, v)
  BY <1>4, <1>6, <1>7 DEF PutRun, n
<1>9. QED
  BY <1>2, <1>8 DEF v

LEMMA PutRunDone ==
    ASSUME NEW E, NEW s \in Seq(E), NEW t \in Seq(E), NEW u \in Seq(E), NEW i \in 1..(Len(t) + 1),
           PutRun(t, i, s, Len(s), u)
    PROVE  u = SubSeq(t, 1, i - 1) \o s \o SubSeq(t, i, Len(t))
<1> DEFINE a == SubSeq(t, 1, i - 1)
           c == SubSeq(t, i, Len(t))
           n == Len(t)
           k == Len(s)
<1>1. n \in Nat /\ k \in Nat /\ i \in 1..(n + 1)
  OBVIOUS
<1>2. a \in Seq(E) /\ Len(a) = i - 1 /\ \A j \in 1..(i - 1) : a[j] = t[j]
  OBVIOUS
<1>3. c \in Seq(E) /\ Len(c) = (n - i) + 1 /\ \A j \in 1..((n - i) + 1) : c[j] = t[(i + j) - 1]
  OBVIOUS
<1>4. Len(u) = n + k /\ \A m \in 1..(n + k) : u[m] = IF m < i THEN t[m] ELSE IF m < i + k THEN s[m - i + 1] ELSE t[m - k]
  BY DEF PutRun
<1> HIDE DEF a, c
<1> DEFINE d == a \o s
<1>5. d \in Seq(E) /\ Len(d) = (i - 1) + k /\ \A m \in 1..((i - 1) + k) : d[m] = IF m <= i - 1 THEN a[m] ELSE s[m - (i - 1)]
  BY <1>2
<1> HIDE DEF d
<1> DEFINE e == d \o c
           p == Len(d)
           q == Len(c)
<1>6. /\ e \in Seq(E) /\ Len(e) = p + q
      /\ \A m \in 1..(p + q) : e[m] = IF m <= p THEN d[m] ELSE c[m - p]
  <2>1. d \in Seq(E) /\ c \in Seq(E)
    BY <1>3, <1>5
  <2>2. QED
    BY <2>1, ConcatProperties
<1>60. p = (i - 1) + k /\ q = (n - i) + 1
  BY <1>3, <1>5
<1> HIDE DEF e, n, k, p, q
<1>7. Len(e) = n + k
  BY <1>1, <1>6, <1>60
<1>8. ASSUME NEW m \in 1..(n + k) PROVE u[m] = e[m]
  <2>1. CASE m < i
    <3>1. m \in 1..(i - 1) /\ m <= i - 1 /\ m \in 1..((i - 1) + k) /\ m <= p /\ m \in 1..(p + q)
      BY <1>1, <1>60, <2>1
    <3>2. QED
      BY <1>2, <1>4, <1>5, <1>6, <2>1, <3>1
  <2>2. CASE ~ (m < i) /\ m < i + k
    <3>1. /\ ~ (m <= i - 1) /\ m \in 1..((i - 1) + k) /\ m <= p /\ m \in 1..(p + q)
          /\ m - (i - 1) = m - i + 1
      BY <1>1, <1>60, <2>2
    <3>2. QED
      BY <1>4, <1>5, <1>6, <2>2, <3>1
  <2>3. CASE ~ (m < i) /\ ~ (m < i + k)
    <3>1. /\ ~ (m <= p) /\ m \in 1..(p + q) /\ m - p \in 1..((n - i) + 1)
          /\ (i + (m - p)) - 1 = m - k
      BY <1>1, <1>60, <2>3
    <3>2. e[m] = c[m - p]
      BY <1>6, <3>1
    <3>3. c[m - p] = t[m - k]
      BY <1>3, <3>1
    <3>4. QED
      BY <1>4, <2>3, <3>2, <3>3
  <2>4. QED
    BY <2>1, <2>2, <2>3
<1>9. u = e
  BY <1>4, <1>6, <1>7, <1>8, SeqEqual
<1>10. QED
  BY <1>9 DEF e, d, a, c

\* The point pt stands for the position i of the list t of the region dst.
PointAt(pt, dst, t, i) ==
    /\ i = Place(pt, t)
    /\ IF pt[1] \in {"AfterBlock", "BeforeBlock"} THEN pt[2] \in Elems(t) ELSE pt[2] = dst

\* The m-th task of inlining the blocks of s at pt.
InlineTask(s, pt, m) ==
    LET i == (m + 1) \div 2
    IN  IF m % 2 = 1 THEN <<"unlink_block", s[i]>>
        ELSE <<"insert_block", s[i], IF i = 1 THEN pt ELSE <<"AfterBlock", s[i - 1]>>>>

\* Of the blocks s of src, k have gone to dst, and out of them is on its way.
InlineAt(src, s, dst, t, pt, i, k, out) ==
    /\ Len(agenda) = 2 * Len(s) - (2 * k + out)
    /\ \A m \in 1..Len(agenda) : agenda[m] = InlineTask(s, pt, m + (2 * k + out))
    /\ Shifted(s, k + out, blocks[src]) /\ PutRun(t, i, s, k, blocks[dst])
InlineOf(src, s, dst, t, pt) ==
    \E i \in 1..(Len(t) + 1), k \in 0..Len(s), out \in {0, 1} :
       PointAt(pt, dst, t, i) /\ InlineAt(src, s, dst, t, pt, i, k, out)

InlineInv ==
    call # <<>> /\ call[1] = "inline_region" /\ ~ panicked =>
       \E src \in Region, s \in Seq(Block), dst \in Region, t \in Seq(Block), pt \in BlockPoint :
          /\ call[2] = src /\ src # dst /\ s = before.blocks[src] /\ t = before.blocks[dst]
          /\ InlineOf(src, s, dst, t, pt)

LEMMA InlineTasks ==
    ASSUME NEW s, NEW pt, NEW k \in Nat
    PROVE  /\ InlineTask(s, pt, 2 * k + 1) = <<"unlink_block", s[k + 1]>>
           /\ InlineTask(s, pt, 2 * k + 2) =
                 <<"insert_block", s[k + 1], IF k = 0 THEN pt ELSE <<"AfterBlock", s[k]>>>>
<1>1. (2 * k + 1) % 2 = 1 /\ ((2 * k + 1) + 1) \div 2 = k + 1
  OBVIOUS
<1>2. (2 * k + 2) % 2 = 0 /\ ((2 * k + 2) + 1) \div 2 = k + 1
  OBVIOUS
<1>3. InlineTask(s, pt, 2 * k + 1) = <<"unlink_block", s[k + 1]>>
  BY <1>1 DEF InlineTask
<1>4. InlineTask(s, pt, 2 * k + 2) =
         <<"insert_block", s[k + 1], IF k + 1 = 1 THEN pt ELSE <<"AfterBlock", s[(k + 1) - 1]>>>>
  BY <1>2 DEF InlineTask
<1>5. (k + 1 = 1 <=> k = 0) /\ (k + 1) - 1 = k
  OBVIOUS
<1>6. QED
  BY <1>3, <1>4, <1>5

\* What is left after the first task.
LEMMA InlineNext ==
    ASSUME AgendaOK, agenda # <<>>, NEW s, NEW pt, NEW k \in Nat, NEW K \in Nat, Len(s) \in Nat,
           Len(agenda) = K - k, \A m \in 1..Len(agenda) : agenda[m] = InlineTask(s, pt, m + k), agenda' = Tail(agenda)
    PROVE  /\ k < K /\ agenda[1] = InlineTask(s, pt, k + 1)
           /\ Len(agenda') = K - (k + 1) /\ \A m \in 1..Len(agenda') : agenda'[m] = InlineTask(s, pt, m + (k + 1))
<1>1. /\ Len(agenda) \in Nat /\ Len(agenda) >= 1 /\ Len(agenda') = Len(agenda) - 1
      /\ \A i \in 1..(Len(agenda) - 1) : agenda'[i] = agenda[i + 1]
  BY AgendaLength
<1>2. agenda[1] = InlineTask(s, pt, k + 1)
  <2>1. 1 \in 1..Len(agenda) /\ 1 + k = k + 1
    BY <1>1
  <2>2. QED
    BY <2>1
<1>3. k < K /\ Len(agenda') = K - (k + 1)
  BY <1>1
<1>4. ASSUME NEW m \in 1..Len(agenda') PROVE agenda'[m] = InlineTask(s, pt, m + (k + 1))
  <2>1. m \in 1..(Len(agenda) - 1) /\ m + 1 \in 1..Len(agenda) /\ (m + 1) + k = m + (k + 1)
    BY <1>1
  <2>2. agenda'[m] = agenda[m + 1] /\ agenda[m + 1] = InlineTask(s, pt, (m + 1) + k)
    BY <1>1, <2>1
  <2>3. QED
    BY <2>1, <2>2
<1>5. QED
  BY <1>2, <1>3, <1>4

LEMMA InlineBegins ==
    ASSUME CallInv, CallInline
    PROVE  InlineInv'
<1>1. PICK r \in live \cap Region, pt \in BlockPoints :
       /\ Usable(pt) /\ Container(pt) \notin Contained(r)
       /\ Begin(<<"inline_region", r, pt>>,
                [k \in 1..(2 * Len(blocks[r])) |->
                   LET i == (k + 1) \div 2
                   IN  IF k % 2 = 1 THEN <<"unlink_block", blocks[r][i]>>
                       ELSE <<"insert_block", blocks[r][i],
                              IF i = 1 THEN pt ELSE <<"AfterBlock", blocks[r][i - 1]>>>>])
  BY DEF CallInline
<1>2. PICK dst, s, t, i : dst = Container(pt) /\ s = blocks[r] /\ t = blocks[dst] /\ i = Place(pt, t)
  OBVIOUS
<1>3. RwInv /\ IInv /\ pt \in BlockPoint
  BY DEF CallInv, RwInv, BlockPoints, BlockPoint
<1>4. dst \in Region /\ i \in 1..(Len(t) + 1)
  BY <1>1, <1>2, <1>3, BlockPlace
<1>5. s \in Seq(Block) /\ t \in Seq(Block)
  BY <1>2, <1>3, <1>4 DEF IInv, IRTypeOK
<1>6. r # dst
  <2>1. r \in Contained(r)
    BY <1>3, ContainedLemma DEF IInv, ContainedOK, Object
  <2>2. QED
    BY <1>1, <1>2, <2>1
<1>7. /\ agenda' = [k \in 1..(2 * Len(s)) |-> InlineTask(s, pt, k)]
      /\ call' = <<"inline_region", r, pt>> /\ blocks' = blocks /\ before'.blocks = blocks
  BY <1>1, <1>2, Zenon DEF Begin, IRNow, InlineTask
<1>8. PointAt(pt, dst, t, i)
  <2>1. CASE pt[1] \in {"AfterBlock", "BeforeBlock"}
    <3>1. pt[2] \in Block /\ pt[2] \notin Op /\ BlockLinked(pt[2])
      BY <1>1, <1>3, <2>1, IRAssumption DEF BlockPoint, Usable
    <3>2. dst = RegionOf(pt[2]) /\ pt[2] \in Elems(blocks[RegionOf(pt[2])])
      BY <1>2, <2>1, <3>1, RegionOfLemma DEF Container
    <3>3. QED
      BY <1>2, <2>1, <3>2 DEF PointAt
  <2>2. CASE pt[1] \notin {"AfterBlock", "BeforeBlock"}
    <3>1. pt[2] \in Region /\ pt[2] \notin Op
      BY <1>3, <2>2, IRAssumption DEF BlockPoint
    <3>2. dst = pt[2]
      BY <1>2, <2>2, <3>1 DEF Container
    <3>3. QED
      BY <1>2, <2>2, <3>2 DEF PointAt
  <2>3. QED
    BY <2>1, <2>2
<1>9. InlineAt(r, s, dst, t, pt, i, 0, 0)'
  <2>1. PICK N : N = 2 * Len(s)
    OBVIOUS
  <2>2. N \in Nat /\ Len(s) \in Nat /\ Len(t) \in Nat
    BY <1>5, <2>1
  <2>3. agenda' \in Seq({InlineTask(s, pt, k) : k \in 1..N})
    BY <1>7, <2>1, <2>2, FunctionIsSeq
  <2>4. DOMAIN agenda' = 1..N
    BY <1>7, <2>1
  <2>5. Len(agenda') = N
    BY <2>2, <2>3, <2>4
  <2>6. \A m \in 1..N : agenda'[m] = InlineTask(s, pt, m)
    BY <1>7, <2>1
  <2>7. N - (2 * 0 + 0) = N /\ \A m \in 1..N : m + (2 * 0 + 0) = m
    BY <2>2
  <2>8. Len(agenda') = 2 * Len(s) - (2 * 0 + 0)
        /\ \A m \in 1..Len(agenda') : agenda'[m] = InlineTask(s, pt, m + (2 * 0 + 0))
    BY <2>1, <2>5, <2>6, <2>7
  <2>9. Shifted(s, 0 + 0, s)
    <3>1. Len(s) = Len(s) - (0 + 0) /\ \A m \in 1..Len(s) : m + (0 + 0) = m
      BY <2>2
    <3>2. QED
      BY <3>1 DEF Shifted
  <2>10. PutRun(t, i, s, 0, t)
    <3>1. Len(t) = Len(t) + 0
      BY <2>2
    <3>2. \A m \in 1..Len(t) : (~ (m < i) => ~ (m < i + 0)) /\ m - 0 = m
      BY <1>4, <2>2
    <3>3. QED
      BY <3>1, <3>2 DEF PutRun
  <2>11. blocks'[r] = s /\ blocks'[dst] = t
    BY <1>2, <1>7
  <2>12. QED
    BY <2>8, <2>9, <2>10, <2>11 DEF InlineAt
<1>10. InlineOf(r, s, dst, t, pt)'
  <2>1. 0 \in 0..Len(s) /\ 0 \in {0, 1}
    BY <1>5
  <2>2. QED
    BY <1>4, <1>8, <1>9, <2>1 DEF InlineOf
<1>11. call'[2] = r /\ s = before'.blocks[r] /\ t = before'.blocks[dst]
  BY <1>2, <1>7
<1>12. QED
  BY <1>3, <1>4, <1>5, <1>6, <1>10, <1>11 DEF InlineInv

\* Of a region a block is taken that is the first there.
LEMMA InlineTakes ==
    ASSUME ListsOK(blocks, Region, Block), NEW src \in Region, NEW dst \in Region, src # dst, NEW s \in Seq(Block),
           NEW k \in Nat, k < Len(s), Shifted(s, k, blocks[src]), BlockTaken(s[k + 1])
    PROVE  Shifted(s, k + 1, blocks'[src]) /\ blocks'[dst] = blocks[dst]
<1> DEFINE x == s[k + 1]
<1>1. blocks \in [Region -> Seq(Block)] /\ blocks[src] \in Seq(Block)
  BY DEF ListsOK
<1>2. 1 \in 1..Len(blocks[src]) /\ blocks[src][1] = x /\ Shifted(s, k + 1, RemoveAt(blocks[src], 1))
  BY <1>1, ShiftedFurther
<1> HIDE DEF x
<1>3. x \in Elems(blocks[src])
  BY <1>2 DEF Elems
<1>4. RegionOf(x) = src
  <2>1. BlockLinked(x)
    BY <1>3 DEF BlockLinked
  <2>2. RegionOf(x) \in Region /\ x \in Elems(blocks[RegionOf(x)])
    BY <2>1, RegionOfLemma
  <2>3. QED
    BY <1>3, <2>2 DEF ListsOK
<1>5. IndexIn(blocks[src], x) = 1
  <2>1. IndexIn(blocks[src], x) \in 1..Len(blocks[src]) /\ blocks[src][IndexIn(blocks[src], x)] = x
    BY <1>3, IndexLemma
  <2>2. QED
    BY <1>2, <2>1 DEF ListsOK
<1>6. blocks' = TakeOut(blocks, src, 1)
  BY <1>4, <1>5 DEF BlockTaken, x
<1>7. blocks'[src] = RemoveAt(blocks[src], 1) /\ blocks'[dst] = blocks[dst]
  BY <1>1, <1>6 DEF TakeOut
<1>8. QED
  BY <1>2, <1>7

\* It goes to the place after those before it.
LEMMA InlinePlace ==
    ASSUME ListsOK(blocks, Region, Block), NEW dst \in Region, NEW s \in Seq(Block), NEW t \in Seq(Block),
           NEW pt \in BlockPoint, NEW i \in 1..(Len(t) + 1), PointAt(pt, dst, t, i), NEW k \in Nat, k < Len(s),
           PutRun(t, i, s, k, blocks[dst]), NEW at, at = IF k = 0 THEN pt ELSE <<"AfterBlock", s[k]>>
    PROVE  Container(at) = dst /\ Place(at, blocks[dst]) = i + k
<1> DEFINE u == blocks[dst]
<1>0. u \in Seq(Block) /\ Len(t) \in Nat /\ Len(u) \in Nat /\ Len(u) = Len(t) + k
  BY DEF ListsOK, PutRun
<1>1. \A b \in Block, r \in Region : b \in Elems(u) => b \notin Op /\ RegionOf(b) = dst
  <2>1. ASSUME NEW b \in Block, b \in Elems(u) PROVE RegionOf(b) = dst
    <3>1. BlockLinked(b)
      BY <2>1 DEF BlockLinked
    <3>2. RegionOf(b) \in Region /\ b \in Elems(blocks[RegionOf(b)])
      BY <3>1, RegionOfLemma
    <3>3. QED
      BY <2>1, <3>2 DEF ListsOK
  <2>2. QED
    BY <2>1, IRAssumption
<1>2. CASE k = 0
  <2>1. at = pt
    BY <1>2
  <2>2. u = t
    <3>1. Len(u) = Len(t)
      BY <1>0, <1>2
    <3>2. ASSUME NEW m \in 1..Len(u) PROVE u[m] = t[m]
      <4>1. u[m] = IF m < i THEN t[m] ELSE IF m < i + k THEN s[m - i + 1] ELSE t[m - k]
        BY DEF PutRun
      <4>2. (m < i \/ ~ (m < i + k)) /\ m - k = m
        BY <1>0, <1>2
      <4>3. QED
        BY <4>1, <4>2
    <3> HIDE DEF u
    <3>3. QED
      BY <1>0, <3>1, <3>2, SeqEqual
  <2>3. Place(at, u) = i + k
    <3>1. i + k = i
      BY <1>0, <1>2
    <3>2. QED
      BY <2>1, <2>2, <3>1 DEF PointAt
  <2>4. Container(at) = dst
    <3>1. CASE pt[1] \in {"AfterBlock", "BeforeBlock"}
      <4>1. pt[2] \in Elems(u) /\ pt[2] \in Block
        BY <2>2, <3>1, IRAssumption DEF PointAt, BlockPoint
      <4>2. pt[2] \notin Op /\ RegionOf(pt[2]) = dst
        BY <1>1, <4>1
      <4>3. QED
        BY <2>1, <3>1, <4>2 DEF Container
    <3>2. CASE pt[1] \notin {"AfterBlock", "BeforeBlock"}
      <4>1. pt[2] = dst /\ pt[2] \notin Op
        BY <3>2, IRAssumption DEF PointAt
      <4>2. QED
        BY <2>1, <3>2, <4>1 DEF Container
    <3>3. QED
      BY <3>1, <3>2
  <2>5. QED
    BY <2>3, <2>4
<1>3. CASE k # 0
  <2>1. at = <<"AfterBlock", s[k]>>
    BY <1>3
  <2> DEFINE m == i + k - 1
  <2>2. m \in 1..Len(u) /\ ~ (m < i) /\ m < i + k /\ m - i + 1 = k /\ m + 1 = i + k
    <3> DEFINE n == Len(t)
               l == Len(u)
    <3>1. n \in Nat /\ l = n + k /\ i \in 1..(n + 1)
      BY <1>0
    <3> HIDE DEF n, l
    <3>2. m \in 1..l /\ ~ (m < i) /\ m < i + k /\ m - i + 1 = k /\ m + 1 = i + k
      BY <1>3, <3>1
    <3>3. QED
      BY <3>2 DEF l
  <2> HIDE DEF m
  <2>3. u[m] = s[k]
    <3>1. u[m] = IF m < i THEN t[m] ELSE IF m < i + k THEN s[m - i + 1] ELSE t[m - k]
      BY <2>2 DEF PutRun
    <3>2. QED
      BY <2>2, <3>1
  <2>4. s[k] \in Block /\ s[k] \in Elems(u)
    <3>1. k \in 1..Len(s)
      BY <1>3
    <3>2. u[m] \in Elems(u)
      BY <2>2 DEF Elems
    <3>3. QED
      BY <2>3, <3>1, <3>2
  <2>5. IndexIn(u, s[k]) = m
    <3>1. IndexIn(u, s[k]) \in 1..Len(u) /\ u[IndexIn(u, s[k])] = s[k]
      BY <2>4, IndexLemma
    <3>2. QED
      BY <2>2, <2>3, <3>1 DEF ListsOK
  <2>6. Place(at, u) = i + k
    BY <2>1, <2>2, <2>5 DEF Place
  <2>7. Container(at) = dst
    BY <1>1, <2>1, <2>4 DEF Container
  <2>8. QED
    BY <2>6, <2>7
<1>4. QED
  BY <1>2, <1>3

LEMMA InlinePuts ==
    ASSUME ListsOK(blocks, Region, Block), NEW src \in Region, NEW dst \in Region, src # dst,
           NEW s \in Seq(Block), NEW t \in Seq(Block), NEW pt \in BlockPoint, NEW i \in 1..(Len(t) + 1),
           PointAt(pt, dst, t, i), NEW k \in Nat, k < Len(s), PutRun(t, i, s, k, blocks[dst]),
           NEW at, at = IF k = 0 THEN pt ELSE <<"AfterBlock", s[k]>>, BlockPut(s[k + 1], at)
    PROVE  PutRun(t, i, s, k + 1, blocks'[dst]) /\ blocks'[src] = blocks[src]
<1>1. blocks \in [Region -> Seq(Block)] /\ blocks[dst] \in Seq(Block)
  BY DEF ListsOK
<1>2. Container(at) = dst /\ Place(at, blocks[dst]) = i + k
  BY InlinePlace
<1>3. blocks' = PutInto(blocks, dst, i + k, s[k + 1])
  BY <1>2 DEF BlockPut
<1>4. blocks'[dst] = InsertAt(blocks[dst], i + k, s[k + 1]) /\ blocks'[src] = blocks[src]
  BY <1>1, <1>3 DEF PutInto
<1>5. PutRun(t, i, s, k + 1, InsertAt(blocks[dst], i + k, s[k + 1]))
  BY <1>1, PutRunFurther
<1>6. QED
  BY <1>4, <1>5

\* The task at hand moves the blocks on by one step.
LEMMA InlineOne ==
    ASSUME CallInv, HistoryOK, Steps, ~ panicked', NEW src \in Region, NEW s \in Seq(Block), NEW dst \in Region,
           NEW t \in Seq(Block), NEW pt \in BlockPoint, src # dst, InlineOf(src, s, dst, t, pt)
    PROVE  InlineOf(src, s, dst, t, pt)'
<1>1. PICK i \in 1..(Len(t) + 1), k \in 0..Len(s), out \in {0, 1} :
        PointAt(pt, dst, t, i) /\ InlineAt(src, s, dst, t, pt, i, k, out)
  BY DEF InlineOf
<1>2. /\ Len(agenda) = 2 * Len(s) - (2 * k + out)
      /\ \A m \in 1..Len(agenda) : agenda[m] = InlineTask(s, pt, m + (2 * k + out))
      /\ Shifted(s, k + out, blocks[src]) /\ PutRun(t, i, s, k, blocks[dst])
  BY <1>1 DEF InlineAt
<1>3. ListsOK(blocks, Region, Block) /\ AgendaOK /\ agenda # <<>>
  BY ListsSound, StepKinds DEF CallInv, RwInv
<1>4. Len(s) \in Nat /\ k \in Nat /\ 2 * k + out \in Nat /\ 2 * Len(s) \in Nat
  BY <1>1
<1>5. ASSUME agenda' = Tail(agenda)
      PROVE  /\ 2 * k + out < 2 * Len(s) /\ agenda[1] = InlineTask(s, pt, (2 * k + out) + 1)
             /\ Len(agenda') = 2 * Len(s) - ((2 * k + out) + 1)
             /\ \A m \in 1..Len(agenda') : agenda'[m] = InlineTask(s, pt, m + ((2 * k + out) + 1))
  <2>1. PICK j, K : j = 2 * k + out /\ K = 2 * Len(s)
    OBVIOUS
  <2>2. /\ j \in Nat /\ K \in Nat /\ Len(agenda) = K - j
        /\ \A m \in 1..Len(agenda) : agenda[m] = InlineTask(s, pt, m + j)
    BY <1>2, <1>4, <2>1
  <2>3. /\ j < K /\ agenda[1] = InlineTask(s, pt, j + 1)
        /\ Len(agenda') = K - (j + 1) /\ \A m \in 1..Len(agenda') : agenda'[m] = InlineTask(s, pt, m + (j + 1))
    BY <1>3, <1>4, <1>5, <2>2, InlineNext
  <2>4. QED
    BY <2>1, <2>3
<1>6. agenda[1] = InlineTask(s, pt, (2 * k + out) + 1) /\ 2 * k + out < 2 * Len(s)
  <2>1. Len(agenda) \in Nat /\ Len(agenda) >= 1 /\ 1 \in 1..Len(agenda)
    BY <1>3, AgendaLength
  <2>2. 1 + (2 * k + out) = (2 * k + out) + 1 /\ 2 * k + out < 2 * Len(s)
    BY <1>2, <1>4, <2>1
  <2>3. QED
    BY <1>2, <2>1, <2>2
<1>7. CASE out = 0
  <2>1. agenda[1] = <<"unlink_block", s[k + 1]>> /\ k < Len(s) /\ k + out = k
    <3>1. (2 * k + out) + 1 = 2 * k + 1 /\ k < Len(s) /\ k + out = k
      BY <1>4, <1>6, <1>7
    <3>2. QED
      BY <1>4, <1>6, <3>1, InlineTasks
  <2>2. agenda[1][1] = "unlink_block" /\ Subject = s[k + 1]
    BY <2>1 DEF Subject
  <2>3. UnlinkBlock
    BY <2>2 DEF Steps, EraseOperation, EraseBlock, EraseRegion, EraseOperations, FreeOperation, FreeBlock, FreeRegion,
                ReplaceUses, UnlinkOperation, InsertScoped, AppendOperation, InsertBlock, CreateBlock,
                MoveTail, RestorePoint, Task
  <2>4. agenda' = Tail(agenda)
    BY <2>3 DEF UnlinkBlock, Done, Panic
  <2>5. BlockTaken(s[k + 1])
    BY <2>2, <2>3, UnlinkBlockChange
  <2>6. Shifted(s, k + 1, blocks'[src]) /\ blocks'[dst] = blocks[dst]
    <3>1. Shifted(s, k, blocks[src])
      BY <1>2, <2>1
    <3>2. QED
      BY <1>3, <1>4, <2>1, <2>5, <3>1, InlineTakes
  <2>7. (2 * k + out) + 1 = 2 * k + 1
    BY <1>7
  <2>8. InlineAt(src, s, dst, t, pt, i, k, 1)'
    BY <1>2, <1>5, <2>4, <2>6, <2>7 DEF InlineAt
  <2>9. QED
    BY <1>1, <2>8 DEF InlineOf, PointAt
<1>8. CASE out = 1
  <2>1. PICK at : at = IF k = 0 THEN pt ELSE <<"AfterBlock", s[k]>>
    OBVIOUS
  <2>2. agenda[1] = <<"insert_block", s[k + 1], at>> /\ k < Len(s) /\ k + out = k + 1 /\ k + 1 \in 0..Len(s)
    <3>1. (2 * k + out) + 1 = 2 * k + 2 /\ k < Len(s) /\ k + out = k + 1 /\ k + 1 \in 0..Len(s)
      BY <1>4, <1>6, <1>8
    <3>2. InlineTask(s, pt, 2 * k + 2) = <<"insert_block", s[k + 1], at>>
      BY <1>4, <2>1, InlineTasks
    <3>3. QED
      BY <1>6, <3>1, <3>2
  <2>3. agenda[1][1] = "insert_block" /\ Subject = s[k + 1] /\ Point = at
    BY <2>2 DEF Subject, Point
  <2>4. InsertBlock
    BY <2>3 DEF Steps, EraseOperation, EraseBlock, EraseRegion, EraseOperations, FreeOperation, FreeBlock, FreeRegion,
                ReplaceUses, UnlinkOperation, UnlinkBlock, InsertScoped, AppendOperation, CreateBlock,
                MoveTail, RestorePoint, Task
  <2>5. agenda' = Tail(agenda)
    BY <2>4 DEF InsertBlock, Done, Panic
  <2>6. BlockPut(s[k + 1], at)
    BY <2>3, <2>4, InsertBlockChange
  <2>7. PutRun(t, i, s, k + 1, blocks'[dst]) /\ blocks'[src] = blocks[src]
    BY <1>1, <1>2, <1>3, <1>4, <2>1, <2>2, <2>6, InlinePuts
  <2>8. (2 * k + out) + 1 = 2 * (k + 1) + 0 /\ k + out = (k + 1) + 0
    BY <1>4, <1>8
  <2>9. InlineAt(src, s, dst, t, pt, i, k + 1, 0)'
    BY <1>2, <1>5, <2>5, <2>7, <2>8 DEF InlineAt
  <2>10. QED
    BY <1>1, <2>2, <2>9 DEF InlineOf, PointAt
<1>9. QED
  BY <1>7, <1>8

LEMMA InlineStep == CallInv /\ HistoryOK /\ InlineInv /\ [RwNext]_allVars => InlineInv'
<1> SUFFICES ASSUME CallInv, HistoryOK, InlineInv, [RwNext]_allVars,
                    call' # <<>>, call'[1] = "inline_region", ~ panicked'
             PROVE  InlineInv'
  BY DEF InlineInv
<1>1. ASSUME call # <<>>, call[1] = "inline_region", ~ panicked, call' = call, before' = before,
             \A src \in Region, dst \in Region, s \in Seq(Block), t \in Seq(Block), pt \in BlockPoint :
                src # dst /\ InlineOf(src, s, dst, t, pt) => InlineOf(src, s, dst, t, pt)'
      PROVE  InlineInv'
  <2>1. PICK src \in Region, s \in Seq(Block), dst \in Region, t \in Seq(Block), pt \in BlockPoint :
          /\ call[2] = src /\ src # dst /\ s = before.blocks[src] /\ t = before.blocks[dst]
          /\ InlineOf(src, s, dst, t, pt)
    BY <1>1 DEF InlineInv
  <2>2. InlineOf(src, s, dst, t, pt)'
    BY <1>1, <2>1
  <2>3. call'[2] = src /\ s = before'.blocks[src] /\ t = before'.blocks[dst]
    BY <1>1, <2>1
  <2>4. QED
    BY <2>1, <2>2, <2>3 DEF InlineInv
<1>2. CASE UNCHANGED allVars
  <2>1. UNCHANGED <<agenda, call, blocks, before, panicked>>
    BY <1>2 DEF allVars
  <2>2. ASSUME NEW src \in Region, NEW dst \in Region, NEW s \in Seq(Block), NEW t \in Seq(Block), NEW pt \in BlockPoint,
               src # dst, InlineOf(src, s, dst, t, pt)
        PROVE  InlineOf(src, s, dst, t, pt)'
    BY <2>1, <2>2 DEF InlineOf, InlineAt, PointAt
  <2>3. QED
    BY <1>1, <2>1, <2>2
<1>3. CASE Calls
  <2>1. CallInline
    BY <1>3 DEF Calls, CallErase, CallReplace, CallMove, CallCreate, CallSplit, Begin
  <2>2. QED
    BY <2>1, InlineBegins
<1>4. CASE Steps
  <2>1. agenda # <<>> /\ call' = call /\ before' = before
    BY <1>4, StepKinds
  <2>2. ~ panicked
    BY <1>4 DEF Steps, EraseOperation, EraseBlock, EraseRegion, EraseOperations, FreeOperation, FreeBlock, FreeRegion,
                ReplaceUses, UnlinkOperation, UnlinkBlock, InsertScoped, AppendOperation, InsertBlock, CreateBlock,
                MoveTail, RestorePoint, Task
  <2>3. QED
    BY <1>1, <1>4, <2>1, <2>2, InlineOne
<1>5. QED
  BY <1>2, <1>3, <1>4 DEF RwNext

\* In the end all of the blocks have gone.
LEMMA InlineDone ==
    ASSUME InlineInv, call # <<>>, call[1] = "inline_region", agenda = <<>>, ~ panicked, IInv
    PROVE  /\ blocks[call[2]] = <<>>
           /\ \E r \in Region : \E i \in 1..(Len(before.blocks[r]) + 1) :
                blocks[r] = SubSeq(before.blocks[r], 1, i - 1) \o before.blocks[call[2]]
                              \o SubSeq(before.blocks[r], i, Len(before.blocks[r]))
<1>1. PICK src \in Region, s \in Seq(Block), dst \in Region, t \in Seq(Block), pt \in BlockPoint :
        /\ call[2] = src /\ src # dst /\ s = before.blocks[src] /\ t = before.blocks[dst]
        /\ InlineOf(src, s, dst, t, pt)
  BY DEF InlineInv
<1>2. PICK i \in 1..(Len(t) + 1), k \in 0..Len(s), out \in {0, 1} :
        PointAt(pt, dst, t, i) /\ InlineAt(src, s, dst, t, pt, i, k, out)
  BY <1>1 DEF InlineOf
<1>3. /\ Len(agenda) = 2 * Len(s) - (2 * k + out)
      /\ Shifted(s, k + out, blocks[src]) /\ PutRun(t, i, s, k, blocks[dst])
  BY <1>2 DEF InlineAt
<1>4. Len(agenda) = 0 /\ Len(s) \in Nat
  OBVIOUS
<1>5. k = Len(s) /\ out = 0 /\ Len(s) - (k + out) = 0
  BY <1>2, <1>3, <1>4
<1>6. blocks[src] \in Seq(Block) /\ blocks[dst] \in Seq(Block)
  BY DEF IInv, IRTypeOK
<1>7. blocks[src] = <<>>
  BY <1>3, <1>5, <1>6 DEF Shifted
<1>8. blocks[dst] = SubSeq(t, 1, i - 1) \o s \o SubSeq(t, i, Len(t))
  BY <1>2, <1>3, <1>5, <1>6, PutRunDone
<1>9. QED
  BY <1>1, <1>2, <1>7, <1>8

\* What inline_region has moved, whenever it is interrupted, is a run of the region's
\* blocks in their order, next to each other at the place that the call names.
THEOREM InlineInvariant == RwSpec => []InlineInv
<1>1. RwInit => InlineInv
  BY DEF RwInit, InlineInv
<1>2. QED
  BY <1>1, InlineStep, CallInvariant, HistoryInvariant, PTL DEF RwSpec

\* split_block and inline_region keep the order of what they move, and no call but the
\* two that insert at the insertion point moves it.
THEOREM PlacesAreKept == RwSpec => []PlacesKept
<1>1. ASSUME CallInv, SplitInv, InlineInv, PointInv PROVE PlacesKept
  <2>1. IInv /\ (Returned => call # <<>> /\ agenda = <<>> /\ ~ panicked)
    BY <1>1 DEF CallInv, RwInv, Returned, Idle
  <2>2. OrderKept
    BY <1>1, <2>1, SplitDone, InlineDone DEF OrderKept
  <2>3. PointKept
    BY <1>1, <2>1 DEF PointKept, PointInv
  <2>4. QED
    BY <2>2, <2>3 DEF PlacesKept
<1>2. QED
  BY <1>1, CallInvariant, SplitInvariant, InlineInvariant, PointInvariant, PTL
================================================================================
