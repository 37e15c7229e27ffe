------------------------------ MODULE Rewriter ------------------------------
(***************************************************************************)
(* IRRewriter and the IRInserter inside it (src/src/irbuild/rewriter.rs,   *)
(* inserter.rs), on the IR of module IR, with the Recorder listener        *)
(* (listener.rs).  A call is carried out in steps: agenda holds what is    *)
(* left to do of it, innermost first, and each step is one change of the   *)
(* IR with the notification that goes with it.  A failed assertion ends    *)
(* everything (panicked).                                                  *)
(***************************************************************************)
EXTENDS IR

CONSTANT Programs                \* the IRs, as records, that a rewriter is used on

VARIABLES agenda,                \* tasks of the current call, first one next
          call,                  \* the current or last call
          op_insertion_point, modified,
          events,                \* what the Recorder has recorded during the call
          panicked,
          before                 \* history: the IR when the call began

rwVars == <<agenda, call, op_insertion_point, modified, events, panicked, before>>
allVars == <<live, erased, operands, successors, regions, parent_op, ops, blocks,
             agenda, call, op_insertion_point, modified, events, panicked, before>>

Unset == <<"Unset">>
OpPoints == {Unset} \cup ({"AtBlockStart", "AtBlockEnd"} \X (live \cap Block))
                    \cup ({"AfterOperation", "BeforeOperation"} \X (live \cap Op))
BlockPoints == ({"AtRegionStart", "AtRegionEnd"} \X (live \cap Region))
                    \cup ({"AfterBlock", "BeforeBlock"} \X (live \cap Block))
IRNow == [live |-> live, operands |-> operands, successors |-> successors, ops |-> ops,
          blocks |-> blocks, regions |-> regions, point |-> op_insertion_point, modified |-> modified]

\* A rewriter is made for a sound IR.
RwInit ==
    /\ \E p \in Programs :
          /\ live = p.live /\ erased = {} /\ operands = p.operands /\ successors = p.successors
          /\ regions = p.regions /\ parent_op = p.parent_op /\ ops = p.ops /\ blocks = p.blocks
          /\ op_insertion_point \in {Unset, <<"AtBlockEnd", p.blocks[p.some_region][1]>>}
    /\ IRTypeOK /\ NestingSound /\ op_insertion_point \in OpPoints
    /\ agenda = <<>> /\ call = <<>> /\ events = <<>>
    /\ modified = FALSE /\ panicked = FALSE
    /\ before = IRNow

Idle == agenda = <<>> /\ ~ panicked

(***************************************************************************)
(* Positions                                                               *)
(***************************************************************************)

IndexIn(s, x) == CHOOSE i \in 1..Len(s) : s[i] = x
BlockOf(o) == CHOOSE b \in Block : o \in Elems(ops[b])
RegionOf(b) == CHOOSE r \in Region : b \in Elems(blocks[r])

\* Can something be inserted there?  Otherwise the insertion panics.
Usable(pt) == /\ pt # Unset
              /\ pt[2] \in live
              /\ pt[2] \in Op => OpLinked(pt[2])
              /\ pt[1] \in {"AfterBlock", "BeforeBlock"} => BlockLinked(pt[2])

\* The container and the position in it that an insertion point stands for.
Container(pt) == IF pt[2] \in Op THEN BlockOf(pt[2])
                 ELSE IF pt[1] \in {"AfterBlock", "BeforeBlock"} THEN RegionOf(pt[2]) ELSE pt[2]
Place(pt, s) == CASE pt[1] \in {"AtBlockStart", "AtRegionStart"} -> 1
                  [] pt[1] \in {"AtBlockEnd", "AtRegionEnd"} -> Len(s) + 1
                  [] pt[1] \in {"AfterOperation", "AfterBlock"} -> IndexIn(s, pt[2]) + 1
                  [] OTHER -> IndexIn(s, pt[2])

\* Mutant: a tail is not told from an operation in the middle.
RecordedPoint_HeadOrTail(o) ==
    LET b == BlockOf(o) IN IF ops[b][1] = o THEN <<"AtBlockStart", b>> ELSE <<"AtBlockEnd", b>>

\* The previous position that the Recorder keeps of what is about to be unlinked.
RecordedPoint(o) ==
    LET b == BlockOf(o)
        i == IndexIn(ops[b], o)
    IN  CASE i = 1 -> <<"AtBlockStart", b>>
          [] i # 1 /\ i = Len(ops[b]) -> <<"AtBlockEnd", b>>
          [] OTHER -> <<"AfterOperation", ops[b][i - 1]>>

RecordedBlockPoint(b) ==
    LET r == RegionOf(b)
        i == IndexIn(blocks[r], b)
    IN  CASE i = 1 -> <<"AtRegionStart", r>>
          [] i # 1 /\ i = Len(blocks[r]) -> <<"AtRegionEnd", r>>
          [] OTHER -> <<"AfterBlock", blocks[r][i - 1]>>

(***************************************************************************)
(* The control-flow graph of a region, and post_order over it              *)
(***************************************************************************)

BlockSuccs(b) == IF ops[b] = <<>> THEN <<>> ELSE successors[Last(ops[b])]

\* A walk so far: the blocks it has seen, and those it has left, in order.
Walks == [seen : SUBSET Block, po : Seq(Block)]

\* The walk after visiting the blocks of s, one after the other.
VisitAll(visit, s, walk) ==
    LET After[i \in 0..Len(s)] == IF i = 0 THEN walk ELSE visit[s[i]][After[i - 1]]
    IN  After[Len(s)]

\* Each block of the region, seen before its successors and left after them; no
\* path of blocks that were not seen has more of them than there are.
post_order(r) ==
    LET Visit[d \in 0..Cardinality(Block)] ==
          [b \in Block |-> [walk \in Walks |->
             IF b \in walk.seen THEN walk
             ELSE [VisitAll(Visit[d - 1], IF d = 0 THEN <<>> ELSE BlockSuccs(b),
                            [walk EXCEPT !.seen = @ \cup {b}]) EXCEPT !.po = Append(@, b)]]]
    IN  VisitAll(Visit[Cardinality(Block)], blocks[r], [seen |-> {}, po |-> <<>>]).po

(***************************************************************************)
(* Starting a call                                                         *)
(***************************************************************************)

Begin(c, tasks) ==
    /\ call' = c /\ agenda' = tasks /\ events' = <<>> /\ before' = IRNow
    /\ UNCHANGED <<live, erased, operands, successors, regions, parent_op, ops, blocks,
                   op_insertion_point, modified, panicked>>

Each(kind, s) == [i \in 1..Len(s) |-> <<kind, s[i]>>]

\* A rule for callers: nothing is moved into itself.
NotInside(pt, x) == pt # Unset => pt[2] \notin Contained(x) \ {x}

CallErase ==
    \/ \E o \in live \cap Op : Begin(<<"erase_operation", o>>, <<<<"erase_operation", o>>>>)
    \/ \E b \in live \cap Block : Begin(<<"erase_block", b>>, <<<<"erase_block", b>>>>)
    \/ \E r \in live \cap Region : Begin(<<"erase_region", r>>, <<<<"erase_region", r>>>>)

CallReplace ==
    \/ \E o \in live \cap Op, v \in live \cap Value :
          Begin(<<"replace_operation", o, v>>, <<<<"replace_uses", o, v>>, <<"erase_operation", o>>>>)
    \/ \E v, w \in live \cap Value :
          v # w /\ Begin(<<"replace_value_uses_with", v, w>>, <<<<"replace_uses", v, w>>>>)

CallMove ==
    \/ \E o \in live \cap Op, pt \in OpPoints :
          /\ NotInside(pt, o)
          /\ Begin(<<"move_operation", o, pt>>, <<<<"unlink_operation", o>>, <<"insert_scoped", o, pt>>>>)
    \/ \E b \in live \cap Block, pt \in BlockPoints :
          /\ NotInside(pt, b)
          /\ Begin(<<"move_block", b, pt>>, <<<<"unlink_block", b>>, <<"insert_block", b, pt>>>>)
    \/ \E o \in live \cap Op :
          /\ NotInside(op_insertion_point, o)
          /\ Begin(<<"append_operation", o>>, <<<<"append_operation", o>>>>)

\* split_block gives the new block a place, then moves the operations one by one.
FirstOp(pos) == CASE pos[1] = "AtBlockStart" -> IF ops[pos[2]] = <<>> THEN {} ELSE {ops[pos[2]][1]}
                  [] pos[1] = "BeforeOperation" -> {pos[2]}
                  [] pos[1] = "AfterOperation" /\ Last(ops[BlockOf(pos[2])]) # pos[2] ->
                        {ops[BlockOf(pos[2])][IndexIn(ops[BlockOf(pos[2])], pos[2]) + 1]}
                  [] OTHER -> {}

CallSplit ==
    \E b \in live \cap Block, n \in Block \ live, pos \in OpPoints :
       /\ Fresh(n) /\ BlockLinked(b) /\ Usable(pos) /\ Container(pos) = b
       /\ Begin(<<"split_block", b, n>>,
                <<<<"create_block", n, <<"AfterBlock", b>>>>, <<"move_tail", n, FirstOp(pos)>>,
                  <<"restore_point", op_insertion_point>>>>)

CallCreate ==
    \E n \in Block \ live, pt \in BlockPoints :
       Fresh(n) /\ Begin(<<"create_block", n, pt>>, <<<<"create_block", n, pt>>>>)

\* The blocks are listed first; each goes after the one moved before it.
CallInline ==
    \E r \in live \cap Region, pt \in BlockPoints :
       /\ Usable(pt) /\ Container(pt) \notin Contained(r)
       /\ Begin(<<"inline_region", r, pt>>,
                [k \in 1..(2 * Len(blocks[r])) |->
                   LET i == (k + 1) \div 2
                   IN  IF k % 2 = 1 THEN <<"unlink_block", blocks[r][i]>>
                       ELSE <<"insert_block", blocks[r][i],
                              IF i = 1 THEN pt ELSE <<"AfterBlock", blocks[r][i - 1]>>>>])

(***************************************************************************)
(* The steps of a call                                                     *)
(***************************************************************************)

Task(kind) == ~ panicked /\ agenda # <<>> /\ agenda[1][1] = kind
Subject == agenda[1][2]
Point == agenda[1][3]

\* The first task gives way to others; the IR is not touched.
Expand(tasks) ==
    /\ agenda' = tasks \o Tail(agenda)
    /\ UNCHANGED <<live, erased, operands, successors, regions, parent_op, ops, blocks,
                   call, op_insertion_point, modified, events, panicked, before>>

\* The first task is done, with these notifications; mark_modified.
Done(told) ==
    /\ agenda' = Tail(agenda)
    /\ events' = events \o told /\ modified' = TRUE
    /\ UNCHANGED <<call, panicked, before>>

Panic ==
    /\ panicked' = TRUE /\ agenda' = <<>>
    /\ UNCHANGED <<live, erased, operands, successors, regions, parent_op, ops, blocks,
                   call, op_insertion_point, modified, events, before>>

\* Mutant: Operation::erase is left to free what is nested.
EraseOperation_Shallow ==
    /\ Task("erase_operation")
    /\ Expand(<<<<"free_operation", Subject>>>>)

\* Sub-entities are erased first, so that the listener hears of each.
EraseOperation ==
    /\ Task("erase_operation")
    /\ Expand(Each("erase_region", Reverse(regions[Subject])) \o <<<<"free_operation", Subject>>>>)

EraseBlock ==
    /\ Task("erase_block")
    /\ Expand(Each("erase_operation", Reverse(ops[Subject])) \o <<<<"free_block", Subject>>>>)

EraseRegion ==
    /\ Task("erase_region")
    /\ LET po == post_order(Subject)
       IN  Expand(Each("erase_operations", Reverse(po)) \o Each("erase_block", po)
                    \o <<<<"free_region", Subject>>>>)

EraseOperations ==
    /\ Task("erase_operations")
    /\ Expand(Each("erase_operation", Reverse(ops[Subject])))

\* Mutant: no assertion that the results are unused.
FreeOperation_Unchecked ==
    /\ Task("free_operation")
    /\ drop_uses(Contained(Subject)) /\ dealloc(Contained(Subject))
    /\ Done(<<<<"ErasedOperation", Subject>>>>)
    /\ UNCHANGED op_insertion_point

FreeOperation ==
    /\ Task("free_operation")
    /\ IF UsersOf({Subject}, Contained(Subject)) = {}
         THEN /\ Operation_erase(Subject)
              /\ Done(<<<<"ErasedOperation", Subject>>>>)
              /\ UNCHANGED op_insertion_point
         ELSE Panic

FreeBlock ==
    /\ Task("free_block")
    /\ LET D == Contained(Subject)
       IN  IF BranchesTo({Subject}, D) = {} /\ UsersOf({Subject} \cup Elems(ops[Subject]), D) = {}
             THEN /\ BasicBlock_erase(Subject)
                  /\ Done(<<<<"ErasedBlock", Subject>>>>)
                  /\ UNCHANGED op_insertion_point
             ELSE Panic

FreeRegion ==
    /\ Task("free_region")
    /\ Subject \in live
    /\ \E o \in parent_op[Subject] : erase_region(o, IndexIn(regions[o], Subject))
    /\ Done(<<<<"ErasedRegion", Subject>>>>)
    /\ UNCHANGED op_insertion_point

ReplaceUses ==
    /\ Task("replace_uses")
    /\ operands' = [o \in Op |-> [i \in 1..Len(operands[o]) |->
                      IF operands[o][i] = Subject THEN Point ELSE operands[o][i]]]
    /\ Done(<<<<"ReplacedValueUses", Subject>>>>)
    /\ UNCHANGED <<live, erased, successors, regions, parent_op, ops, blocks, op_insertion_point>>

UnlinkOperation ==
    /\ Task("unlink_operation")
    /\ IF OpLinked(Subject)
         THEN /\ unlink_op(Subject)
              /\ Done(<<<<"UnlinkedOperation", Subject, RecordedPoint(Subject)>>>>)
              /\ UNCHANGED op_insertion_point
         ELSE Panic

UnlinkBlock ==
    /\ Task("unlink_block")
    /\ IF BlockLinked(Subject)
         THEN /\ unlink_block(Subject)
              /\ Done(<<<<"UnlinkedBlock", Subject, RecordedBlockPoint(Subject)>>>>)
              /\ UNCHANGED op_insertion_point
         ELSE Panic

\* insert_operation under a ScopedRewriter: the insertion point is the same after.
InsertScoped ==
    /\ Task("insert_scoped")
    /\ IF Usable(Point) /\ ~ OpLinked(Subject)
         THEN /\ LET b == Container(Point) IN insert_op(Subject, b, Place(Point, ops[b]))
              /\ Done(<<<<"InsertedOperation", Subject>>>>)
              /\ UNCHANGED op_insertion_point
         ELSE Panic

AppendOperation ==
    /\ Task("append_operation")
    /\ IF Usable(op_insertion_point) /\ ~ OpLinked(Subject)
         THEN /\ LET b == Container(op_insertion_point)
                 IN  insert_op(Subject, b, Place(op_insertion_point, ops[b]))
              /\ op_insertion_point' = <<"AfterOperation", Subject>>
              /\ Done(<<<<"InsertedOperation", Subject>>>>)
         ELSE Panic

InsertBlock ==
    /\ Task("insert_block")
    /\ IF Usable(Point) /\ ~ BlockLinked(Subject)
         THEN /\ LET r == Container(Point) IN insert_block(Subject, r, Place(Point, blocks[r]))
              /\ Done(<<<<"InsertedBlock", Subject>>>>)
              /\ UNCHANGED op_insertion_point
         ELSE Panic

CreateBlock ==
    /\ Task("create_block")
    /\ IF Usable(Point)
         THEN /\ live' = live \cup {Subject}
              /\ LET r == Container(Point)
                 IN  blocks' = [blocks EXCEPT ![r] = InsertAt(@, Place(Point, @), Subject)]
              /\ op_insertion_point' = <<"AtBlockEnd", Subject>>
              /\ Done(<<<<"InsertedBlock", Subject>>>>)
              /\ UNCHANGED <<erased, operands, successors, regions, parent_op, ops>>
         ELSE Panic

\* Mutant: each operation goes to the front of the new block.
MoveTail_AtStart ==
    /\ Task("move_tail")
    /\ IF Point = {} THEN Expand(<<>>)
       ELSE \E o \in Point :
              LET from == BlockOf(o)
                  i == IndexIn(ops[from], o)
                  next_op == IF i = Len(ops[from]) THEN {} ELSE {ops[from][i + 1]}
              IN  /\ ops' = [ops EXCEPT ![from] = RemoveAt(@, i), ![Subject] = <<o>> \o @]
                  /\ agenda' = <<<<"move_tail", Subject, next_op>>>> \o Tail(agenda)
                  /\ events' = events \o <<<<"UnlinkedOperation", o, RecordedPoint(o)>>,
                                              <<"InsertedOperation", o>>>>
                  /\ modified' = TRUE
                  /\ UNCHANGED <<live, erased, operands, successors, regions, parent_op, blocks,
                                 call, op_insertion_point, panicked, before>>

\* One turn of the loop of split_block: the successor is read before the move.
MoveTail ==
    /\ Task("move_tail")
    /\ IF Point = {} THEN Expand(<<>>)
       ELSE \E o \in Point :
              LET from == BlockOf(o)
                  i == IndexIn(ops[from], o)
                  next_op == IF i = Len(ops[from]) THEN {} ELSE {ops[from][i + 1]}
              IN  /\ ops' = [ops EXCEPT ![from] = RemoveAt(@, i), ![Subject] = Append(@, o)]
                  /\ agenda' = <<<<"move_tail", Subject, next_op>>>> \o Tail(agenda)
                  /\ events' = events \o <<<<"UnlinkedOperation", o, RecordedPoint(o)>>,
                                              <<"InsertedOperation", o>>>>
                  /\ modified' = TRUE
                  /\ UNCHANGED <<live, erased, operands, successors, regions, parent_op, blocks,
                                 call, op_insertion_point, panicked, before>>

\* The ScopedRewriter of split_block is dropped.
RestorePoint ==
    /\ Task("restore_point")
    /\ op_insertion_point' = Subject
    /\ agenda' = Tail(agenda)
    /\ UNCHANGED <<live, erased, operands, successors, regions, parent_op, ops, blocks,
                   call, modified, events, panicked, before>>

Calls == /\ Idle /\ call = <<>>
         /\ CallErase \/ CallReplace \/ CallMove \/ CallSplit \/ CallCreate \/ CallInline

Steps == \/ EraseOperation \/ EraseBlock \/ EraseRegion \/ EraseOperations
         \/ FreeOperation \/ FreeBlock \/ FreeRegion
         \/ ReplaceUses \/ UnlinkOperation \/ UnlinkBlock
         \/ InsertScoped \/ AppendOperation \/ InsertBlock \/ CreateBlock
         \/ MoveTail \/ RestorePoint

RwNext == Calls \/ Steps

RwSpec == RwInit /\ [][RwNext]_allVars

(***************************************************************************)
(* Properties                                                              *)
(***************************************************************************)

Returned == Idle /\ call # <<>>
Erasures == {"ErasedOperation", "ErasedBlock", "ErasedRegion"}
Told(kind) == {events[i][2] : i \in {j \in 1..Len(events) : events[j][1] = kind}}

\* After each step of a call, so whenever the listener is told of one, and when the
\* call returns or panics, the IR is sound: no operand or successor dangles,
\* containment is a forest, regions are owned.  This is without StrictErase:
\* erasing through the rewriter checks every nested definition, which
\* Operation::erase does not.
SoundThroughout == NestingSound

ChildrenBefore(x) == IF x \notin erased THEN {}
                     ELSE Elems(IF x \in Op THEN before.regions[x]
                                ELSE IF x \in Region THEN before.blocks[x] ELSE before.ops[x])

\* The listener can follow: what was freed was announced as erased, once, and
\* before what contains it; and an operation or block is where it was before the
\* call unless an unlinking or insertion of it was announced.
ListenerToldAll ==
    Returned =>
       /\ Told("ErasedOperation") \cup Told("ErasedBlock") \cup Told("ErasedRegion") = erased
       /\ \A i, j \in 1..Len(events) : i # j /\ events[i][2] \in erased /\ events[i][2] = events[j][2]
                                         => events[i][1] # events[j][1]
       /\ \A i, j \in 1..Len(events) : i < j /\ events[i][1] \in Erasures
                                         => events[j][2] \notin ChildrenBefore(events[i][2])
       /\ \A b \in Block : \A o \in Elems(ops[b]) :
             o \in Elems(before.ops[b]) \/ o \in Told("InsertedOperation")
       /\ \A b \in Block : \A o \in Elems(before.ops[b]) \cap live :
             o \in Elems(ops[b]) \/ o \in Told("UnlinkedOperation")
       /\ \A r \in Region : \A b \in Elems(blocks[r]) :
             b \in Elems(before.blocks[r]) \/ b \in Told("InsertedBlock")

\* is_modified may only be false if nothing was changed: passes report the IR as
\* unchanged on the strength of it, and cached analyses are kept.
ModifiedIsHonest ==
    Returned /\ ~ modified => IRNow = before

\* Splitting a block and inlining a region keep the order of what they move.
OrderKept ==
    /\ Returned /\ call[1] = "split_block" => ops[call[2]] \o ops[call[3]] = before.ops[call[2]]
    /\ Returned /\ call[1] = "inline_region" =>
          /\ blocks[call[2]] = <<>>
          /\ \E r \in Region : \E i \in 1..(Len(before.blocks[r]) + 1) :
                blocks[r] = SubSeq(before.blocks[r], 1, i - 1) \o before.blocks[call[2]]
                              \o SubSeq(before.blocks[r], i, Len(before.blocks[r]))

\* Undoing one event on the lists ir.ops of blocks and ir.blocks of regions.
Without(lists, x) == [k \in DOMAIN lists |-> Retained(lists[k], Elems(lists[k]) \ {x})]
With(lists, pt, x) ==
    LET k == IF pt[2] \in DOMAIN lists THEN pt[2]
             ELSE CHOOSE c \in DOMAIN lists : pt[2] \in Elems(lists[c])
    IN  [lists EXCEPT ![k] = InsertAt(@, Place(pt, @), x)]
UndoEvent(ir, e) ==
    CASE e[1] = "InsertedOperation" -> [ir EXCEPT !.ops = Without(@, e[2])]
      [] e[1] = "UnlinkedOperation" -> [ir EXCEPT !.ops = With(@, e[3], e[2])]
      [] e[1] = "InsertedBlock" -> [ir EXCEPT !.blocks = Without(@, e[2])]
      [] e[1] = "UnlinkedBlock" -> [ir EXCEPT !.blocks = With(@, e[3], e[2])]
      [] OTHER -> ir

\* Undoing the events of es, the last one first.
Undone(ir, es) ==
    LET Back[k \in 0..Len(es)] ==
            IF k = 0 THEN ir ELSE UndoEvent(Back[k - 1], es[Len(es) - k + 1])
    IN  Back[Len(es)]

\* What the Recorder kept is enough to take a call back: if nothing was erased,
\* undoing its events from the last to the first gives the lists of before.
CallsUndoable ==
    Returned /\ erased = {} =>
        Undone([ops |-> ops, blocks |-> blocks], events) = [ops |-> before.ops, blocks |-> before.blocks]

\* Only appending and creating a block move the insertion point of the caller.
PointKept ==
    Returned /\ call[1] \notin {"append_operation", "create_block"} => op_insertion_point = before.point

\* The listener of a call that returns was told of everything that happened, in an
\* order it can follow, and the flag that passes report is set if anything changed.
AllTold == ListenerToldAll /\ ModifiedIsHonest

\* What was only moved keeps its order, and the insertion point its place.
PlacesKept == OrderKept /\ PointKept

\* What erase_region's comment says: "We erase blocks in post-order so that uses
\* are erased before defs".  In a region whose uses follow their definitions no
\* erasure of an operation may then meet a remaining use.
UsesErasedBeforeDefs == call # <<>> /\ call[1] = "erase_region" => ~ panicked
=============================================================================
