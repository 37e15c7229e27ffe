# A TLA+ development for pliron

pliron is a compiler intermediate representation (IR) framework in Rust, in the
manner of MLIR.  A `Context` owns arenas of operations, basic blocks and regions
that refer to each other through `Ptr`s (arena keys, checked at run time, not by
the borrow checker); clients change the IR through low-level calls, through an
`IRRewriter`, or through drivers that call them back.  Everything runs in one
thread.  What is hard here is not concurrency but *linked mutable state*: intrusive
lists, def-use chains kept in two places, recursive erasure, callbacks that change
what a loop is walking over, and graph algorithms whose corner cases (unreachable
nodes, endless loops, self loops, irreducible cycles) few tests reach.

Paths below are relative to `src/src/`.

## 1. Inventory

| Component | State | Operations | Interacts with | Correct when |
|---|---|---|---|---|
| Linked lists `linked_list.rs` | `prev`, `next`, `container` of a node; `head`, `tail` of a container | `insert_after/before/at_front/at_back`, `unlink`, iteration, append | blocks hold operations, regions hold blocks | links, heads and tails are those of a sequence at all times |
| Values and uses `value.rs` | `DefNode::uses`, `Operand`, uid counters | add, remove, replace, retarget uses | operations (operands, successors, results), blocks (arguments) | def-use and use-def chains are inverse; a stale handle is never revived |
| Operations, blocks, regions, arenas `operation.rs`, `basic_block.rs`, `region.rs`, `context.rs` | slot maps, parent and child links | create, link, nest, erase recursively, move regions | lists, uses | containment is a forest of live objects; nothing live refers to what is freed |
| Traversals `graph/traversals.rs` | explicit stacks, seen sets, numbers | post-order, topological order, DFS edge kinds, SCCs | any `ControlFlowGraph` | each node once, in the promised order |
| Reverse graph `graph/reverse.rs` | pre-sentinels | choice of exits, reverse view | SCCs, post-dominance | every node is reachable from the sentinel |
| Dominance `graph/dominance.rs` | array of dominators | iterative computation, queries, frontiers, post-dominators | traversals, reverse graph | agrees with the definition by paths |
| Control dependence `graph/control_dependence.rs` | relation | computation, queries | post-dominators | agrees with Ferrante, Ottenstein and Warren's definition |
| Loop tree `graph/loop_tree.rs` | loops, parents | computation | dominators, DFS | exactly the natural loops, nested as a tree |
| Inserter, rewriter, listener `irbuild/inserter.rs`, `rewriter.rs`, `listener.rs` | insertion point, modified flag, event list | insert, create, erase, replace, move, split, inline | IR; the drivers read the events | the IR is sound after each call, and the events tell all of it |
| Match-rewrite driver `irbuild/match_rewrite.rs` | queue, erased set | collect, rewrite, take in events | rewriter, client callbacks | no erased operation is touched, none that matches is missed |
| Dialect conversion driver `irbuild/dialect_conversion.rs` | worklist, state of each operation, pending blocks, type history | collect, defer, rewrite, convert arguments | rewriter, client callbacks | definitions first, each once, all of them, and an end |
| Walkers `graph/walkers.rs` | a stack of positions | pre-order walk over operations and blocks | every pass, the drivers | each object once, also when the callback edits it |
| Pass manager `pass.rs` | pipeline, cache keyed by analysis and operation, skip list | `run_pass`, `Passes`, `NestedOpsPass`, `GuardedPass`, get, preserve, invalidate | client passes, every analysis | no pass meets a stale analysis; each leaf runs where the pipeline says |
| Liveness `analyses/liveness.rs` | reduced reachability R(v), targets T(q), per region | compute, live-in, live-out, live at a point | DFS, dominators, uses | agrees with liveness by paths |
| Constant propagation `opts/constants/` | lattice value per value, executable edges, worklist | analyse, fold in place, materialise | folding, region interfaces | only unreachable code is dropped, only constants replaced |
| Dead code elimination `opts/dce.rs` | the cemetery, erased sets | collect, erase, chase operands | uses, side-effect interface | nothing live is erased, nothing is erased twice |
| CFG simplification `opts/simplify_cfg.rs` | fold candidates | fold branches and region operations, drop unreachable blocks, merge | uses, predecessors | the program is preserved, nothing is left to do |
| Memory to registers `opts/mem2reg.rs` | candidates, receivers, stacks of definitions | prune, place, rename | dominance, frontiers, region interfaces | the program is preserved, every stack is popped |
| Cloning and equivalence `irbuild/cloning.rs`, `equivalence.rs` | maps of values and blocks | clone in or across contexts, compare, hash | IR | a clone is its original renamed; equality, hash and structure agree |
| Symbol tables `symbol_table.rs` | map from names, beside the body | build, insert, remove, erase | IR | the map and the body agree |
| Given names `builtin/given_names.rs` | vector of optional names, beside the values | set, insert, remove, erase, carry over | results, arguments | a name stays with its value |
| Unique store `storage_uniquer.rs`, `uniqued_any.rs` | append-only store, hash buckets | save, get | types, attributes | one key for each object, for ever |
| Union-find `utils/union_find.rs` | forest, member lists | find, union, same set, members | clients | a partition whose parts only merge |
| Integers `utils/apint.rs` and folding `pliron-llvm/src/interface_impls.rs` | bit patterns | arithmetic, `check_fold` | constant propagation, CFG simplification | folds are what LLVM's instructions compute |
| LLVM conversion `to_llvm_ir.rs`, `from_llvm_ir.rs` | maps of values and blocks, phi work | convert a function in either direction | LLVM | no value is asked for before it is there; the function comes back |
| Names in a text `parsable.rs` (`NameTracker`), with `region.rs`, `basic_block.rs`, `irfmt/parsers.rs` | stacks of scopes, placeholders | use, define, enter and leave regions | uses, arenas | a use ends up at the definition of its name in its scope |
| Dialects, types, attributes, syntax, printer, errors, derive macros | registries, text | definition, conversion | - | no state that evolves; section 8 |

`PROJECT.json` lists every component with its status, and every hazard at its line.

## 2. Modules and the code

`OrderedLists` is the abstract specification of the lists: one sequence of nodes per
container, a node in at most one of them.

`LinkedList` is `linked_list.rs`.  Variables are the five kinds of links; `items`
is a history variable, the sequences the links should represent.  One action per
function, with its assertions as guards (an assertion that fails panics, so nothing
happens); the *internal* assertions, about the list and not about the arguments, are
the property `InternalAsserts`.

`DefUse` has operands and successors (`slots`), results and arguments (`vals`) and
the sets of uses kept at definitions (`uses`).  Operands and successors are one
generic type in the code and one set of actions here, with a kind.  Uids come from
counters in the code; only equality matters, so a counter is the set of uids handed
out.

`IR` is one level up: the lists are sequences (justified by `LinkedList`), uses are
read off the operands (justified by `DefUse`), and the subject is nesting.  A value
is named by what defines it: an operation has one result, a block one argument.
`Contained` is what recursive deallocation frees.  Two rules for callers that the
code does not test are guards: nothing is linked inside itself, and (with
`StrictErase`) a nested definition is not used from outside when its ancestor is
erased.  `StrictErase` is off in the runs `ir_erase_doc` and `drivers`.

`ControlFlowGraph` is the graph trait with the reference notions (reachability,
cycles, dominance by paths); `MCGraphAlgorithms` has the graphs that runs are made on.
`PostOrder`, `DFSTraversal` and `Scc` are the loops with explicit stacks of
`traversals.rs`, one action per turn.  `Scc` includes `find_pre_sentinels`, and
`ControlFlowGraph` the reverse view.  `Dominance` is the Cooper-Harvey-Kennedy loop on
the order that `PostOrder` computes, one action per node handled, with the queries
and frontiers as operators on the finished tree.  Two modules compose these the way
the code calls them: `LoopTree` (post-order, dominators, then `DFSTraversal`, then
the loops, one action per header) and `PostDominance` (`Scc` on the graph,
pre-sentinels, the reverse graph, and `Dominance` on that, with control dependence
and its queries on the finished tree).  The components are instances (`DFS`, `S`), so every
intermediate result that a later stage relies on is checked where it is used.

`Rewriter` extends `IR`.  A call of `IRRewriter` takes many steps (it recurses over
nested objects and moves lists one node at a time), so a variable `agenda` holds
what is left of the call, innermost first, and each step is one change with its
notification.  `events` is what the `Recorder` has recorded, `modified` the flag,
`before` the IR when the call began, `panicked` an assertion that failed.

`RewriteCallbacks` abstracts what a client's callback may do, as the two drivers see
it: insert an operation, move one (announced as inserted again), replace, erase
what has no use, and change whether it and its users match.  It is marked external:
callbacks are client code.  `MatchRewrite` and `DialectConversion` are the loops of
the drivers, one action per turn; a callback returns an error in `Fail`.  What a
callback does to an operation that is not the one being rewritten is limited: it may
make a *user* of it unwanted, and it does not make an operation that is already
collected convertible unless it inserts it again.  The second is a condition on
clients: neither driver looks again at operations it is not told of.

### Structures beside the IR

`GivenNames` keeps `held`, the values of an operation or block, `names`, the
attribute, and `given`, a history of which name each value was given.  The attribute
appears when a first name is set and may be shorter than its values; the
property `NamesFollow` compares what `get_name` answers with `given`.

`SymbolTable` keeps the body of each table operation and the map beside it.  A table
is built lazily; from then on the body changes through the table (nothing tells it
of other changes, a rule for clients).  `insert` writes the map first and tests
afterwards, as the code does: `refused` remembers the insertions that returned an
error, and `SymbolsAgree` is exact but for those (finding `symbol_insert`).

`UniqueStore` takes the hash function as a variable that is chosen once, so that any
two objects may collide, also objects of two types.  `UnionFind` is refined to
`Partition`; `root` and path compression are recursive functions over the forest.

`NameTracker` is the parser as far as names go.  `tracker` holds the two stacks of
scopes, the placeholders that stand for what is used before it is defined, and what
each use refers to; `open` is the stack of regions that are being parsed.  A text is
any interleaving of regions that open and close, blocks with arguments, uses and
results that the grammar allows; `seen` and `nests` remember it, so that
`NamesResolve` can say from the text alone which definition a use means.  Names of
values are scoped by isolated regions, labels by every region.  The first error ends
the parse (regions around it are left without looking at names, as in the code).

### Passes

`PassManager` has a stack of frames, one per pass that is running; a frame is a
cursor into a list of passes or of nested operations.  A leaf is a client's pass and
takes several steps of its own: it may ask for an analysis (which may ask for
another), change or erase an operation, break the IR, bring a cached analysis up to
date, and return a result or an error.  `outdated` is the history that tells which
cached analyses no longer describe the IR; the aspects `cfg` and `insts` say what an
analysis reads.  A manager owns the passes it runs, so managers nest to a depth
(`Depth`, at most `MaxDepth`), and along it `LeavesWithout` defines which leaf passes a
pipeline runs, on what, in which order: the reference for `RunInOrder`.

### Functions and optimisations

`Program` is the IR as the optimisations see it: an operation is a record with its
kind, a value is a number.  The operations are those of the LLVM dialect on one-bit
integers and the region operations of the tests (`if`, `when`, `loop`, `parallel`,
`for`, `opaque`).  It has the verifier's rule (`WellFormed`: definitions dominate
uses, also in nested regions), the interfaces that passes ask (region branches,
side effects, folding, promotion), the walker, and the reference: `Run` executes a
function for `Fuel` steps under every choice of its arguments, and `Refines` compares
what two functions print and return, where poison in the original may be anything.

Each pass is a module over `fn` (the function), `st` (its own state) and `pc`, one
action per candidate, block or worklist entry:

* `Sccp`: the worklist is a set and any member may be next, because the code's order
  depends on the iteration of a hash set of uses.  Lattice values only go down.
* `Dce`: the cemetery is the code's stack, `erased` what its listener saw.
* `SimplifyCfg`: folding innermost first, then unreachable blocks, then merging.
* `Mem2Reg`: candidates, pruning of those that escape, receivers (block arguments at
  iterated frontiers; arguments and results of region operations that store), the
  walk down the dominator tree, the end of the allocation.  Dominator trees and
  frontiers are taken from their definitions here; `Dominance` shows that they are
  computed correctly.
* `Liveness`: the tables R and T of each region, made phase by phase from
  `DFSTraversal`'s numbers, and the queries.  `LivenessCorrect` demands liveness by
  paths wherever the tables are as the paper defines them, and everywhere that no
  value is called live which is not.
* `LLVMConversion`: reverse post-order, operands, phis, constants that are operands
  and not instructions; then the way back, where phis become arguments.
* `Cloning`: clone, edit one place, compare both ways round, hash.

`APInt` has each operation of `apint.rs` on the bit patterns of a width, with the
crate below it stated on bits; `ConstFold` the `check_fold` of each LLVM operation;
`MCConstFold` what the LLVM language reference says each instruction computes,
with poison and undefined behaviour.

`MC*` modules give the constants of the runs and put several components into one run:
`MCStructures` (variable `part`: lists, ir, names, symbols,
store, sets, parser),
`MCGraphAlgorithms` (`loops`, `dependence`), `MCDrivers` (`rewriter`, `match`,
`passes`) and `MCOptimizations` (`pass`).  A behaviour is one of one part, and the
variables of the others do not change.
Operators whose name is that of
another one with a suffix (`insert_after_KeepsTail`) are deliberately wrong versions
of it; the mutation tests of `PROJECT.json` put them in its place to show that the
property named there fails.

## 3. Runs

| Run | Bounds | What it shows |
|---|---|---|
| `structures` | lists: 4 nodes, 2 containers; IR: 2 operations, blocks and regions, 1 operand; names: 3 values, 2 names, 2 holders; symbols: 2 operations, 2 tables, 2 names; store: 2 types of 2 data, 2 hash values; sets: 4 elements; parser: 3 regions, 4 values or blocks, 2 uses, 2 identifiers | `Coupled`: links represent lists; `InternalAsserts`; `ImplementsLists`: refinement to sequences; `NestingSound`: no dangling use, a forest, regions where their parent lists them; `NamesFollow`; `SymbolsAgree`; `UniqueInv`; `NamesResolve`; `ImplementsPartition`: refinement to a partition |
| `defuse` | 2 operations, 2 blocks, 3 values, 3 uses, 2 slots each | `ChainsAgree` (with unique uids), `NothingDangles`, and `InvalidatedForGood`: a use or value that has gone never exists again |
| `graphs` | all graphs of 3 nodes with at most 2 successors (both orders, repeated edges), graphs of 4 nodes that branch at the entry; each forward and reversed | `WalksCorrect` (orders, numbers, edge kinds), `TreeCorrect` (no unwrap fails, dominators and frontiers by paths), `LoopTreeCorrect` (natural loops, also in irreducible graphs), `PostTreeCorrect` (components, pre-sentinels, post-dominators), `ControlCorrect` (the walk stays on the tree, the relation is the documented one, transitive queries are closures), `AllFinish` |
| `drivers` | rewriter: 4 operations, 4 blocks (one new), 2 regions, one call on each IR of a family; match: 3 operations and 1 new one, one erasure per callback; passes: a module with 2 functions, 3 pipelines, 2 analyses of which one needs the other | `SoundThroughout`: the IR stays sound in every step of a call; `AllTold` (with the modified flag), `CallsUndoable`, `PlacesKept`; `NothingStale`, `AllRewritten`; `CacheFresh`, `PipelineCorrect` |
| `dialect_conversion` | 3 operations and 1 new one, 1 block and 1 new one | `WorklistSound` (what is queued is live, each operation is rewritten once), `AllConverted`, `ArgumentsFirst`, `DefsFirst`, `Ends` |
| `optimizations` | families of functions with up to 4 blocks, or an operation with regions in which there may be another; about 5 000 for some passes; integers of up to 3 bits | `SemanticsPreserved` for SCCP, DCE, CFG simplification, mem2reg and the LLVM round trip; `OperandsKnown`, `CfgSimplified`, `WalkBalanced`, `LivenessCorrect`, `ConversionSucceeds`, `CloneCorrect`, `EquivalenceCorrect`, `FoldsAreRight` |
| `ir_erase_doc`, `rewriter_erase_region`, `dce_duplicate`, `live_in`, `equivalence`, `symbol_insert` | as above | one violation each, see section 6 |

Why the bounds are enough.  A list operation reads a node, its neighbours and the
ends: four nodes give a node with two neighbours that are not the ends, two
containers a move between lists.  A use is affected by at most two definitions and
one user.  Nesting needs an operation in a region of another, with a definition used
across.  Three values let a name be moved by an insertion and by a removal before
and behind it.  Two objects of two types with two hash values give collisions within
and across types, and buckets of more than one index.  Four elements give a union of
two sets of two, hence a path of two parents to compress.
Three regions are enough for a name that is used in a nested region before it is
defined around it, while an isolated region between or beside them has the same name.  Irreducible loops, nested
loops, diamonds, endless loops and unreachable cycles all occur with four nodes.  The
rewriter's lists have a first, a middle and a last element, and its IRs uses within a
block, between blocks and between regions.  The drivers need a chain of two
definitions to defer twice, and one inserted operation, which may be moved, rewritten
and erased in turn.  Three pipelines cover a list around a nest, a nest around a
guard around a list, and a guard around a nest.  Four blocks give every optimisation
a diamond, a loop with one and two entries, a loop nest and a critical edge; two
levels of regions a store or use that has to be carried through both.  A width of
three bits has a sign bit, a bit that is neither sign nor lowest, and a width that
is not a power of two.

`Fuel` is 24 operations: functions whose loops have not ended by then are compared on
what they did so far.  Graphs, functions and pipelines are initial states, so that
TLC enumerates families and not one example.

Runs say `CHECK_DEADLOCK FALSE` where the system may stop: an algorithm that has
finished, a call that has returned, a client out of keys.

## 4. Fairness

Only runs of a single loop of the code, or of loops one after the other, claim an
end: `AllFinish` and `Ends`.  Each assumes weak fairness of the loop's next step and
nothing else: the code is sequential and a loop that can take a turn takes it.  In
`dialect_conversion` a callback is taken to return, or to return an error; the bound
on new operations stands for a client that does not insert for ever.  No end is
claimed for `apply_match_rewrite`: a callback that always moves its operation keeps
it busy for ever, in the code as in the model.

## 5. Proofs

Each theorem holds for every value of the constants that satisfies the assumptions
named here.  All safety proofs have one shape: an inductive invariant, one lemma for
each action, and a last step in temporal logic.  What follows is which invariant is
needed and why.

**Lists** (`StructureProofs`; the one assumption is that the null value `None` is
neither a node nor a container).

* `LinksRepresentLists`: `Spec => [](TypeOK /\ Coupled)`.  The inductive invariant
  is this conjunction itself: `Coupled` says of every position of every list that the
  node there has that container and the neighbours of that position, that heads and
  tails are the ends, that no node is listed twice, and that a node in no list has no
  links.  The last part is what makes it inductive: the guards of the insertions
  test the links and not the lists.  The four insertions are one argument:
  each is shown to be a *splice* at some position, and `SpliceLemma` shows that
  splices preserve the invariant; `RemoveNodeLemma` is the same for `unlink`.
* `AssertsHold`: the assertions of the insertions about the list itself never fail.
* `LinkedListImplementsLists`: `Spec => ImplementsLists`, the refinement to
  `OrderedLists`: a splice is an insertion, an unlink a removal.

**Def-use chains** (`DefUseProofs`; operations, blocks and values are different
things): `ChainsCorrect` (`ChainsAgree`), `ReferencesCorrect` (`NothingDangles`) and
the action property `HandlesStayInvalid` (`InvalidatedForGood`).  The invariant `IInv`
says of values and of slots that each belongs to one place, that this place is
allocated, and that its uid has been handed out by the counter (`ValuesOK`,
`SlotsOK`): without the last two a new uid, or a new object, could coincide with one
that is in use.  `UsesOK` is that the two directions agree, `RefsOK` that a slot refers
to a definition that exists.

**Nesting** (`IRProofs`; the three arenas are finite and have different keys):
`NestingIsSound` (`NestingSound`).  The invariant is that children are live and what
is not live has none (`ChildrenLive`), that nothing has two parents or stands twice in
a list (`OneParent`, `OnceInList`), that containment has no cycle (`Acyclic`), that
regions are where their operations list them (`RegionsOwned`), and that no use
dangles (`NoDanglingUse`).  `Contained` is a set fixed point and `ContainedLemma` its
characterisation, which needs finite arenas.  The theorem is about `StrictErase`:
without that rule for callers the property is false, as the run `ir_erase_doc` shows.

**Rewriter** (`RewriterProofs`, same assumption): `RewriterKeepsIRSound`, `RwSpec =>
[]SoundThroughout`, from any sound IR and *without* `StrictErase`.  Whoever calls
`Operation::erase` has to know that nothing outside uses what is nested in the
operation; the rewriter takes an object apart from the inside, so that what it frees
is empty and the uses of every definition have been looked for.  The invariant `RwInv`
is that of the IR, a well-typed insertion point, and `AgendaOK`: what is left of a
call is that of one of six phases.

* `Erases`: the tasks erase and free, and before an object is freed everything in it is
  erased (`InnerFirst`).  An erasure puts the tasks for the children in front of the
  freeing of their parent; for a region these are the blocks that a post-order walk
  leaves, and `PostOrderLemma` shows that it leaves each block of the region, reachable or
  not.  A step only takes children away, which keeps `InnerFirst` for the rest.
* `Moves`: any sequence of unlinking and linking.  No order is needed: each step looks
  at the links it is about to change, and what has no parent can be put anywhere
  but inside itself, which no caller asks for.
* `Replaces`, `Creates`, `Splits`, `Restores`: the last steps of the other calls.  While a
  block is split, the two halves are in one region and what is still to be moved is in
  the old half.  This is why no cycle arises: were the new half within the operation
  that moves, so would be the region, and the old half in it (`MoveOpStep`).

The lemmas for single steps (`InsertOpStep`, `UnlinkOpStep`, `FreeStep`, ...) speak of
the IR alone.

Three more theorems compare the end of a call with its beginning (`before`).  They rest
on `CallInvariant` (which tasks each kind of call can have left) and `HistoryInvariant`
(the events are of the types that the listener has, and the lists of `before` have
nothing twice), and each has an invariant of its own that says what is true half way:

* `ListenerIsTold`: `RwSpec => []AllTold`.  `ToldInv`: in an erasing call, what is gone
  has been reported, once, children before what they were in, and what is still
  there has not; in any other call, what is in a list and was not there before has been
  reported as inserted, and what was there and is not, as unlinked.  An operation that
  moves twice has two events, so this only says that there is one.  That the flag is
  honest is `ModifiedInvariant`: as long as it is not set, the IR is that of before.
* `CallIsUndoable`: `RwSpec => []CallsUndoable`.  `Undone` takes the events back, the last
  one first, and `UndoInv` says that this leads back to `before` at every point of a call
  that erases nothing.  A step adds one event, and `OneUndone` shows that taking back
  this one gives the lists of before the step; the crux is `TakenPoint`, that the place
  which the `Recorder` keeps of an unlinked element is enough to put it back.
* `PlacesAreKept`: `RwSpec => []PlacesKept`.  `SplitInv`: of the operations that a split
  moves, the first so many are at the end of the new block, in order, and the rest
  still where they were.  `InlineInv`: of the blocks of the region to be inlined, the
  first k stand in order after the insertion point, one may be on its way, and what is
  left of the agenda is for the rest.  `PointInv`: the insertion point is that of the
  caller, or the last task puts it back.

**Drivers** (`DriverProofs`, `DialectConversionProofs`).

* `ErasedAreNotTouched` and `MatchesAreRewritten` for `apply_match_rewrite`, for any
  IR to start with (`InputsAssumption` gives its type) and any callback that
  `RewriteCallbacks` allows.  The invariant `QueueOK`: the erased set of the driver is
  what has been erased, what is queued exists or is in that set, and what exists and
  matches is queued or was rewritten.
* `CacheAlwaysFresh` (`CacheFresh`), `BreakageStops` and `ResultAlwaysHonest` for the
  pass manager, for any passes, also infinitely many (`PassesAssumption`: what a pass
  contains is a pass, an operation is among its own ancestors, what an analysis needs
  is an analysis).  The invariant `PassInv`: only the innermost frame can be that of a
  leaf, and a result is on its way to a manager (`StackOK`); an analysis of a live
  operation is wrong only while a leaf runs that says it changed the IR, or while a
  result that does not preserve it is on its way (`CacheOK`); an operation is broken
  only while a leaf runs on it (`VerifiedOK`); that the IR has changed is known to a
  frame or to the result on its way (`StatusOK`).
* `PipelineRuns`: `PMSpec => []PipelineCorrect`, which adds that a run which ends without an
  error, and in which nothing was erased, has run the leaf passes of the pipeline in
  order, each on its operation (`RunInOrder`).  `OrderInv`: operations are only erased
  (`KidsOK`); a guard has at most one pass to run (`GuardsOK`); and what has run,
  followed by what the innermost call will run, followed by what the calls around it
  wait for, from the inside out, is what the pipeline runs (`OrderOK`).  The reference
  `LeavesWithout` is a recursive function, which is shown to exist by induction on
  the depth of passes and of operations (`DepthAssumption`: no pass contains itself).
* `WorklistIsSound`, `EverythingConverted`, `ArgumentsBeforeOperations` and the action
  property `DefinitionsBeforeUses` for the dialect conversion driver, for any number of
  operations and blocks (`InputsAssumption`: operands are in the IR that is walked).
  The invariant says that erased keys are gone and operands exist (`IROK`); that
  what is recorded as queued is live and in the worklist, that only what is or was in
  the arena is recorded, and that what exists and is to be converted is queued or was
  rewritten, once (`StatesOK`); and that live blocks with unconverted arguments are
  pending (`BlocksOK`).

**Small structures** (`StructureProofs`), each for any size.

* `UniqueStoreCorrect`: `UniqueSpec => []UniqueInv`, for any types, data, hash values
  and hash function.  What a client relies on is that a key leads to the object saved
  under it (`KeysHold`) and that keys are equal exactly if objects are
  (`OneKeyEach`).  Neither is inductive alone: a second key for an object is excluded
  because the store has it once (`StoredOnce`), and that because a search of one
  bucket finds everything in the store with that hash (`MapIndexesStore`).
* `SymbolsAlwaysAgree`: `SymbolSpec => []SymbolsAgree`, assuming that the two values
  that stand for "no parent" are no tables.  The crux is `InsertLemma`: an insertion
  that is refused may displace the entry of another symbol's name only by that
  refused symbol itself.
* `NamesAlwaysFollow`: `GNSpec => []NamesFollow`, with an invariant `GNInv`: a value is
  held once (`HeldOnce`), and the vector of names, where it is shorter than that of
  the values, means that the rest have none (`NamesShort`, `NamesAgree`).
* `UnionFindImplementsPartition`: `UFSpec => ImplementsPartition`, the refinement to
  `Partition`.  The invariant `SetsOK`: the member lists of the representatives are
  disjoint and cover all elements, parents stay within a list (`ListsOK`), and each
  element has a height, below the length of its list, that falls from an element to
  its parent (`HeightOK`).  The height is what makes the climb to the
  representative, bounded in the model by the number of elements, arrive; path
  compression keeps the same heights.

**Names in a text** (`StructureProofs`): `NamesAlwaysResolve`,
`NTSpec => []NamesResolve`, from the assumption that what is defined (`Entity`) and
what refers to it (`UseSite`) are different things.  `NamesResolve` speaks of the text
that was parsed so far and of what uses refer to; the tracker only has the scopes of
the regions that are open now.  The invariant `NTInv` joins them: there is a map from
*keys* (a name with the region that owns it) to meanings, different for different
keys, that is the definition of a key that has one and otherwise a placeholder
(`MeaningsOK`); the scope of an open region is the part of that map with this
owner (`ScopesOK`), where `StackOK` says which entry of the two stacks is whose; and
keys without a definition are owned by a region that is open (`PendingOK`), so that a
placeholder is found before the last scope that has it is closed.  Block arguments
are defined by a recursive function over any number of them.

**Walks of graphs** (`GraphProofs`), for any graph (`GraphsAssumption`: it has an
entry, each node once, and edges between nodes only).

* `WalksAreCorrect`: `LoopSpec => []WalksCorrect`, from the invariant `WalksInv`.
  Reachability is defined by as many rounds as there are nodes; `ReachLemma` proves
  that this is the least closed set, since a round that adds nothing is the last to
  add anything, and the proofs use only that.  Both walks keep a stack that is a path,
  on which each node reaches those above it and the successors passed over have
  been seen (`StackOK`).  For the post-order (`WalkInv`): a successor of an ordered
  node is ordered before it or still reaches it (`OrderOK`), a component is
  closed and comes from its root (`RootsOK`), the first from the entry (`EntryOK`).
  For `DFSTraversal` (`DFSInv`): numbers are handed out without gaps and grow along the
  stack (`NumbersOK`), and a node that was left has edges only to nodes found before it
  or left before it, while nodes found after it and left before it are reached from
  it (`EdgesOK`), from which the kinds of edges follow when the stack is empty.

* `TreesAreCorrect`: `LoopSpec => []TreeCorrect`, and its parts at every moment, from the
  invariant `DomInv`.  The first component of the post-order, reversed, is an order in
  which each node but the entry has a predecessor before it (`FirstInv`, `RpoOK`), so
  that the first pass places every node.  The array `dom` is at any time a tree over
  positions with parents before children (`TreeOK`); `Up` is the set of a position's
  ancestors, and two fingers meet where the common ancestors end (`IntersectLemma`), in
  whatever order the predecessors come (`FoldLemma`).  What strictly dominates a node
  dominates its parent in the tree (`StrictOK`): this is kept although a pass works on a
  tree that is not final, because a strict dominator of a node dominates all its
  predecessors, thus is a common ancestor of those handled, and dominates whatever lies
  between (`HandleStrict`).  So no ancestor is ever lost.  When a pass changes nothing
  (`SettledAt`), none is too many: the nodes that do not have a given position above them
  are closed under edges that avoid it, so they are reached without it
  (`AboveDominates`).  `ListedDominators` reads the chain of ancestors off the iterator
  of the finished tree, from which the queries, the nearest common dominator and the
  frontier follow.  That the passes end is left to TLC.

* `LoopTreesAreCorrect`: `LoopSpec => []LoopTreeCorrect`, from the invariant `LoopsInv`.
  The code goes through the headers in post-order and takes for granted that inner
  loops come first.  That is a fact about the walk: each node left, but the entry, was
  found from a node that is left later (`ParentsLater`, `LaterInv`), so a node is left
  before whatever strictly dominates it (`DominatorsLater`).  Natural loops of two headers
  are nested or share nothing (`NaturalNested`), although a graph may have cycles that
  are in no natural loop; so the loops around a node can be told apart by their headers
  alone, and `FirstOf` is the innermost.  The invariant `FoundInv` says that the loops found
  are those of the headers passed (`LoopsListed`), that the parent of each node and
  loop is the first of those around it (`ParentsOK`) and that contents are the children
  (`ContentsOK`); `AncestorFacts` then reads the outermost loop found so far off the chain
  of parents, which is where the walk backward of `find_body` goes on.  The rounds of
  that walk stop at a least fixed point (`BodyWalk`), and what it collects are the parts
  of the natural loop (`BodyResult`), none of which had a parent (`LoopStep`).

*Technique.*  The induction theorems of the library have operators as parameters,
which the installed provers cannot instantiate.  Where induction over naturals is
needed (recursive functions exist, heights, positions in a list) it is in the form
of sets: `UpTo` (`SeqLemmas`) says that a set with 0 that has with each number below n
its successor contains `0..n`, and is proved from the well-foundedness of the order
on naturals.  Recursive functions are shown to exist by it, and then used by their
defining equation.

*What stays with TLC.*  Liveness (`AllFinish`, `Ends`): the prover has no rule for
`ENABLED`.  Integers, folding and the optimisations: what they compute is stated against an
interpreter, and their modules use `RECURSIVE` operators that keep the SMT backend
from working.  The components of `Scc` and what is built on them (post-dominators,
control dependence) are in reach and have no proof yet.

## 6. Findings

* **`erase_region` erases definitions before uses** (`irbuild/rewriter.rs:300`).  The
  comment says that blocks are erased in post-order so that uses are erased before
  definitions; the loop goes through the post-order *reversed*, from the entry on.
  In a region in SSA form whose second block uses a result of the first, the result's
  operation is erased while it is used, and `Operation::erase` panics.  Run
  `rewriter_erase_region`.
* **`BasicBlock::erase` does not see all outside uses** (`basic_block.rs:299`).  It
  is said to panic "if there are any uses outside the block".  It looks at its
  arguments, its predecessors and its own operations' results, not at definitions
  nested deeper.  Run `ir_erase_doc`.

* **`dce` removes a block argument twice** (`opts/dce.rs:316`, `357`).  An operation
  that uses one block argument twice leaves two candidates for it when it is erased.
  The second is not recognised as stale, and `find_index` panics: "Value is not
  currently defined by its defining entity".  Run `dce_duplicate`.
* **`LivenessTq` calls live values dead** (`analyses/liveness.rs:261`, `442`).  The last
  phase of `compute_tq_sets` leaves out the sources of back edges, which then lack
  what their other successors reach; and the shortcut for reducible graphs takes any
  one element of T(q, a) when none dominates the others.  Both need four blocks or
  more.  `LivenessCorrect` marks exactly where the answers can be relied on.  Run
  `live_in`.
* **`operation_eq` ignores one extra block or operation on the left**
  (`irbuild/equivalence.rs:300`).  Lengths are compared by asking both iterators after
  a `zip`, which has by then taken one element from the left.  Equal, but with
  different hashes, against the contract at line 15.  Run `equivalence`.
* **`SymbolTable::insert` keeps symbols that it refuses** (`symbol_table.rs:101`).  The
  map is written before the three tests that return an error.  A lookup then finds an
  operation that is not in the table's body, or no longer finds the one that is.  Run
  `symbol_insert`.

Smaller things met on the way, without a run: `append_linked_list(c, c)` does not
end; the comment in `create_block` (`irbuild/inserter.rs`) that the listener is not
notified is contradicted by the `insert_block` it calls; `DomFrontierMap::new`
unwraps the entry's dominator when the entry has two predecessors, which regions
are documented, but not verified, not to have; inserting a symbol that its table has
already reports `SymbolRedefined`; two names attributes that differ by absent names at
the end answer alike and compare unequal.

## 7. Plan

Done: lists with proofs, def-use chains, IR, graph algorithms, rewriter, drivers, pass
manager, liveness, the four optimisations, folding and integers, cloning and
equivalence, the LLVM round trip, names, symbols, unique store, union-find, and names in a text.

Proofs, in order: the components of `Scc`; post-dominators, which are dominators of the
reverse graph; `OperandsKnown` of the LLVM conversion.

Models, in order: the history of types in the conversion driver; walkers that go
backwards, in post-order, or stop early; `DomInfo` across nested regions; lookup of
the nearest symbol table.

## 8. Not modelled

Much of the repository is text about the program's subject and not behaviour over
time, and the share of its lines that the models cover is accordingly low:

* declarations: `builtin/ops.rs`, types, attributes and interfaces of the dialects,
  derive macros, registration.  They hold no state that evolves;
* the wrappers of the LLVM library (`llvm_sys/`) and, in the two conversions, the case
  per operation that maps one operation to one instruction.  What all cases share,
  order, phis, constants and operands, is `LLVMConversion`;
* syntax, printing, outlined attributes, graph visualisation, locations, errors and lints;
* `utils/table.rs` and the other thin wrappers over collections;
* tests inside source files, examples and the Kaleidoscope compiler;
* printing, timing and file names in the pass manager.

Left out of components that are modelled: `SwitchOp`, which folds as `cond_br` does;
liveness queries at blocks the entry does not reach; labels of blocks;
`UniqueStore::get` by a predicate; the translation of types and attributes between
contexts (`decontext.rs`); `set_value_type`.  Types of values are left out of the
structural modules, since no structural operation reads them; the functions of
`Program` have one-bit integers, and allocations of one type.  Iterators over lists
are not modelled: the code collects them into vectors wherever it changes a list
while walking it.
