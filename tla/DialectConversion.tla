------------------------- MODULE DialectConversion -------------------------
(***************************************************************************)
(* apply_dialect_conversion (src/src/irbuild/dialect_conversion.rs): the   *)
(* worklist of operations to convert, the state of each, the deferral of   *)
(* an operation behind the definitions of its operands, and the blocks     *)
(* whose arguments are still to be converted.  One step is one turn of the *)
(* driver's loop, the client's callback included (module                   *)
(* RewriteCallbacks).                                                      *)
(***************************************************************************)
EXTENDS RewriteCallbacks

CONSTANTS Inputs,                \* IRs that are converted, as records
          BlockKey               \* keys of the arena of blocks

\* Inputs are whole IRs: an operation under the root uses results of operations under
\* the root, which the walk visits too.
ASSUME InputsAssumption ==
    \A p \in Inputs :
       /\ p.walk \in Seq(OpKey) /\ p.wanted \subseteq OpKey /\ p.graph \subseteq OpKey
       /\ p.blocks \subseteq BlockKey
       /\ p.defs \in [OpKey -> SUBSET OpKey]
       /\ \A o \in ToSet(p.walk) : IsFiniteSet(p.defs[o]) /\ p.defs[o] \subseteq ToSet(p.walk)

VARIABLES worklist,
          op_states,             \* op_states[o] \in States; "None": not in the map
          live_blocks, gone_blocks,
          unconverted,           \* blocks with an argument of a convertible type
          pending,               \* pending_block_arg_conversions
          rewritten,             \* history: the operations rewritten, in order
          graph_ops,             \* operations whose region has no SSA dominance
          failed                 \* a callback has returned an error

driverVars == <<worklist, op_states, live_blocks, gone_blocks, unconverted, pending, rewritten, graph_ops, failed>>
dcVars == <<known, gone, defs, wanted,
            worklist, op_states, live_blocks, gone_blocks, unconverted, pending, rewritten, graph_ops, failed>>

States == {"None", "Queued", "Processed", "Erased"}

\* collect_operations_blocks: convertible operations in the order of the walk, and
\* every block.
Init ==
    /\ \E p \in Inputs :
          /\ known = ToSet(p.walk) /\ defs = p.defs /\ wanted = p.wanted
          /\ worklist = Filtered(p.walk, p.wanted)
          /\ live_blocks = p.blocks
          /\ graph_ops = p.graph
    /\ gone = {} /\ gone_blocks = {}
    /\ op_states = [o \in OpKey |-> IF o \in ToSet(worklist) THEN "Queued" ELSE "None"]
    /\ unconverted = live_blocks /\ pending = live_blocks
    /\ rewritten = <<>> /\ failed = FALSE

\* convert_block_arguments for every pending block, before the next operation.
ConvertBlockArguments ==
    /\ ~ failed /\ pending # {}
    /\ unconverted' = unconverted \ pending
    /\ pending' = {}
    /\ UNCHANGED <<clientVars, worklist, op_states, live_blocks, gone_blocks, rewritten, graph_ops, failed>>

Ready == ~ failed /\ pending = {} /\ worklist # <<>>
Next_op == Head(worklist)

eligible(o, states, convertible) == states[o] \notin {"Erased", "Processed"} /\ o \in convertible

\* A stale duplicate, or an operation finished while it was queued.
Skip ==
    /\ Ready /\ op_states[Next_op] # "Queued"
    /\ worklist' = Tail(worklist)
    /\ UNCHANGED <<clientVars, op_states, live_blocks, gone_blocks, unconverted, pending, rewritten, graph_ops, failed>>

NoLongerConvertible ==
    /\ Ready /\ op_states[Next_op] = "Queued" /\ Next_op \notin wanted
    /\ worklist' = Tail(worklist)
    /\ op_states' = [op_states EXCEPT ![Next_op] = "Processed"]
    /\ UNCHANGED <<clientVars, live_blocks, gone_blocks, unconverted, pending, rewritten, graph_ops, failed>>

\* Mutant: a definition in the queue is taken for done.
pending_defs_QueuedDone(o) == {d \in defs[o] \ graph_ops : op_states[d] = "None" /\ d \in wanted /\ d # o}
pending_defs(o) == {d \in defs[o] \ graph_ops : eligible(d, [op_states EXCEPT ![o] = "None"], wanted)}

\* Mutant: the definitions are not put in the queue.
Defer_DefsForgotten ==
    /\ Ready /\ op_states[Next_op] = "Queued" /\ Next_op \in wanted
    /\ pending_defs(Next_op) # {}
    /\ UNCHANGED dcVars

\* The definitions go to the front, in operand order, and the operation after them.
Defer ==
    /\ Ready /\ op_states[Next_op] = "Queued" /\ Next_op \in wanted
    /\ pending_defs(Next_op) # {}
    /\ \E s \in SetToSeqs(pending_defs(Next_op)) : worklist' = s \o worklist
    /\ op_states' = [o \in OpKey |-> IF o \in pending_defs(Next_op) THEN "Queued" ELSE op_states[o]]
    /\ UNCHANGED <<clientVars, live_blocks, gone_blocks, unconverted, pending, rewritten, graph_ops, failed>>

\* The first loop over the events: what this batch erased.
mark_erased(states, del) == [o \in OpKey |-> IF o \in del THEN "Erased" ELSE states[o]]

\* Mutant: inserted operations are not queued.
enqueued_None(inserted, states) == <<>>

\* The last loop: inserted operations that are to be converted and are not queued,
\* and inserted blocks that still exist.
enqueued(inserted, states) ==
    Filtered(inserted, {o \in OpKey : eligible(o, states, wanted') /\ states[o] # "Queued"})

\* Mutant: inserted blocks are not noted.
observed_blocks_None(new, del) == {}
observed_blocks(new, del) == new \ del

\* Mutant: the operation is not marked.
mark_processed_Forgotten(states, o) == states
mark_processed(states, o) == [states EXCEPT ![o] = "Processed"]

process_recorder_events(inserted, del) ==
    LET marked == mark_erased([op_states EXCEPT ![Next_op] = "None"], del)
        queue == enqueued(inserted, marked)
    IN  /\ worklist' = Tail(worklist) \o queue
        /\ op_states' = mark_processed(
                            [o \in OpKey |-> IF o \in ToSet(queue) THEN "Queued" ELSE marked[o]], Next_op)

\* The client's callback, the events it caused, and mark_processed.  It may insert a
\* block, and erase it again; of the erasure of other blocks the driver keeps nothing.
Rewrite ==
    /\ Ready /\ op_states[Next_op] = "Queued" /\ Next_op \in wanted
    /\ pending_defs(Next_op) = {}
    /\ \E new \in AtMostOne(OpKey \ (known \cup gone)) :
       \E heir \in {new} \cup AtMostOne(defs[Next_op]) : \E del \in Erasable(Next_op, new, heir) :
       \E keep \in SUBSET (({Next_op} \cup new) \ del), lost \in MayLose(Next_op, heir),
          moved \in AtMostOne(known) :
          /\ Callback(Next_op, new, heir, del, keep, lost)
          /\ process_recorder_events(SetToSeq(new) \o SetToSeq(moved), del)
    /\ \E nb \in AtMostOne(BlockKey \ (live_blocks \cup gone_blocks)) :
       \E db \in {{}, nb} :
          /\ live_blocks' = (live_blocks \cup nb) \ db
          /\ gone_blocks' = gone_blocks \cup db
          /\ unconverted' = (unconverted \cup nb) \ db
          /\ pending' = observed_blocks(nb, db)
    /\ rewritten' = Append(rewritten, Next_op)
    /\ UNCHANGED <<graph_ops, failed>>

\* A conversion of a type, or a callback, returns an error, and the driver with it.
Fail ==
    /\ ~ failed
    /\ \/ pending # {}
       \/ /\ Ready /\ op_states[Next_op] = "Queued" /\ Next_op \in wanted
          /\ pending_defs(Next_op) = {}
    /\ failed' = TRUE
    /\ UNCHANGED <<clientVars, worklist, op_states, live_blocks, gone_blocks, unconverted, pending, rewritten, graph_ops>>

Next == ConvertBlockArguments \/ Skip \/ NoLongerConvertible \/ Defer \/ Rewrite \/ Fail

Spec == Init /\ [][Next]_dcVars /\ WF_dcVars(Next)

Finished == pending = {} /\ worklist = <<>>

(***************************************************************************)
(* Properties                                                              *)
(***************************************************************************)

\* Operations whose state is Queued are allocated and in the worklist: the driver
\* never asks the client about, nor inserts before, an erased operation, and loses
\* none of those it has to convert; and none is rewritten twice, whatever moves and
\* deferrals queue it again.
WorklistSound ==
    /\ \A o \in OpKey : op_states[o] = "Queued" => o \in known /\ o \in ToSet(worklist)
    /\ IsInjective(rewritten)

\* "Operand definitions (except those in graph regions) are converted before": when
\* an operation is rewritten, none of them is still to be converted.
DefsConverted(o) == \A d \in defs[o] \ graph_ops : d \in wanted => d \in ToSet(rewritten)
DefsFirst == [][rewritten' # rewritten => DefsConverted(Last(rewritten'))]_dcVars

\* When the driver ends, every convertible operation that exists, collected at the
\* start or inserted on the way, has been given to the client.
AllConverted == Finished => known \cap wanted \subseteq ToSet(rewritten)

\* Whenever an operation is looked at, the arguments of all blocks, those that the
\* previous callback inserted included, have been converted.
ArgumentsFirst == Ready => unconverted \cap live_blocks = {}

\* Deferral comes to an end where uses follow definitions: the driver ends, or a
\* callback fails.
Ends == <>(Finished \/ failed)
=============================================================================
