---------------------------- MODULE PassManager ----------------------------
(***************************************************************************)
(* Passes, NestedOpsPass, GuardedPass, PassManager::run_pass and the cache *)
(* of the AnalysisManager (src/src/pass.rs).  A pass is a record: a        *)
(* manager has kind "Passes", "NestedOps" or "Guarded", and "Leaf" is a    *)
(* client's pass, whose run is a sequence of steps of its own: it asks for *)
(* analyses, changes the operation it runs on, brings a cached analysis up *)
(* to date and returns a result or an error.  A client keeps two rules the *)
(* trait documents: it changes nothing outside its operation, and the      *)
(* analyses it calls preserved are still right.                            *)
(***************************************************************************)
EXTENDS Naturals, FiniteSets, SequencesExt

CONSTANTS PassOp, Root,
          Ancestors,             \* Ancestors[o]: o and what it is nested in
          Type,                  \* analyses, by their TypeId
          Aspect,                \* what a pass may change of an operation
          Reads,                 \* Reads[t]: the aspects that analysis t depends on
          Needs,                 \* Needs[t]: analyses that computing t asks for
          Passes,                \* the passes that are run, with those they contain
          Depth,                 \* Depth[p]: how deep managers nest in p, which owns
          MaxDepth,              \*   the passes it contains
          Pipelines              \* the passes that are run on Root

ASSUME PassesAssumption ==
    /\ IsFiniteSet(PassOp) /\ Root \in PassOp
    /\ \A o \in PassOp : o \in Ancestors[o] /\ Ancestors[o] \subseteq PassOp
    /\ \A t \in Type : Needs[t] \subseteq Type
    /\ Pipelines \subseteq Passes
    /\ \A p \in Passes : \/ p.kind \in {"NestedOps", "Guarded"} /\ p.pass \in Passes
                         \/ p.kind = "Passes" /\ p.passes \in Seq(Passes)
                         \/ p.kind = "Leaf"

ASSUME DepthAssumption ==
    /\ MaxDepth \in Nat /\ \A p \in Passes : Depth[p] \in 0..MaxDepth
    /\ \A p \in Passes : p.kind \in {"NestedOps", "Guarded"} => Depth[p.pass] < Depth[p]
    /\ \A p \in Passes : p.kind = "Passes" => \A i \in DOMAIN p.passes : Depth[p.passes[i]] < Depth[p]

VARIABLES pipeline,
          config,                \* PMConfig: skip, verify_before, verify_after
          frames,                \* calls of Pass::run, the innermost last
          returned,              \* set of at most one PassResult on its way up
          analyses,              \* keys of the cache, <<type, operation>>
          kids,                  \* kids[o]: the operations directly nested in o
          bad,                   \* operations that do not verify
          outdated,              \* history: cached analyses that are wrong
          ir_changed,            \* history: some pass has changed the IR
          trace,                 \* history: leaf passes run, with their operations
          aborted                \* an error is on its way to the client

pmVars == <<pipeline, config, frames, returned, analyses, kids, bad, outdated, ir_changed, trace, aborted>>
passIRVars == <<kids, bad, outdated, ir_changed>>

IsManager(pass) == pass.kind # "Leaf"
Live(o) == o = Root \/ \E p \in PassOp : o \in ToSet(kids[p])
Top == frames[Len(frames)]

\* What the manager will run, in order, and on which operations, if nested has those
\* directly nested in each.
contained_passes(pass, op, nested) ==
    CASE pass.kind = "Passes" -> [i \in DOMAIN pass.passes |-> <<pass.passes[i], op>>]
      [] pass.kind = "NestedOps" -> [i \in DOMAIN nested[op] |-> <<pass.pass, nested[op][i]>>]
      [] pass.kind = "Guarded" -> IF op \in pass.allowed THEN <<<<pass.pass, op>>>> ELSE <<>>
      [] OTHER -> <<>>

Frame(pass, op) == [pass |-> pass, op |-> op, todo |-> contained_passes(pass, op, kids), changed |-> FALSE]
Default == [changed |-> FALSE, preserved |-> {}]

\* The operations directly nested in each, before any is erased.
Nesting == [o \in PassOp |-> SetToSeq({c \in PassOp : /\ c # o /\ o \in Ancestors[c]
                                                      /\ Ancestors[c] \subseteq Ancestors[o] \cup {c}})]

PMInit ==
    /\ pipeline \in Pipelines
    /\ config \in [skip : {{}, {"p"}}, verify_before : BOOLEAN, verify_after : BOOLEAN]
    /\ kids = Nesting
    /\ frames = <<Frame(pipeline, Root)>>
    /\ returned = {} /\ analyses = {} /\ bad = {} /\ outdated = {}
    /\ ir_changed = FALSE /\ trace = <<>> /\ aborted = FALSE

\* The manager on top of the stack is about to run its next pass.
Managing == ~ aborted /\ frames # <<>> /\ IsManager(Top.pass) /\ returned = {}
Verifies(op) == \A b \in bad : op \notin Ancestors[b]

Skipped(pass) == ~ IsManager(pass) /\ pass.name \in config.skip
Rejected(pass, op) == ~ IsManager(pass) /\ config.verify_before /\ ~ Verifies(op)

\* run_pass up to Pass::run: only passes that are no managers are skipped, verified
\* and counted.
Enter ==
    /\ Managing /\ Top.todo # <<>>
    /\ LET pass == Top.todo[1][1]
           op == Top.todo[1][2]
       IN  \/ /\ Skipped(pass)
              /\ returned' = {Default}
              /\ UNCHANGED <<frames, trace, aborted>>
           \/ /\ ~ Skipped(pass) /\ Rejected(pass, op)
              /\ aborted' = TRUE
              /\ UNCHANGED <<frames, returned, trace>>
           \/ /\ ~ Skipped(pass) /\ ~ Rejected(pass, op)
              /\ frames' = Append(frames, Frame(pass, op))
              /\ trace' = IF IsManager(pass) THEN trace ELSE Append(trace, <<pass.name, op>>)
              /\ UNCHANGED <<returned, aborted>>
    /\ UNCHANGED <<pipeline, config, analyses, passIRVars>>

\* Mutant: what was not preserved is kept when something was.
retain_preserved_AllOrNothing(res) ==
    IF res.changed /\ res.preserved = {} THEN {} ELSE analyses

\* AnalysisManager::retain_preserved: by type, whatever the operation.
retain_preserved(res) ==
    IF ~ res.changed THEN analyses ELSE {key \in analyses : key[1] \in res.preserved}

\* Mutant: the status of the last pass is the status of all.
status_Last(before, now) == now

\* IRStatus |=
status(before, now) == before \/ now

\* The manager takes the result of the pass it ran.  A GuardedPass hands it on.
TakeResult ==
    /\ ~ aborted /\ frames # <<>> /\ IsManager(Top.pass)
    /\ \E res \in returned :
          IF Top.pass.kind = "Guarded"
            THEN frames' = Front(frames) /\ UNCHANGED <<returned, analyses, outdated>>
            ELSE /\ frames' = [frames EXCEPT ![Len(frames)].todo = Tail(@),
                                             ![Len(frames)].changed = status(@, res.changed)]
                 /\ returned' = {}
                 /\ analyses' = retain_preserved(res)
                 /\ outdated' = outdated \cap analyses'
    /\ UNCHANGED <<pipeline, config, kids, bad, ir_changed, trace, aborted>>

\* All passes of the manager have run: what is still cached is preserved.
Finish ==
    /\ Managing /\ Top.todo = <<>>
    /\ frames' = Front(frames)
    /\ returned' = {IF Top.pass.kind = "Guarded" THEN Default
                    ELSE [changed |-> Top.changed, preserved |-> {key[1] : key \in analyses}]}
    /\ UNCHANGED <<pipeline, config, analyses, passIRVars, trace, aborted>>

(***************************************************************************)
(* Steps of a leaf pass                                                    *)
(***************************************************************************)

InLeaf == ~ aborted /\ frames # <<>> /\ ~ IsManager(Top.pass)

\* compute_analysis, reached through get_analysis and get_analysis_mut: what is
\* cached is not computed again, what it needs is computed and cached first, and
\* what is computed from a stale analysis is stale.
ComputeAnalysis(t, op) ==
    /\ InLeaf /\ op = Top.op /\ <<t, op>> \notin analyses
    /\ analyses' = analyses \cup {<<s, op>> : s \in Needs[t] \cup {t}}
    /\ outdated' = IF \E s \in Needs[t] : <<s, op>> \in outdated THEN outdated \cup {<<t, op>>} ELSE outdated
    /\ UNCHANGED <<pipeline, config, frames, returned, kids, bad, ir_changed, trace, aborted>>

\* The pass updates what get_analysis_mut gave it.
UpdateAnalysis(t) ==
    /\ InLeaf /\ <<t, Top.op>> \in outdated
    /\ outdated' = outdated \ {<<t, Top.op>>}
    /\ UNCHANGED <<pipeline, config, frames, returned, analyses, kids, bad, ir_changed, trace, aborted>>

\* The pass changes an aspect of its operation, and with it of all that it is in:
\* the analyses that look at it are no longer right.
Invalid(op, aspect) ==
    outdated \cup {key \in analyses : key[2] \in Ancestors[op] /\ aspect \in Reads[key[1]]}

Change(aspect) ==
    /\ InLeaf
    /\ ir_changed' = TRUE
    /\ outdated' = Invalid(Top.op, aspect)
    /\ \E broken \in {{}, {Top.op}} : bad' = bad \cup broken
    /\ frames' = [frames EXCEPT ![Len(frames)].changed = TRUE]
    /\ UNCHANGED <<pipeline, config, returned, analyses, kids, trace, aborted>>

\* It erases an operation in its own; keys in the cache may name it from then on.
EraseNested ==
    /\ InLeaf /\ kids[Top.op] # <<>>
    /\ kids' = [kids EXCEPT ![Top.op] = Front(@)]
    /\ ir_changed' = TRUE
    /\ outdated' = UNION {Invalid(Top.op, aspect) : aspect \in Aspect}
    /\ bad' = {b \in bad : Last(kids[Top.op]) \notin Ancestors[b]}
    /\ frames' = [frames EXCEPT ![Len(frames)].changed = TRUE]
    /\ UNCHANGED <<pipeline, config, returned, analyses, trace, aborted>>

\* Types all of whose cached analyses, of operations that exist, are right.
Preservable == {t \in Type : \A o \in PassOp : Live(o) => <<t, o>> \notin outdated}

\* The pass returns, and run_pass verifies what it left.
Return ==
    /\ InLeaf
    /\ IF config.verify_after /\ ~ Verifies(Top.op)
         THEN aborted' = TRUE /\ UNCHANGED <<frames, returned>>
         ELSE /\ \E preserved \in SUBSET Preservable :
                    returned' = {[changed |-> Top.changed, preserved |-> preserved]}
              /\ frames' = Front(frames)
              /\ UNCHANGED aborted
    /\ UNCHANGED <<pipeline, config, analyses, passIRVars, trace>>

\* The pass returns an error: every manager on the stack returns it at once, and
\* the cache stays as it is.
ReturnError ==
    /\ InLeaf
    /\ aborted' = TRUE
    /\ UNCHANGED <<pipeline, config, frames, returned, analyses, passIRVars, trace>>

Leaf ==
    \/ \E t \in Type : ComputeAnalysis(t, Top.op) \/ UpdateAnalysis(t)
    \/ \E aspect \in Aspect : Change(aspect)
    \/ EraseNested \/ Return \/ ReturnError

PMNext == Enter \/ TakeResult \/ Finish \/ (InLeaf /\ Leaf)

PMSpec == PMInit /\ [][PMNext]_pmVars

(***************************************************************************)
(* Properties                                                              *)
(***************************************************************************)

\* No pass is given a stale analysis: whenever a manager is about to start one,
\* each analysis cached for an operation that exists is right, for the operations
\* around the one that was changed too.
CacheFresh == Managing => \A key \in outdated : ~ Live(key[2])

\* With verify_after_all, no pass starts on an IR that an earlier one has broken.
BreakageContained == Managing /\ config.verify_after => bad = {}

Completed == frames = <<>> /\ ~ aborted

\* The result of the whole pipeline tells the truth: Changed exactly if some pass
\* has changed the IR, and only analyses that are right are called preserved.
ResultHonest ==
    Completed => \A res \in returned : /\ res.changed <=> ir_changed
                                      /\ res.preserved \subseteq Preservable

\* Reference: the leaf passes that a pass stands for on an operation, in order, if no
\* operation is erased on the way.
LeavesWithout(skip) ==
    LET leaves[x \in Passes \X PassOp] ==
          IF IsManager(x[1])
            THEN LET inner == contained_passes(x[1], x[2], Nesting)
                 IN  FlattenSeq([i \in DOMAIN inner |-> leaves[inner[i]]])
            ELSE IF x[1].name \in skip THEN <<>> ELSE <<<<x[1].name, x[2]>>>>
    IN  leaves

\* Each leaf pass has run once on each operation it is meant for, in pipeline order.
RunInOrder ==
    Completed /\ IsManager(pipeline) /\ kids = Nesting =>
        trace = LeavesWithout(config.skip)[<<pipeline, Root>>]

\* pass.rs: the passes run as the pipeline says, the result is that of them together, and
\* with verification nothing broken is passed on.
PipelineCorrect == BreakageContained /\ ResultHonest /\ RunInOrder
=============================================================================
