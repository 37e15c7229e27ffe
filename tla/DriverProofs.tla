---------------------------- MODULE DriverProofs ----------------------------
(***************************************************************************)
(* Proofs about the two loops that call code of a client: the              *)
(* match-rewrite driver, for every IR and every callback, and the pass     *)
(* manager, for pipelines of any length and depth.                         *)
(***************************************************************************)
EXTENDS MatchRewrite, PassManager, SeqLemmas

(***************************************************************************)
(* The match-rewrite driver                                                *)
(***************************************************************************)

MRTypeOK ==
    /\ known \subseteq OpKey /\ gone \subseteq OpKey
    /\ to_rewrite \in Seq(OpKey)

\* The driver knows what has been erased; what it has queued exists or is known to be
\* erased; and what matches has been queued or rewritten.
QueueOK ==
    /\ erased_ops = gone /\ known \cap gone = {}
    /\ ToSet(to_rewrite) \subseteq known \cup gone
    /\ known \cap wanted \subseteq rewritten \cup ToSet(to_rewrite)
    /\ ~ stale

QueueInv == MRTypeOK /\ QueueOK

\* Filtered keeps the elements of s that are in S.
LEMMA FilteredLemma ==
    ASSUME NEW E, NEW s \in Seq(E), NEW S
    PROVE  Filtered(s, S) \in Seq(E) /\ ToSet(Filtered(s, S)) = ToSet(s) \cap S
  BY FilteredElements, Zenon DEF Filtered, Filtering

\* The walk queues all that matches.
LEMMA MRInitLemma == MRInit => QueueInv
<1> SUFFICES ASSUME MRInit PROVE QueueInv
  OBVIOUS
<1>1. PICK p \in Inputs : /\ known = ToSet(p.walk) /\ wanted = p.wanted
                          /\ to_rewrite = Filtered(p.walk, p.wanted)
  BY DEF MRInit
<1>2. gone = {} /\ erased_ops = {} /\ ~ stale
  BY DEF MRInit
<1>3. p.walk \in Seq(OpKey)
  BY InputsAssumption
<1>4. to_rewrite \in Seq(OpKey) /\ ToSet(to_rewrite) = known \cap wanted
  BY <1>1, <1>3, FilteredLemma
<1>5. known \subseteq OpKey
  BY <1>1, <1>3, ElementsIn
<1> QED BY <1>2, <1>4, <1>5 DEF QueueInv, MRTypeOK, QueueOK

LEMMA QueueLemma ==
    ASSUME QueueInv, to_rewrite # <<>>
    PROVE  /\ current \in OpKey /\ Tail(to_rewrite) \in Seq(OpKey)
           /\ ToSet(to_rewrite) = {current} \cup ToSet(Tail(to_rewrite))
  BY HeadElements DEF QueueInv, MRTypeOK, current

LEMMA SkipLemma ==
    ASSUME QueueInv, Skip
    PROVE  QueueInv'
<1>1. /\ to_rewrite # <<>> /\ current \in erased_ops /\ to_rewrite' = Tail(to_rewrite)
      /\ UNCHANGED <<known, gone, wanted, erased_ops, rewritten, stale>>
  BY DEF Skip, clientVars
<1> QED BY <1>1, QueueLemma DEF QueueInv, MRTypeOK, QueueOK

\* Whatever a callback inserts, moves and erases: erasures are noted before the driver
\* looks at what was inserted, and what matches is queued at one end or the other.
LEMMA RewriteLemma ==
    ASSUME QueueInv, Rewrite
    PROVE  QueueInv'
<1>1. to_rewrite # <<>> /\ current \notin erased_ops /\ rewritten' = rewritten \cup {current}
  BY DEF Rewrite
<1>2. /\ current \in OpKey /\ Tail(to_rewrite) \in Seq(OpKey)
      /\ ToSet(to_rewrite) = {current} \cup ToSet(Tail(to_rewrite))
  BY <1>1, QueueLemma
<1>3. current \in known
  BY <1>1, <1>2 DEF QueueInv, QueueOK
<1> SUFFICES ASSUME NEW new \in AtMostOne(OpKey \ (known \cup gone)),
                    NEW heir \in Heirs(new),
                    NEW del \in Erasable(current, new, heir),
                    NEW keep \in SUBSET (({current} \cup new) \ del),
                    NEW lost \in MayLose(current, heir),
                    NEW moved \in AtMostOne(known),
                    Callback(current, new, heir, del, keep, lost),
                    erased_ops' = note_erased(del),
                    to_rewrite' = enqueue(Tail(to_rewrite),
                                          Filtered(asked(SetToSeq(new) \o SetToSeq(moved)), wanted')),
                    stale' = (stale \/ current \notin known
                              \/ ~ ToSet(asked(SetToSeq(new) \o SetToSeq(moved))) \subseteq known')
             PROVE  QueueInv'
  BY DEF Rewrite
<1> DEFINE events == SetToSeq(new) \o SetToSeq(moved)
           inserted == asked(events)
           queued == Filtered(inserted, wanted')
<1>4. new \subseteq OpKey \ (known \cup gone) /\ SetToSeq(new) \in Seq(OpKey) /\ ToSet(SetToSeq(new)) = new
  <2>1. new \in {{}} \cup {{x} : x \in OpKey}
    BY DEF AtMostOne
  <2> QED BY <2>1, SequenceOfFew DEF AtMostOne
<1>5. moved \subseteq known /\ SetToSeq(moved) \in Seq(OpKey) /\ ToSet(SetToSeq(moved)) = moved
  <2>1. moved \in {{}} \cup {{x} : x \in OpKey}
    BY DEF AtMostOne, QueueInv, MRTypeOK
  <2> QED BY <2>1, SequenceOfFew DEF AtMostOne
<1>6. del \subseteq known \cup new
  BY DEF Erasable, kSubset
<1>7. /\ known' = (known \cup new) \ del /\ gone' = gone \cup del
      /\ wanted' = (wanted \ ({current} \cup del \cup lost)) \cup keep
  BY DEF Callback
<1>8. erased_ops' = gone'
  BY <1>7 DEF note_erased, QueueInv, QueueOK
<1>9. events \in Seq(OpKey) /\ ToSet(events) = new \cup moved
  BY <1>4, <1>5, ConcatElements
<1>10. inserted \in Seq(OpKey) /\ ToSet(inserted) = (new \cup moved) \ gone'
  <2> HIDE DEF events
  <2>1. new \cup moved \subseteq OpKey
    BY <1>4, <1>5 DEF QueueInv, MRTypeOK
  <2>2. Filtered(events, OpKey \ erased_ops') \in Seq(OpKey)
        /\ ToSet(Filtered(events, OpKey \ erased_ops')) = ToSet(events) \cap (OpKey \ erased_ops')
    BY <1>9, FilteredLemma
  <2> QED BY <1>8, <1>9, <2>1, <2>2 DEF asked
<1> HIDE DEF inserted
<1>11. queued \in Seq(OpKey) /\ ToSet(queued) = ToSet(inserted) \cap wanted'
  BY <1>10, FilteredLemma
<1>12. to_rewrite' = enqueue(Tail(to_rewrite), queued)
  BY DEF inserted
<1> HIDE DEF queued
<1>13. to_rewrite' \in Seq(OpKey) /\ ToSet(to_rewrite') = ToSet(Tail(to_rewrite)) \cup ToSet(queued)
  <2> DEFINE rest == Tail(to_rewrite)
  <2>1. rest \in Seq(OpKey)
    BY <1>2
  <2>2. to_rewrite' = IF enque = "EnqueFront" THEN Reverse(queued) \o rest ELSE rest \o queued
    BY <1>12 DEF enqueue
  <2> HIDE DEF rest
  <2>3. Reverse(queued) \in Seq(OpKey) /\ ToSet(Reverse(queued)) = ToSet(queued)
    BY <1>11, ReversedElements
  <2>4. /\ Reverse(queued) \o rest \in Seq(OpKey)
        /\ ToSet(Reverse(queued) \o rest) = ToSet(queued) \cup ToSet(rest)
    <3> DEFINE r == Reverse(queued)
    <3>1. r \in Seq(OpKey) /\ ToSet(r) = ToSet(queued)
      BY <2>3
    <3> HIDE DEF r
    <3>2. r \o rest \in Seq(OpKey) /\ ToSet(r \o rest) = ToSet(r) \cup ToSet(rest)
      BY <2>1, <3>1, ConcatElements
    <3> QED BY <3>1, <3>2 DEF r
  <2>5. rest \o queued \in Seq(OpKey) /\ ToSet(rest \o queued) = ToSet(rest) \cup ToSet(queued)
    BY <1>11, <2>1, ConcatElements
  <2>6. to_rewrite' \in Seq(OpKey) /\ ToSet(to_rewrite') = ToSet(rest) \cup ToSet(queued)
    BY <2>2, <2>4, <2>5
  <2> QED BY <2>6 DEF rest
<1>14. MRTypeOK'
  BY <1>4, <1>6, <1>7, <1>13 DEF QueueInv, MRTypeOK
<1>15. ~ stale'
  <2>1. ToSet(inserted) \subseteq known'
    BY <1>5, <1>7, <1>10
  <2> QED BY <1>3, <2>1 DEF QueueInv, QueueOK, inserted
<1>16. known' \cap gone' = {}
  BY <1>4, <1>7 DEF QueueInv, QueueOK
<1>17. ToSet(to_rewrite') \subseteq known' \cup gone'
  BY <1>2, <1>4, <1>5, <1>7, <1>10, <1>11, <1>13 DEF QueueInv, QueueOK
<1>18. known' \cap wanted' \subseteq rewritten' \cup ToSet(to_rewrite')
  <2> SUFFICES ASSUME NEW o \in known' \cap wanted', o # current PROVE o \in rewritten' \cup ToSet(to_rewrite')
    BY <1>1
  <2>1. CASE o \in new
    <3>1. o \in ToSet(inserted)
      BY <1>16, <2>1, <1>10
    <3> QED BY <3>1, <1>11, <1>13
  <2>2. CASE o \notin new
    <3>1. o \in known /\ o \in wanted
      BY <1>7, <2>2
    <3> QED BY <3>1, <1>1, <1>2, <1>13 DEF QueueInv, QueueOK
  <2> QED BY <2>1, <2>2
<1> QED BY <1>8, <1>14, <1>15, <1>16, <1>17, <1>18 DEF QueueInv, QueueOK

\* What the driver knows of its queue holds in every reachable state.
THEOREM QueueInvariant == MRSpec => []QueueInv
<1>1. MRInit => QueueInv
  BY MRInitLemma
<1>2. QueueInv /\ [MRNext]_mrVars => QueueInv'
  <2> SUFFICES ASSUME QueueInv, [MRNext]_mrVars PROVE QueueInv'
    OBVIOUS
  <2>1. CASE Skip
    BY <2>1, SkipLemma
  <2>2. CASE Rewrite
    BY <2>2, RewriteLemma
  <2>3. CASE Fail
    BY <2>3 DEF Fail, clientVars, QueueInv, MRTypeOK, QueueOK
  <2>4. CASE UNCHANGED mrVars
    BY <2>4 DEF mrVars, QueueInv, MRTypeOK, QueueOK
  <2> QED BY <2>1, <2>2, <2>3, <2>4 DEF MRNext
<1> QED BY <1>1, <1>2, PTL DEF MRSpec

\* apply_match_rewrite never asks about, rewrites or inserts before an operation that a
\* callback has erased.
THEOREM ErasedAreNotTouched == MRSpec => []NothingStale
<1>1. QueueInv => NothingStale
  BY DEF QueueInv, QueueOK, NothingStale
<1> QED BY <1>1, QueueInvariant, PTL

\* When apply_match_rewrite returns without an error, the client has been given every
\* operation that matches.
THEOREM MatchesAreRewritten == MRSpec => []AllRewritten
<1>1. QueueInv => AllRewritten
  BY DEF QueueInv, QueueOK, AllRewritten, ToSet
<1> QED BY <1>1, QueueInvariant, PTL

(***************************************************************************)
(* The pass manager                                                        *)
(***************************************************************************)

Frames == [pass : Passes, op : PassOp, todo : Seq(Passes \X PassOp), changed : BOOLEAN]
Results == [changed : BOOLEAN, preserved : SUBSET Type]

PMTypeOK ==
    /\ frames \in Seq(Frames) /\ returned \in SUBSET Results
    /\ analyses \in SUBSET (Type \X PassOp) /\ outdated \subseteq analyses
    /\ kids \in [PassOp -> Seq(PassOp)] /\ bad \subseteq PassOp
    /\ ir_changed \in BOOLEAN /\ aborted \in BOOLEAN

\* Only the innermost call may be that of a leaf pass, and a result is on its way to a
\* manager or to the client.  A guard hands on the result of its pass and has none.
StackOK ==
    /\ \A i \in 1..Len(frames) : i < Len(frames) => IsManager(frames[i].pass) /\ frames[i].todo # <<>>
    /\ returned # {} /\ frames # <<>> => IsManager(Top.pass) /\ Top.todo # <<>>
    /\ \A r, s \in returned : r = s
    /\ \A i \in 1..Len(frames) : frames[i].pass.kind = "Guarded" => ~ frames[i].changed

Wrong == {key \in outdated : Live(key[2])}

\* An analysis is wrong only while a pass that says it changed the IR runs, or while its
\* result, which does not preserve the analysis, is on its way.
CacheOK ==
    ~ aborted =>
        /\ Managing => Wrong = {}
        /\ InLeaf /\ ~ Top.changed => Wrong = {}
        /\ \A r \in returned : \A key \in Wrong : r.changed /\ key[1] \notin r.preserved

\* An operation is broken only while a pass runs on it.
VerifiedOK == config.verify_after /\ ~ aborted => bad \subseteq (IF InLeaf THEN {Top.op} ELSE {})

\* That the IR has changed is known to a call or to the result on its way.
StatusOK ==
    ~ aborted => (ir_changed <=> \/ \E i \in 1..Len(frames) : frames[i].changed
                                 \/ \E r \in returned : r.changed)

PreservedOK == ~ aborted => \A r \in returned : r.preserved \subseteq Preservable

PassInv == PMTypeOK /\ StackOK /\ CacheOK /\ VerifiedOK /\ StatusOK /\ PreservedOK

\* What a manager is asked to run are passes on operations.
LEMMA ContainedLemma ==
    ASSUME NEW nested \in [PassOp -> Seq(PassOp)], NEW pass \in Passes, NEW op \in PassOp
    PROVE  contained_passes(pass, op, nested) \in Seq(Passes \X PassOp)
<1>1. CASE pass.kind = "Passes"
  <2>1. pass.passes \in Seq(Passes)
    BY <1>1, PassesAssumption
  <2>2. contained_passes(pass, op, nested) = [i \in DOMAIN pass.passes |-> <<pass.passes[i], op>>]
    BY <1>1 DEF contained_passes
  <2>3. contained_passes(pass, op, nested) \in Seq(Passes \X PassOp)
    <3>1. /\ Len(pass.passes) \in Nat /\ DOMAIN pass.passes = 1..Len(pass.passes)
          /\ \A i \in 1..Len(pass.passes) : pass.passes[i] \in Passes
      BY <2>1
    <3>2. \A i \in 1..Len(pass.passes) : <<pass.passes[i], op>> \in Passes \X PassOp
      BY <3>1
    <3>3. contained_passes(pass, op, nested) \in [1..Len(pass.passes) -> Passes \X PassOp]
      BY <2>2, <3>1, <3>2, Zenon
    <3> QED BY <3>1, <3>3, FunctionIsSeq
  <2> QED BY <2>3
<1>2. CASE pass.kind = "NestedOps"
  <2>1. pass.pass \in Passes /\ nested[op] \in Seq(PassOp)
    BY <1>2, PassesAssumption
  <2>2. contained_passes(pass, op, nested) = [i \in DOMAIN nested[op] |-> <<pass.pass, nested[op][i]>>]
    BY <1>2 DEF contained_passes
  <2>3. contained_passes(pass, op, nested) \in Seq(Passes \X PassOp)
    <3>1. /\ Len(nested[op]) \in Nat /\ DOMAIN nested[op] = 1..Len(nested[op])
          /\ \A i \in 1..Len(nested[op]) : nested[op][i] \in PassOp
      BY <2>1
    <3>2. \A i \in 1..Len(nested[op]) : <<pass.pass, nested[op][i]>> \in Passes \X PassOp
      BY <2>1, <3>1
    <3>3. contained_passes(pass, op, nested) \in [1..Len(nested[op]) -> Passes \X PassOp]
      BY <2>2, <3>1, <3>2, Zenon
    <3> QED BY <3>1, <3>3, FunctionIsSeq
  <2> QED BY <2>3
<1>3. CASE pass.kind = "Guarded"
  <2>1. pass.pass \in Passes
    BY <1>3, PassesAssumption
  <2>2. contained_passes(pass, op, nested) = IF op \in pass.allowed THEN <<<<pass.pass, op>>>> ELSE <<>>
    BY <1>3 DEF contained_passes
  <2>3. contained_passes(pass, op, nested) \in Seq(Passes \X PassOp)
    <3> DEFINE task == <<pass.pass, op>>
    <3>1. task \in Passes \X PassOp
      BY <2>1
    <3>2. contained_passes(pass, op, nested) = <<task>> \/ contained_passes(pass, op, nested) = <<>>
      BY <2>2
    <3> HIDE DEF task
    <3> QED BY <3>1, <3>2, ShortSeqs, Zenon
  <2> QED BY <2>3
<1>4. CASE pass.kind \notin {"Passes", "NestedOps", "Guarded"}
  <2>1. contained_passes(pass, op, nested) = <<>>
    BY <1>4 DEF contained_passes
  <2>2. contained_passes(pass, op, nested) \in Seq(Passes \X PassOp)
    BY <2>1, ShortSeqs, Zenon
  <2> QED BY <2>2
<1> QED BY <1>1, <1>2, <1>3, <1>4

LEMMA FrameLemma ==
    ASSUME kids \in [PassOp -> Seq(PassOp)], NEW pass \in Passes, NEW op \in PassOp
    PROVE  Frame(pass, op) \in Frames
  BY ContainedLemma DEF Frame, Frames

LEMMA NestingLemma == Nesting \in [PassOp -> Seq(PassOp)]
<1> DEFINE Direct(o) == {c \in PassOp : c # o /\ o \in Ancestors[c] /\ Ancestors[c] \subseteq Ancestors[o] \cup {c}}
<1>1. \A o \in PassOp : SetToSeq(Direct(o)) \in Seq(PassOp)
  <2> TAKE o \in PassOp
  <2>1. Direct(o) \subseteq PassOp /\ IsFiniteSet(Direct(o))
    BY PassesAssumption, FS_Subset
  <2> HIDE DEF Direct
  <2> QED BY <2>1, SequenceOfFinite
<1>2. Nesting = [o \in PassOp |-> SetToSeq(Direct(o))]
  BY DEF Nesting
<1> HIDE DEF Direct
<1> QED BY <1>1, <1>2

LEMMA PMInitLemma == PMInit => PassInv
<1> SUFFICES ASSUME PMInit PROVE PassInv
  OBVIOUS
<1>1. /\ pipeline \in Passes /\ Root \in PassOp
      /\ frames = <<Frame(pipeline, Root)>> /\ returned = {} /\ analyses = {} /\ bad = {}
      /\ outdated = {} /\ ir_changed = FALSE /\ aborted = FALSE
  BY PassesAssumption DEF PMInit
<1>4. kids \in [PassOp -> Seq(PassOp)]
  BY NestingLemma DEF PMInit
<1>5. Frame(pipeline, Root) \in Frames /\ Frame(pipeline, Root).changed = FALSE
  BY <1>1, <1>4, FrameLemma DEF Frame
<1>6. frames \in Seq(Frames) /\ Len(frames) = 1 /\ \A i \in 1..Len(frames) : ~ frames[i].changed
  BY <1>1, <1>5
<1>7. PMTypeOK
  BY <1>1, <1>4, <1>6 DEF PMTypeOK
<1>8. StackOK
  BY <1>1, <1>6 DEF StackOK
<1>9. CacheOK
  BY <1>1 DEF CacheOK, Wrong
<1>10. VerifiedOK /\ StatusOK /\ PreservedOK
  BY <1>1, <1>6 DEF VerifiedOK, StatusOK, PreservedOK
<1> QED BY <1>7, <1>8, <1>9, <1>10 DEF PassInv

\* The innermost call.
LEMMA TopLemma ==
    ASSUME PMTypeOK, frames # <<>>
    PROVE  /\ Len(frames) \in Nat \ {0} /\ Top = frames[Len(frames)] /\ Top \in Frames
           /\ Top.pass \in Passes /\ Top.op \in PassOp /\ Top.todo \in Seq(Passes \X PassOp)
           /\ Top.changed \in BOOLEAN
<1>1. frames \in Seq(Frames)
  BY DEF PMTypeOK
<1>2. Len(frames) \in Nat \ {0} /\ frames[Len(frames)] \in Frames
  BY <1>1
<1> QED BY <1>2 DEF Top, Frames

\* A call ends: what is left of the stack.
LEMMA PopLemma ==
    ASSUME PMTypeOK, StackOK, frames # <<>>
    PROVE  /\ Front(frames) \in Seq(Frames) /\ Len(Front(frames)) = Len(frames) - 1
           /\ \A i \in 1..(Len(frames) - 1) :
                 /\ Front(frames)[i] = frames[i]
                 /\ IsManager(frames[i].pass) /\ frames[i].todo # <<>>
           /\ Front(frames) # <<>> => Len(frames) > 1
                                      /\ Front(frames)[Len(Front(frames))] = frames[Len(frames) - 1]
<1>1. frames \in Seq(Frames) /\ Len(frames) \in Nat \ {0}
  BY TopLemma DEF PMTypeOK
<1>2. /\ Front(frames) \in Seq(Frames) /\ Len(Front(frames)) = Len(frames) - 1
      /\ \A i \in 1..(Len(frames) - 1) : Front(frames)[i] = frames[i]
  BY <1>1, FrontLemma
<1>3. \A i \in 1..(Len(frames) - 1) : IsManager(frames[i].pass) /\ frames[i].todo # <<>>
  BY <1>1 DEF StackOK
<1>4. Front(frames) # <<>> => Len(Front(frames)) # 0
  BY <1>2, EmptySeq
<1> QED BY <1>1, <1>2, <1>3, <1>4

\* The manager begins the next pass, skips it, or finds its operation broken.
LEMMA EnterLemma ==
    ASSUME PassInv, Enter
    PROVE  PassInv'
<1> DEFINE n == Len(frames)
           pass == Top.todo[1][1]
           op == Top.todo[1][2]
<1>1. /\ ~ aborted /\ frames # <<>> /\ IsManager(Top.pass) /\ returned = {} /\ Top.todo # <<>>
      /\ UNCHANGED <<config, analyses, outdated, kids, bad, ir_changed>>
  BY DEF Enter, Managing, passIRVars
<1>2. PMTypeOK /\ StackOK /\ n \in Nat \ {0} /\ Top = frames[n] /\ frames \in Seq(Frames)
  BY <1>1, TopLemma DEF PassInv, PMTypeOK
<1>3. pass \in Passes /\ op \in PassOp
  <2>1. Top.todo \in Seq(Passes \X PassOp) /\ Top.todo # <<>>
    BY <1>1, <1>2, TopLemma
  <2>2. Top.todo[1] \in Passes \X PassOp
    <3>1. Len(Top.todo) \in Nat \ {0}
      BY <2>1, EmptySeq
    <3>2. 1 \in 1..Len(Top.todo)
      BY <3>1
    <3> QED BY <2>1, <3>2, ElementOfSeq
  <2> QED BY <2>2
<1>4. Wrong = {} /\ Wrong' = Wrong /\ ~ InLeaf /\ (config.verify_after => bad = {})
  BY <1>1 DEF PassInv, CacheOK, Managing, Wrong, Live, InLeaf, VerifiedOK
<1>5. ir_changed <=> \E i \in 1..n : frames[i].changed
  BY <1>1 DEF PassInv, StatusOK
<1>6. \/ returned' = {Default} /\ UNCHANGED <<frames, aborted>>
      \/ aborted' = TRUE /\ UNCHANGED <<frames, returned>>
      \/ frames' = Append(frames, Frame(pass, op)) /\ UNCHANGED <<returned, aborted>>
  BY DEF Enter
<1> HIDE DEF n
<1>7. CASE returned' = {Default} /\ UNCHANGED <<frames, aborted>>
  <2>1. Default \in Results /\ Default.changed = FALSE /\ Default.preserved = {}
    BY DEF Default, Results
  <2>2. Top' = Top
    BY <1>7 DEF Top
  <2>3. PMTypeOK'
    BY <1>1, <1>2, <1>7, <2>1 DEF PMTypeOK
  <2>4. StackOK'
    BY <1>1, <1>2, <1>7, <2>2 DEF StackOK
  <2>5. CacheOK'
    BY <1>1, <1>4, <1>7, <2>2 DEF CacheOK, Managing, InLeaf
  <2>6. VerifiedOK'
    BY <1>1, <1>4, <1>7 DEF VerifiedOK
  <2>7. StatusOK'
    BY <1>1, <1>5, <1>7, <2>1 DEF StatusOK, n
  <2>8. PreservedOK'
    BY <1>7, <2>1 DEF PreservedOK
  <2> QED BY <2>3, <2>4, <2>5, <2>6, <2>7, <2>8 DEF PassInv
<1>8. CASE aborted' = TRUE /\ UNCHANGED <<frames, returned>>
  BY <1>1, <1>2, <1>8 DEF PassInv, PMTypeOK, StackOK, CacheOK, VerifiedOK, StatusOK, PreservedOK, Top
<1>9. CASE frames' = Append(frames, Frame(pass, op)) /\ UNCHANGED <<returned, aborted>>
  <2> DEFINE F == Frame(pass, op)
  <2>1. F \in Frames
    BY <1>2, <1>3, FrameLemma DEF PMTypeOK
  <2>2. F.pass = pass /\ F.op = op /\ F.changed = FALSE
    BY DEF Frame
  <2> HIDE DEF F
  <2>3. /\ frames' \in Seq(Frames) /\ Len(frames') = n + 1 /\ frames'[n + 1] = F
        /\ \A i \in 1..n : frames'[i] = frames[i]
    BY <1>2, <1>9, <2>1, AppendProperties DEF F, n
  <2>4. Top' = F /\ frames' # <<>>
    BY <1>2, <2>3 DEF Top
  <2>5. PMTypeOK'
    BY <1>1, <1>2, <1>9, <2>3 DEF PMTypeOK
  <2>6. StackOK'
    <3>1. \A i \in 1..n : IsManager(frames[i].pass) /\ frames[i].todo # <<>>
      BY <1>1, <1>2 DEF StackOK, n
    <3>2. \A i \in 1..n : frames[i].pass.kind = "Guarded" => ~ frames[i].changed
      BY <1>2 DEF StackOK, n
    <3>3. \A i \in 1..(n + 1) : i = n + 1 \/ i \in 1..n
      BY <1>2
    <3>4. \A i \in 1..(n + 1) : i < n + 1 => IsManager(frames'[i].pass) /\ frames'[i].todo # <<>>
      BY <2>3, <3>1, <3>3
    <3>5. \A i \in 1..(n + 1) : frames'[i].pass.kind = "Guarded" => ~ frames'[i].changed
      BY <2>2, <2>3, <3>2, <3>3
    <3>6. returned' = {}
      BY <1>1, <1>9
    <3> QED BY <2>3, <3>4, <3>5, <3>6 DEF StackOK
  <2>7. CacheOK'
    BY <1>1, <1>4, <1>9 DEF CacheOK
  <2>8. VerifiedOK'
    BY <1>1, <1>4, <1>9 DEF VerifiedOK
  <2>9. StatusOK'
    <3>1. (\E i \in 1..(n + 1) : frames'[i].changed) <=> (\E i \in 1..n : frames[i].changed)
      <4>1. \A i : i \in 1..(n + 1) <=> i \in 1..n \/ i = n + 1
        BY <1>2
      <4>2. ~ frames'[n + 1].changed /\ \A i \in 1..n : frames'[i].changed <=> frames[i].changed
        BY <2>2, <2>3
      <4> QED BY <4>1, <4>2, Zenon
    <3> QED BY <1>1, <1>5, <1>9, <2>3, <3>1 DEF StatusOK
  <2>10. PreservedOK'
    BY <1>1, <1>9 DEF PreservedOK
  <2> QED BY <2>5, <2>6, <2>7, <2>8, <2>9, <2>10 DEF PassInv
<1> QED BY <1>6, <1>7, <1>8, <1>9

\* A manager takes the result of its pass: what it does not preserve leaves the cache.
LEMMA TakeResultLemma ==
    ASSUME PassInv, TakeResult
    PROVE  PassInv'
<1> DEFINE n == Len(frames)
<1>1. /\ ~ aborted /\ frames # <<>> /\ IsManager(Top.pass)
      /\ UNCHANGED <<config, kids, bad, ir_changed, aborted>>
  BY DEF TakeResult
<1>2. PMTypeOK /\ StackOK /\ n \in Nat \ {0} /\ Top = frames[n] /\ frames \in Seq(Frames) /\ Top \in Frames
  BY <1>1, TopLemma DEF PassInv, PMTypeOK
<1>3. PICK res \in returned :
        IF Top.pass.kind = "Guarded"
            THEN frames' = Front(frames) /\ UNCHANGED <<returned, analyses, outdated>>
            ELSE /\ frames' = [frames EXCEPT ![Len(frames)].todo = Tail(@),
                                             ![Len(frames)].changed = status(@, res.changed)]
                 /\ returned' = {}
                 /\ analyses' = retain_preserved(res)
                 /\ outdated' = outdated \cap analyses'
  BY DEF TakeResult
<1>4. res \in Results /\ res.changed \in BOOLEAN /\ returned = {res}
  BY <1>2, <1>3 DEF PMTypeOK, StackOK, Results
<1>5. /\ ~ InLeaf /\ (config.verify_after => bad = {})
      /\ \A key \in Wrong : res.changed /\ key[1] \notin res.preserved
  BY <1>1, <1>3 DEF InLeaf, PassInv, VerifiedOK, CacheOK
<1>6. ir_changed <=> (\E i \in 1..n : frames[i].changed) \/ res.changed
  BY <1>1, <1>4 DEF PassInv, StatusOK
<1>7. Top.todo # <<>>
  BY <1>1, <1>2, <1>3 DEF StackOK
<1>8. CASE Top.pass.kind = "Guarded"
  <2>1. frames' = Front(frames) /\ UNCHANGED <<returned, analyses, outdated>>
    BY <1>3, <1>8
  <2>2. /\ frames' \in Seq(Frames) /\ Len(frames') = n - 1
        /\ \A i \in 1..(n - 1) : /\ frames'[i] = frames[i]
                                 /\ IsManager(frames[i].pass) /\ frames[i].todo # <<>>
        /\ frames' # <<>> => n > 1 /\ frames'[Len(frames')] = frames[n - 1]
    BY <1>1, <1>2, <2>1, PopLemma
  <2>3. frames' # <<>> => IsManager(Top'.pass) /\ Top'.todo # <<>>
    BY <1>2, <2>2 DEF Top
  <2>4. ~ frames[n].changed
    BY <1>2, <1>8 DEF StackOK
  <2> HIDE DEF n
  <2>5. PMTypeOK'
    BY <1>1, <1>2, <2>1, <2>2 DEF PMTypeOK
  <2>6. StackOK'
    <3>1. \A i \in 1..n : frames[i].pass.kind = "Guarded" => ~ frames[i].changed
      BY <1>2 DEF StackOK, n
    <3>2. \A i \in 1..(n - 1) : i \in 1..n
      BY <1>2
    <3> QED BY <1>2, <1>4, <2>1, <2>2, <2>3, <3>1, <3>2 DEF StackOK
  <2>7. CacheOK'
    <3>1. Wrong' = Wrong
      BY <1>1, <2>1 DEF Wrong, Live
    <3> QED BY <1>1, <1>4, <1>5, <2>1, <2>3, <3>1 DEF CacheOK, Managing, InLeaf
  <2>8. VerifiedOK'
    BY <1>1, <1>5 DEF VerifiedOK
  <2>9. StatusOK'
    <3>1. ASSUME NEW i \in 1..n, frames[i].changed PROVE \E j \in 1..(n - 1) : frames'[j].changed
      <4>1. i # n
        BY <2>4, <3>1
      <4>2. i \in 1..(n - 1)
        BY <1>2, <4>1
      <4> QED BY <2>2, <3>1, <4>2
    <3>2. ASSUME NEW i \in 1..(n - 1), frames'[i].changed PROVE \E j \in 1..n : frames[j].changed
      <4>1. i \in 1..n
        BY <1>2
      <4> QED BY <2>2, <3>2, <4>1
    <3>3. (\E i \in 1..n : frames[i].changed) <=> (\E i \in 1..(n - 1) : frames'[i].changed)
      BY <3>1, <3>2
    <3> QED BY <1>1, <1>4, <1>6, <2>1, <2>2, <3>3 DEF StatusOK
  <2>10. PreservedOK'
    <3>1. Preservable' = Preservable
      BY <1>1, <2>1 DEF Preservable, Live
    <3> QED BY <1>1, <2>1, <3>1 DEF PassInv, PreservedOK
  <2> QED BY <2>5, <2>6, <2>7, <2>8, <2>9, <2>10 DEF PassInv
<1>9. CASE Top.pass.kind # "Guarded"
  <2> DEFINE F == [Top EXCEPT !.todo = Tail(@), !.changed = status(@, res.changed)]
  <2>1. /\ frames' = [frames EXCEPT ![n] = F] /\ returned' = {}
        /\ analyses' = retain_preserved(res) /\ outdated' = outdated \cap analyses'
    BY <1>2, <1>3, <1>9
  <2>2. Tail(Top.todo) \in Seq(Passes \X PassOp)
    <3>1. Top.todo \in Seq(Passes \X PassOp)
      BY <1>2 DEF Frames
    <3> QED BY <1>7, <3>1, HeadElements
  <2>3. F \in Frames /\ F.pass = Top.pass /\ F.op = Top.op /\ F.changed = (Top.changed \/ res.changed)
    BY <1>2, <1>4, <2>2 DEF Frames, status
  <2> HIDE DEF F
  <2>4. /\ frames' \in Seq(Frames) /\ Len(frames') = n
        /\ \A i \in 1..n : frames'[i] = IF i = n THEN F ELSE frames[i]
    BY <1>2, <2>1, <2>3, ExceptSeq
  <2>5. Top' = F
    BY <1>2, <2>4 DEF Top
  <2> HIDE DEF n
  <2>6. PMTypeOK'
    <3>1. analyses' \subseteq analyses
      BY <2>1 DEF retain_preserved
    <3> QED BY <1>1, <1>2, <2>1, <2>4, <3>1 DEF PMTypeOK
  <2>7. StackOK'
    <3>1. \A i \in 1..n : i < n => IsManager(frames[i].pass) /\ frames[i].todo # <<>>
      BY <1>2 DEF StackOK, n
    <3>2. \A i \in 1..n : frames[i].pass.kind = "Guarded" => ~ frames[i].changed
      BY <1>2 DEF StackOK, n
    <3> QED BY <1>2, <1>9, <2>1, <2>3, <2>4, <3>1, <3>2 DEF StackOK
  <2>8. CacheOK'
    <3>1. Wrong' = {}
      <4> SUFFICES ASSUME NEW key \in Wrong' PROVE FALSE
        OBVIOUS
      <4>1. key \in Wrong /\ key \in analyses'
        BY <1>1, <2>1 DEF Wrong, Live
      <4>2. res.changed /\ key[1] \notin res.preserved
        BY <1>5, <4>1
      <4>3. key[1] \in res.preserved
        BY <2>1, <4>1, <4>2 DEF retain_preserved
      <4> QED BY <4>2, <4>3
    <3> QED BY <2>1, <3>1 DEF CacheOK
  <2>9. VerifiedOK'
    BY <1>1, <1>5 DEF VerifiedOK
  <2>10. StatusOK'
    <3>1. ASSUME NEW i \in 1..n, frames[i].changed PROVE frames'[i].changed
      BY <1>2, <2>3, <2>4, <3>1
    <3>2. res.changed => frames'[n].changed
      <4>1. n \in 1..n
        BY <1>2
      <4>2. frames'[n] = F
        BY <2>4, <4>1
      <4>3. res.changed => F.changed
        BY <2>3
      <4> QED BY <4>2, <4>3
    <3>3. ASSUME NEW i \in 1..n, frames'[i].changed PROVE frames[i].changed \/ res.changed
      BY <1>2, <2>3, <2>4, <3>3
    <3>4. (\E i \in 1..n : frames'[i].changed) <=> (\E i \in 1..n : frames[i].changed) \/ res.changed
      <4>1. n \in 1..n
        BY <1>2
      <4> QED BY <3>1, <3>2, <3>3, <4>1
    <3> QED BY <1>1, <1>6, <2>1, <2>4, <3>4 DEF StatusOK
  <2>11. PreservedOK'
    BY <2>1 DEF PreservedOK
  <2> QED BY <2>6, <2>7, <2>8, <2>9, <2>10, <2>11 DEF PassInv
<1> QED BY <1>8, <1>9

\* A manager returns: what is left in the cache is right.
LEMMA FinishLemma ==
    ASSUME PassInv, Finish
    PROVE  PassInv'
<1> DEFINE n == Len(frames)
           R == IF Top.pass.kind = "Guarded" THEN Default
                ELSE [changed |-> Top.changed, preserved |-> {key[1] : key \in analyses}]
<1>1. /\ Managing /\ ~ aborted /\ frames # <<>> /\ IsManager(Top.pass) /\ returned = {}
      /\ frames' = Front(frames) /\ returned' = {R}
      /\ UNCHANGED <<config, analyses, outdated, kids, bad, ir_changed, aborted>>
  BY DEF Finish, Managing, passIRVars
<1>2. PMTypeOK /\ StackOK /\ n \in Nat \ {0} /\ Top = frames[n] /\ frames \in Seq(Frames) /\ Top \in Frames
  BY <1>1, TopLemma DEF PassInv, PMTypeOK
<1>3. R \in Results /\ R.changed = frames[n].changed /\ R.preserved \subseteq Type
  <2>1. CASE Top.pass.kind = "Guarded"
    <3>1. R = [changed |-> FALSE, preserved |-> {}]
      BY <2>1 DEF Default
    <3>2. frames[n].changed = FALSE
      BY <1>2, <2>1 DEF StackOK, Frames
    <3> HIDE DEF R
    <3>3. R \in Results
      BY <3>1 DEF Results
    <3>4. R.changed = FALSE /\ R.preserved = {}
      BY <3>1
    <3> QED BY <3>2, <3>3, <3>4, Zenon
  <2>2. CASE Top.pass.kind # "Guarded"
    <3> DEFINE S == {key[1] : key \in analyses}
    <3>1. S \subseteq Type
      BY <1>2 DEF PMTypeOK
    <3> HIDE DEF S
    <3>2. R = [changed |-> Top.changed, preserved |-> S]
      BY <2>2 DEF S
    <3>3. Top.changed \in BOOLEAN /\ Top.changed = frames[n].changed
      BY <1>2 DEF Frames
    <3> HIDE DEF R
    <3>4. R \in Results
      BY <3>1, <3>2, <3>3 DEF Results
    <3>5. R.changed = Top.changed /\ R.preserved = S
      BY <3>2
    <3> QED BY <3>1, <3>3, <3>4, <3>5, Zenon
  <2> QED BY <2>1, <2>2
<1> HIDE DEF R
<1>4. /\ frames' \in Seq(Frames) /\ Len(frames') = n - 1
      /\ \A i \in 1..(n - 1) : /\ frames'[i] = frames[i]
                               /\ IsManager(frames[i].pass) /\ frames[i].todo # <<>>
      /\ frames' # <<>> => n > 1 /\ frames'[Len(frames')] = frames[n - 1]
  BY <1>1, <1>2, PopLemma
<1>5. frames' # <<>> => IsManager(Top'.pass) /\ Top'.todo # <<>>
  BY <1>2, <1>4 DEF Top
<1>6. Wrong = {} /\ Wrong' = {} /\ (config.verify_after => bad = {})
  BY <1>1 DEF PassInv, CacheOK, Wrong, Live, VerifiedOK, InLeaf
<1> HIDE DEF n
<1>7. PMTypeOK'
  BY <1>1, <1>2, <1>3, <1>4 DEF PMTypeOK
<1>8. StackOK'
  <2>1. \A i \in 1..n : frames[i].pass.kind = "Guarded" => ~ frames[i].changed
    BY <1>2 DEF StackOK, n
  <2>2. \A i \in 1..(n - 1) : i \in 1..n
    BY <1>2
  <2> QED BY <1>1, <1>2, <1>4, <1>5, <2>1, <2>2 DEF StackOK
<1>9. CacheOK'
  BY <1>6 DEF CacheOK
<1>10. VerifiedOK'
  BY <1>1, <1>6 DEF VerifiedOK
<1>11. StatusOK'
  <2>1. ir_changed <=> \E i \in 1..n : frames[i].changed
    BY <1>1 DEF PassInv, StatusOK, n
  <2>2. (\E i \in 1..n : frames[i].changed) <=> (\E i \in 1..(n - 1) : frames'[i].changed) \/ frames[n].changed
    BY <1>2, <1>4
  <2> QED BY <1>1, <1>3, <1>4, <2>1, <2>2 DEF StatusOK
<1>12. PreservedOK'
  <2>1. Preservable' = Type
    BY <1>6 DEF Preservable, Wrong, Live
  <2> QED BY <1>1, <1>3, <2>1 DEF PreservedOK
<1> QED BY <1>7, <1>8, <1>9, <1>10, <1>11, <1>12 DEF PassInv

(***************************************************************************)
(* Steps of a leaf pass                                                    *)
(***************************************************************************)

\* While a leaf pass runs no result is on its way.
LEMMA LeafLemma ==
    ASSUME PassInv, InLeaf
    PROVE  /\ ~ aborted /\ frames # <<>> /\ Top.pass.kind = "Leaf" /\ returned = {}
           /\ PMTypeOK /\ StackOK /\ frames \in Seq(Frames) /\ Top \in Frames
           /\ Len(frames) \in Nat \ {0} /\ Top = frames[Len(frames)]
           /\ Top.op \in PassOp /\ Top.changed \in BOOLEAN
           /\ ~ Top.changed => Wrong = {}
           /\ config.verify_after => bad \subseteq {Top.op}
  BY TopLemma DEF InLeaf, PassInv, PMTypeOK, StackOK, CacheOK, VerifiedOK, IsManager

LEMMA ComputeAnalysisLemma ==
    ASSUME PassInv, InLeaf, NEW t \in Type, ComputeAnalysis(t, Top.op)
    PROVE  PassInv'
<1> DEFINE op == Top.op
<1>1. /\ analyses' = analyses \cup {<<s, op>> : s \in Needs[t] \cup {t}}
      /\ outdated' = IF \E s \in Needs[t] : <<s, op>> \in outdated THEN outdated \cup {<<t, op>>} ELSE outdated
      /\ UNCHANGED <<config, frames, returned, kids, bad, ir_changed, aborted>>
  BY DEF ComputeAnalysis
<1>2. PMTypeOK /\ StackOK /\ op \in PassOp /\ returned = {} /\ (~ Top.changed => Wrong = {})
  BY LeafLemma
<1> HIDE DEF op
<1>3. Top' = Top /\ InLeaf' /\ ~ Managing'
  BY <1>1 DEF Top, InLeaf, Managing
<1>4. PMTypeOK'
  <2>1. Needs[t] \subseteq Type
    BY PassesAssumption
  <2>2. analyses' \subseteq Type \X PassOp
    BY <1>1, <1>2, <2>1 DEF PMTypeOK
  <2>3. outdated' \subseteq analyses'
    BY <1>1, <1>2 DEF PMTypeOK
  <2> QED BY <1>1, <1>2, <2>2, <2>3 DEF PMTypeOK
<1>5. ~ Top.changed => Wrong' = {}
  <2> SUFFICES ASSUME Wrong = {}, NEW key \in Wrong' PROVE FALSE
    BY <1>2
  <2>1. key \in outdated' /\ Live(key[2])
    BY <1>1 DEF Wrong, Live
  <2>2. key \notin outdated
    BY <2>1 DEF Wrong
  <2>3. PICK s \in Needs[t] : <<s, op>> \in outdated /\ key = <<t, op>>
    BY <1>1, <2>1, <2>2
  <2>4. <<s, op>> \in Wrong
    BY <2>1, <2>3 DEF Wrong
  <2> QED BY <2>4
<1>6. CacheOK'
  BY <1>1, <1>2, <1>3, <1>5 DEF CacheOK
<1>7. StackOK' /\ VerifiedOK' /\ StatusOK' /\ PreservedOK'
  BY <1>1, <1>2, <1>3 DEF PassInv, StackOK, VerifiedOK, StatusOK, PreservedOK
<1> QED BY <1>4, <1>6, <1>7 DEF PassInv

LEMMA UpdateAnalysisLemma ==
    ASSUME PassInv, InLeaf, NEW t \in Type, UpdateAnalysis(t)
    PROVE  PassInv'
<1>1. /\ outdated' = outdated \ {<<t, Top.op>>}
      /\ UNCHANGED <<config, frames, returned, analyses, kids, bad, ir_changed, aborted>>
  BY DEF UpdateAnalysis
<1>2. PMTypeOK /\ StackOK /\ returned = {} /\ (~ Top.changed => Wrong = {})
  BY LeafLemma
<1>3. Top' = Top /\ InLeaf' /\ ~ Managing' /\ Wrong' \subseteq Wrong
  BY <1>1 DEF Top, InLeaf, Managing, Wrong, Live
<1>4. CacheOK'
  BY <1>1, <1>2, <1>3 DEF CacheOK
<1>5. PMTypeOK'
  BY <1>1, <1>2 DEF PMTypeOK
<1>6. StackOK' /\ VerifiedOK' /\ StatusOK' /\ PreservedOK'
  BY <1>1, <1>2, <1>3 DEF PassInv, StackOK, VerifiedOK, StatusOK, PreservedOK
<1> QED BY <1>4, <1>5, <1>6 DEF PassInv

\* The pass changes the IR and says so.
LEMMA ChangedLemma ==
    ASSUME PassInv, InLeaf,
           frames' = [frames EXCEPT ![Len(frames)].changed = TRUE],
           ir_changed' = TRUE,
           outdated' \subseteq analyses, kids' \in [PassOp -> Seq(PassOp)],
           bad' \subseteq bad \cup {Top.op},
           UNCHANGED <<config, returned, analyses, aborted>>
    PROVE  PassInv'
<1> DEFINE n == Len(frames)
           F == [Top EXCEPT !.changed = TRUE]
<1>1. /\ ~ aborted /\ frames # <<>> /\ Top.pass.kind = "Leaf" /\ returned = {}
      /\ PMTypeOK /\ StackOK /\ frames \in Seq(Frames) /\ Top \in Frames
      /\ n \in Nat \ {0} /\ Top = frames[n] /\ Top.op \in PassOp
      /\ config.verify_after => bad \subseteq {Top.op}
  BY LeafLemma
<1>2. F \in Frames /\ F.pass = Top.pass /\ F.op = Top.op /\ F.changed = TRUE
  BY <1>1 DEF Frames
<1>3. frames' = [frames EXCEPT ![n] = F] /\ n \in 1..Len(frames) /\ Len(frames) = n
  BY <1>1
<1> HIDE DEF F, n
<1>4. /\ frames' \in Seq(Frames) /\ Len(frames') = n
      /\ \A i \in 1..n : frames'[i] = IF i = n THEN F ELSE frames[i]
  <2> DEFINE G == [frames EXCEPT ![n] = F]
  <2>1. /\ G \in Seq(Frames) /\ Len(G) = Len(frames)
        /\ \A i \in 1..Len(frames) : G[i] = IF i = n THEN F ELSE frames[i]
    BY <1>1, <1>2, <1>3, ExceptSeq
  <2> HIDE DEF G
  <2>2. frames' = G
    BY <1>3 DEF G
  <2> QED BY <1>3, <2>1, <2>2
<1>5. Top' = F /\ frames' # <<>>
  <2>1. Len(frames') = n /\ n # 0 /\ frames'[n] = F
    BY <1>1, <1>4
  <2> QED BY <2>1, EmptySeq DEF Top
<1>6. InLeaf' /\ ~ Managing'
  BY <1>1, <1>2, <1>5 DEF InLeaf, Managing, IsManager
<1>7. PMTypeOK'
  BY <1>1, <1>4 DEF PMTypeOK
<1>8. StackOK'
  <2>1. \A i \in 1..n : i < n => IsManager(frames[i].pass) /\ frames[i].todo # <<>>
    BY <1>1 DEF StackOK, n
  <2>2. \A i \in 1..n : frames[i].pass.kind = "Guarded" => ~ frames[i].changed
    BY <1>1 DEF StackOK, n
  <2> QED BY <1>1, <1>2, <1>4, <2>1, <2>2 DEF StackOK
<1>9. CacheOK'
  BY <1>1, <1>2, <1>5, <1>6 DEF CacheOK
<1>10. VerifiedOK'
  BY <1>1, <1>2, <1>5, <1>6 DEF VerifiedOK
<1>11. StatusOK'
  BY <1>1, <1>2, <1>4 DEF StatusOK
<1>12. PreservedOK'
  BY <1>1 DEF PreservedOK
<1> QED BY <1>7, <1>8, <1>9, <1>10, <1>11, <1>12 DEF PassInv

LEMMA ChangeLemma ==
    ASSUME PassInv, InLeaf, NEW aspect \in Aspect, Change(aspect)
    PROVE  PassInv'
<1>1. /\ frames' = [frames EXCEPT ![Len(frames)].changed = TRUE] /\ ir_changed' = TRUE
      /\ outdated' = Invalid(Top.op, aspect)
      /\ UNCHANGED <<config, returned, analyses, kids, aborted>>
      /\ bad' \subseteq bad \cup {Top.op}
  BY DEF Change
<1>2. outdated' \subseteq analyses /\ kids' \in [PassOp -> Seq(PassOp)]
  BY <1>1 DEF PassInv, PMTypeOK, Invalid
<1> QED BY <1>1, <1>2, ChangedLemma

LEMMA EraseNestedLemma ==
    ASSUME PassInv, InLeaf, EraseNested
    PROVE  PassInv'
<1>1. /\ frames' = [frames EXCEPT ![Len(frames)].changed = TRUE] /\ ir_changed' = TRUE
      /\ kids[Top.op] # <<>> /\ kids' = [kids EXCEPT ![Top.op] = Front(@)]
      /\ outdated' = UNION {Invalid(Top.op, aspect) : aspect \in Aspect}
      /\ UNCHANGED <<config, returned, analyses, aborted>>
      /\ bad' \subseteq bad \cup {Top.op}
  BY DEF EraseNested
<1>2. outdated' \subseteq analyses
  BY <1>1 DEF PassInv, PMTypeOK, Invalid
<1>3. kids' \in [PassOp -> Seq(PassOp)]
  <2>1. Top.op \in PassOp /\ kids \in [PassOp -> Seq(PassOp)]
    BY LeafLemma DEF PMTypeOK
  <2>2. Front(kids[Top.op]) \in Seq(PassOp)
    BY <1>1, <2>1, EmptySeq, FrontLemma
  <2> QED BY <1>1, <2>1, <2>2
<1> QED BY <1>1, <1>2, <1>3, ChangedLemma

\* The pass returns: what it has changed and not repaired it does not call preserved.
LEMMA ReturnLemma ==
    ASSUME PassInv, InLeaf, Return
    PROVE  PassInv'
<1> DEFINE n == Len(frames)
<1>1. /\ ~ aborted /\ frames # <<>> /\ Top.pass.kind = "Leaf" /\ returned = {}
      /\ PMTypeOK /\ StackOK /\ frames \in Seq(Frames) /\ Top \in Frames
      /\ n \in Nat \ {0} /\ Top = frames[n] /\ Top.op \in PassOp /\ Top.changed \in BOOLEAN
      /\ ~ Top.changed => Wrong = {}
      /\ config.verify_after => bad \subseteq {Top.op}
  BY LeafLemma
<1>2. UNCHANGED <<config, analyses, outdated, kids, bad, ir_changed>>
  BY DEF Return, passIRVars
<1>3. CASE config.verify_after /\ ~ Verifies(Top.op)
  <2>1. aborted' = TRUE /\ UNCHANGED <<frames, returned>>
    BY <1>3 DEF Return
  <2> QED BY <1>1, <1>2, <2>1 DEF PassInv, PMTypeOK, StackOK, CacheOK, VerifiedOK, StatusOK, PreservedOK, Top
<1>4. CASE ~ (config.verify_after /\ ~ Verifies(Top.op))
  <2>1. PICK preserved \in SUBSET Preservable :
            returned' = {[changed |-> Top.changed, preserved |-> preserved]}
    BY <1>4 DEF Return
  <2>2. frames' = Front(frames) /\ aborted' = aborted
    BY <1>4 DEF Return
  <2> DEFINE R == [changed |-> Top.changed, preserved |-> preserved]
  <2>3. R \in Results /\ R.changed = frames[n].changed /\ R.preserved = preserved /\ returned' = {R}
    BY <1>1, <2>1 DEF Results, Preservable
  <2> HIDE DEF R
  <2>4. /\ frames' \in Seq(Frames) /\ Len(frames') = n - 1
        /\ \A i \in 1..(n - 1) : /\ frames'[i] = frames[i]
                                 /\ IsManager(frames[i].pass) /\ frames[i].todo # <<>>
        /\ frames' # <<>> => n > 1 /\ frames'[Len(frames')] = frames[n - 1]
    BY <1>1, <2>2, PopLemma
  <2>5. frames' # <<>> => IsManager(Top'.pass) /\ Top'.todo # <<>>
    BY <1>1, <2>4 DEF Top
  <2>6. ~ InLeaf' /\ ~ Managing'
    BY <2>3, <2>5 DEF InLeaf, Managing
  <2> HIDE DEF n
  <2>7. PMTypeOK'
    BY <1>1, <1>2, <2>2, <2>3, <2>4 DEF PMTypeOK
  <2>8. StackOK'
    <3>1. \A i \in 1..n : frames[i].pass.kind = "Guarded" => ~ frames[i].changed
      BY <1>1 DEF StackOK, n
    <3>2. \A i \in 1..(n - 1) : i \in 1..n
      BY <1>1
    <3> QED BY <1>1, <2>3, <2>4, <2>5, <3>1, <3>2 DEF StackOK
  <2>9. CacheOK'
    <3>1. Wrong' = Wrong
      BY <1>2 DEF Wrong, Live
    <3>2. ASSUME NEW key \in Wrong PROVE R.changed /\ key[1] \notin R.preserved
      <4>1. R.changed
        BY <1>1, <2>3, <3>2
      <4>2. key[2] \in PassOp /\ key = <<key[1], key[2]>> /\ key \in outdated /\ Live(key[2])
        BY <1>1, <3>2 DEF Wrong, PMTypeOK
      <4>3. key[1] \notin Preservable
        BY <4>2 DEF Preservable
      <4> QED BY <2>3, <4>1, <4>3
    <3> QED BY <2>3, <2>6, <3>1, <3>2 DEF CacheOK
  <2>10. VerifiedOK'
    <3>1. config.verify_after => bad = {}
      BY <1>1, <1>4, PassesAssumption DEF Verifies
    <3> QED BY <1>2, <3>1 DEF VerifiedOK
  <2>11. StatusOK'
    <3>1. ir_changed <=> \E i \in 1..n : frames[i].changed
      BY <1>1 DEF PassInv, StatusOK, n
    <3>2. (\E i \in 1..n : frames[i].changed) <=> (\E i \in 1..(n - 1) : frames'[i].changed) \/ frames[n].changed
      BY <1>1, <2>4
    <3> QED BY <1>2, <2>3, <2>4, <3>1, <3>2 DEF StatusOK
  <2>12. PreservedOK'
    <3>1. Preservable' = Preservable
      BY <1>2 DEF Preservable, Live
    <3> QED BY <2>3, <3>1 DEF PreservedOK
  <2> QED BY <2>7, <2>8, <2>9, <2>10, <2>11, <2>12 DEF PassInv
<1> QED BY <1>3, <1>4

\* What is known of the calls, the results and the cache holds in every reachable state.
THEOREM PassInvariant == PMSpec => []PassInv
<1>1. PMInit => PassInv
  BY PMInitLemma
<1>2. PassInv /\ [PMNext]_pmVars => PassInv'
  <2> SUFFICES ASSUME PassInv, [PMNext]_pmVars PROVE PassInv'
    OBVIOUS
  <2>1. CASE Enter
    BY <2>1, EnterLemma
  <2>2. CASE TakeResult
    BY <2>2, TakeResultLemma
  <2>3. CASE Finish
    BY <2>3, FinishLemma
  <2>4. CASE InLeaf /\ Leaf
    <3>1. CASE ReturnError
      BY <3>1 DEF ReturnError, passIRVars, PassInv, PMTypeOK, StackOK, CacheOK, VerifiedOK, StatusOK, PreservedOK, Top
    <3> QED BY <2>4, <3>1, ComputeAnalysisLemma, UpdateAnalysisLemma, ChangeLemma, EraseNestedLemma, ReturnLemma DEF Leaf
  <2>5. CASE UNCHANGED pmVars
    BY <2>5 DEF pmVars, PassInv, PMTypeOK, StackOK, CacheOK, VerifiedOK, StatusOK, PreservedOK, Top, Wrong, Live,
                Managing, InLeaf, Preservable
  <2> QED BY <2>1, <2>2, <2>3, <2>4, <2>5 DEF PMNext
<1> QED BY <1>1, <1>2, PTL DEF PMSpec

\* Whenever run_pass is about to start a pass, each analysis in the cache is right, of
\* whatever operation that still exists.
THEOREM CacheAlwaysFresh == PMSpec => []CacheFresh
<1>1. PassInv => CacheFresh
  BY DEF PassInv, CacheOK, CacheFresh, Wrong, Managing
<1> QED BY <1>1, PassInvariant, PTL

\* With verify_after_all no pass starts on an IR that an earlier pass has broken.
THEOREM BreakageStops == PMSpec => []BreakageContained
<1>1. PassInv => BreakageContained
  BY DEF PassInv, VerifiedOK, BreakageContained, Managing, InLeaf
<1> QED BY <1>1, PassInvariant, PTL

\* The status that the outermost manager returns says whether any pass has changed the
\* IR, and what it calls preserved is right.
THEOREM ResultAlwaysHonest == PMSpec => []ResultHonest
<1>1. PassInv => ResultHonest
  <2> SUFFICES ASSUME PassInv, frames = <<>>, ~ aborted, NEW res \in returned
               PROVE  (res.changed <=> ir_changed) /\ res.preserved \subseteq Preservable
    BY DEF ResultHonest, Completed
  <2>1. ~ \E i \in 1..Len(frames) : frames[i].changed
    OBVIOUS
  <2>2. \A r \in returned : r = res
    BY DEF PassInv, StackOK
  <2> QED BY <2>1, <2>2 DEF PassInv, StatusOK, PreservedOK, PMTypeOK, Results
<1> QED BY <1>1, PassInvariant, PTL

(***************************************************************************)
(* The order of the passes                                                 *)
(***************************************************************************)

\* Passes with their operations, and the runs of leaf passes that the trace may hold.
Tasks == Passes \X PassOp
LeafRuns == {<<x[1].name, x[2]>> : x \in Tasks}

\* What tasks to come stand for, if L gives the leaf passes of each.
Ahead(L, todo) == FlattenSeq([i \in DOMAIN todo |-> L[todo[i]]])

\* The leaf passes of a task, from those of the tasks it contains: the recursive definition.
LeavesFrom(skip, L, x) ==
    IF IsManager(x[1]) THEN Ahead(L, contained_passes(x[1], x[2], Nesting))
    ELSE IF x[1].name \in skip THEN <<>> ELSE <<<<x[1].name, x[2]>>>>

\* The tasks to come stand for those of the first one, then for those of the others.
LEMMA AheadLemma ==
    ASSUME NEW E, NEW L, NEW todo \in Seq(Tasks), \A i \in 1..Len(todo) : L[todo[i]] \in Seq(E)
    PROVE  /\ Ahead(L, todo) \in Seq(E)
           /\ todo = <<>> => Ahead(L, todo) = <<>>
           /\ todo # <<>> => Ahead(L, todo) = L[todo[1]] \o Ahead(L, Tail(todo))
<1> DEFINE n == Len(todo)
           s == [i \in DOMAIN todo |-> L[todo[i]]]
<1>1. n \in Nat /\ DOMAIN todo = 1..n /\ (todo = <<>> <=> n = 0)
  BY EmptySeq
<1>2. s \in [1..n -> Seq(E)]
  BY <1>1
<1>3. s \in Seq(Seq(E)) /\ Len(s) = n /\ \A i \in 1..n : s[i] = L[todo[i]]
  <2>1. s \in Seq(Seq(E))
    <3> HIDE DEF s
    <3>1. QED
      BY <1>1, <1>2, FunctionIsSeq
  <2>2. DOMAIN s = 1..n /\ \A i \in 1..n : s[i] = L[todo[i]]
    BY <1>1
  <2> HIDE DEF s
  <2>3. Len(s) = n
    BY <1>1, <2>1, <2>2
  <2>4. QED
    BY <2>1, <2>2, <2>3
<1>4. Ahead(L, todo) = FlattenSeq(s)
  BY DEF Ahead
<1> HIDE DEF s
<1>5. /\ FlattenSeq(s) \in Seq(E)
      /\ s = <<>> => FlattenSeq(s) = <<>>
      /\ s # <<>> => FlattenSeq(s) = s[1] \o FlattenSeq(Tail(s))
  BY <1>3, FlattenSeqLemma
<1>6. s = <<>> <=> todo = <<>>
  BY <1>1, <1>3, EmptySeq
<1>7. ASSUME todo # <<>> PROVE FlattenSeq(Tail(s)) = Ahead(L, Tail(todo)) /\ s[1] = L[todo[1]]
  <2> DEFINE t == Tail(todo)
             u == [i \in DOMAIN t |-> L[t[i]]]
  <2>1. t \in Seq(Tasks) /\ Len(t) = n - 1 /\ DOMAIN t = 1..(n - 1) /\ \A i \in 1..(n - 1) : t[i] = todo[i + 1]
    BY <1>7
  <2>2. Tail(s) \in Seq(Seq(E)) /\ Len(Tail(s)) = n - 1 /\ \A i \in 1..(n - 1) : Tail(s)[i] = s[i + 1]
    BY <1>3, <1>6, <1>7
  <2>3. \A i \in 1..(n - 1) : i + 1 \in 1..n
    BY <1>1
  <2>4. u \in [1..(n - 1) -> Seq(E)] /\ \A i \in 1..(n - 1) : u[i] = Tail(s)[i]
    BY <1>3, <2>1, <2>2, <2>3
  <2>5. Ahead(L, t) = FlattenSeq(u)
    BY DEF Ahead
  <2>6. n - 1 \in Nat /\ 1 \in 1..n
    BY <1>1, <1>7
  <2> HIDE DEF u, t, n
  <2>7. u \in Seq(Seq(E)) /\ Len(u) = n - 1
    <3>1. u \in Seq(Seq(E))
      BY <2>4, <2>6, FunctionIsSeq
    <3>2. DOMAIN u = 1..(n - 1)
      BY <2>4
    <3>3. QED
      BY <2>6, <3>1, <3>2
  <2>8. u = Tail(s)
    BY <2>2, <2>4, <2>7, SeqEqual
  <2>9. QED
    BY <1>3, <2>5, <2>6, <2>8 DEF t
<1>8. QED
  BY <1>4, <1>5, <1>6, <1>7

\* What a manager contains nests less deep.
LEMMA ContainedDepth ==
    ASSUME NEW x \in Tasks, NEW c, c = contained_passes(x[1], x[2], Nesting)
    PROVE  /\ c \in Seq(Tasks)
           /\ \A i \in 1..Len(c) : c[i] \in Tasks /\ Depth[c[i][1]] < Depth[x[1]]
<1>1. x[1] \in Passes /\ x[2] \in PassOp
  BY DEF Tasks
<1>2. c \in Seq(Tasks) /\ DOMAIN c = 1..Len(c)
  <2>1. contained_passes(x[1], x[2], Nesting) \in Seq(Passes \X PassOp)
    BY <1>1, NestingLemma, ContainedLemma
  <2>2. QED
    BY <2>1 DEF Tasks
<1>3. ASSUME NEW i \in 1..Len(c) PROVE Depth[c[i][1]] < Depth[x[1]]
  <2> DEFINE p == x[1]
             o == x[2]
  <2>1. CASE p.kind = "Passes"
    <3>1. c = [j \in DOMAIN p.passes |-> <<p.passes[j], o>>]
      BY <2>1 DEF contained_passes
    <3>2. i \in DOMAIN p.passes /\ c[i] = <<p.passes[i], o>>
      BY <1>2, <1>3, <3>1
    <3>3. QED
      BY <1>1, <2>1, <3>2, DepthAssumption
  <2>2. CASE p.kind = "NestedOps"
    <3>1. c = [j \in DOMAIN Nesting[o] |-> <<p.pass, Nesting[o][j]>>]
      BY <2>2 DEF contained_passes
    <3>2. c[i] = <<p.pass, Nesting[o][i]>>
      BY <1>2, <1>3, <3>1
    <3>3. QED
      BY <1>1, <2>2, <3>2, DepthAssumption
  <2>3. CASE p.kind = "Guarded"
    <3>1. c = IF o \in p.allowed THEN <<<<p.pass, o>>>> ELSE <<>>
      BY <2>3 DEF contained_passes
    <3>2. c[i] = <<p.pass, o>>
      BY <1>3, <3>1
    <3>3. QED
      BY <1>1, <2>3, <3>2, DepthAssumption
  <2>4. CASE p.kind \notin {"Passes", "NestedOps", "Guarded"}
    BY <1>3, <2>4 DEF contained_passes
  <2>5. QED
    BY <2>1, <2>2, <2>3, <2>4
<1>4. QED
  BY <1>2, <1>3

\* The definition looks at the tasks that the task contains, and at nothing else.
LEMMA LeavesFromLemma ==
    ASSUME NEW skip, NEW x \in Tasks, NEW L, NEW M, NEW c, c = contained_passes(x[1], x[2], Nesting),
           \A i \in 1..Len(c) : L[c[i]] = M[c[i]] /\ L[c[i]] \in Seq(LeafRuns)
    PROVE  LeavesFrom(skip, L, x) = LeavesFrom(skip, M, x) /\ LeavesFrom(skip, L, x) \in Seq(LeafRuns)
<1>1. c \in Seq(Tasks) /\ DOMAIN c = 1..Len(c)
  BY ContainedDepth
<1>2. Ahead(L, c) = Ahead(M, c)
  <2>1. [i \in DOMAIN c |-> L[c[i]]] = [i \in DOMAIN c |-> M[c[i]]]
    BY <1>1
  <2>2. QED
    BY <2>1 DEF Ahead
<1>3. Ahead(L, c) \in Seq(LeafRuns)
  BY <1>1, AheadLemma
<1>4. <<>> \in Seq(LeafRuns) /\ <<<<x[1].name, x[2]>>>> \in Seq(LeafRuns)
  <2>1. <<x[1].name, x[2]>> \in LeafRuns
    BY DEF LeafRuns
  <2> DEFINE e == <<x[1].name, x[2]>>
  <2> HIDE DEF e
  <2>2. <<>> \in Seq(LeafRuns) /\ (e \in LeafRuns => <<e>> \in Seq(LeafRuns))
    BY ShortSeqs, Zenon
  <2>3. QED
    BY <2>1, <2>2 DEF e
<1>5. QED
  BY <1>2, <1>3, <1>4 DEF LeavesFrom

\* There is a function that gives each task its leaf passes: by induction on the depth.
LEMMA LeavesExist ==
    ASSUME NEW skip
    PROVE  \E L : L \in [Tasks -> Seq(LeafRuns)] /\ L = [x \in Tasks |-> LeavesFrom(skip, L, x)]
<1> DEFINE Below(k) == {x \in Tasks : Depth[x[1]] < k}
           Solves(k, L) == L \in [Below(k) -> Seq(LeafRuns)] /\ \A x \in Below(k) : L[x] = LeavesFrom(skip, L, x)
           Ok(k) == \E L : Solves(k, L)
           n == MaxDepth + 1
           P == {k \in 0..n : Ok(k)}
<1>1. MaxDepth \in Nat /\ n \in Nat /\ \A x \in Tasks : Depth[x[1]] \in 0..MaxDepth
  BY DepthAssumption DEF Tasks
<1> HIDE DEF n
<1>2. 0 \in P
  <2>1. Below(0) = {}
    BY <1>1
  <2> DEFINE L == [x \in {} |-> <<>>]
  <2>2. L \in [{} -> Seq(LeafRuns)]
    OBVIOUS
  <2>3. Solves(0, L)
    BY <2>1, <2>2
  <2> HIDE DEF Solves, L
  <2>4. Ok(0)
    BY <2>3
  <2> HIDE DEF Ok
  <2>5. QED
    BY <1>1, <2>4
<1>3. ASSUME NEW k \in 0..n, k < n, k \in P PROVE k + 1 \in P
  <2>1. Ok(k)
    <3> HIDE DEF Ok
    <3>1. QED
      BY <1>3
  <2>2. PICK L : Solves(k, L)
    BY <2>1
  <2> DEFINE M == [x \in Below(k + 1) |-> LeavesFrom(skip, L, x)]
  <2>3. \A x \in Below(k) : x \in Below(k + 1) /\ L[x] \in Seq(LeafRuns) /\ L[x] = LeavesFrom(skip, L, x)
    <3>1. \A x \in Below(k) : x \in Below(k + 1)
      BY <1>1
    <3> HIDE DEF Below
    <3>2. QED
      BY <2>2, <3>1
  <2>4. \A x \in Below(k) : M[x] = L[x]
    <3> HIDE DEF Below
    <3>1. QED
      BY <2>3
  <2>5. ASSUME NEW x \in Below(k + 1)
        PROVE  M[x] \in Seq(LeafRuns) /\ M[x] = LeavesFrom(skip, M, x)
    <3> DEFINE c == contained_passes(x[1], x[2], Nesting)
    <3>1. x \in Tasks /\ \A i \in 1..Len(c) : c[i] \in Tasks /\ Depth[c[i][1]] < Depth[x[1]]
      BY ContainedDepth
    <3>2. \A i \in 1..Len(c) : c[i] \in Below(k)
      <4> SUFFICES ASSUME NEW i \in 1..Len(c) PROVE c[i] \in Below(k)
        OBVIOUS
      <4>1. c[i] \in Tasks /\ Depth[c[i][1]] < Depth[x[1]] /\ Depth[x[1]] < k + 1
        BY <3>1
      <4>2. Depth[c[i][1]] \in Nat /\ Depth[x[1]] \in Nat /\ k \in Nat
        BY <1>1, <3>1, <4>1
      <4> HIDE DEF c
      <4>3. QED
        BY <4>1, <4>2
    <3> HIDE DEF Below, M
    <3>3. \A i \in 1..Len(c) : L[c[i]] = M[c[i]] /\ L[c[i]] \in Seq(LeafRuns)
      BY <2>3, <2>4, <3>2
    <3> HIDE DEF c
    <3>4. LeavesFrom(skip, L, x) = LeavesFrom(skip, M, x) /\ LeavesFrom(skip, L, x) \in Seq(LeafRuns)
      BY <3>1, <3>3, LeavesFromLemma DEF c
    <3>5. M[x] = LeavesFrom(skip, L, x)
      BY DEF M
    <3>6. QED
      BY <3>4, <3>5
  <2>6. M = [x \in Below(k + 1) |-> M[x]]
    <3> HIDE DEF Below
    <3>1. QED
      OBVIOUS
  <2>7. Solves(k + 1, M)
    <3> HIDE DEF Below, M
    <3>1. M \in [Below(k + 1) -> Seq(LeafRuns)]
      BY <2>5, <2>6
    <3>2. QED
      BY <2>5, <3>1
  <2> HIDE DEF Solves, M
  <2>8. Ok(k + 1)
    BY <2>7
  <2> HIDE DEF Ok
  <2>9. QED
    BY <1>1, <1>3, <2>8
<1>4. 0..n \subseteq P
  <2> HIDE DEF P
  <2>1. QED
    BY <1>1, <1>2, <1>3, UpTo
<1>5. Ok(n)
  <2> HIDE DEF Ok
  <2>1. QED
    BY <1>1, <1>4
<1>6. PICK L : Solves(n, L)
  BY <1>5
<1>7. Below(n) = Tasks
  BY <1>1 DEF n
<1>8. L \in [Tasks -> Seq(LeafRuns)] /\ \A x \in Tasks : L[x] = LeavesFrom(skip, L, x)
  <2> HIDE DEF Below
  <2>1. QED
    BY <1>6, <1>7
<1>9. L = [x \in Tasks |-> L[x]]
  BY <1>8
<1>10. L = [x \in Tasks |-> LeavesFrom(skip, L, x)]
  BY <1>8, <1>9
<1>11. QED
  BY <1>8, <1>10

\* The leaf passes of a task as the recursive definition has them.
LeavesOK(skip, L) ==
    /\ L \in [Tasks -> Seq(LeafRuns)]
    /\ \A x \in Tasks : L[x] = LeavesFrom(skip, L, x)

\* It gives sequences, also by induction on the depth.
LEMMA LeavesType ==
    ASSUME NEW skip, NEW L, L = [x \in Tasks |-> LeavesFrom(skip, L, x)]
    PROVE  LeavesOK(skip, L)
<1> DEFINE n == MaxDepth + 1
           Ok(k) == \A x \in Tasks : Depth[x[1]] < k => L[x] \in Seq(LeafRuns)
           P == {k \in 0..n : Ok(k)}
<1>1. n \in Nat /\ \A x \in Tasks : Depth[x[1]] \in Nat /\ Depth[x[1]] < n
  BY DepthAssumption DEF Tasks
<1> HIDE DEF n
<1>2. \A x \in Tasks : L[x] = LeavesFrom(skip, L, x)
  <2> DEFINE G == [x \in Tasks |-> LeavesFrom(skip, L, x)]
  <2>1. \A x \in Tasks : G[x] = LeavesFrom(skip, L, x)
    OBVIOUS
  <2>2. L = G
    OBVIOUS
  <2> HIDE DEF G
  <2>3. QED
    BY <2>1, <2>2
<1>3. 0 \in P
  <2>1. Ok(0)
    BY <1>1
  <2> HIDE DEF Ok
  <2>2. QED
    BY <1>1, <2>1
<1>4. ASSUME NEW k \in 0..n, k < n, k \in P PROVE k + 1 \in P
  <2>1. Ok(k)
    <3> HIDE DEF Ok
    <3>1. QED
      BY <1>4
  <2>2. ASSUME NEW x \in Tasks, Depth[x[1]] < k + 1 PROVE L[x] \in Seq(LeafRuns)
    <3> DEFINE c == contained_passes(x[1], x[2], Nesting)
    <3>1. \A i \in 1..Len(c) : c[i] \in Tasks /\ Depth[c[i][1]] < Depth[x[1]]
      BY ContainedDepth
    <3>2. \A i \in 1..Len(c) : L[c[i]] \in Seq(LeafRuns)
      <4> SUFFICES ASSUME NEW i \in 1..Len(c) PROVE L[c[i]] \in Seq(LeafRuns)
        OBVIOUS
      <4>1. c[i] \in Tasks /\ Depth[c[i][1]] < Depth[x[1]]
        BY <3>1
      <4>2. Depth[c[i][1]] \in Nat /\ Depth[x[1]] \in Nat /\ k \in Nat
        BY <1>1, <4>1
      <4> HIDE DEF c
      <4>3. Depth[c[i][1]] < k
        BY <2>2, <4>1, <4>2
      <4>4. QED
        BY <2>1, <4>1, <4>3
    <3> HIDE DEF c
    <3>3. LeavesFrom(skip, L, x) \in Seq(LeafRuns)
      BY <3>2, LeavesFromLemma DEF c
    <3>4. QED
      BY <1>2, <3>3
  <2>3. Ok(k + 1)
    BY <2>2
  <2> HIDE DEF Ok
  <2>4. QED
    BY <1>1, <1>4, <2>3
<1>5. 0..n \subseteq P
  <2> HIDE DEF P
  <2>1. QED
    BY <1>1, <1>3, <1>4, UpTo
<1>6. Ok(n)
  <2> HIDE DEF Ok
  <2>1. QED
    BY <1>1, <1>5
<1>7. \A x \in Tasks : L[x] \in Seq(LeafRuns)
  BY <1>1, <1>6
<1>8. L = [x \in Tasks |-> L[x]]
  <2> DEFINE G == [x \in Tasks |-> LeavesFrom(skip, L, x)]
  <2>1. G = [x \in Tasks |-> G[x]]
    OBVIOUS
  <2>2. L = G
    OBVIOUS
  <2> HIDE DEF G
  <2>3. QED
    BY <2>1, <2>2
<1>9. L \in [Tasks -> Seq(LeafRuns)]
  BY <1>7, <1>8
<1>10. QED
  BY <1>2, <1>9 DEF LeavesOK

\* The reference is that function.
LEMMA LeavesLemma ==
    ASSUME NEW skip
    PROVE  LeavesOK(skip, LeavesWithout(skip))
<1> DEFINE P(G) == G = [x \in Tasks |-> LeavesFrom(skip, G, x)]
           L == CHOOSE G : P(G)
<1>1. P(L)
  <2>1. \E G : P(G)
    BY LeavesExist, Zenon
  <2> HIDE DEF P
  <2>2. QED
    BY <2>1, Zenon
<1>2. L = [x \in Tasks |-> LeavesFrom(skip, L, x)]
  BY <1>1, Zenon
<1>3. LeavesWithout(skip) = L
  BY Zenon DEF LeavesWithout, LeavesFrom, Ahead, Tasks
<1> HIDE DEF L
<1>4. LeavesOK(skip, L)
  BY <1>2, LeavesType
<1>5. QED
  BY <1>3, <1>4

\* What the innermost call will still run, and that with what the calls around it wait
\* for, from the inside out, is all that is missing.
Now(L) ==
    IF ~ IsManager(Top.pass) THEN <<>>
    ELSE Ahead(L, IF returned = {} THEN Top.todo ELSE Tail(Top.todo))
Ordered(L, R) ==
    /\ R[0] = <<>> /\ \A i \in 0..(Len(frames) - 1) : R[i] \in Seq(LeafRuns)
    /\ \A i \in 1..(Len(frames) - 1) : R[i] = Ahead(L, Tail(frames[i].todo)) \o R[i - 1]
    /\ Now(L) \in Seq(LeafRuns) /\ (trace \o Now(L)) \o R[Len(frames) - 1] = L[<<pipeline, Root>>]
OrderOf(L) ==
    /\ frames # <<>> => \E R : Ordered(L, R)
    /\ frames = <<>> => trace = L[<<pipeline, Root>>]

\* No operation is added; a guard has at most one pass to run; and as long as nothing is
\* erased, what has run and what will run make up the pipeline.
KidsOK == \A o \in PassOp : Len(kids[o]) <= Len(Nesting[o])
GuardsOK == \A i \in 1..Len(frames) : frames[i].pass.kind = "Guarded" => Len(frames[i].todo) <= 1
OrderOK ==
    ~ aborted /\ kids = Nesting /\ IsManager(pipeline) =>
        trace \in Seq(LeafRuns) /\ OrderOf(LeavesWithout(config.skip))
OrderInv == KidsOK /\ GuardsOK /\ OrderOK

\* The tasks of a list, by their leaf passes.
LEMMA AheadOfTasks ==
    ASSUME NEW skip, NEW L, LeavesOK(skip, L), NEW todo \in Seq(Tasks)
    PROVE  /\ Ahead(L, todo) \in Seq(LeafRuns)
           /\ todo = <<>> => Ahead(L, todo) = <<>>
           /\ todo # <<>> => /\ todo[1] \in Tasks /\ Tail(todo) \in Seq(Tasks)
                             /\ L[todo[1]] \in Seq(LeafRuns) /\ Ahead(L, Tail(todo)) \in Seq(LeafRuns)
                             /\ Ahead(L, todo) = L[todo[1]] \o Ahead(L, Tail(todo))
<1>1. \A i \in 1..Len(todo) : todo[i] \in Tasks
  BY ElementOfSeq
<1>2. \A x \in Tasks : L[x] \in Seq(LeafRuns)
  BY DEF LeavesOK
<1>3. \A i \in 1..Len(todo) : L[todo[i]] \in Seq(LeafRuns)
  BY <1>1, <1>2
<1>4. /\ Ahead(L, todo) \in Seq(LeafRuns)
      /\ todo = <<>> => Ahead(L, todo) = <<>>
      /\ todo # <<>> => Ahead(L, todo) = L[todo[1]] \o Ahead(L, Tail(todo))
  BY <1>3, AheadLemma
<1>5. ASSUME todo # <<>>
      PROVE  /\ todo[1] \in Tasks /\ Tail(todo) \in Seq(Tasks)
             /\ L[todo[1]] \in Seq(LeafRuns) /\ Ahead(L, Tail(todo)) \in Seq(LeafRuns)
  <2>1. Tail(todo) \in Seq(Tasks) /\ 1 \in 1..Len(todo)
    BY <1>5
  <2>2. \A t \in Seq(Tasks) : Ahead(L, t) \in Seq(LeafRuns)
    <3> SUFFICES ASSUME NEW t \in Seq(Tasks) PROVE Ahead(L, t) \in Seq(LeafRuns)
      OBVIOUS
    <3>1. \A i \in 1..Len(t) : L[t[i]] \in Seq(LeafRuns)
      BY <1>2, ElementOfSeq
    <3>2. QED
      BY <3>1, AheadLemma
  <2>3. QED
    BY <1>1, <1>2, <2>1, <2>2
<1>6. QED
  BY <1>4, <1>5

\* The lists of tasks on the stack.
LEMMA StackTasks ==
    ASSUME PassInv
    PROVE  /\ Len(frames) \in Nat /\ (frames = <<>> <=> Len(frames) = 0)
           /\ \A i \in 1..Len(frames) : frames[i] \in Frames /\ frames[i].todo \in Seq(Tasks)
           /\ \A i \in 1..Len(frames) : i < Len(frames) => IsManager(frames[i].pass) /\ frames[i].todo # <<>>
           /\ frames # <<>> => Top = frames[Len(frames)] /\ Top \in Frames /\ Top.todo \in Seq(Tasks)
<1>1. frames \in Seq(Frames)
  BY DEF PassInv, PMTypeOK
<1>2. Len(frames) \in Nat /\ (frames = <<>> <=> Len(frames) = 0) /\ \A i \in 1..Len(frames) : frames[i] \in Frames
  BY <1>1, EmptySeq
<1>3. \A f \in Frames : f.todo \in Seq(Tasks)
  BY DEF Frames, Tasks
<1>4. frames # <<>> => Len(frames) \in 1..Len(frames)
  BY <1>2
<1>5. \A i \in 1..Len(frames) : i < Len(frames) => IsManager(frames[i].pass) /\ frames[i].todo # <<>>
  BY DEF PassInv, StackOK
<1>6. QED
  BY <1>2, <1>3, <1>4, <1>5 DEF Top

\* A step that leaves what is to be run.
LEMMA OrderSame ==
    ASSUME PassInv, PassInv', NEW L, OrderOf(L), trace' = trace, returned' = returned, pipeline' = pipeline,
           Len(frames') = Len(frames),
           \A i \in 1..Len(frames) : frames'[i].todo = frames[i].todo /\ frames'[i].pass = frames[i].pass
    PROVE  OrderOf(L)'
<1> DEFINE n == Len(frames)
<1>1. n \in Nat /\ (frames = <<>> <=> n = 0) /\ (frames' = <<>> <=> n = 0)
  <2>1. frames \in Seq(Frames) /\ frames' \in Seq(Frames)
    BY DEF PassInv, PMTypeOK
  <2>2. QED
    BY <2>1, EmptySeq
<1>2. CASE n = 0
  BY <1>1, <1>2 DEF OrderOf
<1>3. CASE n # 0
  <2>1. PICK R : Ordered(L, R)
    BY <1>1, <1>3 DEF OrderOf
  <2>2. Top'.pass = Top.pass /\ Top'.todo = Top.todo
    <3>1. n \in 1..n /\ Len(frames') = n
      BY <1>1, <1>3
    <3>2. Top = frames[n] /\ Top' = frames'[n]
      BY <3>1 DEF Top
    <3>3. QED
      BY <3>1, <3>2
  <2>3. Now(L)' = Now(L)
    BY <2>2 DEF Now
  <2>4. \A i \in 1..(n - 1) : frames'[i].todo = frames[i].todo
    BY <1>1
  <2>5. Ordered(L, R)'
    BY <2>1, <2>3, <2>4 DEF Ordered
  <2>6. QED
    BY <1>1, <1>3, <2>5 DEF OrderOf
<1>4. QED
  BY <1>2, <1>3

\* A call ends that has nothing left to run.
LEMMA OrderPop ==
    ASSUME PassInv, frames # <<>>, NEW skip, NEW L, LeavesOK(skip, L), OrderOf(L), trace \in Seq(LeafRuns),
           Now(L) = <<>>, trace' = trace, pipeline' = pipeline, returned' # {}, frames' = Front(frames)
    PROVE  OrderOf(L)'
<1> DEFINE n == Len(frames)
           all == L[<<pipeline, Root>>]
<1>1. n \in Nat /\ n # 0
  BY StackTasks
<1>2. PICK R : Ordered(L, R)
  BY DEF OrderOf
<1>3. /\ R[0] = <<>> /\ \A i \in 0..(n - 1) : R[i] \in Seq(LeafRuns)
      /\ \A i \in 1..(n - 1) : R[i] = Ahead(L, Tail(frames[i].todo)) \o R[i - 1]
      /\ (trace \o <<>>) \o R[n - 1] = all
  BY <1>2 DEF Ordered
<1>4. trace \o R[n - 1] = all
  <2>1. trace \o <<>> = trace
    BY ConcatSimplifications
  <2>2. QED
    BY <1>3, <2>1
<1>5. /\ frames' \in Seq(Frames) /\ Len(frames') = n - 1 /\ \A i \in 1..(n - 1) : frames'[i] = frames[i]
      /\ frames' # <<>> => n > 1 /\ frames'[Len(frames')] = frames[n - 1]
  BY PopLemma DEF PassInv
<1>6. \A i \in 1..n : frames[i].todo \in Seq(Tasks) /\ (i < n => IsManager(frames[i].pass) /\ frames[i].todo # <<>>)
  BY StackTasks
<1>7. frames' = <<>> <=> n = 1
  BY <1>1, <1>5, EmptySeq
<1> HIDE DEF n, all
<1>8. CASE n = 1
  <2>1. R[n - 1] = <<>>
    BY <1>3, <1>8
  <2>2. trace = all
    BY <1>4, <2>1, ConcatSimplifications
  <2>3. QED
    BY <1>7, <1>8, <2>2 DEF OrderOf, all
<1>9. CASE n # 1
  <2>1. n - 1 \in 1..(n - 1) /\ n - 1 \in 1..n /\ n - 1 < n /\ n - 2 \in 0..(n - 1) /\ (n - 1) - 1 = n - 2
    BY <1>1, <1>9
  <2> DEFINE f == frames[n - 1]
             next == Ahead(L, Tail(f.todo))
  <2>2. f.todo \in Seq(Tasks) /\ f.todo # <<>> /\ IsManager(f.pass)
    BY <1>6, <2>1
  <2>3. next \in Seq(LeafRuns)
    <3> HIDE DEF f
    <3>1. QED
      BY <2>2, AheadOfTasks
  <2>4. Top' = f
    BY <1>5, <1>7, <1>9 DEF Top
  <2>5. Now(L)' = next
    BY <2>2, <2>4 DEF Now
  <2>6. R[n - 1] = next \o R[n - 2] /\ R[n - 2] \in Seq(LeafRuns)
    BY <1>3, <2>1
  <2> HIDE DEF next
  <2>7. (trace \o next) \o R[n - 2] = all
    <3>1. \A a, b, c \in Seq(LeafRuns) : (a \o b) \o c = a \o (b \o c)
      BY ConcatAssociative
    <3>2. (trace \o next) \o R[n - 2] = trace \o (next \o R[n - 2])
      BY <2>3, <2>6, <3>1
    <3>3. next \o R[n - 2] = R[n - 1]
      BY <2>6
    <3>4. QED
      BY <1>4, <3>2, <3>3, Zenon
  <2>8. Len(frames') - 1 = n - 2
    BY <1>1, <1>5
  <2>9. /\ \A i \in 0..(n - 2) : i \in 0..(n - 1)
        /\ \A i \in 1..(n - 2) : i \in 1..(n - 1)
    BY <1>1
  <2>10. (\A i \in 0..(n - 2) : R[i] \in Seq(LeafRuns))
         /\ \A i \in 1..(n - 2) : R[i] = Ahead(L, Tail(frames'[i].todo)) \o R[i - 1]
    BY <1>3, <1>5, <2>9
  <2>11. (trace' \o next) \o R[n - 2] = L[<<pipeline', Root>>]
    BY <2>7 DEF all
  <2>12. Ordered(L, R)'
    BY <1>3, <2>3, <2>5, <2>8, <2>10, <2>11 DEF Ordered
  <2>13. QED
    BY <1>7, <1>9, <2>12 DEF OrderOf
<1>10. QED
  BY <1>8, <1>9

\* A call ends: the stack is what was below it.
LEMMA GuardsPop ==
    ASSUME PassInv, GuardsOK, frames # <<>>, frames' = Front(frames)
    PROVE  GuardsOK'
<1>1. /\ Len(frames') = Len(frames) - 1 /\ Len(frames) \in Nat
      /\ \A i \in 1..(Len(frames) - 1) : frames'[i] = frames[i]
  BY PopLemma, StackTasks DEF PassInv
<1>2. \A i \in 1..(Len(frames) - 1) : i \in 1..Len(frames)
  BY <1>1
<1>3. QED
  BY <1>1, <1>2 DEF GuardsOK

\* The manager begins its next pass, skips it or finds its operation broken.
LEMMA OrderEnter ==
    ASSUME PassInv, PassInv', OrderInv, Enter
    PROVE  OrderInv'
<1> DEFINE n == Len(frames)
           x == Top.todo[1]
           rest == Tail(Top.todo)
<1>1. /\ ~ aborted /\ frames # <<>> /\ IsManager(Top.pass) /\ returned = {} /\ Top.todo # <<>>
      /\ UNCHANGED <<pipeline, config, kids>>
  BY DEF Enter, Managing, passIRVars
<1>2. \/ /\ Skipped(x[1]) /\ returned' = {Default} /\ UNCHANGED <<frames, trace, aborted>>
      \/ aborted' = TRUE /\ UNCHANGED frames
      \/ /\ ~ Skipped(x[1]) /\ frames' = Append(frames, Frame(x[1], x[2]))
         /\ trace' = IF IsManager(x[1]) THEN trace ELSE Append(trace, <<x[1].name, x[2]>>)
         /\ UNCHANGED <<returned, aborted>>
  BY DEF Enter
<1>3. /\ n \in Nat /\ n # 0 /\ Top = frames[n] /\ Top.todo \in Seq(Tasks) /\ frames \in Seq(Frames)
      /\ \A i \in 1..n : frames[i] \in Frames /\ frames[i].todo \in Seq(Tasks)
  BY <1>1, StackTasks DEF PassInv, PMTypeOK
<1>4. KidsOK'
  BY <1>1 DEF OrderInv, KidsOK
<1>5. x \in Tasks /\ rest \in Seq(Tasks) /\ x = <<x[1], x[2]>> /\ x[1] \in Passes /\ x[2] \in PassOp
  <2> DEFINE todo == Top.todo
  <2>1. todo \in Seq(Tasks) /\ todo # <<>>
    BY <1>1, <1>3
  <2> HIDE DEF todo
  <2>2. Tail(todo) \in Seq(Tasks) /\ todo[1] \in Tasks
    BY <2>1
  <2>3. QED
    BY <2>2 DEF todo, Tasks
<1>6. CASE UNCHANGED frames
  <2>1. GuardsOK'
    BY <1>6 DEF OrderInv, GuardsOK
  <2>2. ASSUME ~ aborted', kids' = Nesting', IsManager(pipeline') PROVE trace' \in Seq(LeafRuns) /\ OrderOf(LeavesWithout(config.skip))'
    <3>1. Skipped(x[1]) /\ returned' = {Default} /\ UNCHANGED <<frames, trace, aborted>>
      <4>1. frames # Append(frames, Frame(x[1], x[2]))
        <5>1. Len(Append(frames, Frame(x[1], x[2]))) = n + 1
          BY <1>3
        <5>2. n # n + 1
          BY <1>3
        <5>3. QED
          BY <5>1, <5>2
      <4>2. QED
        BY <1>2, <1>6, <2>2, <4>1
    <3>2. PICK L : L = LeavesWithout(config.skip)
      OBVIOUS
    <3>3. LeavesOK(config.skip, L)
      BY <3>2, LeavesLemma
    <3>4. trace \in Seq(LeafRuns) /\ OrderOf(L)
      BY <1>1, <2>2, <3>1, <3>2 DEF OrderInv, OrderOK, Nesting
    <3>5. PICK R : Ordered(L, R)
      BY <1>1, <3>4 DEF OrderOf
    <3>6. L[x] = <<>>
      <4>1. L[x] = LeavesFrom(config.skip, L, x)
        BY <1>5, <3>3 DEF LeavesOK
      <4>2. QED
        BY <3>1, <4>1 DEF LeavesFrom, Skipped
    <3>7. Ahead(L, Top.todo) = L[x] \o Ahead(L, rest) /\ Ahead(L, rest) \in Seq(LeafRuns)
      <4> DEFINE todo == Top.todo
      <4>1. todo \in Seq(Tasks) /\ todo # <<>>
        BY <1>1, <1>3
      <4> HIDE DEF todo
      <4>2. Ahead(L, todo) = L[todo[1]] \o Ahead(L, Tail(todo)) /\ Ahead(L, Tail(todo)) \in Seq(LeafRuns)
        BY <3>3, <4>1, AheadOfTasks
      <4>3. QED
        BY <4>2 DEF todo
    <3>8. Now(L) = Ahead(L, rest)
      <4>1. <<>> \o Ahead(L, rest) = Ahead(L, rest)
        BY <3>7, ConcatSimplifications
      <4>2. Now(L) = Ahead(L, Top.todo)
        BY <1>1 DEF Now
      <4>3. QED
        BY <3>6, <3>7, <4>1, <4>2
    <3>9. Top' = Top
      BY <3>1 DEF Top
    <3>10. Now(L)' = Now(L)
      BY <1>1, <3>1, <3>8, <3>9 DEF Now
    <3>11. Ordered(L, R)'
      BY <1>1, <3>1, <3>5, <3>10 DEF Ordered
    <3>12. OrderOf(L)'
      BY <1>1, <3>1, <3>11 DEF OrderOf
    <3>13. L = LeavesWithout(config'.skip)
      BY <1>1, <3>2
    <3>14. QED
      BY <3>1, <3>4, <3>12, <3>13
  <2>3. QED
    BY <1>4, <2>1, <2>2 DEF OrderInv, OrderOK
<1>7. CASE /\ ~ Skipped(x[1]) /\ frames' = Append(frames, Frame(x[1], x[2]))
           /\ trace' = IF IsManager(x[1]) THEN trace ELSE Append(trace, <<x[1].name, x[2]>>)
           /\ UNCHANGED <<returned, aborted>>
  <2> DEFINE F == Frame(x[1], x[2])
             c == contained_passes(x[1], x[2], kids)
  <2>1. F.pass = x[1] /\ F.op = x[2] /\ F.todo = c
    BY DEF Frame
  <2>2. F \in Frames
    BY <1>5, FrameLemma DEF PassInv, PMTypeOK
  <2> HIDE DEF F
  <2>3. /\ Len(frames') = n + 1 /\ frames'[n + 1] = F
        /\ \A i \in 1..n : frames'[i] = frames[i]
    BY <1>3, <1>7, <2>2, AppendProperties DEF F
  <2>4. Top' = F /\ frames' # <<>>
    BY <1>3, <2>3 DEF Top
  <2>5. GuardsOK'
    <3>1. F.pass.kind = "Guarded" => Len(F.todo) <= 1
      <4>1. ASSUME x[1].kind = "Guarded" PROVE Len(c) <= 1
        <5>1. c = <<<<x[1].pass, x[2]>>>> \/ c = <<>>
          BY <4>1 DEF contained_passes
        <5>2. Len(<<<<x[1].pass, x[2]>>>>) = 1 /\ Len(<<>>) = 0
          OBVIOUS
        <5>3. QED
          BY <5>1, <5>2
      <4>2. QED
        BY <2>1, <4>1
    <3>2. \A i \in 1..(n + 1) : i = n + 1 \/ i \in 1..n
      BY <1>3
    <3>3. \A i \in 1..n : frames'[i].pass.kind = "Guarded" => Len(frames'[i].todo) <= 1
      BY <2>3 DEF OrderInv, GuardsOK
    <3>4. QED
      BY <2>3, <3>1, <3>2, <3>3 DEF GuardsOK
  <2>6. ASSUME ~ aborted', kids' = Nesting', IsManager(pipeline')
        PROVE trace' \in Seq(LeafRuns) /\ OrderOf(LeavesWithout(config.skip))'
    <3>1. PICK L : L = LeavesWithout(config.skip)
      OBVIOUS
    <3>2. LeavesOK(config.skip, L)
      BY <3>1, LeavesLemma
    <3>3. trace \in Seq(LeafRuns) /\ OrderOf(L) /\ kids = Nesting
      BY <1>1, <1>7, <2>6, <3>1 DEF OrderInv, OrderOK, Nesting
    <3>4. PICK R : Ordered(L, R)
      BY <1>1, <3>3 DEF OrderOf
    <3>5. L[x] = LeavesFrom(config.skip, L, x) /\ L[x] \in Seq(LeafRuns)
      BY <1>5, <3>2 DEF LeavesOK
    <3>6. Now(L) = L[x] \o Ahead(L, rest) /\ Ahead(L, rest) \in Seq(LeafRuns)
      <4> DEFINE todo == Top.todo
      <4>1. todo \in Seq(Tasks) /\ todo # <<>>
        BY <1>1, <1>3
      <4> HIDE DEF todo
      <4>2. Ahead(L, todo) = L[todo[1]] \o Ahead(L, Tail(todo)) /\ Ahead(L, Tail(todo)) \in Seq(LeafRuns)
        BY <3>2, <4>1, AheadOfTasks
      <4>3. QED
        BY <1>1, <4>2 DEF todo, Now
    <3> DEFINE next == Ahead(L, rest) \o R[n - 1]
               sums == [i \in 0..n |-> IF i = n THEN next ELSE R[i]]
    <3>7. R[n - 1] \in Seq(LeafRuns) /\ next \in Seq(LeafRuns)
      <4>1. n - 1 \in 0..(n - 1)
        BY <1>3
      <4>2. R[n - 1] \in Seq(LeafRuns)
        BY <3>4, <4>1 DEF Ordered
      <4>3. QED
        BY <3>6, <4>2, ConcatProperties
    <3>8. Now(L)' \in Seq(LeafRuns) /\ trace' \in Seq(LeafRuns) /\ trace' \o Now(L)' = trace \o L[x]
      <4>1. CASE IsManager(x[1])
        <5>1. Now(L)' = Ahead(L, c)
          BY <1>1, <1>7, <2>1, <2>4, <4>1 DEF Now
        <5>2. L[x] = Ahead(L, c)
          BY <3>3, <3>5, <4>1 DEF LeavesFrom
        <5>3. trace' = trace
          BY <1>7, <4>1
        <5>4. QED
          BY <3>3, <3>5, <5>1, <5>2, <5>3
      <4>2. CASE ~ IsManager(x[1])
        <5> DEFINE e == <<x[1].name, x[2]>>
        <5>1. L[x] = <<e>>
          BY <1>7, <3>5, <4>2 DEF LeavesFrom, Skipped
        <5>2. Now(L)' = <<>> /\ trace' = Append(trace, e)
          BY <1>7, <2>1, <2>4, <4>2 DEF Now
        <5>3. e \in LeafRuns
          BY <1>5 DEF LeafRuns
        <5> HIDE DEF e
        <5>4. trace' \in Seq(LeafRuns) /\ trace' = trace \o <<e>> /\ <<>> \in Seq(LeafRuns)
          BY <3>3, <5>2, <5>3, AppendIsConcat, AppendProperties
        <5>5. trace' \o <<>> = trace'
          BY <5>4, ConcatSimplifications
        <5>6. QED
          BY <5>1, <5>2, <5>4, <5>5
      <4>3. QED
        BY <4>1, <4>2
    <3>9. (trace' \o Now(L)') \o next = L[<<pipeline', Root>>]
      <4> DEFINE a == L[x]
                 b == Ahead(L, rest)
                 r == R[n - 1]
                 tr == trace
      <4>1. (tr \o (a \o b)) \o r = L[<<pipeline, Root>>]
        BY <3>4, <3>6 DEF Ordered
      <4>2. tr \in Seq(LeafRuns) /\ a \in Seq(LeafRuns) /\ b \in Seq(LeafRuns) /\ r \in Seq(LeafRuns)
        BY <3>3, <3>5, <3>6, <3>7
      <4>3. trace' \o Now(L)' = tr \o a /\ next = b \o r /\ pipeline' = pipeline
        BY <1>1, <3>8
      <4> HIDE DEF a, b, r, tr, next
      <4>4. \A s, t, u \in Seq(LeafRuns) : (s \o t) \o u = s \o (t \o u) /\ s \o t \in Seq(LeafRuns)
        BY ConcatAssociative, ConcatProperties
      <4>5. (tr \o a) \o (b \o r) = ((tr \o a) \o b) \o r
        <5> DEFINE ta == tr \o a
        <5>1. ta \in Seq(LeafRuns)
          BY <4>2, <4>4
        <5> HIDE DEF ta
        <5>2. (ta \o b) \o r = ta \o (b \o r)
          BY <4>2, <4>4, <5>1
        <5>3. QED
          BY <5>2 DEF ta
      <4>6. (tr \o a) \o b = tr \o (a \o b)
        BY <4>2, <4>4
      <4>7. QED
        BY <4>1, <4>3, <4>5, <4>6
    <3>10. PICK S : S = sums
      OBVIOUS
    <3>11. (\A i \in 0..n : S[i] = IF i = n THEN next ELSE R[i])
      BY <3>10
    <3> HIDE DEF sums, next
    <3>12. Ordered(L, S)'
      <4>1. S[0] = <<>>
        BY <1>3, <3>4, <3>11 DEF Ordered
      <4>2. \A i \in 0..n : S[i] \in Seq(LeafRuns)
        <5>1. \A i \in 0..n : i = n \/ i \in 0..(n - 1)
          BY <1>3
        <5>2. QED
          BY <3>4, <3>7, <3>11, <5>1 DEF Ordered
      <4>3. ASSUME NEW i \in 1..n PROVE S[i] = Ahead(L, Tail(frames'[i].todo)) \o S[i - 1]
        <5>1. i - 1 \in 0..n /\ i - 1 # n /\ i \in 0..n /\ frames'[i] = frames[i]
          BY <1>3, <2>3
        <5>2. S[i - 1] = R[i - 1]
          BY <3>11, <5>1
        <5>3. CASE i = n
          <6>1. S[i] = next
            BY <3>11, <5>1, <5>3
          <6>2. next = Ahead(L, Tail(frames[i].todo)) \o R[i - 1]
            BY <1>3, <5>3 DEF next
          <6>3. QED
            BY <5>1, <5>2, <6>1, <6>2
        <5>4. CASE i # n
          <6>1. S[i] = R[i]
            BY <3>11, <5>1, <5>4
          <6>2. i \in 1..(n - 1)
            BY <1>3, <5>4
          <6>3. R[i] = Ahead(L, Tail(frames[i].todo)) \o R[i - 1]
            BY <3>4, <6>2 DEF Ordered
          <6>4. QED
            BY <5>1, <5>2, <6>1, <6>3
        <5>5. QED
          BY <5>3, <5>4
      <4>4. Len(frames') - 1 = n /\ n \in 0..n
        BY <1>3, <2>3
      <4>5. S[n] = next
        BY <3>11, <4>4
      <4>6. S[Len(frames') - 1] = next
        BY <4>4, <4>5
      <4>7. (trace' \o Now(L)') \o S[Len(frames') - 1] = L[<<pipeline', Root>>]
        BY <3>9, <4>6
      <4>8. /\ \A i \in 0..(Len(frames') - 1) : S[i] \in Seq(LeafRuns)
            /\ \A i \in 1..(Len(frames') - 1) : S[i] = Ahead(L, Tail(frames'[i].todo)) \o S[i - 1]
        BY <4>2, <4>3, <4>4
      <4>9. Now(L)' \in Seq(LeafRuns)
        BY <3>8
      <4>10. QED
        BY <4>1, <4>7, <4>8, <4>9 DEF Ordered
    <3>13. OrderOf(L)'
      BY <2>4, <3>12 DEF OrderOf
    <3>14. L = LeavesWithout(config'.skip)
      BY <1>1, <3>1
    <3>15. QED
      BY <3>8, <3>13, <3>14
  <2>7. QED
    BY <1>4, <2>5, <2>6 DEF OrderInv, OrderOK
<1>8. QED
  BY <1>2, <1>6, <1>7

\* What is to be run stays the same: one set of leaf passes, and one order.
LEMMA OrderKept ==
    ASSUME OrderOK, (~ aborted') => ~ aborted, kids' = kids, pipeline' = pipeline, config' = config,
           trace' = trace,
           \A L : LeavesOK(config.skip, L) /\ OrderOf(L) /\ trace \in Seq(LeafRuns) => OrderOf(L)'
    PROVE  OrderOK'
<1> SUFFICES ASSUME ~ aborted', kids' = Nesting', IsManager(pipeline')
             PROVE  trace' \in Seq(LeafRuns) /\ OrderOf(LeavesWithout(config.skip))'
  BY DEF OrderOK
<1>1. PICK L : L = LeavesWithout(config.skip)
  OBVIOUS
<1>2. LeavesOK(config.skip, L)
  BY <1>1, LeavesLemma
<1>3. trace \in Seq(LeafRuns) /\ OrderOf(L)
  BY <1>1 DEF OrderOK, Nesting
<1>4. OrderOf(L)'
  BY <1>2, <1>3
<1>5. L = LeavesWithout(config'.skip)
  BY <1>1
<1>6. QED
  BY <1>3, <1>4, <1>5

\* A manager takes the result of its pass.
LEMMA OrderTake ==
    ASSUME PassInv, PassInv', OrderInv, TakeResult
    PROVE  OrderInv'
<1> DEFINE n == Len(frames)
<1>1. /\ ~ aborted /\ frames # <<>> /\ IsManager(Top.pass) /\ returned # {}
      /\ UNCHANGED <<pipeline, config, kids, trace, aborted>>
  BY DEF TakeResult
<1>2. /\ n \in Nat /\ n # 0 /\ Top = frames[n] /\ Top \in Frames /\ Top.todo \in Seq(Tasks)
      /\ frames \in Seq(Frames) /\ Top.todo # <<>>
  BY <1>1, StackTasks DEF PassInv, PMTypeOK, StackOK
<1>3. KidsOK'
  BY <1>1 DEF OrderInv, KidsOK, Nesting
<1>4. CASE Top.pass.kind = "Guarded"
  <2>1. frames' = Front(frames) /\ returned' # {}
    BY <1>1, <1>4 DEF TakeResult
  <2>2. GuardsOK'
    BY <1>1, <2>1, GuardsPop DEF OrderInv
  <2>3. Tail(Top.todo) = <<>>
    <3>1. n \in 1..n
      BY <1>2
    <3>2. Len(Top.todo) <= 1
      BY <1>2, <1>4, <3>1 DEF OrderInv, GuardsOK
    <3> DEFINE todo == Top.todo
    <3>3. todo \in Seq(Tasks) /\ todo # <<>> /\ Len(todo) <= 1
      BY <1>2, <3>2
    <3> HIDE DEF todo
    <3>4. Len(todo) \in Nat /\ Len(todo) # 0
      BY <3>3, EmptySeq
    <3>5. Tail(todo) \in Seq(Tasks) /\ Len(Tail(todo)) = Len(todo) - 1
      BY <3>3
    <3>6. Tail(todo) \in Seq(Tasks) /\ Len(Tail(todo)) = 0
      BY <3>3, <3>4, <3>5
    <3>7. Tail(todo) = <<>>
      BY <3>6, EmptySeq
    <3>8. QED
      BY <3>7 DEF todo
  <2>4. ASSUME NEW L, LeavesOK(config.skip, L), OrderOf(L), trace \in Seq(LeafRuns) PROVE OrderOf(L)'
    <3>1. <<>> \in Seq(Tasks)
      OBVIOUS
    <3>2. Ahead(L, <<>>) = <<>>
      BY <2>4, <3>1, AheadOfTasks
    <3>3. Now(L) = <<>>
      BY <1>1, <2>3, <3>2 DEF Now
    <3>4. QED
      BY <1>1, <2>1, <2>4, <3>3, OrderPop
  <2>5. OrderOK'
    BY <1>1, <2>4, OrderKept DEF OrderInv
  <2>6. QED
    BY <1>3, <2>2, <2>5 DEF OrderInv
<1>5. CASE Top.pass.kind # "Guarded"
  <2>1. PICK res \in returned :
          /\ frames' = [frames EXCEPT ![Len(frames)].todo = Tail(@),
                                      ![Len(frames)].changed = status(@, res.changed)]
          /\ returned' = {}
    BY <1>5 DEF TakeResult
  <2> DEFINE F == [Top EXCEPT !.todo = Tail(@), !.changed = status(@, res.changed)]
  <2>2. F \in Frames /\ F.pass = Top.pass /\ F.todo = Tail(Top.todo)
    <3>1. res.changed \in BOOLEAN
      BY DEF PassInv, PMTypeOK, Results
    <3>2. Tail(Top.todo) \in Seq(Tasks)
      BY <1>2
    <3>3. QED
      BY <1>2, <3>1, <3>2 DEF Frames, status, Tasks
  <2>3. frames' = [frames EXCEPT ![n] = F]
    BY <1>2, <2>1
  <2> HIDE DEF F
  <2>4. Len(frames') = n /\ \A i \in 1..n : frames'[i] = IF i = n THEN F ELSE frames[i]
    <3>1. n \in 1..n
      BY <1>2
    <3>2. QED
      BY <1>2, <2>2, <2>3, <3>1, ExceptSeq
  <2>5. Top' = F /\ frames' # <<>>
    <3>1. frames'[n] = F /\ n # 0
      BY <1>2, <2>4
    <3>2. QED
      BY <2>4, <3>1 DEF Top
  <2>6. GuardsOK'
    <3>1. F.pass.kind # "Guarded"
      BY <1>5, <2>2
    <3>2. ASSUME NEW i \in 1..n, frames'[i].pass.kind = "Guarded" PROVE Len(frames'[i].todo) <= 1
      <4>1. frames'[i] = frames[i]
        BY <2>4, <3>1, <3>2
      <4>2. QED
        BY <3>2, <4>1 DEF OrderInv, GuardsOK
    <3>3. QED
      BY <2>4, <3>2 DEF GuardsOK
  <2>7. ASSUME NEW L, LeavesOK(config.skip, L), OrderOf(L), trace \in Seq(LeafRuns) PROVE OrderOf(L)'
    <3>1. PICK R : Ordered(L, R)
      BY <1>1, <2>7 DEF OrderOf
    <3>2. Now(L)' = Now(L)
      BY <1>1, <2>1, <2>2, <2>5 DEF Now
    <3>3. \A i \in 1..(n - 1) : i \in 1..n /\ i # n
      BY <1>2
    <3>4. \A i \in 1..(n - 1) : frames'[i] = frames[i]
      BY <2>4, <3>3
    <3>5. Ordered(L, R)'
      BY <1>1, <2>4, <3>1, <3>2, <3>4 DEF Ordered
    <3>6. QED
      BY <2>5, <3>5 DEF OrderOf
  <2>8. OrderOK'
    BY <1>1, <2>7, OrderKept DEF OrderInv
  <2>9. QED
    BY <1>3, <2>6, <2>8 DEF OrderInv
<1>6. QED
  BY <1>4, <1>5

\* A call that has nothing left to run returns: a manager's, or a leaf pass's.
LEMMA OrderReturn ==
    ASSUME PassInv, PassInv', OrderInv, frames # <<>>, frames' = Front(frames), returned' # {},
           UNCHANGED <<pipeline, config, kids, trace, aborted>>,
           ~ IsManager(Top.pass) \/ (returned = {} /\ Top.todo = <<>>)
    PROVE  OrderInv'
<1>1. KidsOK'
  BY DEF OrderInv, KidsOK, Nesting
<1>2. GuardsOK'
  BY GuardsPop DEF OrderInv
<1>3. ASSUME NEW L, LeavesOK(config.skip, L), OrderOf(L), trace \in Seq(LeafRuns) PROVE OrderOf(L)'
  <2>1. <<>> \in Seq(Tasks)
    OBVIOUS
  <2>2. Ahead(L, <<>>) = <<>>
    BY <1>3, <2>1, AheadOfTasks
  <2>3. Now(L) = <<>>
    BY <2>2 DEF Now
  <2>4. QED
    BY <1>3, <2>3, OrderPop
<1>4. OrderOK'
  BY <1>3, OrderKept DEF OrderInv
<1>5. QED
  BY <1>1, <1>2, <1>4 DEF OrderInv

\* An error is on its way: there is nothing to show but what the stack was.
LEMMA OrderAborted ==
    ASSUME OrderInv, aborted', UNCHANGED <<frames, kids>>
    PROVE  OrderInv'
  BY DEF OrderInv, KidsOK, GuardsOK, OrderOK, Nesting

\* A step of a leaf pass that changes no operation, or the one it runs on.
LEMMA OrderInLeaf ==
    ASSUME PassInv, PassInv', OrderInv, kids' = kids, UNCHANGED <<pipeline, config, returned, trace, aborted>>,
           Len(frames') = Len(frames),
           \A i \in 1..Len(frames) : frames'[i].todo = frames[i].todo /\ frames'[i].pass = frames[i].pass
    PROVE  OrderInv'
<1>1. KidsOK'
  BY DEF OrderInv, KidsOK, Nesting
<1>2. GuardsOK'
  BY DEF OrderInv, GuardsOK
<1>3. \A L : LeavesOK(config.skip, L) /\ OrderOf(L) /\ trace \in Seq(LeafRuns) => OrderOf(L)'
  <2> SUFFICES ASSUME NEW L, OrderOf(L) PROVE OrderOf(L)'
    OBVIOUS
  <2>1. QED
    BY OrderSame
<1>4. OrderOK'
  BY <1>3, OrderKept DEF OrderInv
<1>5. QED
  BY <1>1, <1>2, <1>4 DEF OrderInv

\* The call of a leaf pass notes that it has changed something.
LEMMA ChangedFrames ==
    ASSUME PassInv, InLeaf, frames' = [frames EXCEPT ![Len(frames)].changed = TRUE]
    PROVE  /\ Len(frames') = Len(frames)
           /\ \A i \in 1..Len(frames) : frames'[i].todo = frames[i].todo /\ frames'[i].pass = frames[i].pass
<1> DEFINE n == Len(frames)
           F == [Top EXCEPT !.changed = TRUE]
<1>1. frames \in Seq(Frames) /\ Top \in Frames /\ n \in 1..n /\ Top = frames[n]
  BY LeafLemma
<1>2. F \in Frames /\ F.pass = Top.pass /\ F.todo = Top.todo
  BY <1>1 DEF Frames
<1>3. frames' = [frames EXCEPT ![n] = F]
  BY <1>1
<1> HIDE DEF F
<1>4. Len(frames') = n /\ \A i \in 1..n : frames'[i] = IF i = n THEN F ELSE frames[i]
  <2> DEFINE G == [frames EXCEPT ![n] = F]
  <2>1. Len(G) = Len(frames) /\ \A i \in 1..Len(frames) : G[i] = IF i = n THEN F ELSE frames[i]
    BY <1>1, <1>2, ExceptSeq
  <2> HIDE DEF G
  <2>2. frames' = G
    BY <1>3 DEF G
  <2>3. QED
    BY <2>1, <2>2
<1>5. QED
  BY <1>1, <1>2, <1>4

\* An operation is erased: from then on the order is no longer that of the reference.
LEMMA OrderErase ==
    ASSUME PassInv, PassInv', OrderInv, InLeaf, EraseNested
    PROVE  OrderInv'
<1>1. /\ kids[Top.op] # <<>> /\ kids' = [kids EXCEPT ![Top.op] = Front(@)]
      /\ frames' = [frames EXCEPT ![Len(frames)].changed = TRUE]
  BY DEF EraseNested
<1>2. Top.op \in PassOp /\ kids \in [PassOp -> Seq(PassOp)]
  BY LeafLemma DEF PMTypeOK
<1> DEFINE op == Top.op
<1>3. kids'[op] = Front(kids[op]) /\ \A o \in PassOp : o # op => kids'[o] = kids[o]
  BY <1>1, <1>2
<1>4. Len(kids'[op]) = Len(kids[op]) - 1 /\ Len(kids[op]) \in Nat
  <2> DEFINE s == kids[op]
  <2>1. s \in Seq(PassOp) /\ s # <<>>
    BY <1>1, <1>2
  <2> HIDE DEF s
  <2>2. Len(s) \in Nat /\ Len(s) # 0
    BY <2>1, EmptySeq
  <2>3. Len(Front(s)) = Len(s) - 1
    BY <2>1, <2>2, FrontLemma
  <2>4. QED
    BY <1>3, <2>2, <2>3 DEF s
<1>5. \A o \in PassOp : Len(kids[o]) <= Len(Nesting[o]) /\ Len(Nesting[o]) \in Nat
  <2>1. \A o \in PassOp : Nesting[o] \in Seq(PassOp)
    BY NestingLemma
  <2>2. QED
    BY <2>1 DEF OrderInv, KidsOK
<1>6. Nesting' = Nesting
  BY DEF Nesting
<1> HIDE DEF op
<1>7. op \in PassOp
  BY <1>2 DEF op
<1>8. Len(kids'[op]) < Len(Nesting[op])
  BY <1>4, <1>5, <1>7
<1>9. KidsOK'
  <2>1. \A o \in PassOp : Len(kids'[o]) <= Len(Nesting[o])
    BY <1>3, <1>4, <1>5, <1>8
  <2>2. QED
    BY <1>6, <2>1 DEF KidsOK
<1>10. kids' # Nesting'
  BY <1>5, <1>6, <1>7, <1>8
<1>11. GuardsOK'
  BY <1>1, ChangedFrames DEF OrderInv, GuardsOK
<1>12. QED
  BY <1>9, <1>10, <1>11 DEF OrderInv, OrderOK

\* What a pass does on its operation leaves what is to be run, unless it erases.
LEMMA OrderLeaf ==
    ASSUME PassInv, PassInv', OrderInv, InLeaf, Leaf
    PROVE  OrderInv'
<1>1. CASE \E t \in Type : ComputeAnalysis(t, Top.op) \/ UpdateAnalysis(t)
  <2>1. UNCHANGED <<pipeline, config, frames, returned, kids, trace, aborted>>
    BY <1>1 DEF ComputeAnalysis, UpdateAnalysis
  <2>2. QED
    BY <2>1, OrderInLeaf
<1>2. CASE \E aspect \in Aspect : Change(aspect)
  <2>1. /\ frames' = [frames EXCEPT ![Len(frames)].changed = TRUE]
        /\ UNCHANGED <<pipeline, config, returned, kids, trace, aborted>>
    BY <1>2 DEF Change
  <2>2. QED
    BY <2>1, ChangedFrames, OrderInLeaf
<1>3. CASE EraseNested
  BY <1>3, OrderErase
<1>4. CASE Return
  <2>1. CASE config.verify_after /\ ~ Verifies(Top.op)
    <3>1. aborted' /\ UNCHANGED <<frames, kids>>
      BY <1>4, <2>1 DEF Return, passIRVars
    <3>2. QED
      BY <3>1, OrderAborted
  <2>2. CASE ~ (config.verify_after /\ ~ Verifies(Top.op))
    <3>1. /\ frames' = Front(frames) /\ returned' # {}
          /\ UNCHANGED <<pipeline, config, kids, trace, aborted>>
      BY <1>4, <2>2 DEF Return, passIRVars
    <3>2. frames # <<>> /\ ~ IsManager(Top.pass)
      BY DEF InLeaf
    <3>3. QED
      BY <3>1, <3>2, OrderReturn
  <2>3. QED
    BY <2>1, <2>2
<1>5. CASE ReturnError
  <2>1. aborted' /\ UNCHANGED <<frames, kids>>
    BY <1>5 DEF ReturnError, passIRVars
  <2>2. QED
    BY <2>1, OrderAborted
<1>6. QED
  BY <1>1, <1>2, <1>3, <1>4, <1>5 DEF Leaf

\* At the start nothing has run and the pipeline is to come.
LEMMA OrderInit == PMInit => OrderInv
<1> SUFFICES ASSUME PMInit PROVE OrderInv
  OBVIOUS
<1>1. PassInv
  BY PMInitLemma
<1>2. /\ pipeline \in Passes /\ Root \in PassOp /\ kids = Nesting /\ returned = {} /\ trace = <<>>
      /\ frames = <<Frame(pipeline, Root)>>
  BY PassesAssumption DEF PMInit
<1> DEFINE c == contained_passes(pipeline, Root, Nesting)
           F == Frame(pipeline, Root)
<1>3. F.pass = pipeline /\ F.todo = c
  BY <1>2 DEF Frame
<1> HIDE DEF F
<1>4. Len(frames) = 1 /\ frames[1] = F /\ frames # <<>> /\ Top = F
  BY <1>2 DEF F, Top
<1>5. KidsOK
  <2>1. \A o \in PassOp : Len(Nesting[o]) \in Nat
    <3>1. \A o \in PassOp : Nesting[o] \in Seq(PassOp)
      BY NestingLemma
    <3>2. QED
      BY <3>1
  <2>2. QED
    BY <1>2, <2>1 DEF KidsOK
<1>6. GuardsOK
  <2>1. ASSUME pipeline.kind = "Guarded" PROVE Len(c) <= 1
    <3>1. c = <<<<pipeline.pass, Root>>>> \/ c = <<>>
      BY <2>1 DEF contained_passes
    <3>2. Len(<<<<pipeline.pass, Root>>>>) = 1 /\ Len(<<>>) = 0
      OBVIOUS
    <3>3. QED
      BY <3>1, <3>2
  <2>2. QED
    BY <1>3, <1>4, <2>1 DEF GuardsOK
<1>7. OrderOK
  <2> SUFFICES ASSUME IsManager(pipeline) PROVE trace \in Seq(LeafRuns) /\ OrderOf(LeavesWithout(config.skip))
    BY DEF OrderOK
  <2>1. PICK L : L = LeavesWithout(config.skip)
    OBVIOUS
  <2>2. LeavesOK(config.skip, L)
    BY <2>1, LeavesLemma
  <2> DEFINE x == <<pipeline, Root>>
  <2>3. x \in Tasks /\ x[1] = pipeline /\ x[2] = Root
    BY <1>2 DEF Tasks
  <2>4. L[x] \in Seq(LeafRuns) /\ L[x] = Ahead(L, c)
    <3>1. L[x] \in Seq(LeafRuns) /\ L[x] = LeavesFrom(config.skip, L, x)
      BY <2>2, <2>3 DEF LeavesOK
    <3>2. QED
      BY <2>3, <3>1 DEF LeavesFrom
  <2>5. Now(L) = L[x]
    BY <1>2, <1>3, <1>4, <2>4 DEF Now
  <2>6. PICK R : R = [i \in 0..0 |-> <<>>]
    OBVIOUS
  <2>7. R[0] = <<>> /\ <<>> \in Seq(LeafRuns) /\ Len(frames) - 1 = 0
    BY <1>4, <2>6
  <2>8. (trace \o Now(L)) \o R[Len(frames) - 1] = L[x]
    <3> DEFINE s == L[x]
    <3>1. s \in Seq(LeafRuns)
      BY <2>4
    <3> HIDE DEF s
    <3>2. (<<>> \o s) \o <<>> = s
      BY <3>1, ConcatSimplifications
    <3>3. QED
      BY <1>2, <2>5, <2>7, <3>2 DEF s
  <2>9. Ordered(L, R)
    <3> DEFINE k == Len(frames) - 1
    <3>1. k = 0
      BY <2>7
    <3> HIDE DEF k
    <3>2. (\A i \in 0..k : i = 0) /\ \A i \in 1..k : FALSE
      BY <3>1
    <3>3. R[0] \in Seq(LeafRuns)
      BY <2>7
    <3>4. (\A i \in 0..k : R[i] \in Seq(LeafRuns)) /\ \A i \in 1..k : FALSE
      BY <3>2, <3>3, Zenon
    <3>5. \A i \in 0..(Len(frames) - 1) : R[i] \in Seq(LeafRuns)
      BY <3>4 DEF k
    <3>6. \A i \in 1..(Len(frames) - 1) : FALSE
      BY <3>4 DEF k
    <3>7. Now(L) \in Seq(LeafRuns)
      BY <2>4, <2>5
    <3>8. QED
      BY <2>7, <2>8, <3>5, <3>6, <3>7 DEF Ordered
  <2>10. OrderOf(L)
    BY <1>4, <2>9 DEF OrderOf
  <2>11. QED
    BY <1>2, <2>1, <2>7, <2>10
<1>8. QED
  BY <1>5, <1>6, <1>7 DEF OrderInv

\* Whatever the passes do, and wherever in the pipeline they are.
LEMMA OrderStep ==
    ASSUME PassInv, PassInv', OrderInv, [PMNext]_pmVars
    PROVE  OrderInv'
<1>1. CASE Enter
  BY <1>1, OrderEnter
<1>2. CASE TakeResult
  BY <1>2, OrderTake
<1>3. CASE Finish
  <2>1. /\ frames # <<>> /\ frames' = Front(frames) /\ returned = {} /\ Top.todo = <<>>
        /\ UNCHANGED <<pipeline, config, kids, trace, aborted>>
    BY <1>3 DEF Finish, Managing, passIRVars
  <2>2. returned' # {}
    BY <1>3 DEF Finish
  <2>3. QED
    BY <2>1, <2>2, OrderReturn
<1>4. CASE InLeaf /\ Leaf
  BY <1>4, OrderLeaf
<1>5. CASE UNCHANGED pmVars
  <2>1. UNCHANGED <<pipeline, config, frames, returned, kids, trace, aborted>>
    BY <1>5 DEF pmVars
  <2>2. QED
    BY <2>1, OrderInLeaf
<1>6. QED
  BY <1>1, <1>2, <1>3, <1>4, <1>5 DEF PMNext

\* As long as no operation is erased, what run_pass has run, what the innermost call will
\* run and what the calls around it will run are, in this order, the pipeline.
THEOREM OrderInvariant == PMSpec => []OrderInv
<1>1. PMInit => OrderInv
  BY OrderInit
<1>2. PassInv /\ PassInv' /\ OrderInv /\ [PMNext]_pmVars => OrderInv'
  BY OrderStep
<1>3. QED
  BY <1>1, <1>2, PassInvariant, PTL DEF PMSpec

\* PassManager::run on any pipeline, of any depth: when it returns without an error and no
\* pass has erased an operation, each leaf pass that is not skipped has run once on each
\* operation it is meant for, in order; the result is honest, and no pass starts on an IR
\* that an earlier one has broken if the manager verifies after each.
THEOREM PipelineRuns == PMSpec => []PipelineCorrect
<1>1. OrderInv => RunInOrder
  <2> SUFFICES ASSUME OrderInv, Completed, IsManager(pipeline), kids = Nesting
               PROVE  trace = LeavesWithout(config.skip)[<<pipeline, Root>>]
    BY DEF RunInOrder
  <2>1. frames = <<>> /\ OrderOf(LeavesWithout(config.skip))
    BY DEF OrderInv, OrderOK, Completed
  <2>2. QED
    BY <2>1 DEF OrderOf
<1>2. QED
  BY <1>1, OrderInvariant, BreakageStops, ResultAlwaysHonest, PTL DEF PipelineCorrect
=============================================================================
