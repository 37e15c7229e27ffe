------------------------ MODULE DialectConversionProofs ------------------------
(***************************************************************************)
(* Proofs about the dialect conversion driver, for every IR, every client  *)
(* and any number of erasures in a callback.                               *)
(***************************************************************************)
EXTENDS DialectConversion, SeqLemmas

TypeOK ==
    /\ known \subseteq OpKey /\ gone \subseteq OpKey /\ wanted \subseteq OpKey
    /\ defs \in [OpKey -> SUBSET OpKey]
    /\ worklist \in Seq(OpKey) /\ rewritten \in Seq(OpKey)
    /\ op_states \in [OpKey -> States]

\* The IR is closed under operands, and an erased key is not used again.
IROK ==
    /\ known \cap gone = {}
    /\ \A o \in known : defs[o] \subseteq known /\ IsFiniteSet(defs[o])

\* The state of an operation agrees with the arena, the worklist and the history.
StatesOK ==
    /\ \A o \in OpKey : op_states[o] = "Queued" => o \in known /\ o \in ToSet(worklist)
    /\ \A o \in OpKey \ (known \cup gone) : op_states[o] = "None"
    /\ \A o \in ToSet(rewritten) : op_states[o] \in {"Processed", "Erased"}
    /\ \A o \in known \cap wanted : o \in ToSet(rewritten) \/ op_states[o] = "Queued"
    /\ IsInjective(rewritten)

BlocksOK == unconverted \cap live_blocks \subseteq pending

IInv == TypeOK /\ IROK /\ StatesOK /\ BlocksOK

\* Filtered keeps the elements of s that are in S.
LEMMA FilteredLemma ==
    ASSUME NEW E, NEW s \in Seq(E), NEW S
    PROVE  Filtered(s, S) \in Seq(E) /\ ToSet(Filtered(s, S)) = ToSet(s) \cap S
  BY FilteredElements, Zenon DEF Filtered, Filtering

THEOREM InitLemma == Init => IInv
<1> SUFFICES ASSUME Init PROVE IInv
  OBVIOUS
<1>1. PICK p \in Inputs :
        /\ known = ToSet(p.walk) /\ defs = p.defs /\ wanted = p.wanted
        /\ worklist = Filtered(p.walk, p.wanted)
        /\ live_blocks = p.blocks
        /\ graph_ops = p.graph
  BY DEF Init
<1>2. /\ p.walk \in Seq(OpKey) /\ p.wanted \subseteq OpKey /\ p.defs \in [OpKey -> SUBSET OpKey]
      /\ \A o \in ToSet(p.walk) : IsFiniteSet(p.defs[o]) /\ p.defs[o] \subseteq ToSet(p.walk)
  BY InputsAssumption
<1>3. worklist \in Seq(OpKey) /\ ToSet(worklist) = known \cap wanted
  BY <1>1, <1>2, FilteredLemma
<1>4. known \subseteq OpKey
  <2>1. DOMAIN p.walk = 1..Len(p.walk) /\ \A i \in 1..Len(p.walk) : p.walk[i] \in OpKey
    BY <1>2
  <2>2. QED
    BY <1>1, <2>1 DEF ToSet
<1>5. /\ gone = {} /\ op_states = [o \in OpKey |-> IF o \in ToSet(worklist) THEN "Queued" ELSE "None"]
      /\ unconverted = live_blocks /\ pending = live_blocks /\ rewritten = <<>>
  BY DEF Init
<1>6. rewritten \in Seq(OpKey) /\ ToSet(rewritten) = {} /\ IsInjective(rewritten)
  BY <1>5 DEF ToSet, IsInjective
<1>7. TypeOK
  BY <1>1, <1>2, <1>3, <1>4, <1>5, <1>6 DEF TypeOK, States
<1>8. IROK
  BY <1>1, <1>2, <1>5 DEF IROK
<1>9. StatesOK
  BY <1>3, <1>4, <1>5, <1>6 DEF StatesOK
<1>10. QED
  BY <1>5, <1>7, <1>8, <1>9 DEF IInv, BlocksOK

\* The turn of the loop: the first operation of the worklist and the rest.
LEMMA ReadyLemma ==
    ASSUME IInv, Ready
    PROVE  /\ Next_op \in OpKey /\ Tail(worklist) \in Seq(OpKey)
           /\ ToSet(worklist) = {Next_op} \cup ToSet(Tail(worklist))
           /\ pending = {}
<1>1. worklist \in Seq(OpKey) /\ worklist # <<>> /\ pending = {}
  BY DEF IInv, TypeOK, Ready
<1>2. QED
  BY <1>1, HeadElements DEF Next_op

\* A step that takes the first operation from the worklist and leaves no state Queued
\* that it had.
LEMMA SkipStep ==
    ASSUME IInv, Skip
    PROVE  IInv'
<1>1. /\ Ready /\ op_states[Next_op] # "Queued" /\ worklist' = Tail(worklist)
      /\ UNCHANGED <<clientVars, op_states, live_blocks, gone_blocks, unconverted, pending, rewritten>>
  BY DEF Skip
<1>2. /\ Next_op \in OpKey /\ Tail(worklist) \in Seq(OpKey)
      /\ ToSet(worklist) = {Next_op} \cup ToSet(Tail(worklist))
  BY <1>1, ReadyLemma
<1>3. QED
  BY <1>1, <1>2 DEF IInv, TypeOK, IROK, StatesOK, BlocksOK, clientVars

LEMMA NoLongerConvertibleStep ==
    ASSUME IInv, NoLongerConvertible
    PROVE  IInv'
<1>1. /\ Ready /\ op_states[Next_op] = "Queued" /\ Next_op \notin wanted
      /\ worklist' = Tail(worklist)
      /\ op_states' = [op_states EXCEPT ![Next_op] = "Processed"]
      /\ UNCHANGED <<clientVars, live_blocks, gone_blocks, unconverted, pending, rewritten>>
  BY DEF NoLongerConvertible
<1>2. /\ Next_op \in OpKey /\ Tail(worklist) \in Seq(OpKey)
      /\ ToSet(worklist) = {Next_op} \cup ToSet(Tail(worklist))
  BY <1>1, ReadyLemma
<1>3. TypeOK'
  BY <1>1, <1>2 DEF IInv, TypeOK, States, clientVars
<1>4. \A o \in OpKey : op_states'[o] = IF o = Next_op THEN "Processed" ELSE op_states[o]
  BY <1>1 DEF IInv, TypeOK
<1>5. StatesOK'
  BY <1>1, <1>2, <1>4 DEF IInv, TypeOK, StatesOK, clientVars
<1>6. QED
  BY <1>1, <1>3, <1>5 DEF IInv, IROK, BlocksOK, clientVars

LEMMA DeferStep ==
    ASSUME IInv, Defer
    PROVE  IInv'
<1> DEFINE D == pending_defs(Next_op)
<1>1. /\ Ready /\ op_states[Next_op] = "Queued"
      /\ op_states' = [o \in OpKey |-> IF o \in D THEN "Queued" ELSE op_states[o]]
      /\ UNCHANGED <<clientVars, live_blocks, gone_blocks, unconverted, pending, rewritten>>
  BY DEF Defer
<1>2. PICK s \in SetToSeqs(D) : worklist' = s \o worklist
  BY DEF Defer
<1>3. Next_op \in OpKey /\ Next_op \in known
  BY <1>1, ReadyLemma DEF IInv, StatesOK
<1>4. D \subseteq defs[Next_op] /\ defs[Next_op] \subseteq known /\ IsFiniteSet(defs[Next_op])
  BY <1>3 DEF IInv, IROK, pending_defs
<1>5. \A d \in D : d = Next_op \/ op_states[d] \notin {"Erased", "Processed"}
  BY <1>3, <1>4 DEF IInv, TypeOK, pending_defs, eligible
<1> HIDE DEF D
<1>6. IsFiniteSet(D)
  BY <1>4, FS_Subset
<1>7. s \in Seq(D) /\ ToSet(s) = D
  BY <1>2, <1>6, SequencesOfSet
<1>8. s \in Seq(OpKey) /\ worklist \in Seq(OpKey)
  <2>1. D \subseteq OpKey
    BY <1>4 DEF IInv, TypeOK
  <2>2. QED
    BY <1>7, <2>1, SeqMonotonic DEF IInv, TypeOK
<1>9. worklist' \in Seq(OpKey) /\ ToSet(worklist') = D \cup ToSet(worklist)
  BY <1>2, <1>7, <1>8, ConcatElements
<1>10. \A o \in OpKey : op_states'[o] = IF o \in D THEN "Queued" ELSE op_states[o]
  BY <1>1
<1>11. TypeOK'
  BY <1>1, <1>9 DEF IInv, TypeOK, States, clientVars
<1>12. ToSet(rewritten) \subseteq OpKey /\ D \subseteq OpKey /\ D \subseteq known
  BY <1>4, ElementsIn DEF IInv, TypeOK
<1>13. StatesOK'
  <2>1. \A o \in OpKey : op_states'[o] = "Queued" => o \in known' /\ o \in ToSet(worklist')
    BY <1>1, <1>9, <1>10, <1>12 DEF IInv, StatesOK, clientVars
  <2>2. \A o \in OpKey \ (known' \cup gone') : op_states'[o] = "None"
    BY <1>1, <1>10, <1>12 DEF IInv, StatesOK, clientVars
  <2>3. \A o \in ToSet(rewritten') : op_states'[o] \in {"Processed", "Erased"}
    BY <1>1, <1>5, <1>10, <1>12 DEF IInv, StatesOK
  <2>4. \A o \in known' \cap wanted' : o \in ToSet(rewritten') \/ op_states'[o] = "Queued"
    BY <1>1, <1>10 DEF IInv, TypeOK, StatesOK, clientVars
  <2>5. IsInjective(rewritten')
    BY <1>1 DEF IInv, StatesOK
  <2>6. QED
    BY <2>1, <2>2, <2>3, <2>4, <2>5 DEF StatesOK
<1>14. QED
  BY <1>1, <1>11, <1>13 DEF IInv, IROK, BlocksOK, clientVars

LEMMA BlockArgumentsStep ==
    ASSUME IInv, ConvertBlockArguments
    PROVE  IInv'
  BY DEF ConvertBlockArguments, IInv, TypeOK, IROK, StatesOK, BlocksOK, clientVars

LEMMA FailStep ==
    ASSUME IInv, Fail
    PROVE  IInv'
<1>1. UNCHANGED <<clientVars, worklist, op_states, live_blocks, gone_blocks, unconverted, pending, rewritten>>
  BY DEF Fail
<1>2. QED
  BY <1>1 DEF IInv, TypeOK, IROK, StatesOK, BlocksOK, clientVars

LEMMA StutterStep ==
    ASSUME IInv, UNCHANGED dcVars
    PROVE  IInv'
  BY DEF dcVars, IInv, TypeOK, IROK, StatesOK, BlocksOK

\* What the client's callback and the events leave: the operations erased are marked,
\* those inserted and moved are queued if they are to be converted, and the operation
\* is processed.
LEMMA RewriteStep ==
    ASSUME IInv, Rewrite
    PROVE  IInv' /\ DefsConverted(Next_op) /\ rewritten' = Append(rewritten, Next_op) /\ Next_op \in OpKey
<1> DEFINE op == Next_op
<1>1. /\ Ready /\ op_states[op] = "Queued" /\ op \in wanted /\ pending_defs(op) = {}
      /\ rewritten' = Append(rewritten, op)
  BY DEF Rewrite
<1>2. /\ op \in OpKey /\ Tail(worklist) \in Seq(OpKey)
      /\ ToSet(worklist) = {op} \cup ToSet(Tail(worklist)) /\ pending = {}
  BY <1>1, ReadyLemma
<1>3. op \in known /\ op \notin gone /\ defs[op] \subseteq known /\ IsFiniteSet(defs[op])
  BY <1>1, <1>2 DEF IInv, StatesOK, IROK
<1>4. DefsConverted(op)
  <2> SUFFICES ASSUME NEW d \in defs[op] \ graph_ops, d \in wanted PROVE d \in ToSet(rewritten)
    BY DEF DefsConverted
  <2>1. d \in known /\ d \in OpKey
    BY <1>3 DEF IInv, TypeOK
  <2>2. ~ eligible(d, [op_states EXCEPT ![op] = "None"], wanted)
    BY <1>1 DEF pending_defs
  <2>3. d # op /\ op_states[d] \in {"Erased", "Processed"}
    BY <1>2, <2>1, <2>2 DEF eligible, IInv, TypeOK
  <2>4. QED
    BY <2>1, <2>3 DEF IInv, StatesOK
<1>5. BlocksOK'
  <2>1. PICK nb \in AtMostOne(BlockKey \ (live_blocks \cup gone_blocks)) :
           \E db :
           /\ live_blocks' = (live_blocks \cup nb) \ db
           /\ unconverted' = (unconverted \cup nb) \ db
           /\ pending' = observed_blocks(nb, db)
    BY DEF Rewrite
  <2>2. QED
    BY <1>2, <2>1 DEF IInv, BlocksOK, observed_blocks
<1>6. rewritten' \in Seq(OpKey) /\ ToSet(rewritten') = ToSet(rewritten) \cup {op}
      /\ ToSet(rewritten) \subseteq OpKey /\ op \notin ToSet(rewritten) /\ IsInjective(rewritten')
  <2>1. rewritten \in Seq(OpKey) /\ IsInjective(rewritten)
    BY DEF IInv, TypeOK, StatesOK
  <2>2. op \notin ToSet(rewritten)
    BY <1>1 DEF IInv, StatesOK
  <2> HIDE DEF op
  <2>3. QED
    BY <1>1, <1>2, <2>1, <2>2, AppendedElements, AppendProperties, AppendedInjective, ElementsIn
<1>7. TypeOK' /\ IROK' /\ StatesOK'
  <2> SUFFICES ASSUME NEW new \in AtMostOne(OpKey \ (known \cup gone)),
                      NEW heir \in {new} \cup AtMostOne(defs[op]),
                      NEW del \in Erasable(op, new, heir),
                      NEW keep \in SUBSET (({op} \cup new) \ del),
                      NEW lost \in MayLose(op, heir),
                      NEW moved \in AtMostOne(known),
                      Callback(op, new, heir, del, keep, lost),
                      process_recorder_events(SetToSeq(new) \o SetToSeq(moved), del)
               PROVE  TypeOK' /\ IROK' /\ StatesOK'
    BY DEF Rewrite
  <2> DEFINE ins == SetToSeq(new) \o SetToSeq(moved)
             marked == mark_erased([op_states EXCEPT ![op] = "None"], del)
             Take == {o \in OpKey : eligible(o, marked, wanted') /\ marked[o] # "Queued"}
             queue == Filtered(ins, Take)
  <2>1. /\ new \subseteq OpKey \ (known \cup gone) /\ IsFiniteSet(new)
        /\ SetToSeq(new) \in Seq(OpKey) /\ ToSet(SetToSeq(new)) = new
    <3>1. new \in {{}} \cup {{x} : x \in OpKey}
      BY DEF AtMostOne
    <3>2. QED
      BY <3>1, SequenceOfFew DEF AtMostOne
  <2>2. /\ moved \subseteq known /\ SetToSeq(moved) \in Seq(OpKey) /\ ToSet(SetToSeq(moved)) = moved
    <3>1. moved \in {{}} \cup {{x} : x \in OpKey}
      BY DEF AtMostOne, IInv, TypeOK
    <3>2. QED
      BY <3>1, SequenceOfFew DEF AtMostOne
  <2>3. heir \subseteq known \cup new /\ IsFiniteSet(heir)
    <3>1. CASE heir = new
      BY <2>1, <3>1
    <3>2. CASE heir \in AtMostOne(defs[op])
      <4>1. heir \subseteq defs[op]
        BY <3>2 DEF AtMostOne
      <4>2. QED
        BY <1>3, <4>1, FS_Subset
    <3>3. QED
      BY <3>1, <3>2
  <2>4. del \subseteq known \cup new /\ \A o \in known \ del : Operands(o, op, heir) \cap del = {}
    BY DEF Erasable, kSubset
  <2>5. PICK ds \in {{}, defs[op] \ del} :
           defs' = [o \in OpKey |-> CASE o \in del -> {} [] o \in new \ del -> ds
                                      [] OTHER -> Operands(o, op, heir)]
    BY DEF Callback
  <2>6. /\ known' = (known \cup new) \ del /\ gone' = gone \cup del
        /\ wanted' = (wanted \ ({op} \cup del \cup lost)) \cup keep
    BY DEF Callback
  <2>7. /\ worklist' = Tail(worklist) \o queue
        /\ op_states' = [[o \in OpKey |-> IF o \in ToSet(queue) THEN "Queued" ELSE marked[o]]
                            EXCEPT ![op] = "Processed"]
    BY DEF process_recorder_events, enqueued, mark_processed
  <2>8. ins \in Seq(OpKey) /\ ToSet(ins) = new \cup moved
    BY <2>1, <2>2, ConcatElements
  <2>9. queue \in Seq(OpKey) /\ ToSet(queue) = (new \cup moved) \cap Take
    <3> HIDE DEF ins, Take
    <3>1. QED
      BY <2>8, FilteredLemma
  <2>10. \A o \in OpKey : marked[o] = IF o \in del THEN "Erased" ELSE IF o = op THEN "None" ELSE op_states[o]
    BY <1>2 DEF mark_erased, IInv, TypeOK
  <2>11. \A o \in OpKey : o \in Take <=> o \in wanted' /\ marked[o] \notin {"Erased", "Processed", "Queued"}
    BY DEF eligible
  <2> HIDE DEF op, ins, marked, Take, queue
  <2>12. \A o \in OpKey : op_states'[o] = IF o = op THEN "Processed"
                                          ELSE IF o \in ToSet(queue) THEN "Queued" ELSE marked[o]
    BY <1>2, <2>7
  <2>13. worklist' \in Seq(OpKey) /\ ToSet(worklist') = ToSet(Tail(worklist)) \cup ToSet(queue)
    <3>1. Tail(worklist) \in Seq(OpKey) /\ queue \in Seq(OpKey)
      BY <1>2, <2>9
    <3>2. worklist' = Tail(worklist) \o queue
      BY <2>7
    <3>3. /\ Tail(worklist) \o queue \in Seq(OpKey)
          /\ ToSet(Tail(worklist) \o queue) = ToSet(Tail(worklist)) \cup ToSet(queue)
      <4> DEFINE rest == Tail(worklist)
      <4>1. rest \in Seq(OpKey)
        BY <3>1
      <4>2. queue \in Seq(OpKey)
        BY <3>1
      <4> HIDE DEF rest
      <4>3. rest \o queue \in Seq(OpKey) /\ ToSet(rest \o queue) = ToSet(rest) \cup ToSet(queue)
        BY <4>1, <4>2, ConcatElements
      <4>4. QED
        BY <4>3 DEF rest
    <3>4. QED
      BY <3>2, <3>3
  <2>14. \A o \in OpKey : marked[o] \in States
    BY <2>10 DEF IInv, TypeOK, States
  <2>15. op_states' \in [OpKey -> States]
    <3>1. \A o \in OpKey : op_states'[o] \in States
      BY <2>12, <2>14 DEF States
    <3>2. op_states' = [o \in OpKey |-> op_states'[o]]
      BY <2>7
    <3>3. QED
      BY <3>1, <3>2
  <2>16. \A o \in OpKey : defs'[o] = IF o \in del THEN {} ELSE IF o \in new THEN ds ELSE Operands(o, op, heir)
    BY <2>5
  <2>17. \A o \in OpKey : Operands(o, op, heir) \subseteq defs[o] \cup heir
    BY DEF Operands
  <2>18. known \subseteq OpKey /\ gone \subseteq OpKey /\ wanted \subseteq OpKey /\ \A o \in OpKey : defs[o] \subseteq OpKey
    BY DEF IInv, TypeOK
  <2>19. defs' \in [OpKey -> SUBSET OpKey]
    <3>1. \A o \in OpKey : defs'[o] \subseteq OpKey
      BY <1>2, <2>1, <2>3, <2>16, <2>17, <2>18
    <3>2. defs' = [o \in OpKey |-> defs'[o]]
      BY <2>5
    <3>3. QED
      BY <3>1, <3>2
  <2>20. TypeOK'
    <3>1. known' \subseteq OpKey /\ gone' \subseteq OpKey /\ wanted' \subseteq OpKey
      BY <1>2, <2>1, <2>4, <2>6, <2>18
    <3>2. QED
      BY <1>6, <2>13, <2>15, <2>19, <3>1 DEF TypeOK
  <2>21. IROK'
    <3>1. known' \cap gone' = {}
      BY <2>1, <2>6 DEF IInv, IROK
    <3>2. ASSUME NEW o \in known' PROVE defs'[o] \subseteq known' /\ IsFiniteSet(defs'[o])
      <4>1. o \in OpKey /\ o \notin del
        BY <2>1, <2>6, <2>18, <3>2
      <4>2. CASE o \in new
        <5>1. defs'[o] = ds /\ ds \subseteq defs[op] \ del
          BY <2>16, <4>1, <4>2
        <5>2. QED
          BY <1>3, <2>6, <5>1, FS_Subset DEF op
      <4>3. CASE o \notin new
        <5>1. o \in known \ del /\ defs'[o] = Operands(o, op, heir)
          BY <2>6, <2>16, <3>2, <4>1, <4>3
        <5>2. defs[o] \subseteq known /\ IsFiniteSet(defs[o])
          BY <5>1 DEF IInv, IROK
        <5>3. defs'[o] \subseteq (known \cup new) \ del
          BY <2>3, <2>4, <2>17, <4>1, <5>1, <5>2
        <5>4. IsFiniteSet(defs[o] \cup heir)
          BY <2>3, <5>2, FS_Union
        <5>5. QED
          BY <2>6, <2>17, <4>1, <5>1, <5>3, <5>4, FS_Subset
      <4>4. QED
        BY <4>2, <4>3
    <3>3. QED
      BY <3>1, <3>2 DEF IROK
  <2>22. StatesOK'
    <3>1. ASSUME NEW o \in OpKey, op_states'[o] = "Queued"
          PROVE  o \in known' /\ o \in ToSet(worklist')
      <4>1. o # op /\ (o \in ToSet(queue) \/ marked[o] = "Queued")
        BY <2>12, <3>1
      <4>2. CASE o \in ToSet(queue)
        <5>1. marked[o] # "Erased" /\ o \in new \cup moved
          BY <2>9, <2>11, <4>2
        <5>2. o \notin del
          BY <2>10, <5>1
        <5>3. QED
          BY <2>2, <2>6, <2>13, <4>2, <5>1, <5>2
      <4>3. CASE marked[o] = "Queued"
        <5>1. o \notin del /\ op_states[o] = "Queued"
          BY <2>10, <4>1, <4>3
        <5>2. o \in known /\ o \in ToSet(worklist)
          BY <5>1 DEF IInv, StatesOK
        <5>3. QED
          BY <1>2, <2>6, <2>13, <4>1, <5>1, <5>2 DEF op
      <4>4. QED
        BY <4>1, <4>2, <4>3
    <3>2. ASSUME NEW o \in OpKey \ (known' \cup gone') PROVE op_states'[o] = "None"
      <4>1. o \notin known /\ o \notin new /\ o \notin del /\ o \notin gone
        BY <2>6, <3>2
      <4>2. o # op /\ o \notin ToSet(queue)
        BY <1>3, <2>2, <2>9, <4>1 DEF op
      <4>3. op_states[o] = "None"
        BY <4>1 DEF IInv, StatesOK
      <4>4. QED
        BY <2>10, <2>12, <4>1, <4>2, <4>3
    <3>3. ASSUME NEW o \in ToSet(rewritten') PROVE op_states'[o] \in {"Processed", "Erased"}
      <4>1. o = op \/ (o \in ToSet(rewritten) /\ o \in OpKey /\ o # op)
        BY <1>6, <3>3 DEF op
      <4>2. CASE o = op
        BY <1>2, <2>12, <4>2 DEF op
      <4>3. CASE o \in ToSet(rewritten) /\ o \in OpKey /\ o # op
        <5>1. op_states[o] \in {"Processed", "Erased"}
          BY <4>3 DEF IInv, StatesOK
        <5>2. marked[o] \in {"Processed", "Erased"}
          BY <2>10, <4>3, <5>1
        <5>3. o \notin ToSet(queue)
          BY <2>9, <2>11, <4>3, <5>2
        <5>4. QED
          BY <2>12, <4>3, <5>2, <5>3
      <4>4. QED
        BY <4>1, <4>2, <4>3
    <3>4. ASSUME NEW o \in known' \cap wanted', o \notin ToSet(rewritten')
          PROVE  op_states'[o] = "Queued"
      <4>1. o # op /\ o \in OpKey /\ o \notin del /\ o \notin ToSet(rewritten)
        BY <1>6, <2>1, <2>6, <2>18, <3>4 DEF op
      <4>2. CASE o \in new
        <5>1. op_states[o] = "None"
          BY <2>1, <4>1, <4>2 DEF IInv, StatesOK
        <5>2. o \in Take
          BY <2>10, <2>11, <3>4, <4>1, <5>1
        <5>3. QED
          BY <2>9, <2>12, <4>1, <4>2, <5>2
      <4>3. CASE o \notin new
        <5>1. o \in known /\ o \in wanted
          BY <2>6, <3>4, <4>1, <4>3
        <5>2. op_states[o] = "Queued"
          BY <4>1, <5>1 DEF IInv, StatesOK
        <5>3. QED
          BY <2>10, <2>12, <4>1, <5>2
      <4>4. QED
        BY <4>2, <4>3
    <3>5. QED
      BY <1>6, <3>1, <3>2, <3>3, <3>4 DEF StatesOK
  <2>23. QED
    BY <2>20, <2>21, <2>22
<1>8. QED
  BY <1>1, <1>2, <1>4, <1>5, <1>7 DEF IInv

LEMMA NextLemma == IInv /\ [Next]_dcVars => IInv'
<1> SUFFICES ASSUME IInv, [Next]_dcVars PROVE IInv'
  OBVIOUS
<1>1. CASE ConvertBlockArguments
  BY <1>1, BlockArgumentsStep
<1>2. CASE Skip
  BY <1>2, SkipStep
<1>3. CASE NoLongerConvertible
  BY <1>3, NoLongerConvertibleStep
<1>4. CASE Defer
  BY <1>4, DeferStep
<1>5. CASE Rewrite
  BY <1>5, RewriteStep
<1>6. CASE Fail
  BY <1>6, FailStep
<1>7. CASE UNCHANGED dcVars
  BY <1>7, StutterStep
<1>8. QED
  BY <1>1, <1>2, <1>3, <1>4, <1>5, <1>6, <1>7 DEF Next

THEOREM InductiveInvariant == Spec => []IInv
<1>1. Init => IInv
  BY InitLemma
<1>2. IInv /\ [Next]_dcVars => IInv'
  BY NextLemma
<1>3. QED
  BY <1>1, <1>2, PTL DEF Spec

\* Whatever a client's callbacks insert, move and erase, an operation whose state is
\* Queued is allocated and in the worklist, and no operation is rewritten twice.
THEOREM WorklistIsSound == Spec => []WorklistSound
<1>1. IInv => WorklistSound
  BY DEF IInv, StatesOK, WorklistSound
<1>2. QED
  BY <1>1, InductiveInvariant, PTL

\* When the driver ends, each convertible operation that exists has been given to the
\* client: one still to be rewritten is Queued, and the worklist is empty.
THEOREM EverythingConverted == Spec => []AllConverted
<1>1. IInv => AllConverted
  <2> SUFFICES ASSUME IInv, Finished PROVE known \cap wanted \subseteq ToSet(rewritten)
    BY DEF AllConverted
  <2>1. ToSet(worklist) = {}
    BY DEF Finished, ToSet
  <2>2. \A o \in known \cap wanted : o \in OpKey
    BY DEF IInv, TypeOK
  <2>3. QED
    BY <2>1, <2>2 DEF IInv, StatesOK
<1>2. QED
  BY <1>1, InductiveInvariant, PTL

\* No operation is looked at while a block that exists has unconverted arguments: a
\* block is noted as pending as long as it does.
THEOREM ArgumentsBeforeOperations == Spec => []ArgumentsFirst
<1>1. IInv => ArgumentsFirst
  BY DEF IInv, BlocksOK, ArgumentsFirst, Ready
<1>2. QED
  BY <1>1, InductiveInvariant, PTL

\* An operation is rewritten only when the definitions of its operands that are to be
\* converted have been.
THEOREM DefinitionsBeforeUses == Spec => DefsFirst
<1>1. IInv /\ [Next]_dcVars => [rewritten' # rewritten => DefsConverted(Last(rewritten'))]_dcVars
  <2> SUFFICES ASSUME IInv, Next, rewritten' # rewritten PROVE DefsConverted(Last(rewritten'))
    BY DEF dcVars
  <2>1. Rewrite
    BY DEF Next, ConvertBlockArguments, Skip, NoLongerConvertible, Defer, Fail
  <2>2. DefsConverted(Next_op) /\ rewritten' = Append(rewritten, Next_op) /\ Next_op \in OpKey
    BY <2>1, RewriteStep
  <2>3. rewritten \in Seq(OpKey)
    BY DEF IInv, TypeOK
  <2>4. Last(rewritten') = Next_op
    BY <2>2, <2>3, AppendProperties DEF Last
  <2>5. QED
    BY <2>2, <2>4
<1>2. QED
  BY <1>1, InductiveInvariant, PTL DEF Spec, DefsFirst

================================================================================
