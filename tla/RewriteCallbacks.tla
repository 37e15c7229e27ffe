-------------------------- MODULE RewriteCallbacks --------------------------
(***************************************************************************)
(* What a client's rewrite callback may do between two steps of a driver   *)
(* (MatchRewrite::rewrite, src/src/irbuild/match_rewrite.rs, and           *)
(* DialectConversion::rewrite, dialect_conversion.rs).  The IR is reduced  *)
(* to what the drivers look at: which operations exist, which operations'  *)
(* results each one uses, and for which ones the client answers yes when   *)
(* asked (match, can_convert_op).  A callback makes its changes through    *)
(* the IRRewriter, whose Recorder tells the driver (module Rewriter:       *)
(* ListenerToldAll); the driver sees the operations inserted, in order,    *)
(* and the set of those erased.                                            *)
(***************************************************************************)
EXTENDS Naturals, FiniteSets, SequencesExt

CONSTANTS OpKey,                 \* keys of the arena of operations
          MaxErased              \* bound: operations that one callback erases

ASSUME MaxErasedAssumption == MaxErased \in Nat

VARIABLES known, gone,            \* operations allocated now, and erased
          defs,                  \* defs[o]: the operations whose results o uses
          wanted                 \* the operations that match or can be converted

clientVars == <<known, gone, defs, wanted>>

AtMostOne(S) == {{}} \cup {{x} : x \in S}

\* The elements of the sequence s that are in S, in their order.
Filtered(s, S) ==
    LET F[i \in 0..Len(s)] ==
            IF i = 0 THEN <<>> ELSE IF s[i] \in S THEN Append(F[i - 1], s[i]) ELSE F[i - 1]
    IN  F[Len(s)]

\* The operands of o after the uses of op have been given to its heir, if it has one.
Operands(o, op, heir) ==
    IF heir # {} /\ op \in defs[o] THEN (defs[o] \ {op}) \cup heir ELSE defs[o]

Users(op) == {o \in known : op \in defs[o]}

\* What a callback may erase: operations without a use when it has replaced op.
Erasable(op, new, heir) ==
    {del \in UNION {kSubset(k, known \cup new) : k \in 0..MaxErased} :
       \A o \in known \ del : Operands(o, op, heir) \cap del = {}}

\* Users of op whose operands have changed may no longer be wanted.
MayLose(op, heir) == IF heir = {} THEN {{}} ELSE AtMostOne(Users(op) \ {op})

\* A callback for op: inserts new operations, which use nothing or what op uses,
\* gives the uses of op to its heir, erases what has no use, leaves op and the new
\* operations wanted or not, and may make a user of op unwanted.
Callback(op, new, heir, del, keep, lost) ==
    /\ \E ds \in {{}, defs[op] \ del} :
          /\ new = {} => ds = {}
          /\ defs' = [o \in OpKey |-> CASE o \in del -> {} [] o \in new \ del -> ds
                                        [] OTHER -> Operands(o, op, heir)]
    /\ known' = (known \cup new) \ del
    /\ gone' = gone \cup del
    /\ wanted' = (wanted \ ({op} \cup del \cup lost)) \cup keep
=============================================================================
