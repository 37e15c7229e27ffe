---------------------------- MODULE NameTracker ----------------------------
(***************************************************************************)
(* Names while text is parsed (NameTracker, src/src/parsable.rs; its       *)
(* callers in region.rs, basic_block.rs and irfmt/parsers.rs).  A value or *)
(* a block may be used before it is defined: the use gets a placeholder    *)
(* that the definition replaces.  SSA names are scoped by regions whose    *)
(* operation is isolated from above, block labels by every region.         *)
(***************************************************************************)
EXTENDS Naturals, FiniteSets, SequencesExt

CONSTANTS Id,          \* identifiers
          Entity,      \* values and blocks
          UseSite,     \* operands and successors
          MaxRegions   \* bound: regions in the text

ASSUME EntityAssumption == Entity \cap UseSite = {}

VARIABLES tracker,   \* the NameTracker, the placeholders in the context, and what uses refer to
          open,      \* the regions around the place that is parsed, innermost last
          nests,     \* history: for each region the regions around it, itself last
          seen       \* history: the uses and definitions in the text, with their regions

ntVars == <<tracker, open, nests, seen>>
Kinds == {"ssa", "label"}

NTInit ==
    /\ tracker = [scopes |-> [k \in Kinds |-> <<>>],          \* ssa_name_scope, block_label_scope
                  forward |-> {},                             \* ForwardRefOps, and blocks not seen yet
                  refers |-> [u \in {} |-> 0],
                  outcome |-> "parsing"]
    /\ open = <<>> /\ nests = <<>> /\ seen = {}

Scope(t, k) == Last(t.scopes[k])
Put(t, k, id, e) ==
    LET scope == Scope(t, k)
    IN  [t EXCEPT !.scopes[k] = Append(Front(@), [n \in DOMAIN scope \cup {id} |-> IF n = id THEN e ELSE scope[n]])]

\* ssa_use, block_use: e is what a placeholder would be.
use(t, k, id, u, e) ==
    LET known == id \in DOMAIN Scope(t, k)
        there == IF known THEN t ELSE Put([t EXCEPT !.forward = @ \cup {e}], k, id, e)
    IN  [there EXCEPT !.refers = [v \in DOMAIN @ \cup {u} |-> IF v = u THEN Scope(there, k)[id] ELSE @[v]]]

\* Mutant: the uses of the placeholder are left behind.
define_KeepsUses(t, k, id, e) ==
    LET known == id \in DOMAIN Scope(t, k)
        old == IF known THEN Scope(t, k)[id] ELSE e
    IN  IF known /\ old \notin t.forward THEN [t EXCEPT !.outcome = "MultipleDefinitions"]
        ELSE [Put(t, k, id, e) EXCEPT !.forward = @ \ {old}]

\* ssa_def, block_def: the uses of a placeholder are redirected and it is erased.
define(t, k, id, e) ==
    LET known == id \in DOMAIN Scope(t, k)
        old == IF known THEN Scope(t, k)[id] ELSE e
    IN  IF known /\ old \notin t.forward THEN [t EXCEPT !.outcome = "MultipleDefinitions"]
        ELSE [Put(t, k, id, e) EXCEPT !.forward = @ \ {old},
                                      !.refers = [u \in DOMAIN @ |-> IF @[u] = old THEN e ELSE @[u]]]

Unresolved(t, k) == \E id \in DOMAIN Scope(t, k) : Scope(t, k)[id] \in t.forward

(***************************************************************************)
(* The parsers of regions, blocks and operations.                          *)
(***************************************************************************)
Parsing == tracker.outcome = "parsing"
Isolated(r) == Last(nests[r]).isolated
Used == DOMAIN tracker.refers
Allocated == tracker.forward \cup {x.what : x \in seen}
Note(what, k, id) == [what |-> what, kind |-> k, id |-> id, region |-> Last(open)]

\* Operations are parsed after the label of a block.
InBlock == open # <<>> /\ \E x \in seen : x.kind = "label" /\ x.region = Last(open) /\ x.what \in Entity

\* Region::parse begins: enter_region.
enter_region(isolated) ==
    /\ Parsing /\ Len(nests) < MaxRegions
    /\ IF open = <<>> THEN nests # <<>> => isolated ELSE InBlock     \* regions of one operation, or in it
    /\ IF ~ isolated /\ tracker.scopes["ssa"] = <<>>
       THEN tracker' = [tracker EXCEPT !.outcome = "TopLevelOpRegionNotIsolatedFromAbove"] /\ UNCHANGED <<open, nests>>
       ELSE /\ tracker' = [tracker EXCEPT !.scopes["ssa"] = IF isolated THEN Append(@, <<>>) ELSE @,
                                          !.scopes["label"] = Append(@, <<>>)]
            /\ nests' = Append(nests, (IF open = <<>> THEN <<>> ELSE nests[Last(open)])
                                      \o <<[region |-> Len(nests) + 1, isolated |-> isolated]>>)
            /\ open' = Append(open, Len(nests) + 1)
    /\ UNCHANGED seen

\* Region::parse ends: exit_region.  Labels are looked at only if the names are all resolved.
exit_region ==
    /\ Parsing /\ open # <<>>
    /\ LET kinds == IF Isolated(Last(open)) THEN Kinds ELSE {"label"}
       IN  tracker' = [tracker EXCEPT
               !.scopes = [k \in Kinds |-> IF k \in kinds THEN Front(@[k]) ELSE @[k]],
               !.outcome = IF \E k \in kinds : Unresolved(tracker, k) THEN "UnresolvedReference" ELSE @]
    /\ open' = Front(open)
    /\ UNCHANGED <<nests, seen>>

\* The arguments of a block are defined in order; the first error ends it.
Arguments(t, args) ==
    LET After[i \in 0..Len(args)] ==
            IF i = 0 THEN t
            ELSE IF After[i - 1].outcome = "parsing" THEN define(After[i - 1], "ssa", args[i][1], args[i][2])
            ELSE After[i - 1]
    IN  After[Len(args)]

\* BasicBlock::parse: the arguments, then the label.
parse_block(label, block, args) ==
    /\ Parsing /\ open # <<>> /\ block \notin Allocated
    /\ \A i \in DOMAIN args : args[i][2] \notin Allocated \cup {block}
    /\ \A i, j \in DOMAIN args : args[i][2] = args[j][2] => i = j
    /\ LET first == Arguments(tracker, args)
           arguments == {Note(args[i][2], "ssa", args[i][1]) : i \in DOMAIN args}
       IN  IF first.outcome = "parsing"
           THEN tracker' = define(first, "label", label, block) /\ seen' = seen \cup arguments \cup {Note(block, "label", label)}
           ELSE tracker' = first /\ seen' = seen \cup arguments
    /\ UNCHANGED <<open, nests>>

\* ssa_opd_parse, block_opd_parse: an operand or a successor of an operation.
parse_use(k, id, u, e) ==
    /\ Parsing /\ InBlock /\ u \notin Used /\ e \notin Allocated
    /\ tracker' = use(tracker, k, id, u, e)
    /\ seen' = seen \cup {Note(u, k, id)}
    /\ UNCHANGED <<open, nests>>

\* process_parsed_ssa_defs: a result, when the operation and its regions have been parsed.
parse_result(id, e) ==
    /\ Parsing /\ InBlock /\ e \notin Allocated
    /\ tracker' = define(tracker, "ssa", id, e)
    /\ seen' = seen \cup {Note(e, "ssa", id)}
    /\ UNCHANGED <<open, nests>>

\* The text ends with its top-level operation.
Finish ==
    /\ Parsing /\ open = <<>> /\ nests # <<>>
    /\ tracker' = [tracker EXCEPT !.outcome = "parsed"]
    /\ UNCHANGED <<open, nests, seen>>

\* Which key the arena gives to a new object makes no difference.
New(S) == IF S = {} THEN {} ELSE {CHOOSE x \in S : TRUE}
NewEntity == New(Entity \ Allocated)

NTNext ==
    \/ \E isolated \in BOOLEAN : enter_region(isolated)
    \/ exit_region
    \/ \E id \in Id, e \in NewEntity :
          \/ \E args \in {<<>>} \cup {<<a>> : a \in Id \X New(Entity \ (Allocated \cup {e}))} : parse_block(id, e, args)
          \/ \E k \in Kinds, u \in New(UseSite \ Used) : parse_use(k, id, u, e)
          \/ parse_result(id, e)
    \/ Finish

NTSpec == NTInit /\ [][NTNext]_ntVars

(***************************************************************************)
(* Properties                                                              *)
(***************************************************************************)

\* Reference: the region that scopes a name of the text.
ScopeOf(x) ==
    IF x.kind = "label" THEN x.region
    ELSE SelectLastInSeq(nests[x.region], LAMBDA n : n.isolated)
SsaRegion(x) == nests[x.region][ScopeOf(x)].region
SameName(x, y) ==
    /\ x.kind = y.kind /\ x.id = y.id
    /\ IF x.kind = "label" THEN x.region = y.region ELSE SsaRegion(x) = SsaRegion(y)

Definitions == {x \in seen : x.what \in Entity}
Uses == {x \in seen : x.what \in UseSite}
Meant(x) == {d.what : d \in {y \in Definitions : SameName(x, y)}}

\* Wherever in the text a name is used, before its definition, after it or around it, the use
\* ends up at the definition of that name in its scope; until then uses of one name share a
\* placeholder.  Text is rejected exactly if a name has two definitions, or a region ends with
\* a use in it that has none, and what is accepted has no placeholder left in it.
NamesResolve ==
    /\ tracker.outcome \in {"parsing", "parsed"} =>
          \A x \in Uses :
             /\ Meant(x) # {} => Meant(x) = {tracker.refers[x.what]}
             /\ Meant(x) = {} => /\ tracker.refers[x.what] \in tracker.forward
                                 /\ \A y \in Uses : tracker.refers[x.what] = tracker.refers[y.what] <=> SameName(x, y)
    /\ (\E x, y \in Definitions : x # y /\ SameName(x, y)) <=> tracker.outcome = "MultipleDefinitions"
    /\ tracker.outcome = "UnresolvedReference" => \E x \in Uses : Meant(x) = {}
    /\ tracker.outcome = "parsed" => tracker.forward = {}
=============================================================================
