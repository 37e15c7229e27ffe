----------------------------- MODULE GivenNames -----------------------------
(***************************************************************************)
(* Names of results and block arguments (src/src/builtin/given_names.rs):  *)
(* an attribute of the operation or block, a vector of optional names      *)
(* beside the vector of its values.  Values are inserted and removed at    *)
(* any index, and the names have to move with them.                        *)
(***************************************************************************)
EXTENDS Naturals, SequencesExt

CONSTANTS Val,        \* value uids
          Identifier, \* the names that can be given
          Holder,     \* an operation with results, a block with arguments
          Unnamed     \* the absent name

VARIABLES held,    \* held[e]: the results or arguments of e
          names,   \* names[e]: its GivenNamesAttr, <<>> when it has no such attribute
          given    \* history: the name each value was given

gnVars == <<held, names, given>>

GNInit ==
    /\ held = [e \in Holder |-> <<>>]
    /\ names = [e \in Holder |-> <<>>]
    /\ given = [v \in Val |-> Unnamed]

(***************************************************************************)
(* GivenNamesAttr, and its entry in the dictionary of attributes           *)
(***************************************************************************)

grow_to(s, n) == s \o [i \in 1..(IF n > Len(s) THEN n - Len(s) ELSE 0) |-> Unnamed]

\* An attribute without any name is taken out.
IfAnySet(s) == IF \E i \in DOMAIN s : s[i] # Unnamed THEN s ELSE <<>>

get(s, i) == IF i \in DOMAIN s THEN s[i] ELSE Unnamed
get_name(e, i) == get(names[e], i)

set_name(s, i, name) ==
    IF s = <<>> /\ name = Unnamed THEN <<>> ELSE IfAnySet([grow_to(s, i) EXCEPT ![i] = name])

insert_name(s, i, name) ==
    IF s = <<>> /\ name = Unnamed THEN <<>> ELSE IfAnySet(InsertAt(grow_to(s, i - 1), i, name))

\* Mutant: the name goes, its place stays.
remove_name_InPlace(s, i) == IF i \in DOMAIN s THEN IfAnySet([s EXCEPT ![i] = Unnamed]) ELSE s

remove_name(s, i) == IF i \in DOMAIN s THEN IfAnySet(RemoveAt(s, i)) ELSE s

(***************************************************************************)
(* Operations and blocks                                                   *)
(***************************************************************************)

Held == UNION {ToSet(held[e]) : e \in Holder}

\* push_result, push_argument.
push_value(e, v) ==
    /\ v \notin Held
    /\ held' = [held EXCEPT ![e] = Append(@, v)]
    /\ given' = [given EXCEPT ![v] = Unnamed]
    /\ UNCHANGED names

\* insert_result, insert_argument.
insert_value(e, i, v) ==
    /\ v \notin Held
    /\ held' = [held EXCEPT ![e] = InsertAt(@, i, v)]
    /\ names' = [names EXCEPT ![e] = insert_name(@, i, Unnamed)]
    /\ given' = [given EXCEPT ![v] = Unnamed]

\* remove_result, remove_argument, and pop_* with the last index.
remove_value(e, i) ==
    /\ names' = [names EXCEPT ![e] = remove_name(@, i)]
    /\ held' = [held EXCEPT ![e] = RemoveAt(@, i)]
    /\ UNCHANGED given

\* Value::set_name.
set_value_name(e, i, name) ==
    /\ names' = [names EXCEPT ![e] = set_name(@, i, name)]
    /\ given' = [given EXCEPT ![held[e][i]] = name]
    /\ UNCHANGED held

\* A value that replaces another one takes over its name, if it has none.
replace_value_uses_with(e, i, f, j) ==
    /\ <<e, i>> # <<f, j>> /\ get_name(f, j) = Unnamed
    /\ set_value_name(f, j, get_name(e, i))

\* All names below an operation are set to none, one by one.
names_erased(s, n) ==
    LET F[i \in 0..n] == IF i = 0 THEN s ELSE set_name(F[i - 1], i, Unnamed)
    IN  F[n]

erase_given_names ==
    /\ names' = [e \in Holder |-> names_erased(names[e], Len(held[e]))]
    /\ given' = [v \in Val |-> IF v \in Held THEN Unnamed ELSE given[v]]
    /\ UNCHANGED held

GNNext ==
    \/ \E e \in Holder, v \in Val : push_value(e, v) \/ \E i \in 1..(Len(held[e]) + 1) : insert_value(e, i, v)
    \/ \E e \in Holder : \E i \in DOMAIN held[e] :
          \/ remove_value(e, i)
          \/ \E name \in Identifier \cup {Unnamed} : set_value_name(e, i, name)
          \/ \E f \in Holder : \E j \in DOMAIN held[f] : replace_value_uses_with(e, i, f, j)
    \/ erase_given_names

GNSpec == GNInit /\ [][GNNext]_gnVars

(***************************************************************************)
(* Properties                                                              *)
(***************************************************************************)

\* Every value has the name it was given last, wherever it has moved since, and a value
\* that is added later does not find a name left behind by an earlier one; an attribute
\* is there only while there is a name in it (given_names.rs).
NamesFollow ==
    \A e \in Holder :
        /\ \A i \in DOMAIN held[e] : get_name(e, i) = given[held[e][i]]
        /\ names[e] # <<>> => \E i \in DOMAIN held[e] : given[held[e][i]] # Unnamed
=============================================================================
