---------------------------- MODULE SymbolTable ----------------------------
(***************************************************************************)
(* Symbol tables (src/src/symbol_table.rs): a map from names to the symbol *)
(* operations in the body of an operation, kept beside that body.  A       *)
(* collection builds the table of an operation when it is first asked for; *)
(* from then on the body changes through the table only, because nothing   *)
(* tells the table of other changes.                                       *)
(***************************************************************************)
EXTENDS Naturals, FiniteSets

CONSTANTS SymbolOp,         \* symbol operations
          Table,            \* operations that have a symbol table
          Name, Nowhere,
          Unbuilt, Erased   \* a table, and a parent, that is not there

ASSUME SymbolAssumption == Nowhere \notin Table /\ Erased \notin Table

VARIABLES symbol_name,    \* get_symbol_name of each operation
          symbol_parent,  \* the operation each is in the body of
          symbol_tables,  \* the table of each Table that has been built
          refused         \* history: the insertions <<t, o>> that returned an error

stVars == <<symbol_name, symbol_parent, symbol_tables, refused>>

SymbolInit ==
    /\ symbol_name \in [SymbolOp -> Name]
    /\ symbol_parent = [o \in SymbolOp |-> Nowhere]
    /\ symbol_tables = [t \in Table |-> Unbuilt]
    /\ refused = {}

Body(t) == {o \in SymbolOp : symbol_parent[o] = t}
Built(t) == symbol_tables[t] # Unbuilt
Entry(t, n) == symbol_tables[t][n]
Entries(t) == DOMAIN symbol_tables[t]

\* The table is built; two symbols with one name are a panic.
get_symbol_table(t) ==
    /\ ~Built(t)
    /\ \A o, p \in Body(t) : symbol_name[o] = symbol_name[p] => o = p
    /\ symbol_tables' = [symbol_tables EXCEPT ![t] =
                            [n \in {symbol_name[o] : o \in Body(t)} |-> CHOOSE o \in Body(t) : symbol_name[o] = n]]
    /\ UNCHANGED <<symbol_name, symbol_parent, refused>>

\* Whether insert returns an error.  An operation that is in the body already is fine;
\* one that is in none goes to the insertion point, or to the end.
Refuses(t, o, insert_pt) ==
    \/ symbol_name[o] \in Entries(t)
    \/ symbol_parent[o] \in Table \ {t}
    \/ symbol_parent[o] = Nowhere /\ insert_pt \notin {t, Nowhere}

\* insert: into the map before anything else.  insert_pt is the operation around the
\* insertion point, or Nowhere; it need not be the one of the table.
insert(t, o, insert_pt) ==
    /\ Built(t) /\ symbol_parent[o] # Erased
    /\ symbol_tables' = [symbol_tables EXCEPT ![t] =
                            [n \in Entries(t) \cup {symbol_name[o]} |-> IF n = symbol_name[o] THEN o ELSE Entry(t, n)]]
    /\ IF Refuses(t, o, insert_pt)
       THEN refused' = refused \cup {<<t, o>>} /\ UNCHANGED symbol_parent
       ELSE symbol_parent' = [symbol_parent EXCEPT ![o] = t] /\ UNCHANGED refused
    /\ UNCHANGED symbol_name

\* Mutant: an operation in any table will do.
Removable_Anywhere(t, o) == symbol_parent[o] \in Table

\* Otherwise remove returns an error.
Removable(t, o) == symbol_parent[o] = t

\* remove leaves the operation unlinked, erase erases it.
remove(t, o, to) ==
    /\ Built(t) /\ Removable(t, o)
    /\ symbol_tables' = [symbol_tables EXCEPT ![t] = [n \in Entries(t) \ {symbol_name[o]} |-> Entry(t, n)]]
    /\ symbol_parent' = [symbol_parent EXCEPT ![o] = to]
    /\ UNCHANGED <<symbol_name, refused>>

\* A client builds the body before the table.
Link(t, o) ==
    /\ ~Built(t) /\ symbol_parent[o] = Nowhere
    /\ symbol_parent' = [symbol_parent EXCEPT ![o] = t]
    /\ UNCHANGED <<symbol_name, symbol_tables, refused>>

SymbolNext ==
    \E t \in Table :
        \/ get_symbol_table(t)
        \/ \E o \in SymbolOp : \/ Link(t, o)
                         \/ \E insert_pt \in Table \cup {Nowhere} : insert(t, o, insert_pt)
                         \/ \E to \in {Nowhere, Erased} : remove(t, o, to)

SymbolSpec == SymbolInit /\ [][SymbolNext]_stVars

(***************************************************************************)
(* Properties                                                              *)
(***************************************************************************)

\* Whatever was inserted, refused and removed (symbol_table.rs): a name has one symbol in
\* the body of a built table and an entry; the entry is that symbol, and no name has an
\* entry without a symbol, unless an insertion with this name was refused.
SymbolsAgree ==
    \A t \in {u \in Table : Built(u)} :
        /\ \A o \in Body(t) : symbol_name[o] \in Entries(t)
        /\ \A o, p \in Body(t) : symbol_name[o] = symbol_name[p] => o = p
        /\ \A n \in Entries(t) : symbol_name[Entry(t, n)] = n
                                 /\ (Entry(t, n) \in Body(t) \/ <<t, Entry(t, n)>> \in refused)

\* "inserting into and erasing from this [SymbolTable] will also insert and erase from the
\* Operation given to it at construction" (the comment on SymbolTable, symbol_table.rs):
\* what the table finds is in the operation.
InsertsIntoBoth ==
    \A t \in {u \in Table : Built(u)} : \A n \in Entries(t) : Entry(t, n) \in Body(t)
=============================================================================
