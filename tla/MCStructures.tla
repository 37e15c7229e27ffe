---------------------------- MODULE MCStructures ----------------------------
(***************************************************************************)
(* The structures that everything is kept in, for TLC: the intrusive       *)
(* lists, the IR whose containers are such lists, the names of values,     *)
(* symbol tables, the store of unique objects, union-find, and the names   *)
(* of a text that is parsed.  A behaviour is one of one structure.  The    *)
(* keys of an arena are interchangeable.                                   *)
(***************************************************************************)
EXTENDS LinkedList, IR, SymbolTable, UniqueStore, UnionFind, GivenNames, NameTracker, TLC

VARIABLE part

smallVars == <<gnVars, stVars, usVars, ufVars, ntVars>>
structuresVars == <<part, listVars, irVars, smallVars>>

\* A choice that only one part looks at is left to that part.
StructuresInit ==
    /\ part \in {"lists", "ir", "names", "symbols", "store", "sets", "parser"}
    /\ Init /\ IRInit /\ GNInit /\ SymbolInit /\ UniqueInit /\ UFInit /\ NTInit
    /\ part # "symbols" => \A o \in SymbolOp : symbol_name[o] = CHOOSE n \in Name : TRUE
    /\ part # "store" => \A t \in Unique : hash[t] = CHOOSE h \in HashValue : TRUE

StructuresNext ==
    /\ \/ part = "lists" /\ Next /\ UNCHANGED <<irVars, smallVars>>
       \/ part = "ir" /\ IRNext /\ UNCHANGED <<listVars, smallVars>>
       \/ /\ UNCHANGED <<listVars, irVars>>
          /\ \/ part = "names" /\ GNNext /\ UNCHANGED <<stVars, usVars, ufVars, ntVars>>
             \/ part = "symbols" /\ SymbolNext /\ UNCHANGED <<gnVars, usVars, ufVars, ntVars>>
             \/ part = "store" /\ UniqueNext /\ UNCHANGED <<gnVars, stVars, ufVars, ntVars>>
             \/ part = "sets" /\ UFNext /\ UNCHANGED <<gnVars, stVars, usVars, ntVars>>
             \/ part = "parser" /\ NTNext /\ UNCHANGED <<gnVars, stVars, usVars, ufVars>>
    /\ UNCHANGED part
StructuresSpec == StructuresInit /\ [][StructuresNext]_structuresVars

Symmetry == Permutations(Op) \cup Permutations(Block) \cup Permutations(Region)
=============================================================================
