------------------------------ MODULE UnionFind ------------------------------
(***************************************************************************)
(* Union-find with path compression and union by size                      *)
(* (src/src/utils/union_find.rs), and the partition that it implements.    *)
(***************************************************************************)
EXTENDS Naturals, FiniteSets, SequencesExt, Functions

CONSTANT Elem

VARIABLES parent,    \* a forest over the elements seen so far
          members,   \* the members of each set, by its representative
          result     \* what the last query returned

ufVars == <<parent, members, result>>

UFInit == parent = <<>> /\ members = <<>> /\ result = [members |-> {}]

(***************************************************************************)
(* find, on a state s of the structure                                     *)
(***************************************************************************)

\* The ancestor of v that is n parents away, and the last one.
Ancestor(s, v, n) == LET Up[k \in 0..n] == IF k = 0 THEN v ELSE s.parent[Up[k - 1]] IN Up[n]
root(s, v) == Ancestor(s, v, Cardinality(DOMAIN s.parent))
Path(s, v) == {Ancestor(s, v, n) : n \in 0..Cardinality(DOMAIN s.parent)}

\* The state that find leaves: a new element is a singleton, and all on the way from an
\* old one to its root have the root as their parent.
find(s, v) ==
    IF v \notin DOMAIN s.parent
    THEN [parent |-> [x \in DOMAIN s.parent \cup {v} |-> IF x = v THEN v ELSE s.parent[x]],
          members |-> [x \in DOMAIN s.members \cup {v} |-> IF x = v THEN <<v>> ELSE s.members[x]]]
    ELSE [s EXCEPT !.parent = [x \in DOMAIN @ |-> IF x \in Path(s, v) THEN root(s, v) ELSE @[x]]]

Now == [parent |-> parent, members |-> members]
Becomes(s) == parent' = s.parent /\ members' = s.members

(***************************************************************************)
(* Operations                                                              *)
(***************************************************************************)

\* Mutant: it is b that gets a new parent, and not the representative of its set.
link_Elements(s, a, b) ==
    LET big == root(s, a)
        small == root(s, b)
    IN  [parent |-> [s.parent EXCEPT ![b] = big],
         members |-> [x \in DOMAIN s.members \ {small} |->
                         IF x = big THEN s.members[big] \o s.members[small] ELSE s.members[x]]]

\* Union by size of the sets of a and b, which are different ones.
link(s, a, b) ==
    LET ra == root(s, a)
        rb == root(s, b)
        larger == Len(s.members[ra]) >= Len(s.members[rb])
        big == IF larger THEN ra ELSE rb
        small == IF larger THEN rb ELSE ra
    IN  [parent |-> [s.parent EXCEPT ![small] = big],
         members |-> [x \in DOMAIN s.members \ {small} |->
                         IF x = big THEN s.members[big] \o s.members[small] ELSE s.members[x]]]

union(a, b) ==
    LET s == find(find(Now, a), b)
    IN  /\ Becomes(IF root(s, a) = root(s, b) THEN s ELSE link(s, a, b))
        /\ UNCHANGED result

in_same_set(a, b) ==
    LET s == find(find(Now, a), b)
    IN  Becomes(s) /\ result' = [same |-> root(s, a) = root(s, b)]

set_members(v) ==
    LET s == find(Now, v)
    IN  Becomes(s) /\ result' = [members |-> ToSet(s.members[root(s, v)])]

UFNext ==
    \/ \E a, b \in Elem : union(a, b) \/ in_same_set(a, b)
    \/ \E v \in Elem : set_members(v)

UFSpec == UFInit /\ [][UFNext]_ufVars

(***************************************************************************)
(* Properties                                                              *)
(***************************************************************************)

\* The parts are the lists of members; in_same_set answers from the parents.
Parts == {ToSet(members[v]) : v \in DOMAIN members}

Sets == INSTANCE Partition WITH parts <- Parts, answer <- result

\* Parents and lists of members, after any unions and compressions, are of one partition,
\* and the answers are right for it (union_find.rs).
ImplementsPartition == Sets!Spec
=============================================================================
