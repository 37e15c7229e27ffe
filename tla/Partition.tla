------------------------------ MODULE Partition ------------------------------
(***************************************************************************)
(* What a union-find structure promises: a partition of the elements seen  *)
(* so far, whose parts only ever merge, and answers that agree with it.    *)
(***************************************************************************)
CONSTANT Elem

VARIABLES parts,   \* disjoint sets of elements
          answer   \* the answer to the last query

Init == parts = {} /\ answer = [members |-> {}]

\* An element that is met for the first time is a part of its own.
Met(new) == parts \cup {{v} : v \in new \ UNION parts}
PartOf(ps, v) == CHOOSE p \in ps : v \in p

Union(a, b) ==
    LET pa == PartOf(Met({a, b}), a)
        pb == PartOf(Met({a, b}), b)
    IN  parts' = (Met({a, b}) \ {pa, pb}) \cup {pa \cup pb} /\ answer' = answer

InSameSet(a, b) ==
    /\ parts' = Met({a, b})
    /\ answer' = [same |-> PartOf(parts', a) = PartOf(parts', b)]

SetMembers(v) == parts' = Met({v}) /\ answer' = [members |-> PartOf(parts', v)]

Next ==
    \/ \E a, b \in Elem : Union(a, b) \/ InSameSet(a, b)
    \/ \E v \in Elem : SetMembers(v)

Spec == Init /\ [][Next]_<<parts, answer>>
=============================================================================
