----------------------------- MODULE UniqueStore -----------------------------
(***************************************************************************)
(* Objects stored once (src/src/storage_uniquer.rs, and save and get of    *)
(* src/src/uniqued_any.rs).  An object is a value of a Rust type.  The     *)
(* store only grows; a map from hashes to indices finds what is in it, and *)
(* any two objects may have the same hash.                                 *)
(***************************************************************************)
EXTENDS Naturals, Sequences

CONSTANTS Type, Datum,   \* an object is a datum of a type
          HashValue

Unique == Type \X Datum

VARIABLES hash,               \* TypeValueHash of each object
          unique_store,       \* the objects, by index
          unique_stores_map,  \* the indices of the objects with a hash
          keys                \* history: what save was given and has returned

usVars == <<hash, unique_store, unique_stores_map, keys>>

UniqueInit ==
    /\ hash \in [Unique -> HashValue]
    /\ unique_store = <<>>
    /\ unique_stores_map = [h \in HashValue |-> <<>>]
    /\ keys = {}

\* Mutant: objects of different types are compared by their data.
eq_Untyped(t1, t2) == t1[2] = t2[2]

\* UniquedAny: as T, which the first is, and which the second may be or not.
eq(t1, t2) == t1 = t2

\* The positions of t among the indices that have its hash.
possible_matches(t) ==
    {k \in DOMAIN unique_stores_map[hash[t]] : eq(t, unique_store[unique_stores_map[hash[t]][k]])}

\* get_or_create_unique: the first index that has t ...
FindUnique(t) ==
    /\ \E k \in possible_matches(t) :
          /\ \A j \in possible_matches(t) : k <= j
          /\ keys' = keys \cup {<<t, unique_stores_map[hash[t]][k]>>}
    /\ UNCHANGED <<hash, unique_store, unique_stores_map>>

\* ... or a new one.
CreateUnique(t) ==
    /\ possible_matches(t) = {}
    /\ unique_store' = Append(unique_store, t)
    /\ unique_stores_map' = [unique_stores_map EXCEPT ![hash[t]] = Append(@, Len(unique_store) + 1)]
    /\ keys' = keys \cup {<<t, Len(unique_store) + 1>>}
    /\ UNCHANGED hash

UniqueNext == \E t \in Unique : FindUnique(t) \/ CreateUnique(t)

UniqueSpec == UniqueInit /\ [][UniqueNext]_usVars

(***************************************************************************)
(* Properties                                                              *)
(***************************************************************************)

UniqueTypeOK ==
    /\ hash \in [Unique -> HashValue]
    /\ unique_store \in Seq(Unique)
    /\ unique_stores_map \in [HashValue -> Seq(Nat)]
    /\ keys \subseteq Unique \X Nat

\* Through a key one gets the object that was saved under it, with its type, whatever
\* was saved since (get of uniqued_any.rs does not panic).
KeysHold == \A key \in keys : key[2] \in DOMAIN unique_store /\ unique_store[key[2]] = key[1]

\* Equal objects have equal keys, and so keys may be compared instead of objects.
OneKeyEach == \A key1, key2 \in keys : key1[1] = key2[1] <=> key1[2] = key2[2]

\* What makes these inductive: the store has each object once, and the map has each index,
\* under the hash of its object.
StoredOnce == \A i, j \in DOMAIN unique_store : unique_store[i] = unique_store[j] => i = j
MapIndexesStore ==
    /\ \A h \in HashValue : \A k \in DOMAIN unique_stores_map[h] : unique_stores_map[h][k] \in DOMAIN unique_store
    /\ \A i \in DOMAIN unique_store :
          LET h == hash[unique_store[i]] IN \E k \in DOMAIN unique_stores_map[h] : unique_stores_map[h][k] = i

\* storage_uniquer.rs: keys stay good, and equal keys are equal objects.
UniqueInv == UniqueTypeOK /\ KeysHold /\ OneKeyEach /\ StoredOnce /\ MapIndexesStore

=============================================================================
