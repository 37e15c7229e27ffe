------------------------------- MODULE IRProofs -------------------------------
(***************************************************************************)
(* Proofs about the IR of a Context, for any number of operations, blocks  *)
(* and regions, and of operands: nesting is a forest of allocated objects  *)
(* with consistent parents, and no allocated operation uses a freed        *)
(* definition when callers respect the scope of nested definitions.        *)
(***************************************************************************)
EXTENDS IR, SeqLemmas

(***************************************************************************)
(* What is contained in an object: the least set that has it and, with an  *)
(* object, its children.                                                   *)
(***************************************************************************)
Closed(T) == \A y \in T : Children(y) \subseteq T

Least(S) == {y \in Object : \A T \in SUBSET Object : S \subseteq T /\ Closed(T) => y \in T}

WithChildren(S) == S \cup UNION {Children(y) : y \in S}

Below(f) == [S \in SUBSET Object |->
               LET more == S \cup UNION {Children(y) : y \in S}
               IN  IF more = S THEN S ELSE f[more]]

\* A list is of one kind of object.
ChildrenOK ==
    /\ \A x \in Object : Children(x) \subseteq Object
    /\ \A o \in Op : Children(o) = Elems(regions[o]) /\ Elems(regions[o]) \subseteq Region
    /\ \A r \in Region : Children(r) = Elems(blocks[r]) /\ Elems(blocks[r]) \subseteq Block
    /\ \A b \in Block : Children(b) = Elems(ops[b]) /\ Elems(ops[b]) \subseteq Op

LEMMA ChildrenType == IRTypeOK => ChildrenOK
<1> SUFFICES ASSUME IRTypeOK PROVE ChildrenOK
  OBVIOUS
<1>1. \A o \in Op : Elems(regions[o]) \subseteq Region
  BY DEF IRTypeOK, Elems
<1>2. \A r \in Region : Elems(blocks[r]) \subseteq Block
  BY DEF IRTypeOK, Elems
<1>3. \A b \in Block : Elems(ops[b]) \subseteq Op
  BY DEF IRTypeOK, Elems
<1>4. \A o \in Op : Children(o) = Elems(regions[o])
  BY DEF Children
<1>5. \A r \in Region : Children(r) = Elems(blocks[r])
  BY IRAssumption DEF Children
<1>6. \A b \in Block : Children(b) = Elems(ops[b])
  BY IRAssumption DEF Children
<1>7. QED
  BY <1>1, <1>2, <1>3, <1>4, <1>5, <1>6 DEF Object, ChildrenOK

LEMMA ObjectsFinite == IsFiniteSet(Object)
  BY IRAssumption, FS_Union DEF Object

\* The least closed set: closing a set with the children of its elements does not
\* change it, and a closed set is its own.
LEMMA LeastLemma ==
    ASSUME IRTypeOK, NEW S \in SUBSET Object
    PROVE  /\ WithChildren(S) \in SUBSET Object /\ S \subseteq WithChildren(S)
           /\ WithChildren(S) = S => Least(S) = S
           /\ Least(WithChildren(S)) = Least(S)
<1>1. WithChildren(S) \in SUBSET Object /\ S \subseteq WithChildren(S)
  BY ChildrenType DEF ChildrenOK, WithChildren
<1>2. ASSUME WithChildren(S) = S PROVE Least(S) = S
  <2>1. Closed(S)
    BY <1>2 DEF WithChildren, Closed
  <2>2. QED
    BY <2>1 DEF Least
<1>3. \A T \in SUBSET Object : Closed(T) => (S \subseteq T <=> WithChildren(S) \subseteq T)
  BY DEF Closed, WithChildren
<1>4. Least(WithChildren(S)) = Least(S)
  BY <1>3 DEF Least
<1>5. QED
  BY <1>1, <1>2, <1>4

\* The recursion of dealloc_sub_objects visits the least closed set.
LEMMA ContainedIsLeast ==
    ASSUME IRTypeOK, NEW x \in Object
    PROVE  Contained(x) = Least({x})
<1> DEFINE L == [S \in SUBSET Object |-> Least(S)]
           below == CHOOSE f : f = Below(f)
<1>1. L = Below(L)
  <2>1. \A S \in SUBSET Object : L[S] = IF WithChildren(S) = S THEN S ELSE L[WithChildren(S)]
    BY LeastLemma
  <2>2. \A S \in SUBSET Object : Below(L)[S] = IF WithChildren(S) = S THEN S ELSE L[WithChildren(S)]
    BY DEF Below, WithChildren
  <2>3. L = [S \in SUBSET Object |-> L[S]] /\ Below(L) = [S \in SUBSET Object |-> Below(L)[S]]
    BY DEF Below
  <2> HIDE DEF L
  <2>4. QED
    BY <2>1, <2>2, <2>3
<1>2. below = Below(below)
  <2> DEFINE P(f) == f = Below(f)
  <2>1. \E f : P(f)
    BY <1>1, Zenon
  <2>2. P(CHOOSE f : P(f))
    <3> HIDE DEF P
    <3>1. QED
      BY <2>1, Zenon
  <2>3. QED
    BY <2>2, Zenon
<1>3. Contained(x) = below[{x}]
  BY Zenon DEF Contained, Below
<1> HIDE DEF below, L
<1>4. \A S \in SUBSET Object : below[S] = IF WithChildren(S) = S THEN S ELSE below[WithChildren(S)]
  <2>1. \A S \in SUBSET Object : Below(below)[S] = IF WithChildren(S) = S THEN S ELSE below[WithChildren(S)]
    BY DEF Below, WithChildren
  <2>2. QED
    BY <1>2, <2>1
<1>5. \A S \in SUBSET Object : below[S] = Least(S)
  <2> DEFINE Ok(U) == below[Object \ U] = Least(Object \ U)
             B == {U \in SUBSET Object : ~ Ok(U)}
             R == StrictSubsetOrdering(Object)
  <2>1. SUFFICES ASSUME B # {} PROVE FALSE
    <3>1. \A S \in SUBSET Object : Object \ S \in SUBSET Object /\ Object \ (Object \ S) = S
      OBVIOUS
    <3>2. ASSUME NEW S \in SUBSET Object, B = {} PROVE below[S] = Least(S)
      <4>1. Ok(Object \ S)
        <5> HIDE DEF Ok
        <5>1. QED
          BY <3>1, <3>2
      <4>2. QED
        BY <3>1, <4>1
    <3>3. QED
      BY <3>2
  <2>2. PICK U \in B : \A V \in B : ~ (<<V, U>> \in R)
    <3>1. IsWellFoundedOn(R, SUBSET Object)
      BY FS_StrictSubsetOrderingWellFounded, FS_FiniteSubsetsOfFinite, ObjectsFinite
    <3>2. B \subseteq SUBSET Object
      OBVIOUS
    <3> HIDE DEF B, R
    <3>3. QED
      BY <2>1, <3>1, <3>2, WFMin
  <2>3. U \in SUBSET Object /\ ~ Ok(U)
    <3> HIDE DEF Ok
    <3>1. QED
      OBVIOUS
  <2> DEFINE S == Object \ U
             V == Object \ WithChildren(S)
  <2>4. S \in SUBSET Object /\ below[S] # Least(S)
    BY <2>3
  <2>5. /\ WithChildren(S) \in SUBSET Object /\ S \subseteq WithChildren(S)
        /\ WithChildren(S) = S => Least(S) = S
        /\ Least(WithChildren(S)) = Least(S)
    <3> HIDE DEF S
    <3>1. QED
      BY <2>4, LeastLemma
  <2>6. WithChildren(S) # S /\ below[S] = below[WithChildren(S)]
    <3> HIDE DEF S
    <3>1. QED
      BY <1>4, <2>4, <2>5
  <2>7. V \in SUBSET Object /\ V \subseteq U /\ V # U /\ Object \ V = WithChildren(S)
    <3> DEFINE W == WithChildren(S)
    <3>1. W \in SUBSET Object /\ Object \ U \subseteq W /\ W # Object \ U
      BY <2>5, <2>6
    <3> HIDE DEF W
    <3>2. Object \ W \subseteq U /\ Object \ W # U /\ Object \ (Object \ W) = W
      BY <2>3, <3>1
    <3>3. QED
      BY <3>2 DEF W
  <2>8. <<V, U>> \in R
    BY <2>3, <2>7 DEF StrictSubsetOrdering
  <2>9. Ok(V)
    <3>1. V \notin B
      BY <2>2, <2>8
    <3> HIDE DEF Ok
    <3>2. QED
      BY <2>7, <3>1
  <2>10. below[WithChildren(S)] = Least(WithChildren(S))
    <3>1. below[Object \ V] = Least(Object \ V)
      BY <2>9
    <3> HIDE DEF V
    <3>2. QED
      BY <2>7, <3>1
  <2>11. QED
    <3> HIDE DEF S
    <3>1. QED
      BY <2>4, <2>5, <2>6, <2>10
<1>6. QED
  BY <1>3, <1>5

ContainedOK ==
    \A x \in Object :
       /\ x \in Contained(x) /\ Contained(x) \subseteq Object /\ Closed(Contained(x))
       /\ \A T \in SUBSET Object : x \in T /\ Closed(T) => Contained(x) \subseteq T

LEMMA ContainedLemma == IRTypeOK => ContainedOK
<1> SUFFICES ASSUME IRTypeOK, NEW x \in Object
             PROVE  /\ x \in Contained(x) /\ Contained(x) \subseteq Object /\ Closed(Contained(x))
                    /\ \A T \in SUBSET Object : x \in T /\ Closed(T) => Contained(x) \subseteq T
  BY DEF ContainedOK
<1>1. \A y \in Least({x}) : Children(y) \subseteq Least({x})
  BY ChildrenType DEF ChildrenOK, Least, Closed
<1>2. /\ x \in Least({x}) /\ Least({x}) \subseteq Object /\ Closed(Least({x}))
      /\ \A T \in SUBSET Object : x \in T /\ Closed(T) => Least({x}) \subseteq T
  BY <1>1 DEF Least, Closed
<1>3. Contained(x) = Least({x})
  BY ContainedIsLeast
<1>4. QED
  BY <1>2, <1>3

\* The same in the next state.
LEMMA NextStateLemma == IRTypeOK' => ChildrenOK' /\ ContainedOK'
<1>1. IRTypeOK => ChildrenOK /\ ContainedOK
  BY ChildrenType, ContainedLemma
<1>2. QED
  BY <1>1, PTL

(***************************************************************************)
(* The lists.                                                              *)
(***************************************************************************)
LEMMA ElemsToSet ==
    ASSUME NEW E, NEW s \in Seq(E)
    PROVE  Elems(s) = ToSet(s) /\ Elems(s) \subseteq E
  BY DEF Elems, ToSet

LEMMA RetainedElements ==
    ASSUME NEW E, NEW s \in Seq(E), NEW S
    PROVE  /\ Retained(s, S) \in Seq(E) /\ Elems(Retained(s, S)) = Elems(s) \cap S
           /\ IsInjective(s) => IsInjective(Retained(s, S))
<1>1. /\ Retained(s, S) \in Seq(E) /\ ToSet(Retained(s, S)) = ToSet(s) \cap S
      /\ IsInjective(s) => IsInjective(Retained(s, S))
  BY FilteredElements, Zenon DEF Retained, Filtering
<1>2. Elems(Retained(s, S)) = ToSet(Retained(s, S)) /\ Elems(s) = ToSet(s)
  BY <1>1, ElemsToSet
<1>3. QED
  BY <1>1, <1>2

LEMMA AppendElems ==
    ASSUME NEW E, NEW s \in Seq(E), NEW e \in E
    PROVE  /\ Append(s, e) \in Seq(E) /\ Elems(Append(s, e)) = Elems(s) \cup {e}
           /\ IsInjective(s) /\ e \notin Elems(s) => IsInjective(Append(s, e))
<1>1. Append(s, e) \in Seq(E) /\ ToSet(Append(s, e)) = ToSet(s) \cup {e}
  BY AppendProperties, AppendedElements
<1>2. IsInjective(s) /\ e \notin ToSet(s) => IsInjective(Append(s, e))
  BY AppendedInjective
<1>3. Elems(s) = ToSet(s) /\ Elems(Append(s, e)) = ToSet(Append(s, e))
  BY <1>1, ElemsToSet
<1>4. QED
  BY <1>1, <1>2, <1>3

LEMMA InsertElems ==
    ASSUME NEW E, NEW s \in Seq(E), NEW i \in 1..(Len(s) + 1), NEW e \in E
    PROVE  /\ InsertAt(s, i, e) \in Seq(E) /\ Elems(InsertAt(s, i, e)) = Elems(s) \cup {e}
           /\ IsInjective(s) /\ e \notin Elems(s) => IsInjective(InsertAt(s, i, e))
  BY ElemsToSet, InsertAtElements

\* Vec::swap_remove takes one element out of a list without repetitions.
LEMMA SwapRemoveElems ==
    ASSUME NEW E, NEW s \in Seq(E), NEW i \in 1..Len(s), IsInjective(s)
    PROVE  /\ swap_remove(s, i) \in Seq(E) /\ Elems(swap_remove(s, i)) = Elems(s) \ {s[i]}
           /\ IsInjective(swap_remove(s, i))
<1> DEFINE n == Len(s)
           u == [s EXCEPT ![i] = s[n]]
           t == swap_remove(s, i)
<1>1. n \in Nat /\ n >= 1 /\ s[n] \in E /\ DOMAIN s = 1..n /\ i \in 1..n
  OBVIOUS
<1>2. \A j, k \in 1..n : s[j] = s[k] => j = k
  BY <1>1 DEF IsInjective
<1>3. u \in Seq(E) /\ Len(u) = n /\ \A j \in 1..n : u[j] = IF j = i THEN s[n] ELSE s[j]
  BY <1>1, ExceptSeq
<1> HIDE DEF u
<1>4. /\ t \in Seq(E) /\ Len(t) = n - 1
      /\ \A j \in 1..(n - 1) : t[j] = u[j]
  <2>1. t = SubSeq(u, 1, n - 1)
    BY DEF swap_remove, u
  <2>2. \A j \in 1..(n - 1) : u[j] \in E
    BY <1>1, <1>3
  <2>3. /\ SubSeq(u, 1, n - 1) \in Seq(E)
        /\ Len(SubSeq(u, 1, n - 1)) = IF 1 <= n - 1 THEN (n - 1) - 1 + 1 ELSE 0
        /\ \A j \in 1..((n - 1) - 1 + 1) : SubSeq(u, 1, n - 1)[j] = u[1 + j - 1]
    BY <1>1, <2>2, SubSeqProperties
  <2> HIDE DEF t, n
  <2>4. QED
    BY <1>1, <2>1, <2>3
<1> HIDE DEF t, n
<1>5. \A j \in 1..(n - 1) : t[j] = IF j = i THEN s[n] ELSE s[j]
  BY <1>1, <1>3, <1>4
<1>6. DOMAIN t = 1..(n - 1) /\ Elems(t) = {t[j] : j \in 1..(n - 1)} /\ Elems(s) = {s[j] : j \in 1..n}
  BY <1>4 DEF Elems, n
<1>7. ASSUME NEW j \in 1..(n - 1) PROVE t[j] \in Elems(s) \ {s[i]}
  <2>1. CASE j = i
    <3>1. t[j] = s[n] /\ n # i /\ n \in 1..n /\ i \in 1..n
      BY <1>1, <1>5, <2>1
    <3>2. QED
      BY <1>2, <1>6, <3>1
  <2>2. CASE j # i
    <3>1. t[j] = s[j] /\ j \in 1..n /\ i \in 1..n
      BY <1>1, <1>5, <2>2
    <3>2. QED
      BY <1>2, <1>6, <2>2, <3>1
  <2>3. QED
    BY <2>1, <2>2
<1>8. ASSUME NEW j \in 1..n, j # i PROVE s[j] \in Elems(t)
  <2>1. CASE j = n
    <3>1. i \in 1..(n - 1) /\ t[i] = s[n]
      BY <1>1, <1>5, <1>8, <2>1
    <3>2. QED
      BY <1>6, <2>1, <3>1
  <2>2. CASE j # n
    <3>1. j \in 1..(n - 1) /\ t[j] = s[j]
      BY <1>1, <1>5, <1>8, <2>2
    <3>2. QED
      BY <1>6, <3>1
  <2>3. QED
    BY <2>1, <2>2
<1>9. Elems(t) = Elems(s) \ {s[i]}
  <2>1. Elems(t) \subseteq Elems(s) \ {s[i]}
    BY <1>6, <1>7
  <2>2. Elems(s) \ {s[i]} \subseteq Elems(t)
    BY <1>6, <1>8
  <2>3. QED
    BY <2>1, <2>2
<1>10. ASSUME NEW j \in 1..(n - 1), NEW k \in 1..(n - 1), t[j] = t[k] PROVE j = k
  <2>1. j \in 1..n /\ k \in 1..n /\ n \in 1..n /\ j # n /\ k # n
    BY <1>1
  <2>2. t[j] = (IF j = i THEN s[n] ELSE s[j]) /\ t[k] = (IF k = i THEN s[n] ELSE s[k])
    BY <1>5
  <2>3. QED
    BY <1>2, <1>10, <2>1, <2>2
<1>11. QED
  BY <1>4, <1>6, <1>9, <1>10 DEF IsInjective, t

(***************************************************************************)
(* The invariant.                                                          *)
(***************************************************************************)
ChildrenLive == \A x \in Object : Children(x) \subseteq live /\ (x \notin live => Children(x) = {})
OneParent == \A x, y, z \in Object : z \in Children(x) /\ z \in Children(y) => x = y
OnceInList ==
    /\ \A o \in Op : IsInjective(regions[o])
    /\ \A b \in Block : IsInjective(ops[b])
    /\ \A r \in Region : IsInjective(blocks[r])
Acyclic == \A x \in Object : \A y \in Children(x) : x \notin Contained(y)

NestOK == ChildrenLive /\ OneParent /\ Acyclic

IInv == IRTypeOK /\ NoDanglingUse /\ NestOK /\ OnceInList /\ RegionsOwned

\* A step that adds at most the edge from p to c to the nesting, where p is not
\* contained in c, makes no cycle.
LEMMA EdgeAdded ==
    ASSUME IRTypeOK, IRTypeOK', Acyclic,
           NEW p \in Object, NEW c \in Object, p \notin Contained(c),
           \A z \in Object : Children(z)' \subseteq Children(z) \cup (IF z = p THEN {c} ELSE {})
    PROVE  Acyclic'
<1>1. ContainedOK /\ ContainedOK' /\ ChildrenOK /\ ChildrenOK'
  BY ChildrenType, ContainedLemma, NextStateLemma
<1>2. ASSUME NEW T \in SUBSET Object, Closed(T), c \in T \/ p \notin T
      PROVE  Closed(T)'
  BY <1>2 DEF Closed
<1>3. ASSUME NEW y \in Object, NEW T \in SUBSET Object, y \in T, Closed(T), c \in T \/ p \notin T
      PROVE  Contained(y)' \subseteq T
  <2>1. Closed(T)'
    BY <1>2, <1>3
  <2>2. QED
    BY <1>1, <1>3, <2>1 DEF ContainedOK
<1>4. /\ \A y \in Object : y \in Contained(y) /\ Contained(y) \in SUBSET Object /\ Closed(Contained(y))
      /\ \A y \in Object : \A T \in SUBSET Object : y \in T /\ Closed(T) => Contained(y) \subseteq T
  BY <1>1 DEF ContainedOK
<1>5. Contained(c)' \subseteq Contained(c)
  BY <1>3, <1>4
<1>6. ASSUME NEW x \in Object, NEW y \in Children(x)', x \in Contained(y)'
      PROVE  FALSE
  <2>1. y \in Object
    BY <1>1 DEF ChildrenOK
  <2>2. CASE y \notin Children(x)
    <3>1. x = p /\ y = c
      BY <1>6, <2>2
    <3>2. QED
      BY <1>5, <1>6, <3>1
  <2>3. CASE y \in Children(x)
    <3>1. x \notin Contained(y)
      BY <2>3 DEF Acyclic
    <3>2. CASE p \notin Contained(y)
      <4>1. Contained(y)' \subseteq Contained(y)
        BY <1>3, <1>4, <2>1, <3>2
      <4>2. QED
        BY <1>6, <3>1, <4>1
    <3>3. CASE p \in Contained(y)
      <4> DEFINE T == Contained(y) \cup Contained(c)
      <4>1. T \in SUBSET Object /\ y \in T /\ Closed(T) /\ c \in T
        BY <1>4, <2>1 DEF Closed
      <4>2. Contained(y)' \subseteq T
        <5> HIDE DEF T
        <5>1. QED
          BY <1>3, <2>1, <4>1
      <4>3. x \in Contained(c)
        BY <1>6, <3>1, <4>2
      <4>4. y \in Contained(c)
        BY <1>4, <2>3, <4>3 DEF Closed
      <4>5. Contained(y) \subseteq Contained(c)
        BY <1>4, <2>1, <4>4
      <4>6. QED
        BY <3>3, <4>5
    <3>4. QED
      BY <3>2, <3>3
  <2>4. QED
    BY <2>2, <2>3
<1>7. QED
  BY <1>6 DEF Acyclic

\* A step that only takes edges away makes no cycle.
LEMMA EdgesRemoved ==
    ASSUME IRTypeOK, IRTypeOK', Acyclic,
           \A z \in Object : Children(z)' \subseteq Children(z)
    PROVE  Acyclic'
<1>1. ContainedOK /\ ContainedOK' /\ ChildrenOK /\ ChildrenOK'
  BY ChildrenType, ContainedLemma, NextStateLemma
<1>2. ASSUME NEW y \in Object PROVE Contained(y)' \subseteq Contained(y)
  <2>1. y \in Contained(y) /\ Contained(y) \in SUBSET Object /\ Closed(Contained(y))
    BY <1>1 DEF ContainedOK
  <2> DEFINE T == Contained(y)
  <2>2. \A z \in T : Children(z)' \subseteq T
    BY <2>1 DEF Closed
  <2>3. T \in SUBSET Object /\ y \in T
    BY <2>1
  <2> HIDE DEF T
  <2>4. Contained(y)' \subseteq T
    BY <1>1, <2>2, <2>3 DEF ContainedOK, Closed
  <2>5. QED
    BY <2>4 DEF T
<1>3. QED
  BY <1>1, <1>2 DEF Acyclic, ChildrenOK

(***************************************************************************)
(* The steps.                                                              *)
(***************************************************************************)
LEMMA InitLemma == IRInit => IInv
<1> SUFFICES ASSUME IRInit PROVE IInv
  OBVIOUS
<1>1. IRTypeOK
  BY DEF IRInit, IRTypeOK
<1>2. <<>> = <<>> /\ Len(<<>>) = 0 /\ DOMAIN <<>> = {}
  OBVIOUS
<1>3. Elems(<<>>) = {} /\ IsInjective(<<>>)
  BY <1>2 DEF Elems, IsInjective
<1>4. /\ \A o \in Op : Elems(regions[o]) = {} /\ IsInjective(regions[o])
      /\ \A b \in Block : Elems(ops[b]) = {} /\ IsInjective(ops[b])
      /\ \A r \in Region : Elems(blocks[r]) = {} /\ IsInjective(blocks[r])
  BY <1>3 DEF IRInit
<1>5. \A x \in Object : Children(x) = {}
  BY <1>4 DEF Children, Object
<1>6. live = {}
  BY DEF IRInit
<1>7. NoDanglingUse /\ RegionsOwned
  BY <1>4, <1>6 DEF NoDanglingUse, RegionsOwned
<1>8. NestOK /\ OnceInList
  BY <1>4, <1>5 DEF NestOK, ChildrenLive, OneParent, Acyclic, OnceInList
<1>9. QED
  BY <1>1, <1>7, <1>8 DEF IInv

\* Steps that leave the nesting alone.
LEMMA SameNesting ==
    ASSUME IInv, IRTypeOK', UNCHANGED <<live, regions, parent_op, ops, blocks>>
    PROVE  NestOK' /\ OnceInList' /\ RegionsOwned'
<1>1. \A z \in Object : Children(z)' = Children(z)
  BY DEF Children, Elems
<1>2. IRTypeOK /\ NestOK /\ OnceInList /\ RegionsOwned
  BY DEF IInv
<1>3. Acyclic'
  BY <1>1, <1>2, EdgesRemoved DEF NestOK
<1>4. ChildrenLive' /\ OneParent'
  BY <1>1, <1>2 DEF NestOK, ChildrenLive, OneParent
<1>5. OnceInList'
  BY <1>2 DEF OnceInList, IsInjective
<1>6. RegionsOwned'
  BY <1>2 DEF RegionsOwned, Elems
<1>7. QED
  BY <1>3, <1>4, <1>5, <1>6 DEF NestOK

LEMMA StutterStep ==
    ASSUME IInv, UNCHANGED irVars
    PROVE  IInv'
<1>1. UNCHANGED <<live, erased, operands, successors, regions, parent_op, ops, blocks>>
  BY DEF irVars
<1>2. IRTypeOK'
  BY <1>1 DEF IInv, IRTypeOK
<1>3. NoDanglingUse'
  BY <1>1 DEF IInv, NoDanglingUse, Elems
<1>4. QED
  BY <1>1, <1>2, <1>3, SameNesting DEF IInv

LEMMA PushOperandStep ==
    ASSUME IInv, NEW o \in Op, NEW v \in Value, push_operand(o, v)
    PROVE  IInv'
<1>1. /\ {o, v} \subseteq live /\ operands' = [operands EXCEPT ![o] = Append(@, v)]
      /\ UNCHANGED <<live, erased, successors, regions, parent_op, ops, blocks>>
  BY DEF push_operand
<1>2. operands \in [Op -> Seq(Value)]
  BY DEF IInv, IRTypeOK
<1>3. Append(operands[o], v) \in Seq(Value) /\ Elems(Append(operands[o], v)) = Elems(operands[o]) \cup {v}
  BY <1>2, AppendElems
<1>4. IRTypeOK'
  BY <1>1, <1>3 DEF IInv, IRTypeOK
<1>5. NoDanglingUse'
  <2> SUFFICES ASSUME NEW q \in live \cap Op PROVE Elems(operands'[q]) \cup Elems(successors[q]) \subseteq live
    BY <1>1 DEF NoDanglingUse
  <2>1. Elems(operands[q]) \cup Elems(successors[q]) \subseteq live
    BY DEF IInv, NoDanglingUse
  <2>2. operands'[q] = IF q = o THEN Append(operands[o], v) ELSE operands[q]
    BY <1>1, <1>2
  <2>3. QED
    BY <1>1, <1>3, <2>1, <2>2
<1>6. QED
  BY <1>1, <1>4, <1>5, SameNesting DEF IInv

LEMMA PushSuccessorStep ==
    ASSUME IInv, NEW o \in Op, NEW b \in Block, push_successor(o, b)
    PROVE  IInv'
<1>1. /\ {o, b} \subseteq live /\ successors' = [successors EXCEPT ![o] = Append(@, b)]
      /\ UNCHANGED <<live, erased, operands, regions, parent_op, ops, blocks>>
  BY DEF push_successor
<1>2. successors \in [Op -> Seq(Block)]
  BY DEF IInv, IRTypeOK
<1>3. Append(successors[o], b) \in Seq(Block) /\ Elems(Append(successors[o], b)) = Elems(successors[o]) \cup {b}
  BY <1>2, AppendElems
<1>4. IRTypeOK'
  BY <1>1, <1>3 DEF IInv, IRTypeOK
<1>5. NoDanglingUse'
  <2> SUFFICES ASSUME NEW q \in live \cap Op PROVE Elems(operands[q]) \cup Elems(successors'[q]) \subseteq live
    BY <1>1 DEF NoDanglingUse
  <2>1. Elems(operands[q]) \cup Elems(successors[q]) \subseteq live
    BY DEF IInv, NoDanglingUse
  <2>2. successors'[q] = IF q = o THEN Append(successors[o], b) ELSE successors[q]
    BY <1>1, <1>2
  <2>3. QED
    BY <1>1, <1>3, <2>1, <2>2
<1>6. QED
  BY <1>1, <1>4, <1>5, SameNesting DEF IInv

\* The uses that are left after those of D have been dropped.
LEMMA DroppedUses ==
    ASSUME IRTypeOK, NEW D, drop_uses(D)
    PROVE  /\ operands' \in [Op -> Seq(Value)] /\ successors' \in [Op -> Seq(Block)]
           /\ \A o \in Op : IF o \in D THEN Elems(operands'[o]) = {} /\ Elems(successors'[o]) = {}
                            ELSE operands'[o] = operands[o] /\ successors'[o] = successors[o]
<1>1. \A o \in Op : /\ operands'[o] = IF o \in D THEN <<>> ELSE operands[o]
                    /\ successors'[o] = IF o \in D THEN <<>> ELSE successors[o]
  BY DEF drop_uses
<1>2. <<>> \in Seq(Value) /\ <<>> \in Seq(Block) /\ Elems(<<>>) = {}
  BY DEF Elems
<1>3. operands' \in [Op -> Seq(Value)] /\ successors' \in [Op -> Seq(Block)]
  BY <1>2 DEF drop_uses, IRTypeOK
<1>4. QED
  BY <1>1, <1>2, <1>3

LEMMA DropAllUsesStep ==
    ASSUME IInv, NEW x \in Object, drop_all_uses(x)
    PROVE  IInv'
<1> DEFINE D == Contained(x)
<1>1. drop_uses(D) /\ UNCHANGED <<live, erased, regions, parent_op, ops, blocks>>
  BY DEF drop_all_uses
<1> HIDE DEF D
<1>2. /\ operands' \in [Op -> Seq(Value)] /\ successors' \in [Op -> Seq(Block)]
      /\ \A o \in Op : IF o \in D THEN Elems(operands'[o]) = {} /\ Elems(successors'[o]) = {}
                       ELSE operands'[o] = operands[o] /\ successors'[o] = successors[o]
  BY <1>1, DroppedUses DEF IInv
<1>3. IRTypeOK'
  BY <1>1, <1>2 DEF IInv, IRTypeOK
<1>4. NoDanglingUse'
  <2> SUFFICES ASSUME NEW q \in live \cap Op PROVE Elems(operands'[q]) \cup Elems(successors'[q]) \subseteq live
    BY <1>1 DEF NoDanglingUse
  <2>1. Elems(operands[q]) \cup Elems(successors[q]) \subseteq live
    BY DEF IInv, NoDanglingUse
  <2>2. QED
    BY <1>2, <2>1
<1>5. QED
  BY <1>1, <1>3, <1>4, SameNesting DEF IInv

\* One edge more, to an object that had no parent.
LEMMA EdgeLinked ==
    ASSUME IInv, IRTypeOK', live' = live,
           NEW p \in Object, NEW c \in Object, p \in live, c \in live, p \notin Contained(c),
           \A z \in Object : c \notin Children(z),
           \A z \in Object : Children(z)' = Children(z) \cup (IF z = p THEN {c} ELSE {})
    PROVE  NestOK'
<1>1. IRTypeOK /\ ChildrenLive /\ OneParent /\ Acyclic
  BY DEF IInv, NestOK
<1>2. Acyclic'
  BY <1>1, EdgeAdded
<1>3. ChildrenLive'
  BY <1>1 DEF ChildrenLive
<1>4. OneParent'
  BY <1>1 DEF OneParent
<1>5. QED
  BY <1>2, <1>3, <1>4 DEF NestOK

\* Some edges fewer.
LEMMA EdgesCut ==
    ASSUME IInv, IRTypeOK', live' = live, \A z \in Object : Children(z)' \subseteq Children(z)
    PROVE  NestOK'
<1>1. IRTypeOK /\ ChildrenLive /\ OneParent /\ Acyclic
  BY DEF IInv, NestOK
<1>2. Acyclic'
  BY <1>1, EdgesRemoved
<1>3. ChildrenLive'
  BY <1>1 DEF ChildrenLive
<1>4. OneParent'
  BY <1>1 DEF OneParent
<1>5. QED
  BY <1>2, <1>3, <1>4 DEF NestOK

LEMMA InsertOpStep ==
    ASSUME IInv, NEW o \in Op, NEW b \in Block, NEW i \in 1..(Len(ops[b]) + 1), insert_op(o, b, i)
    PROVE  IInv'
<1>1. /\ {o, b} \subseteq live /\ ~ OpLinked(o) /\ b \notin Contained(o)
      /\ ops' = [ops EXCEPT ![b] = InsertAt(@, i, o)]
      /\ UNCHANGED <<live, erased, operands, successors, regions, parent_op, blocks>>
  BY DEF insert_op
<1>2. ops \in [Block -> Seq(Op)] /\ ops[b] \in Seq(Op) /\ IsInjective(ops[b]) /\ o \notin Elems(ops[b])
  BY <1>1 DEF IInv, IRTypeOK, OnceInList, OpLinked
<1> DEFINE new == InsertAt(ops[b], i, o)
<1>3. new \in Seq(Op) /\ Elems(new) = Elems(ops[b]) \cup {o} /\ IsInjective(new)
  BY <1>2, InsertElems
<1> HIDE DEF new
<1>4. \A c \in Block : ops'[c] = IF c = b THEN new ELSE ops[c]
  BY <1>1, <1>2 DEF new
<1>5. IRTypeOK'
  BY <1>1, <1>3 DEF IInv, IRTypeOK, new
<1>6. ChildrenOK /\ ChildrenOK'
  BY <1>5, ChildrenType, NextStateLemma DEF IInv
<1>7. \A z \in Object : Children(z)' = Children(z) \cup (IF z = b THEN {o} ELSE {})
  <2>1. \A z \in Block : Children(z)' = Children(z) \cup (IF z = b THEN {o} ELSE {})
    BY <1>3, <1>4, <1>6 DEF ChildrenOK
  <2>2. \A z \in Op \cup Region : Children(z)' = Children(z)
    BY <1>1, <1>6 DEF ChildrenOK
  <2>3. QED
    BY <2>1, <2>2, IRAssumption DEF Object
<1>8. \A z \in Object : o \notin Children(z)
  BY <1>1, <1>6, IRAssumption DEF ChildrenOK, OpLinked, Object
<1>9. NestOK'
  BY <1>1, <1>5, <1>7, <1>8, EdgeLinked DEF Object
<1>10. OnceInList'
  BY <1>1, <1>3, <1>4 DEF IInv, OnceInList
<1>11. RegionsOwned'
  BY <1>1 DEF IInv, RegionsOwned
<1>12. NoDanglingUse'
  BY <1>1 DEF IInv, NoDanglingUse
<1>13. QED
  BY <1>5, <1>9, <1>10, <1>11, <1>12 DEF IInv

LEMMA InsertBlockStep ==
    ASSUME IInv, NEW b \in Block, NEW r \in Region, NEW i \in 1..(Len(blocks[r]) + 1), insert_block(b, r, i)
    PROVE  IInv'
<1>1. /\ {b, r} \subseteq live /\ ~ BlockLinked(b) /\ r \notin Contained(b)
      /\ blocks' = [blocks EXCEPT ![r] = InsertAt(@, i, b)]
      /\ UNCHANGED <<live, erased, operands, successors, regions, parent_op, ops>>
  BY DEF insert_block
<1>2. blocks \in [Region -> Seq(Block)] /\ blocks[r] \in Seq(Block) /\ IsInjective(blocks[r]) /\ b \notin Elems(blocks[r])
  BY <1>1 DEF IInv, IRTypeOK, OnceInList, BlockLinked
<1> DEFINE new == InsertAt(blocks[r], i, b)
<1>3. new \in Seq(Block) /\ Elems(new) = Elems(blocks[r]) \cup {b} /\ IsInjective(new)
  BY <1>2, InsertElems
<1> HIDE DEF new
<1>4. \A c \in Region : blocks'[c] = IF c = r THEN new ELSE blocks[c]
  BY <1>1, <1>2 DEF new
<1>5. IRTypeOK'
  BY <1>1, <1>3 DEF IInv, IRTypeOK, new
<1>6. ChildrenOK /\ ChildrenOK'
  BY <1>5, ChildrenType, NextStateLemma DEF IInv
<1>7. \A z \in Object : Children(z)' = Children(z) \cup (IF z = r THEN {b} ELSE {})
  <2>1. \A z \in Region : Children(z)' = Children(z) \cup (IF z = r THEN {b} ELSE {})
    BY <1>3, <1>4, <1>6 DEF ChildrenOK
  <2>2. \A z \in Op \cup Block : Children(z)' = Children(z)
    BY <1>1, <1>6 DEF ChildrenOK
  <2>3. QED
    BY <2>1, <2>2, IRAssumption DEF Object
<1>8. \A z \in Object : b \notin Children(z)
  BY <1>1, <1>6, IRAssumption DEF ChildrenOK, BlockLinked, Object
<1>9. NestOK'
  BY <1>1, <1>5, <1>7, <1>8, EdgeLinked DEF Object
<1>10. OnceInList'
  BY <1>1, <1>3, <1>4 DEF IInv, OnceInList
<1>11. RegionsOwned'
  BY <1>1 DEF IInv, RegionsOwned
<1>12. NoDanglingUse'
  BY <1>1 DEF IInv, NoDanglingUse
<1>13. QED
  BY <1>5, <1>9, <1>10, <1>11, <1>12 DEF IInv

LEMMA UnlinkOpStep ==
    ASSUME IInv, NEW o \in Op, unlink_op(o)
    PROVE  IInv'
<1>1. /\ ops' = [b \in Block |-> Retained(ops[b], Op \ {o})]
      /\ UNCHANGED <<live, erased, operands, successors, regions, parent_op, blocks>>
  BY DEF unlink_op
<1>2. \A b \in Block : ops[b] \in Seq(Op) /\ IsInjective(ops[b])
  BY DEF IInv, IRTypeOK, OnceInList
<1>3. \A b \in Block : ops'[b] \in Seq(Op) /\ Elems(ops'[b]) \subseteq Elems(ops[b]) /\ IsInjective(ops'[b])
  BY <1>1, <1>2, RetainedElements
<1>4. ops' \in [Block -> Seq(Op)]
  BY <1>1, <1>3
<1>5. IRTypeOK'
  BY <1>1, <1>4 DEF IInv, IRTypeOK
<1>6. ChildrenOK /\ ChildrenOK'
  BY <1>5, ChildrenType, NextStateLemma DEF IInv
<1>7. \A z \in Object : Children(z)' \subseteq Children(z)
  <2>1. \A z \in Block : Children(z)' \subseteq Children(z)
    BY <1>3, <1>6 DEF ChildrenOK
  <2>2. \A z \in Op \cup Region : Children(z)' = Children(z)
    BY <1>1, <1>6 DEF ChildrenOK
  <2>3. QED
    BY <2>1, <2>2 DEF Object
<1>8. NestOK'
  BY <1>1, <1>5, <1>7, EdgesCut
<1>9. OnceInList'
  BY <1>1, <1>3 DEF IInv, OnceInList
<1>10. RegionsOwned' /\ NoDanglingUse'
  BY <1>1 DEF IInv, RegionsOwned, NoDanglingUse
<1>11. QED
  BY <1>5, <1>8, <1>9, <1>10 DEF IInv

LEMMA UnlinkBlockStep ==
    ASSUME IInv, NEW b \in Block, unlink_block(b)
    PROVE  IInv'
<1>1. /\ blocks' = [r \in Region |-> Retained(blocks[r], Block \ {b})]
      /\ UNCHANGED <<live, erased, operands, successors, regions, parent_op, ops>>
  BY DEF unlink_block
<1>2. \A r \in Region : blocks[r] \in Seq(Block) /\ IsInjective(blocks[r])
  BY DEF IInv, IRTypeOK, OnceInList
<1>3. \A r \in Region : /\ blocks'[r] \in Seq(Block) /\ Elems(blocks'[r]) \subseteq Elems(blocks[r])
                        /\ IsInjective(blocks'[r])
  BY <1>1, <1>2, RetainedElements
<1>4. blocks' \in [Region -> Seq(Block)]
  BY <1>1, <1>3
<1>5. IRTypeOK'
  BY <1>1, <1>4 DEF IInv, IRTypeOK
<1>6. ChildrenOK /\ ChildrenOK'
  BY <1>5, ChildrenType, NextStateLemma DEF IInv
<1>7. \A z \in Object : Children(z)' \subseteq Children(z)
  <2>1. \A z \in Region : Children(z)' \subseteq Children(z)
    BY <1>3, <1>6 DEF ChildrenOK
  <2>2. \A z \in Op \cup Block : Children(z)' = Children(z)
    BY <1>1, <1>6 DEF ChildrenOK
  <2>3. QED
    BY <2>1, <2>2 DEF Object
<1>8. NestOK'
  BY <1>1, <1>5, <1>7, EdgesCut
<1>9. OnceInList'
  BY <1>1, <1>3 DEF IInv, OnceInList
<1>10. RegionsOwned' /\ NoDanglingUse'
  BY <1>1 DEF IInv, RegionsOwned, NoDanglingUse
<1>11. QED
  BY <1>5, <1>8, <1>9, <1>10 DEF IInv

LEMMA NewBlockStep ==
    ASSUME IInv, NEW b \in Block, BasicBlock_new(b)
    PROVE  IInv'
<1>1. /\ b \notin live /\ b \notin erased /\ live' = live \cup {b}
      /\ UNCHANGED <<erased, operands, successors, regions, parent_op, ops, blocks>>
  BY DEF BasicBlock_new, Fresh
<1>2. IRTypeOK'
  BY <1>1 DEF IInv, IRTypeOK, Object
<1>3. \A z \in Object : Children(z)' = Children(z)
  BY <1>1 DEF Children, Elems
<1>4. IRTypeOK /\ ChildrenLive /\ OneParent /\ Acyclic
  BY DEF IInv, NestOK
<1>5. Acyclic'
  BY <1>2, <1>3, <1>4, EdgesRemoved
<1>6. ChildrenLive' /\ OneParent'
  BY <1>1, <1>3, <1>4 DEF ChildrenLive, OneParent
<1>7. OnceInList'
  BY <1>1 DEF IInv, OnceInList
<1>8. RegionsOwned'
  BY <1>1, IRAssumption DEF IInv, RegionsOwned
<1>9. NoDanglingUse'
  BY <1>1, IRAssumption DEF IInv, NoDanglingUse
<1>10. QED
  BY <1>2, <1>5, <1>6, <1>7, <1>8, <1>9 DEF IInv, NestOK

LEMMA AddRegionStep ==
    ASSUME IInv, NEW o \in Op, NEW r \in Region, add_region(o, r)
    PROVE  IInv'
<1>1. /\ o \in live /\ r \notin live /\ r \notin erased /\ live' = live \cup {r}
      /\ regions' = [regions EXCEPT ![o] = Append(@, r)]
      /\ parent_op' = [parent_op EXCEPT ![r] = {o}]
      /\ UNCHANGED <<erased, operands, successors, ops, blocks>>
  BY DEF add_region, Fresh
<1>2. IRTypeOK /\ ChildrenLive /\ OneParent /\ Acyclic /\ ChildrenOK /\ ContainedOK
  BY ChildrenType, ContainedLemma DEF IInv, NestOK
<1>3. /\ regions \in [Op -> Seq(Region)] /\ parent_op \in [Region -> SUBSET Op]
      /\ regions[o] \in Seq(Region) /\ IsInjective(regions[o]) /\ r \notin Elems(regions[o])
  BY <1>1, <1>2 DEF IInv, IRTypeOK, OnceInList, ChildrenLive, ChildrenOK, Object
<1> DEFINE new == Append(regions[o], r)
<1>4. new \in Seq(Region) /\ Elems(new) = Elems(regions[o]) \cup {r} /\ IsInjective(new)
  BY <1>3, AppendElems
<1> HIDE DEF new
<1>5. /\ \A q \in Op : regions'[q] = IF q = o THEN new ELSE regions[q]
      /\ \A q \in Region : parent_op'[q] = IF q = r THEN {o} ELSE parent_op[q]
  BY <1>1, <1>3 DEF new
<1>6. IRTypeOK'
  BY <1>1, <1>2, <1>4 DEF IRTypeOK, new, Object
<1>7. ChildrenOK'
  BY <1>6, NextStateLemma
<1>8. \A z \in Object : Children(z)' = Children(z) \cup (IF z = o THEN {r} ELSE {})
  <2>1. \A z \in Op : Children(z)' = Children(z) \cup (IF z = o THEN {r} ELSE {})
    BY <1>2, <1>4, <1>5, <1>7 DEF ChildrenOK
  <2>2. \A z \in Block \cup Region : Children(z)' = Children(z)
    BY <1>1, <1>2, <1>7 DEF ChildrenOK
  <2>3. QED
    BY <2>1, <2>2, IRAssumption DEF Object
<1>9. o \in Object /\ r \in Object /\ o # r
  BY IRAssumption DEF Object
<1>10. \A z \in Object : r \notin Children(z)
  BY <1>1, <1>2 DEF ChildrenLive
<1>11. o \notin Contained(r)
  <2>1. Closed({r})
    BY <1>1, <1>2, <1>9 DEF Closed, ChildrenLive
  <2>2. Contained(r) \subseteq {r}
    BY <1>2, <1>9, <2>1 DEF ContainedOK
  <2>3. QED
    BY <1>9, <2>2
<1>12. Acyclic'
  BY <1>2, <1>6, <1>8, <1>9, <1>11, EdgeAdded
<1>13. ChildrenLive'
  BY <1>1, <1>2, <1>8 DEF ChildrenLive
<1>14. OneParent'
  BY <1>2, <1>8, <1>10 DEF OneParent
<1>15. OnceInList'
  BY <1>1, <1>4, <1>5 DEF IInv, OnceInList
<1>16. RegionsOwned'
  <2> SUFFICES ASSUME NEW q \in Region
               PROVE  IF q \in live' THEN \E p \in live' \cap Op : parent_op'[q] = {p} /\ q \in Elems(regions'[p])
                                     ELSE \A p \in Op : q \notin Elems(regions'[p])
    BY DEF RegionsOwned
  <2>1. IF q \in live THEN \E p \in live \cap Op : parent_op[q] = {p} /\ q \in Elems(regions[p])
                      ELSE \A p \in Op : q \notin Elems(regions[p])
    BY DEF IInv, RegionsOwned
  <2>2. CASE q = r
    BY <1>1, <1>4, <1>5, <2>2
  <2>3. CASE q # r
    BY <1>1, <1>4, <1>5, <2>1, <2>3
  <2>4. QED
    BY <2>2, <2>3
<1>17. NoDanglingUse'
  BY <1>1, IRAssumption DEF IInv, NoDanglingUse
<1>18. QED
  BY <1>6, <1>12, <1>13, <1>14, <1>15, <1>16, <1>17 DEF IInv, NestOK

\* A new operation with no region, or with one.
LEMMA NewOperationStep ==
    ASSUME IInv, NEW o \in Op, NEW ds \in SeqsUpTo(live \cap Value, MaxOperands),
           NEW ss \in SeqsUpTo(live \cap Block, MaxOperands), NEW rs \in SeqsUpTo(Region, 1),
           Operation_new(o, ds, ss, rs)
    PROVE  IInv'
<1>1. /\ o \notin live /\ o \notin erased /\ live' = live \cup {o} \cup Elems(rs)
      /\ \A i \in 1..Len(rs) : rs[i] \notin live /\ rs[i] \notin erased
      /\ operands' = [operands EXCEPT ![o] = ds]
      /\ successors' = [successors EXCEPT ![o] = ss]
      /\ regions' = [regions EXCEPT ![o] = rs]
      /\ parent_op' = [r \in Region |-> IF r \in Elems(rs) THEN {o} ELSE parent_op[r]]
      /\ UNCHANGED <<erased, ops, blocks>>
  BY DEF Operation_new, Fresh
<1>2. IRTypeOK /\ ChildrenLive /\ OneParent /\ Acyclic /\ ChildrenOK /\ ContainedOK
  BY ChildrenType, ContainedLemma DEF IInv, NestOK
<1>3. /\ regions \in [Op -> Seq(Region)] /\ parent_op \in [Region -> SUBSET Op]
      /\ operands \in [Op -> Seq(Value)] /\ successors \in [Op -> Seq(Block)]
  BY <1>2 DEF IRTypeOK
<1>4. /\ ds \in Seq(Value) /\ Elems(ds) \subseteq live
      /\ ss \in Seq(Block) /\ Elems(ss) \subseteq live
  <2>1. PICK j \in 0..MaxOperands : ds \in [1..j -> live \cap Value]
    BY DEF SeqsUpTo
  <2>2. PICK k \in 0..MaxOperands : ss \in [1..k -> live \cap Block]
    BY DEF SeqsUpTo
  <2>3. ds \in Seq(live \cap Value) /\ ss \in Seq(live \cap Block)
    BY <2>1, <2>2, IRAssumption
  <2>4. QED
    BY <2>3 DEF Elems
<1>5. /\ rs \in Seq(Region) /\ IsInjective(rs) /\ Elems(rs) \subseteq Region
      /\ (Elems(rs) = {} \/ \E r \in Region : Elems(rs) = {r})
  <2>1. PICK k \in 0..1 : rs \in [1..k -> Region]
    BY DEF SeqsUpTo
  <2>2. rs \in Seq(Region) /\ Len(rs) = k /\ DOMAIN rs = 1..k
    BY <2>1
  <2>3. IsInjective(rs)
    BY <2>2 DEF IsInjective
  <2>4. CASE k = 0
    BY <2>2, <2>3, <2>4 DEF Elems
  <2>5. CASE k = 1
    <3>1. rs[1] \in Region /\ Elems(rs) = {rs[1]}
      BY <2>1, <2>2, <2>5 DEF Elems
    <3>2. QED
      BY <2>2, <2>3, <3>1
  <2>6. QED
    BY <2>4, <2>5
<1>6. Elems(rs) \cap live = {} /\ Elems(rs) \cap erased = {}
  BY <1>1 DEF Elems
<1>7. /\ \A q \in Op : /\ regions'[q] = IF q = o THEN rs ELSE regions[q]
                       /\ operands'[q] = IF q = o THEN ds ELSE operands[q]
                       /\ successors'[q] = IF q = o THEN ss ELSE successors[q]
      /\ \A q \in Region : parent_op'[q] = IF q \in Elems(rs) THEN {o} ELSE parent_op[q]
  BY <1>1, <1>3
<1>8. IRTypeOK'
  <2>1. live' \subseteq Object /\ erased' \subseteq Object /\ live' \cap erased' = {}
    BY <1>1, <1>2, <1>5, <1>6 DEF IRTypeOK, Object
  <2>2. parent_op' \in [Region -> SUBSET Op]
    BY <1>1, <1>3
  <2>3. regions' \in [Op -> Seq(Region)] /\ operands' \in [Op -> Seq(Value)] /\ successors' \in [Op -> Seq(Block)]
    BY <1>1, <1>3, <1>4, <1>5
  <2>4. QED
    BY <1>1, <1>2, <2>1, <2>2, <2>3 DEF IRTypeOK
<1>9. ChildrenOK'
  BY <1>8, NextStateLemma
<1>10. o \in Object /\ Children(o) = {}
  BY <1>1, <1>2 DEF Object, ChildrenLive
<1>11. \A z \in Object : Children(z)' = Children(z) \cup (IF z = o THEN Elems(rs) ELSE {})
  <2>1. \A z \in Op : Children(z)' = Children(z) \cup (IF z = o THEN Elems(rs) ELSE {})
    BY <1>2, <1>7, <1>9, <1>10 DEF ChildrenOK
  <2>2. \A z \in Block \cup Region : Children(z)' = Children(z)
    BY <1>1, <1>2, <1>9 DEF ChildrenOK
  <2>3. QED
    BY <2>1, <2>2, IRAssumption DEF Object
<1>12. \A z \in Object : Children(z) \cap Elems(rs) = {}
  BY <1>2, <1>6 DEF ChildrenLive
<1>13. Acyclic'
  <2>1. CASE Elems(rs) = {}
    BY <1>2, <1>8, <1>11, <2>1, EdgesRemoved
  <2>2. ASSUME NEW r \in Region, Elems(rs) = {r} PROVE Acyclic'
    <3>1. r \in Object /\ o # r /\ r \notin live
      BY <1>6, <2>2, IRAssumption DEF Object
    <3>2. Closed({r})
      BY <1>2, <3>1 DEF Closed, ChildrenLive
    <3>3. Contained(r) \subseteq {r}
      BY <1>2, <3>1, <3>2 DEF ContainedOK
    <3>4. o \notin Contained(r)
      BY <3>1, <3>3
    <3>5. \A z \in Object : Children(z)' \subseteq Children(z) \cup (IF z = o THEN {r} ELSE {})
      BY <1>11, <2>2
    <3>6. QED
      BY <1>2, <1>8, <1>10, <3>1, <3>4, <3>5, EdgeAdded
  <2>3. QED
    BY <1>5, <2>1, <2>2
<1>14. ChildrenLive'
  BY <1>1, <1>2, <1>11 DEF ChildrenLive
<1>15. OneParent'
  BY <1>2, <1>11, <1>12 DEF OneParent
<1>16. OnceInList'
  BY <1>1, <1>5, <1>7 DEF IInv, OnceInList
<1>17. RegionsOwned'
  <2> SUFFICES ASSUME NEW q \in Region
               PROVE  IF q \in live' THEN \E p \in live' \cap Op : parent_op'[q] = {p} /\ q \in Elems(regions'[p])
                                     ELSE \A p \in Op : q \notin Elems(regions'[p])
    BY DEF RegionsOwned
  <2>1. IF q \in live THEN \E p \in live \cap Op : parent_op[q] = {p} /\ q \in Elems(regions[p])
                      ELSE \A p \in Op : q \notin Elems(regions[p])
    BY DEF IInv, RegionsOwned
  <2>2. q # o
    BY IRAssumption
  <2>3. CASE q \in Elems(rs)
    BY <1>1, <1>7, <2>3
  <2>4. CASE q \notin Elems(rs)
    BY <1>1, <1>7, <2>1, <2>2, <2>4
  <2>5. QED
    BY <2>3, <2>4
<1>18. NoDanglingUse'
  <2> SUFFICES ASSUME NEW q \in live' \cap Op PROVE Elems(operands'[q]) \cup Elems(successors'[q]) \subseteq live'
    BY DEF NoDanglingUse
  <2>1. q = o \/ q \in live
    BY <1>1, <1>5, IRAssumption
  <2>2. QED
    BY <1>1, <1>4, <1>7, <2>1 DEF IInv, NoDanglingUse
<1>19. QED
  BY <1>8, <1>13, <1>14, <1>15, <1>16, <1>17, <1>18 DEF IInv, NestOK

\* A region leaves its operation for another that it does not contain.
LEMMA MoveRegionStep ==
    ASSUME IInv, NEW r \in Region, NEW o \in Op, move_to_op(r, o)
    PROVE  IInv'
<1> DEFINE src == CHOOSE p \in parent_op[r] : TRUE
           pos == CHOOSE i \in 1..Len(regions[src]) : regions[src][i] = r
<1>1. /\ {r, o} \subseteq live /\ o \notin Contained(r) /\ parent_op[r] # {o}
      /\ regions' = [regions EXCEPT ![src] = swap_remove(@, pos), ![o] = Append(@, r)]
      /\ parent_op' = [parent_op EXCEPT ![r] = {o}]
      /\ UNCHANGED <<live, erased, operands, successors, ops, blocks>>
  BY DEF move_to_op
<1>2. IRTypeOK /\ ChildrenLive /\ OneParent /\ Acyclic /\ ChildrenOK
  BY ChildrenType DEF IInv, NestOK
<1>3. src \in live \cap Op /\ parent_op[r] = {src} /\ r \in Elems(regions[src]) /\ src # o
  <2>1. PICK p \in live \cap Op : parent_op[r] = {p} /\ r \in Elems(regions[p])
    BY <1>1 DEF IInv, RegionsOwned
  <2>2. src = p
    BY <2>1
  <2> HIDE DEF src
  <2>3. QED
    BY <1>1, <2>1, <2>2
<1>4. pos \in 1..Len(regions[src]) /\ regions[src][pos] = r
  <2>1. \E i \in 1..Len(regions[src]) : regions[src][i] = r
    BY <1>3 DEF Elems
  <2> HIDE DEF src
  <2>2. QED
    BY <2>1
<1> HIDE DEF src, pos
<1>5. /\ regions \in [Op -> Seq(Region)] /\ parent_op \in [Region -> SUBSET Op]
      /\ \A q \in Op : regions[q] \in Seq(Region) /\ IsInjective(regions[q])
  BY DEF IInv, IRTypeOK, OnceInList
<1> DEFINE left == swap_remove(regions[src], pos)
           more == Append(regions[o], r)
<1>6. left \in Seq(Region) /\ Elems(left) = Elems(regions[src]) \ {r} /\ IsInjective(left)
  BY <1>3, <1>4, <1>5, SwapRemoveElems
<1>7. r \notin Elems(regions[o])
  BY <1>2, <1>3, IRAssumption DEF ChildrenOK, OneParent, Object
<1>8. more \in Seq(Region) /\ Elems(more) = Elems(regions[o]) \cup {r} /\ IsInjective(more)
  BY <1>5, <1>7, AppendElems
<1>9. \A q \in Op : regions'[q] = IF q = src THEN left ELSE IF q = o THEN more ELSE regions[q]
  BY <1>1, <1>3, <1>5
<1>10. \A q \in Region : parent_op'[q] = IF q = r THEN {o} ELSE parent_op[q]
  BY <1>1, <1>5
<1> HIDE DEF left, more
<1>11. IRTypeOK'
  <2>1. regions' \in [Op -> Seq(Region)]
    <3>1. \A q \in Op : regions'[q] \in Seq(Region)
      BY <1>5, <1>6, <1>8, <1>9
    <3>2. regions' = [q \in Op |-> regions'[q]]
      BY <1>1, <1>5
    <3>3. QED
      BY <3>1, <3>2
  <2>2. parent_op' \in [Region -> SUBSET Op]
    BY <1>1, <1>5
  <2>3. QED
    BY <1>1, <1>2, <2>1, <2>2 DEF IRTypeOK
<1>12. ChildrenOK'
  BY <1>11, NextStateLemma
<1>13. \A z \in Object : Children(z)' = IF z = src THEN Children(z) \ {r}
                                        ELSE IF z = o THEN Children(z) \cup {r} ELSE Children(z)
  <2>1. \A z \in Op : Children(z)' = IF z = src THEN Children(z) \ {r}
                                     ELSE IF z = o THEN Children(z) \cup {r} ELSE Children(z)
    BY <1>2, <1>6, <1>8, <1>9, <1>12 DEF ChildrenOK
  <2>2. \A z \in Block \cup Region : Children(z)' = Children(z)
    BY <1>1, <1>2, <1>12 DEF ChildrenOK
  <2>3. QED
    BY <1>3, <2>1, <2>2, IRAssumption DEF Object
<1>14. r \in Object /\ o \in Object /\ src \in Object /\ r \in Children(src)
  BY <1>2, <1>3 DEF Object, ChildrenOK
<1>15. Acyclic'
  BY <1>1, <1>2, <1>11, <1>13, <1>14, EdgeAdded
<1>16. ChildrenLive'
  BY <1>1, <1>2, <1>13 DEF ChildrenLive
<1>17. OneParent'
  BY <1>2, <1>3, <1>13, <1>14 DEF OneParent
<1>18. OnceInList'
  BY <1>1, <1>5, <1>6, <1>8, <1>9 DEF IInv, OnceInList
<1>19. RegionsOwned'
  <2> SUFFICES ASSUME NEW q \in Region
               PROVE  IF q \in live' THEN \E p \in live' \cap Op : parent_op'[q] = {p} /\ q \in Elems(regions'[p])
                                     ELSE \A p \in Op : q \notin Elems(regions'[p])
    BY DEF RegionsOwned
  <2>1. IF q \in live THEN \E p \in live \cap Op : parent_op[q] = {p} /\ q \in Elems(regions[p])
                      ELSE \A p \in Op : q \notin Elems(regions[p])
    BY DEF IInv, RegionsOwned
  <2>2. CASE q = r
    BY <1>1, <1>3, <1>8, <1>9, <1>10, <2>2
  <2>3. CASE q # r
    <3>1. \A p \in Op : q \in Elems(regions'[p]) <=> q \in Elems(regions[p])
      BY <1>6, <1>8, <1>9, <2>3
    <3>2. QED
      BY <1>1, <1>10, <2>1, <2>3, <3>1
  <2>4. QED
    BY <2>2, <2>3
<1>20. NoDanglingUse'
  BY <1>1 DEF IInv, NoDanglingUse
<1>21. QED
  BY <1>11, <1>15, <1>16, <1>17, <1>18, <1>19, <1>20 DEF IInv, NestOK

\* Dropping the uses of what x contains and freeing it, when nothing outside uses it.
LEMMA DeallocStep ==
    ASSUME IInv, NEW x \in Object, drop_uses(Contained(x)), dealloc(Contained(x)),
           \A q \in (live \cap Op) \ Contained(x) :
              (Elems(operands[q]) \cup Elems(successors[q])) \cap Contained(x) = {}
    PROVE  IInv'
<1> DEFINE D == Contained(x)
<1>1. /\ live' = live \ D /\ erased' = erased \cup D
      /\ regions' = [o \in Op |-> IF o \in D THEN <<>> ELSE Retained(regions[o], Region \ D)]
      /\ parent_op' = [r \in Region |-> IF r \in D THEN {} ELSE parent_op[r]]
      /\ ops' = [b \in Block |-> IF b \in D THEN <<>> ELSE Retained(ops[b], Op \ D)]
      /\ blocks' = [r \in Region |-> IF r \in D THEN <<>> ELSE Retained(blocks[r], Block \ D)]
  BY DEF dealloc
<1>2. IRTypeOK /\ ChildrenLive /\ OneParent /\ Acyclic /\ ChildrenOK /\ ContainedOK
  BY ChildrenType, ContainedLemma DEF IInv, NestOK
<1>3. D \subseteq Object /\ Closed(D) /\ drop_uses(D)
      /\ \A q \in (live \cap Op) \ D : (Elems(operands[q]) \cup Elems(successors[q])) \cap D = {}
  BY <1>2 DEF ContainedOK
<1> HIDE DEF D
<1>4. /\ operands' \in [Op -> Seq(Value)] /\ successors' \in [Op -> Seq(Block)]
      /\ \A o \in Op : IF o \in D THEN Elems(operands'[o]) = {} /\ Elems(successors'[o]) = {}
                       ELSE operands'[o] = operands[o] /\ successors'[o] = successors[o]
  BY <1>2, <1>3, DroppedUses
<1>5. /\ \A o \in Op : regions[o] \in Seq(Region) /\ IsInjective(regions[o]) /\ Elems(regions[o]) \subseteq Region
      /\ \A b \in Block : ops[b] \in Seq(Op) /\ IsInjective(ops[b]) /\ Elems(ops[b]) \subseteq Op
      /\ \A r \in Region : blocks[r] \in Seq(Block) /\ IsInjective(blocks[r]) /\ Elems(blocks[r]) \subseteq Block
  BY <1>2 DEF IInv, IRTypeOK, OnceInList, ChildrenOK
<1>6. \A E : <<>> \in Seq(E) /\ Elems(<<>>) = {} /\ IsInjective(<<>>)
  BY DEF Elems, IsInjective
<1>7. \A o \in Op : /\ regions'[o] \in Seq(Region) /\ IsInjective(regions'[o])
                    /\ Elems(regions'[o]) = IF o \in D THEN {} ELSE Elems(regions[o]) \ D
  <2> SUFFICES ASSUME NEW o \in Op
               PROVE  /\ regions'[o] \in Seq(Region) /\ IsInjective(regions'[o])
                      /\ Elems(regions'[o]) = IF o \in D THEN {} ELSE Elems(regions[o]) \ D
    OBVIOUS
  <2>1. regions'[o] = IF o \in D THEN <<>> ELSE Retained(regions[o], Region \ D)
    BY <1>1
  <2>2. /\ Retained(regions[o], Region \ D) \in Seq(Region) /\ IsInjective(Retained(regions[o], Region \ D))
        /\ Elems(Retained(regions[o], Region \ D)) = Elems(regions[o]) \cap (Region \ D)
    BY <1>5, RetainedElements
  <2>3. QED
    BY <1>5, <1>6, <2>1, <2>2
<1>8. \A b \in Block : /\ ops'[b] \in Seq(Op) /\ IsInjective(ops'[b])
                       /\ Elems(ops'[b]) = IF b \in D THEN {} ELSE Elems(ops[b]) \ D
  <2> SUFFICES ASSUME NEW b \in Block
               PROVE  /\ ops'[b] \in Seq(Op) /\ IsInjective(ops'[b])
                      /\ Elems(ops'[b]) = IF b \in D THEN {} ELSE Elems(ops[b]) \ D
    OBVIOUS
  <2>1. ops'[b] = IF b \in D THEN <<>> ELSE Retained(ops[b], Op \ D)
    BY <1>1
  <2>2. /\ Retained(ops[b], Op \ D) \in Seq(Op) /\ IsInjective(Retained(ops[b], Op \ D))
        /\ Elems(Retained(ops[b], Op \ D)) = Elems(ops[b]) \cap (Op \ D)
    BY <1>5, RetainedElements
  <2>3. QED
    BY <1>5, <1>6, <2>1, <2>2
<1>9. \A r \in Region : /\ blocks'[r] \in Seq(Block) /\ IsInjective(blocks'[r])
                        /\ Elems(blocks'[r]) = IF r \in D THEN {} ELSE Elems(blocks[r]) \ D
  <2> SUFFICES ASSUME NEW r \in Region
               PROVE  /\ blocks'[r] \in Seq(Block) /\ IsInjective(blocks'[r])
                      /\ Elems(blocks'[r]) = IF r \in D THEN {} ELSE Elems(blocks[r]) \ D
    OBVIOUS
  <2>1. blocks'[r] = IF r \in D THEN <<>> ELSE Retained(blocks[r], Block \ D)
    BY <1>1
  <2>2. /\ Retained(blocks[r], Block \ D) \in Seq(Block) /\ IsInjective(Retained(blocks[r], Block \ D))
        /\ Elems(Retained(blocks[r], Block \ D)) = Elems(blocks[r]) \cap (Block \ D)
    BY <1>5, RetainedElements
  <2>3. QED
    BY <1>5, <1>6, <2>1, <2>2
<1>10. IRTypeOK'
  <2>1. regions' \in [Op -> Seq(Region)] /\ ops' \in [Block -> Seq(Op)] /\ blocks' \in [Region -> Seq(Block)]
    <3>1. /\ regions' = [o \in Op |-> regions'[o]] /\ ops' = [b \in Block |-> ops'[b]]
          /\ blocks' = [r \in Region |-> blocks'[r]]
      BY <1>1
    <3>2. QED
      BY <1>7, <1>8, <1>9, <3>1
  <2>2. parent_op' \in [Region -> SUBSET Op]
    BY <1>1, <1>2 DEF IRTypeOK
  <2>3. live' \subseteq Object /\ erased' \subseteq Object /\ live' \cap erased' = {}
    BY <1>1, <1>2, <1>3 DEF IRTypeOK
  <2>4. QED
    BY <1>4, <2>1, <2>2, <2>3 DEF IRTypeOK
<1>11. ChildrenOK'
  BY <1>10, NextStateLemma
<1>12. \A z \in Object : Children(z)' = IF z \in D THEN {} ELSE Children(z) \ D
  <2>1. \A z \in Op : Children(z)' = IF z \in D THEN {} ELSE Children(z) \ D
    BY <1>2, <1>7, <1>11 DEF ChildrenOK
  <2>2. \A z \in Block : Children(z)' = IF z \in D THEN {} ELSE Children(z) \ D
    BY <1>2, <1>8, <1>11 DEF ChildrenOK
  <2>3. \A z \in Region : Children(z)' = IF z \in D THEN {} ELSE Children(z) \ D
    BY <1>2, <1>9, <1>11 DEF ChildrenOK
  <2>4. QED
    BY <2>1, <2>2, <2>3 DEF Object
<1>13. Acyclic'
  BY <1>2, <1>10, <1>12, EdgesRemoved
<1>14. ChildrenLive'
  BY <1>1, <1>2, <1>12 DEF ChildrenLive
<1>15. OneParent'
  BY <1>2, <1>12 DEF OneParent
<1>16. OnceInList'
  BY <1>7, <1>8, <1>9 DEF OnceInList
<1>17. RegionsOwned'
  <2> SUFFICES ASSUME NEW q \in Region
               PROVE  IF q \in live' THEN \E p \in live' \cap Op : parent_op'[q] = {p} /\ q \in Elems(regions'[p])
                                     ELSE \A p \in Op : q \notin Elems(regions'[p])
    BY DEF RegionsOwned
  <2>1. IF q \in live THEN \E p \in live \cap Op : parent_op[q] = {p} /\ q \in Elems(regions[p])
                      ELSE \A p \in Op : q \notin Elems(regions[p])
    BY DEF IInv, RegionsOwned
  <2>2. \A p \in Op : Elems(regions'[p]) = IF p \in D THEN {} ELSE Elems(regions[p]) \ D
    BY <1>7
  <2>3. CASE q \in live \ D
    <3>1. PICK p \in live \cap Op : parent_op[q] = {p} /\ q \in Elems(regions[p])
      BY <2>1, <2>3
    <3>2. q \in Children(p)
      BY <1>2, <3>1 DEF ChildrenOK
    <3>3. p \notin D
      BY <1>3, <2>3, <3>2 DEF Closed
    <3>4. p \in live' \cap Op /\ parent_op'[q] = {p} /\ q \in Elems(regions'[p])
      BY <1>1, <2>2, <2>3, <3>1, <3>3
    <3>5. QED
      BY <1>1, <2>3, <3>4
  <2>4. CASE q \notin live \ D
    BY <1>1, <2>1, <2>2, <2>4
  <2>5. QED
    BY <2>3, <2>4
<1>18. NoDanglingUse'
  <2> SUFFICES ASSUME NEW q \in live' \cap Op PROVE Elems(operands'[q]) \cup Elems(successors'[q]) \subseteq live'
    BY DEF NoDanglingUse
  <2>1. q \in (live \cap Op) \ D
    BY <1>1
  <2>2. Elems(operands[q]) \cup Elems(successors[q]) \subseteq live
    BY <2>1 DEF IInv, NoDanglingUse
  <2>3. QED
    BY <1>1, <1>3, <1>4, <2>1, <2>2
<1>19. QED
  BY <1>10, <1>13, <1>14, <1>15, <1>16, <1>17, <1>18 DEF IInv, NestOK

LEMMA EraseOperationStep ==
    ASSUME IInv, StrictErase, NEW o \in Op, Operation_erase(o)
    PROVE  IInv'
<1> DEFINE D == Contained(o)
<1>1. /\ UsersOf({o}, D) = {} /\ NotUsedOutside(D \ {o}, D) /\ drop_uses(D) /\ dealloc(D)
  BY DEF Operation_erase
<1> HIDE DEF D
<1>2. \A q \in (live \cap Op) \ D : (Elems(operands[q]) \cup Elems(successors[q])) \cap D = {}
  <2> SUFFICES ASSUME NEW q \in (live \cap Op) \ D
               PROVE  (Elems(operands[q]) \cup Elems(successors[q])) \cap D = {}
    OBVIOUS
  <2>1. Elems(operands[q]) \cap {o} = {} /\ Elems(operands[q]) \cap (D \ {o}) = {}
    BY <1>1 DEF UsersOf, NotUsedOutside
  <2>2. Elems(successors[q]) \cap (D \ {o}) = {}
    BY <1>1 DEF BranchesTo, NotUsedOutside
  <2>3. Elems(successors[q]) \subseteq Block
    BY DEF IInv, IRTypeOK, Elems
  <2>4. QED
    BY <2>1, <2>2, <2>3, IRAssumption
<1>3. QED
  BY <1>1, <1>2, DeallocStep DEF D, Object

LEMMA EraseBlockStep ==
    ASSUME IInv, StrictErase, NEW b \in Block, BasicBlock_erase(b)
    PROVE  IInv'
<1> DEFINE D == Contained(b)
           O == Elems(ops[b])
<1>1. /\ BranchesTo({b}, D) = {} /\ UsersOf({b}, D) = {} /\ UsersOf(O, D) = {}
      /\ NotUsedOutside(D \ ({b} \cup O), D) /\ drop_uses(D) /\ dealloc(D)
  BY DEF BasicBlock_erase
<1>2. O \subseteq Op
  BY DEF IInv, IRTypeOK, Elems
<1> HIDE DEF D, O
<1>3. \A q \in (live \cap Op) \ D : (Elems(operands[q]) \cup Elems(successors[q])) \cap D = {}
  <2> SUFFICES ASSUME NEW q \in (live \cap Op) \ D
               PROVE  (Elems(operands[q]) \cup Elems(successors[q])) \cap D = {}
    OBVIOUS
  <2>1. Elems(operands[q]) \cap {b} = {} /\ Elems(operands[q]) \cap O = {} /\ Elems(operands[q]) \cap (D \ ({b} \cup O)) = {}
    BY <1>1 DEF UsersOf, NotUsedOutside
  <2>2. Elems(successors[q]) \cap {b} = {} /\ Elems(successors[q]) \cap (D \ ({b} \cup O)) = {}
    BY <1>1 DEF BranchesTo, NotUsedOutside
  <2>3. Elems(successors[q]) \subseteq Block
    BY DEF IInv, IRTypeOK, Elems
  <2>4. QED
    BY <1>2, <2>1, <2>2, <2>3, IRAssumption
<1>4. QED
  BY <1>1, <1>3, DeallocStep DEF D, Object

LEMMA EraseRegionStep ==
    ASSUME IInv, StrictErase, NEW o \in Op, NEW i \in 1..Len(regions[o]), erase_region(o, i)
    PROVE  IInv'
<1> DEFINE r == regions[o][i]
           D == Contained(r)
<1>1. NotUsedOutside(D, D) /\ drop_uses(D) /\ dealloc(D)
  BY DEF erase_region
<1>2. r \in Object
  BY DEF IInv, IRTypeOK, Object
<1> HIDE DEF D, r
<1>3. \A q \in (live \cap Op) \ D : (Elems(operands[q]) \cup Elems(successors[q])) \cap D = {}
  BY <1>1 DEF UsersOf, BranchesTo, NotUsedOutside
<1>4. QED
  BY <1>1, <1>2, <1>3, DeallocStep DEF D

LEMMA NextLemma == StrictErase /\ IInv /\ [IRNext]_irVars => IInv'
<1> SUFFICES ASSUME StrictErase, IInv, [IRNext]_irVars PROVE IInv'
  OBVIOUS
<1>1. CASE UNCHANGED irVars
  BY <1>1, StutterStep
<1>2. ASSUME NEW o \in Op, NEW ds \in SeqsUpTo(live \cap Value, MaxOperands),
             NEW ss \in SeqsUpTo(live \cap Block, MaxOperands), NEW rs \in SeqsUpTo(Region, 1),
             Operation_new(o, ds, ss, rs)
      PROVE  IInv'
  BY <1>2, NewOperationStep
<1>3. ASSUME NEW b \in Block, BasicBlock_new(b) PROVE IInv'
  BY <1>3, NewBlockStep
<1>4. ASSUME NEW o \in Op, NEW r \in Region, add_region(o, r) PROVE IInv'
  BY <1>4, AddRegionStep
<1>5. ASSUME NEW o \in Op, NEW b \in Block, NEW i \in 1..(Len(ops[b]) + 1), insert_op(o, b, i) PROVE IInv'
  BY <1>5, InsertOpStep
<1>6. ASSUME NEW b \in Block, NEW r \in Region, NEW i \in 1..(Len(blocks[r]) + 1), insert_block(b, r, i) PROVE IInv'
  BY <1>6, InsertBlockStep
<1>7. ASSUME NEW o \in Op, unlink_op(o) PROVE IInv'
  BY <1>7, UnlinkOpStep
<1>8. ASSUME NEW b \in Block, unlink_block(b) PROVE IInv'
  BY <1>8, UnlinkBlockStep
<1>9. ASSUME NEW r \in Region, NEW o \in Op, move_to_op(r, o) PROVE IInv'
  BY <1>9, MoveRegionStep
<1>10. ASSUME NEW o \in Op, NEW v \in Value, push_operand(o, v) PROVE IInv'
  BY <1>10, PushOperandStep
<1>11. ASSUME NEW o \in Op, NEW b \in Block, push_successor(o, b) PROVE IInv'
  BY <1>11, PushSuccessorStep
<1>12. ASSUME NEW x \in Object, drop_all_uses(x) PROVE IInv'
  BY <1>12, DropAllUsesStep
<1>13. ASSUME NEW o \in Op, Operation_erase(o) PROVE IInv'
  BY <1>13, EraseOperationStep
<1>14. ASSUME NEW b \in Block, BasicBlock_erase(b) PROVE IInv'
  BY <1>14, EraseBlockStep
<1>15. ASSUME NEW o \in Op, NEW i \in 1..Len(regions[o]), erase_region(o, i) PROVE IInv'
  BY <1>15, EraseRegionStep
<1>16. QED
  BY <1>1, <1>2, <1>3, <1>4, <1>5, <1>6, <1>7, <1>8, <1>9, <1>10, <1>11, <1>12, <1>13, <1>14, <1>15
  DEF IRNext

\* The invariant of the IR, when callers erase nothing that nests a definition used
\* from outside.
THEOREM InductiveInvariant ==
    ASSUME StrictErase
    PROVE  IRSpec => []IInv
<1>1. IRInit => IInv
  BY InitLemma
<1>2. IInv /\ [IRNext]_irVars => IInv'
  BY NextLemma
<1>3. QED
  BY <1>1, <1>2, PTL DEF IRSpec

\* At most one parent, counted as Forest counts.
LEMMA FewParents ==
    ASSUME OneParent, NEW y \in Object
    PROVE  Cardinality({x \in Object : y \in Children(x)}) <= 1
<1> DEFINE P == {x \in Object : y \in Children(x)}
<1>1. CASE P = {}
  BY <1>1, FS_EmptySet
<1>2. ASSUME NEW x \in P PROVE Cardinality(P) <= 1
  <2>1. P = {x}
    BY DEF OneParent
  <2>2. QED
    BY <2>1, FS_Singleton
<1>3. QED
  BY <1>1, <1>2

\* Whatever is built, linked, moved and erased: an allocated operation uses nothing
\* that is freed, nesting is a forest of allocated objects, and a region's parent is
\* the operation that lists it.
THEOREM NestingIsSound ==
    ASSUME StrictErase
    PROVE  IRSpec => []NestingSound
<1>1. IInv => NestingSound
  BY FewParents DEF IInv, NestOK, OnceInList, ChildrenLive, Acyclic, NestingSound, Forest
<1>2. QED
  BY <1>1, InductiveInvariant, PTL

================================================================================
