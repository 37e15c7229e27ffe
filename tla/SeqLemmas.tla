------------------------------ MODULE SeqLemmas ------------------------------
(***************************************************************************)
(* What the sequence operators the models are built from return: the       *)
(* insertion and removal by index of Vec, and of the abstract lists.       *)
(***************************************************************************)
EXTENDS Naturals, SequencesExt, SequenceTheorems, FiniteSetTheorems, WellFoundedInduction, TLAPS

\* t is s with e put in at position i.
Inserted(s, i, e, t) ==
    /\ Len(t) = Len(s) + 1
    /\ \A k \in 1..(Len(s) + 1) : t[k] = IF k < i THEN s[k] ELSE IF k = i THEN e ELSE s[k - 1]

\* t is s with position i taken out.
RemovedAt(s, i, t) ==
    /\ Len(t) = Len(s) - 1
    /\ \A k \in 1..(Len(s) - 1) : t[k] = IF k < i THEN s[k] ELSE s[k + 1]

\* InsertAt(s, i, e) is s with e at position i and the rest moved right, as
\* Vec::insert does.
LEMMA InsertAtLemma ==
    ASSUME NEW S, NEW s \in Seq(S), NEW i \in 1..(Len(s) + 1), NEW e \in S
    PROVE  InsertAt(s, i, e) \in Seq(S) /\ Inserted(s, i, e, InsertAt(s, i, e))
<1> DEFINE a == SubSeq(s, 1, i - 1)
           b == SubSeq(s, i, Len(s))
           m == <<e>>
<1>1. a \in Seq(S) /\ Len(a) = i - 1 /\ \A k \in 1..(i - 1) : a[k] = s[k]
  OBVIOUS
<1>2. b \in Seq(S) /\ Len(b) = Len(s) - i + 1 /\ \A k \in 1..(Len(s) - i + 1) : b[k] = s[i + k - 1]
  OBVIOUS
<1>3. m \in Seq(S) /\ Len(m) = 1 /\ m[1] = e
  OBVIOUS
<1>4. InsertAt(s, i, e) = (a \o m) \o b
  BY DEF InsertAt
<1> HIDE DEF a, b, m
<1> DEFINE am == a \o m
<1>5. am \in Seq(S) /\ Len(am) = i
      /\ \A k \in 1..i : am[k] = IF k <= i - 1 THEN a[k] ELSE m[k - (i - 1)]
  <2>1. /\ a \o m \in Seq(S)
        /\ Len(a \o m) = Len(a) + Len(m)
        /\ \A k \in 1 .. Len(a) + Len(m) :
             (a \o m)[k] = IF k <= Len(a) THEN a[k] ELSE m[k - Len(a)]
    BY <1>1, <1>3, ConcatProperties, Zenon
  <2> QED BY <1>1, <1>3, <2>1
<1>6. \A k \in 1..i : am[k] = IF k < i THEN s[k] ELSE e
  BY <1>1, <1>3, <1>5
<1> HIDE DEF am
<1>7. /\ am \o b \in Seq(S)
      /\ Len(am \o b) = Len(s) + 1
      /\ \A k \in 1..(Len(s) + 1) : (am \o b)[k] = IF k <= i THEN am[k] ELSE b[k - i]
  <2>1. /\ am \o b \in Seq(S)
        /\ Len(am \o b) = Len(am) + Len(b)
        /\ \A k \in 1 .. Len(am) + Len(b) :
             (am \o b)[k] = IF k <= Len(am) THEN am[k] ELSE b[k - Len(am)]
    BY <1>2, <1>5, ConcatProperties, Zenon
  <2>2. Len(am) + Len(b) = Len(s) + 1
    BY <1>2, <1>5
  <2> QED BY <1>5, <2>1, <2>2
<1>8. \A k \in 1..(Len(s) + 1) : k > i => b[k - i] = s[k - 1]
  BY <1>2
<1>9. \A k \in 1..(Len(s) + 1) :
        (am \o b)[k] = IF k < i THEN s[k] ELSE IF k = i THEN e ELSE s[k - 1]
  BY <1>6, <1>7, <1>8
<1> QED BY <1>4, <1>7, <1>9 DEF am, Inserted

\* RemoveAt(s, i) is s without position i and the rest moved left, as
\* Vec::remove does.
LEMMA RemoveAtLemma ==
    ASSUME NEW S, NEW s \in Seq(S), NEW i \in 1..Len(s)
    PROVE  RemoveAt(s, i) \in Seq(S) /\ RemovedAt(s, i, RemoveAt(s, i))
<1> DEFINE a == SubSeq(s, 1, i - 1)
           b == SubSeq(s, i + 1, Len(s))
<1>1. a \in Seq(S) /\ Len(a) = i - 1 /\ \A k \in 1..(i - 1) : a[k] = s[k]
  OBVIOUS
<1>2. b \in Seq(S) /\ Len(b) = Len(s) - i /\ \A k \in 1..(Len(s) - i) : b[k] = s[i + k]
  OBVIOUS
<1>3. RemoveAt(s, i) = a \o b
  BY DEF RemoveAt
<1> HIDE DEF a, b
<1>4. /\ a \o b \in Seq(S)
      /\ Len(a \o b) = Len(s) - 1
      /\ \A k \in 1..(Len(s) - 1) : (a \o b)[k] = IF k <= i - 1 THEN a[k] ELSE b[k - (i - 1)]
  <2>1. /\ a \o b \in Seq(S)
        /\ Len(a \o b) = Len(a) + Len(b)
        /\ \A k \in 1 .. Len(a) + Len(b) :
             (a \o b)[k] = IF k <= Len(a) THEN a[k] ELSE b[k - Len(a)]
    BY <1>1, <1>2, ConcatProperties, Zenon
  <2>2. Len(a) + Len(b) = Len(s) - 1
    BY <1>1, <1>2
  <2> QED BY <1>1, <2>1, <2>2
<1>5. \A k \in 1..(Len(s) - 1) : k >= i => b[k - (i - 1)] = s[k + 1]
  BY <1>2
<1>6. \A k \in 1..(Len(s) - 1) : (a \o b)[k] = IF k < i THEN s[k] ELSE s[k + 1]
  BY <1>1, <1>4, <1>5
<1> QED BY <1>3, <1>4, <1>6 DEF RemovedAt

\* The elements after an insertion are those before it and the new one; two
\* positions other than that of the new one come from two positions.
ElementsInserted(s, i, e, t) ==
    /\ i \in 1..Len(t) /\ t[i] = e
    /\ \A j \in 1..Len(s) : \E k \in 1..Len(t) : t[k] = s[j]
    /\ \A k \in 1..Len(t) : k # i => \E a \in 1..Len(s) : t[k] = s[a]
    /\ \A j, k \in 1..Len(t) : j # i /\ k # i =>
          \E a, b \in 1..Len(s) : t[j] = s[a] /\ t[k] = s[b] /\ (a = b => j = k)

LEMMA InsertedElements ==
    ASSUME NEW S, NEW s \in Seq(S), NEW t \in Seq(S), NEW i \in 1..(Len(s) + 1), NEW e, Inserted(s, i, e, t)
    PROVE  ElementsInserted(s, i, e, t)
<1>1. Len(s) \in Nat /\ Len(t) = Len(s) + 1 /\ i \in 1..Len(t) /\ t[i] = e
  BY DEF Inserted
<1>2. \A k \in 1..Len(s) : \/ k < i /\ k \in 1..Len(t) /\ t[k] = s[k]
                           \/ k >= i /\ k + 1 \in 1..Len(t) /\ t[k + 1] = s[k]
  BY <1>1 DEF Inserted
<1> DEFINE from(k) == IF k < i THEN k ELSE k - 1
<1>3. \A k \in 1..Len(t) : k # i => from(k) \in 1..Len(s) /\ t[k] = s[from(k)]
  BY <1>1 DEF Inserted
<1>4. \A j, k \in 1..Len(t) : j # i /\ k # i /\ from(j) = from(k) => j = k
  BY <1>1
<1> HIDE DEF from
<1>5. \A j, k \in 1..Len(t) : j # i /\ k # i =>
         \E a, b \in 1..Len(s) : t[j] = s[a] /\ t[k] = s[b] /\ (a = b => j = k)
  BY <1>3, <1>4
<1>6. \A j \in 1..Len(s) : \E k \in 1..Len(t) : t[k] = s[j]
  BY <1>2
<1>7. \A k \in 1..Len(t) : k # i => \E a \in 1..Len(s) : t[k] = s[a]
  BY <1>3
<1> QED BY <1>1, <1>5, <1>6, <1>7 DEF ElementsInserted

\* The elements after a removal are those at the other positions.
ElementsRemoved(s, i, t) ==
    /\ \A j \in 1..Len(s) : j # i => \E k \in 1..Len(t) : t[k] = s[j]
    /\ \A k \in 1..Len(t) : \E a \in 1..Len(s) : a # i /\ t[k] = s[a]
    /\ \A j, k \in 1..Len(t) :
          \E a, b \in 1..Len(s) : a # i /\ b # i /\ t[j] = s[a] /\ t[k] = s[b] /\ (a = b => j = k)

LEMMA RemovedElements ==
    ASSUME NEW S, NEW s \in Seq(S), NEW t \in Seq(S), NEW i \in 1..Len(s), RemovedAt(s, i, t)
    PROVE  ElementsRemoved(s, i, t)
<1>1. Len(s) \in Nat /\ Len(t) = Len(s) - 1
  BY DEF RemovedAt
<1>2. \A k \in 1..Len(s) : k # i => \/ k < i /\ k \in 1..Len(t) /\ t[k] = s[k]
                                    \/ k > i /\ k - 1 \in 1..Len(t) /\ t[k - 1] = s[k]
  BY <1>1 DEF RemovedAt
<1> DEFINE from(k) == IF k < i THEN k ELSE k + 1
<1>3. \A k \in 1..Len(t) : from(k) \in 1..Len(s) /\ from(k) # i /\ t[k] = s[from(k)]
  BY <1>1 DEF RemovedAt
<1>4. \A j, k \in 1..Len(t) : from(j) = from(k) => j = k
  BY <1>1
<1> HIDE DEF from
<1>5. \A j, k \in 1..Len(t) :
         \E a, b \in 1..Len(s) : a # i /\ b # i /\ t[j] = s[a] /\ t[k] = s[b] /\ (a = b => j = k)
  BY <1>3, <1>4
<1>6. \A j \in 1..Len(s) : j # i => \E k \in 1..Len(t) : t[k] = s[j]
  BY <1>2
<1>7. \A k \in 1..Len(t) : \E a \in 1..Len(s) : a # i /\ t[k] = s[a]
  BY <1>3
<1> QED BY <1>5, <1>6, <1>7 DEF ElementsRemoved

\* A set of naturals that has 0 and, with a number below n, the next one, has all
\* numbers up to n: induction, for a property given as a set.
LEMMA UpTo ==
    ASSUME NEW n \in Nat, NEW P, 0 \in P, \A k \in 0..n : k < n /\ k \in P => k + 1 \in P
    PROVE  0..n \subseteq P
<1> DEFINE B == (0..n) \ P
           R == OpToRel(<, Nat)
<1> SUFFICES ASSUME B # {} PROVE FALSE
  OBVIOUS
<1>1. PICK x \in B : \A y \in B : ~ (<<y, x>> \in R)
  <2>1. B \subseteq Nat
    OBVIOUS
  <2>2. IsWellFoundedOn(R, Nat)
    BY NatLessThanWellFounded
  <2> HIDE DEF B, R
  <2>3. QED
    BY <2>1, <2>2, WFMin
<1>2. x # 0 /\ x - 1 \in 0..n /\ x - 1 < n /\ (x - 1) + 1 = x
  OBVIOUS
<1>3. x - 1 \notin P
  BY <1>2
<1>4. x - 1 \in B /\ <<x - 1, x>> \in R
  BY <1>2, <1>3 DEF OpToRel
<1>5. QED
  BY <1>1, <1>4

\* F has the results of applying G to B up to n times.
Iterates(D, G, B, n, F) == F \in [0..n -> D] /\ F[0] = B /\ \A k \in 1..n : F[k] = G[F[k - 1]]

\* A function of a set to itself can be iterated.
LEMMA IterationExists ==
    ASSUME NEW D, NEW G \in [D -> D], NEW B \in D, NEW n \in Nat
    PROVE  \E F : Iterates(D, G, B, n, F)
<1> DEFINE Ok(k) == \E F : Iterates(D, G, B, k, F)
           P == {k \in 0..n : Ok(k)}
<1>1. 0 \in P
  <2> DEFINE F == [i \in 0..0 |-> B]
  <2>1. Iterates(D, G, B, 0, F)
    BY DEF Iterates
  <2>2. Ok(0)
    BY <2>1, Zenon
  <2> HIDE DEF Ok
  <2>3. QED
    BY <2>2
<1>2. ASSUME NEW k \in 0..n, k < n, k \in P PROVE k + 1 \in P
  <2>0. Ok(k)
    <3> HIDE DEF Ok
    <3>1. QED
      BY <1>2
  <2>1. PICK F : Iterates(D, G, B, k, F)
    BY <2>0
  <2>2. F \in [0..k -> D] /\ F[0] = B /\ \A i \in 1..k : F[i] = G[F[i - 1]]
    BY <2>1 DEF Iterates
  <2> DEFINE H == [i \in 0..(k + 1) |-> IF i <= k THEN F[i] ELSE G[F[k]]]
  <2>3. H \in [0..(k + 1) -> D]
    BY <2>2
  <2>4. H[0] = B
    BY <2>2
  <2>5. \A i \in 1..(k + 1) : H[i] = G[H[i - 1]]
    BY <2>2
  <2>6. Ok(k + 1)
    <3> HIDE DEF H
    <3>1. Iterates(D, G, B, k + 1, H)
      BY <2>3, <2>4, <2>5 DEF Iterates
    <3>2. QED
      BY <3>1, Zenon
  <2> HIDE DEF Ok
  <2>7. QED
    BY <1>2, <2>6
<1>3. 0..n \subseteq P
  <2> HIDE DEF P
  <2>1. QED
    BY <1>1, <1>2, UpTo
<1>4. n \in P
  <2> HIDE DEF P
  <2>1. QED
    BY <1>3
<1>5. QED
  BY <1>4

\* The recursive definition of the elements of s that are in S: F[i] has those of the
\* first i elements.
Filtering(s, S, F) ==
    [i \in 0..Len(s) |-> IF i = 0 THEN <<>> ELSE IF s[i] \in S THEN Append(F[i - 1], s[i]) ELSE F[i - 1]]

\* The recursive definition defines a function.
LEMMA FilteringExists ==
    ASSUME NEW E, NEW s \in Seq(E), NEW S
    PROVE  \E F : F = Filtering(s, S, F)
<1> DEFINE G(F, k) == [i \in 0..k |-> IF i = 0 THEN <<>> ELSE IF s[i] \in S THEN Append(F[i - 1], s[i]) ELSE F[i - 1]]
           Ok(k) == \E F : F = G(F, k)
           P == {k \in 0..Len(s) : Ok(k)}
<1>0. Len(s) \in Nat
  OBVIOUS
<1>1. 0 \in P
  <2> DEFINE F == [i \in 0..0 |-> <<>>]
  <2>1. F = G(F, 0)
    OBVIOUS
  <2>2. Ok(0)
    BY <2>1, Zenon
  <2> HIDE DEF Ok
  <2>3. QED
    BY <1>0, <2>2
<1>2. ASSUME NEW k \in 0..Len(s), k < Len(s), k \in P PROVE k + 1 \in P
  <2>0. Ok(k)
    <3> HIDE DEF Ok
    <3>1. QED
      BY <1>2
  <2>1. PICK F : F = G(F, k)
    BY <2>0
  <2> DEFINE H == [i \in 0..(k + 1) |-> IF i <= k THEN F[i]
                     ELSE IF s[i] \in S THEN Append(F[i - 1], s[i]) ELSE F[i - 1]]
  <2>2. \A i \in 0..k : H[i] = F[i]
    OBVIOUS
  <2>3. ASSUME NEW i \in 0..(k + 1) PROVE H[i] = G(H, k + 1)[i]
    <3>1. CASE i <= k
      <4>1. H[i] = F[i] /\ F[i] = G(F, k)[i]
        BY <2>1, <2>2, <3>1
      <4>2. i # 0 => H[i - 1] = F[i - 1]
        BY <2>2, <3>1
      <4>3. G(F, k)[i] = IF i = 0 THEN <<>> ELSE IF s[i] \in S THEN Append(F[i - 1], s[i]) ELSE F[i - 1]
        BY <3>1
      <4> HIDE DEF H
      <4>4. QED
        BY <4>1, <4>2, <4>3
    <3>2. CASE i = k + 1
      <4>1. H[i - 1] = F[i - 1]
        BY <2>2, <3>2
      <4>2. H[i] = IF s[i] \in S THEN Append(F[i - 1], s[i]) ELSE F[i - 1]
        BY <3>2
      <4> HIDE DEF H
      <4>3. QED
        BY <3>2, <4>1, <4>2
    <3>3. QED
      BY <3>1, <3>2
  <2>4. H = G(H, k + 1)
    <3>1. DOMAIN H = 0..(k + 1) /\ H = [i \in 0..(k + 1) |-> H[i]]
      OBVIOUS
    <3> HIDE DEF H
    <3>2. QED
      BY <2>3, <3>1
  <2>5. Ok(k + 1)
    <3> HIDE DEF H, G
    <3>1. QED
      BY <2>4, Zenon
  <2> HIDE DEF Ok
  <2>6. QED
    BY <1>2, <2>5
<1>3. 0..Len(s) \subseteq P
  <2> HIDE DEF P
  <2>1. QED
    BY <1>0, <1>1, <1>2, UpTo
<1>4. Ok(Len(s))
  <2> HIDE DEF Ok
  <2>1. QED
    BY <1>0, <1>3
<1>5. PICK F : F = G(F, Len(s))
  BY <1>4
<1>6. QED
  BY <1>5 DEF Filtering

\* The elements of a sequence over E are in E.
LEMMA ElementsIn ==
    ASSUME NEW E, NEW s \in Seq(E)
    PROVE  ToSet(s) \subseteq E
<1>1. DOMAIN s = 1..Len(s) /\ \A i \in 1..Len(s) : s[i] \in E
  OBVIOUS
<1>2. QED
  BY <1>1 DEF ToSet

\* Vec::push adds one element.
LEMMA AppendedElements ==
    ASSUME NEW E, NEW s \in Seq(E), NEW e \in E
    PROVE  ToSet(Append(s, e)) = ToSet(s) \cup {e}
<1>1. /\ Append(s, e) \in Seq(E) /\ Len(Append(s, e)) = Len(s) + 1
      /\ \A i \in 1..Len(s) : Append(s, e)[i] = s[i]
      /\ Append(s, e)[Len(s) + 1] = e
  BY AppendProperties
<1>2. QED
  BY <1>1 DEF ToSet

\* A new element at the end repeats nothing.
LEMMA AppendedInjective ==
    ASSUME NEW E, NEW s \in Seq(E), NEW e \in E, IsInjective(s), e \notin ToSet(s)
    PROVE  IsInjective(Append(s, e))
<1>1. /\ Append(s, e) \in Seq(E) /\ Len(Append(s, e)) = Len(s) + 1
      /\ \A i \in 1..Len(s) : Append(s, e)[i] = s[i]
      /\ Append(s, e)[Len(s) + 1] = e
  BY AppendProperties
<1>2. \A i \in 1..Len(s) : s[i] # e
  BY DEF ToSet
<1>3. DOMAIN s = 1..Len(s) /\ DOMAIN Append(s, e) = 1..(Len(s) + 1)
  BY <1>1
<1>4. \A i, j \in 1..Len(s) : s[i] = s[j] => i = j
  BY <1>3 DEF IsInjective
<1>5. ASSUME NEW i \in 1..(Len(s) + 1), NEW j \in 1..(Len(s) + 1), Append(s, e)[i] = Append(s, e)[j]
      PROVE  i = j
  <2>1. (i \in 1..Len(s) \/ i = Len(s) + 1) /\ (j \in 1..Len(s) \/ j = Len(s) + 1)
    OBVIOUS
  <2>2. QED
    BY <1>1, <1>2, <1>4, <1>5, <2>1
<1>6. QED
  BY <1>3, <1>5 DEF IsInjective

\* A filtered sequence has the elements of s that are in S, and no others, and repeats
\* none that s does not.
LEMMA FilteringResult ==
    ASSUME NEW E, NEW s \in Seq(E), NEW S, NEW F, F = Filtering(s, S, F)
    PROVE  /\ F[Len(s)] \in Seq(E) /\ ToSet(F[Len(s)]) = ToSet(s) \cap S
           /\ IsInjective(s) => IsInjective(F[Len(s)])
<1> DEFINE First(k) == {s[i] : i \in 1..k} \cap S
           Ok(k) == F[k] \in Seq(E) /\ ToSet(F[k]) = First(k) /\ (IsInjective(s) => IsInjective(F[k]))
           P == {k \in 0..Len(s) : Ok(k)}
<1>0. Len(s) \in Nat /\ DOMAIN s = 1..Len(s)
  OBVIOUS
<1>1. \A i \in 0..Len(s) : F[i] = IF i = 0 THEN <<>> ELSE IF s[i] \in S THEN Append(F[i - 1], s[i]) ELSE F[i - 1]
  <2> DEFINE G == Filtering(s, S, F)
  <2>1. \A i \in 0..Len(s) : G[i] = IF i = 0 THEN <<>> ELSE IF s[i] \in S THEN Append(F[i - 1], s[i]) ELSE F[i - 1]
    BY DEF Filtering
  <2>2. F = G
    OBVIOUS
  <2> HIDE DEF G
  <2>3. QED
    BY <2>1, <2>2
<1>2. 0 \in P
  <2>1. F[0] = <<>>
    BY <1>0, <1>1
  <2>2. <<>> \in Seq(E) /\ Len(<<>>) = 0
    OBVIOUS
  <2>3. ToSet(<<>>) = {} /\ IsInjective(<<>>)
    BY <2>2 DEF ToSet, IsInjective
  <2>4. First(0) = {}
    OBVIOUS
  <2>5. Ok(0)
    <3> HIDE DEF First
    <3>1. QED
      BY <2>1, <2>2, <2>3, <2>4
  <2> HIDE DEF Ok
  <2>6. QED
    BY <1>0, <2>5
<1>3. ASSUME NEW k \in 0..Len(s), k < Len(s), k \in P PROVE k + 1 \in P
  <2>1. k + 1 \in 1..Len(s) /\ s[k + 1] \in E /\ k + 1 \in 0..Len(s) /\ (k + 1) - 1 = k /\ k + 1 # 0
    BY <1>3
  <2>2. F[k] \in Seq(E) /\ ToSet(F[k]) = First(k) /\ (IsInjective(s) => IsInjective(F[k]))
    <3>1. Ok(k)
      <4> HIDE DEF Ok
      <4>1. QED
        BY <1>3
    <3>2. QED
      BY <3>1
  <2>3. F[k + 1] = IF s[k + 1] \in S THEN Append(F[k], s[k + 1]) ELSE F[k]
    BY <1>1, <2>1
  <2>4. First(k + 1) = First(k) \cup ({s[k + 1]} \cap S)
    <3>1. {s[i] : i \in 1..(k + 1)} = {s[i] : i \in 1..k} \cup {s[k + 1]}
      BY <1>3
    <3>2. QED
      BY <3>1
  <2>5. IsInjective(s) => s[k + 1] \notin First(k)
    <3> SUFFICES ASSUME IsInjective(s), NEW i \in 1..k, s[i] = s[k + 1] PROVE FALSE
      OBVIOUS
    <3>1. i \in 1..Len(s) /\ i # k + 1
      BY <1>3
    <3>2. QED
      BY <1>0, <2>1, <3>1 DEF IsInjective
  <2> HIDE DEF First
  <2>6. Ok(k + 1)
    <3>1. CASE s[k + 1] \in S
      <4>1. F[k + 1] = Append(F[k], s[k + 1])
        BY <2>3, <3>1
      <4>2. F[k + 1] \in Seq(E)
        BY <2>1, <2>2, <4>1
      <4>3. ToSet(F[k + 1]) = ToSet(F[k]) \cup {s[k + 1]}
        BY <2>1, <2>2, <4>1, AppendedElements
      <4>4. IsInjective(s) => IsInjective(F[k + 1])
        BY <2>1, <2>2, <2>5, <4>1, AppendedInjective
      <4>5. QED
        BY <2>4, <3>1, <2>2, <4>2, <4>3, <4>4
    <3>2. CASE s[k + 1] \notin S
      BY <2>2, <2>3, <2>4, <3>2
    <3>3. QED
      BY <3>1, <3>2
  <2> HIDE DEF Ok
  <2>7. QED
    BY <2>1, <2>6
<1>4. 0..Len(s) \subseteq P
  <2> HIDE DEF P
  <2>1. QED
    BY <1>0, <1>2, <1>3, UpTo
<1>5. F[Len(s)] \in Seq(E) /\ ToSet(F[Len(s)]) = First(Len(s)) /\ (IsInjective(s) => IsInjective(F[Len(s)]))
  <2>1. Ok(Len(s))
    <3> HIDE DEF Ok
    <3>1. QED
      BY <1>0, <1>4
  <2>2. QED
    BY <2>1
<1>6. ToSet(s) = {s[i] : i \in 1..Len(s)}
  BY <1>0 DEF ToSet
<1>7. First(Len(s)) = ToSet(s) \cap S
  BY <1>6
<1> HIDE DEF First
<1>8. QED
  BY <1>5, <1>7

\* The elements of s that are in S, as the models define them.
LEMMA FilteredElements ==
    ASSUME NEW E, NEW s \in Seq(E), NEW S
    PROVE  LET F == CHOOSE F : F = Filtering(s, S, F)
           IN  /\ F[Len(s)] \in Seq(E) /\ ToSet(F[Len(s)]) = ToSet(s) \cap S
               /\ IsInjective(s) => IsInjective(F[Len(s)])
<1> DEFINE P(G) == G = Filtering(s, S, G)
           F == CHOOSE G : P(G)
<1>1. \E G : P(G)
  BY FilteringExists, Zenon
<1>2. P(F)
  <2> HIDE DEF P
  <2>1. QED
    BY <1>1, Zenon
<1>3. F = Filtering(s, S, F)
  BY <1>2, Zenon
<1> HIDE DEF F
<1>4. /\ F[Len(s)] \in Seq(E) /\ ToSet(F[Len(s)]) = ToSet(s) \cap S
      /\ IsInjective(s) => IsInjective(F[Len(s)])
  BY <1>3, FilteringResult
<1>5. QED
  BY <1>4, Zenon DEF F

\* Vec::extend adds the elements of the other.
LEMMA ConcatElements ==
    ASSUME NEW E, NEW s \in Seq(E), NEW t \in Seq(E)
    PROVE  s \o t \in Seq(E) /\ ToSet(s \o t) = ToSet(s) \cup ToSet(t)
<1>1. /\ s \o t \in Seq(E) /\ Len(s \o t) = Len(s) + Len(t)
      /\ \A i \in 1..(Len(s) + Len(t)) : (s \o t)[i] = IF i <= Len(s) THEN s[i] ELSE t[i - Len(s)]
  BY ConcatProperties
<1>2. \A i \in 1..Len(s) : i \in 1..Len(s \o t) /\ (s \o t)[i] = s[i]
  BY <1>1
<1>3. \A i \in 1..Len(t) : i + Len(s) \in 1..Len(s \o t) /\ (s \o t)[i + Len(s)] = t[i]
  BY <1>1
<1>4. \A i \in 1..Len(s \o t) : \/ i \in 1..Len(s) /\ (s \o t)[i] = s[i]
                                \/ i - Len(s) \in 1..Len(t) /\ (s \o t)[i] = t[i - Len(s)]
  BY <1>1
<1>5. DOMAIN s = 1..Len(s) /\ DOMAIN t = 1..Len(t) /\ DOMAIN (s \o t) = 1..Len(s \o t)
  BY <1>1
<1>6. ToSet(s) = {s[i] : i \in 1..Len(s)} /\ ToSet(t) = {t[i] : i \in 1..Len(t)}
      /\ ToSet(s \o t) = {(s \o t)[i] : i \in 1..Len(s \o t)}
  BY <1>5 DEF ToSet
<1>7. ToSet(s \o t) \subseteq ToSet(s) \cup ToSet(t)
  BY <1>4, <1>6
<1>8. ToSet(s) \subseteq ToSet(s \o t)
  BY <1>2, <1>6
<1>9. ToSet(t) \subseteq ToSet(s \o t)
  BY <1>3, <1>6
<1>10. QED
  BY <1>1, <1>7, <1>8, <1>9

\* push_front, one by one, adds the elements of the other too.
LEMMA ReversedElements ==
    ASSUME NEW E, NEW s \in Seq(E)
    PROVE  Reverse(s) \in Seq(E) /\ ToSet(Reverse(s)) = ToSet(s)
<1>1. Len(s) \in Nat /\ DOMAIN s = 1..Len(s) /\ \A i \in 1..Len(s) : s[i] \in E
  OBVIOUS
<1>2. Reverse(s) = [i \in 1..Len(s) |-> s[(Len(s) - i) + 1]]
  BY DEF Reverse
<1>3. \A i \in 1..Len(s) : (Len(s) - i) + 1 \in 1..Len(s) /\ (Len(s) - ((Len(s) - i) + 1)) + 1 = i
  BY <1>1
<1>4. Reverse(s) \in [1..Len(s) -> E]
  BY <1>1, <1>2, <1>3
<1>5. Reverse(s) \in Seq(E)
  BY <1>1, <1>4
<1>6. DOMAIN Reverse(s) = 1..Len(s)
  BY <1>2
<1>7. \A i \in 1..Len(s) : s[i] = Reverse(s)[(Len(s) - i) + 1]
  BY <1>2, <1>3
<1>8. \A i \in 1..Len(s) : Reverse(s)[i] = s[(Len(s) - i) + 1]
  BY <1>2
<1>9. ToSet(Reverse(s)) = ToSet(s)
  BY <1>1, <1>3, <1>6, <1>7, <1>8 DEF ToSet
<1>10. QED
  BY <1>5, <1>9

\* VecDeque::pop_front takes one element and leaves the others.
LEMMA HeadElements ==
    ASSUME NEW E, NEW s \in Seq(E), s # <<>>
    PROVE  /\ Head(s) \in E /\ Tail(s) \in Seq(E) /\ Head(s) \in ToSet(s)
           /\ ToSet(s) = {Head(s)} \cup ToSet(Tail(s))
<1>1. /\ Head(s) = s[1] /\ Len(s) \in Nat /\ Len(s) >= 1
      /\ Tail(s) \in Seq(E) /\ Len(Tail(s)) = Len(s) - 1
      /\ \A i \in 1..Len(Tail(s)) : Tail(s)[i] = s[i + 1]
  OBVIOUS
<1>2. DOMAIN s = 1..Len(s) /\ DOMAIN Tail(s) = 1..Len(Tail(s)) 
  BY <1>1
<1>3. \A i \in 1..Len(s) : i = 1 \/ (i - 1 \in 1..Len(Tail(s)) /\ Tail(s)[i - 1] = s[i])
  BY <1>1
<1>4. \A i \in 1..Len(Tail(s)) : i + 1 \in 1..Len(s) /\ Tail(s)[i] = s[i + 1]
  BY <1>1
<1>5. ToSet(s) = {s[i] : i \in 1..Len(s)} /\ ToSet(Tail(s)) = {Tail(s)[i] : i \in 1..Len(Tail(s))}
  BY <1>2 DEF ToSet
<1>6. 1 \in 1..Len(s) /\ s[1] \in E
  BY <1>1
<1>7. ToSet(s) \subseteq {Head(s)} \cup ToSet(Tail(s))
  <2> SUFFICES ASSUME NEW i \in 1..Len(s) PROVE s[i] = Head(s) \/ s[i] \in ToSet(Tail(s))
    BY <1>5
  <2>1. QED
    BY <1>1, <1>3, <1>5
<1>8. {Head(s)} \cup ToSet(Tail(s)) \subseteq ToSet(s)
  BY <1>1, <1>4, <1>5, <1>6
<1>9. QED
  BY <1>1, <1>6, <1>7, <1>8

\* A sequence of SetToSeqs(S) has the elements of the finite set S.
LEMMA SequencesOfSet ==
    ASSUME NEW S, IsFiniteSet(S), NEW s \in SetToSeqs(S)
    PROVE  s \in Seq(S) /\ ToSet(s) = S
<1> DEFINE n == Cardinality(S)
<1>1. n \in Nat
  BY FS_CardinalityType
<1>2. s \in [1..n -> S] /\ (\A i, j \in 1..n : i # j => s[i] # s[j])
  BY DEF SetToSeqs
<1>3. s \in Injection(1..n, S)
  BY <1>2 DEF Injection, IsInjective
<1>4. Cardinality(1..n) = n
  BY <1>1, FS_Interval
<1>5. s \in Surjection(1..n, S)
  <2> HIDE DEF n
  <2>1. n = Cardinality(S)
    BY DEF n
  <2>2. QED
    BY <1>3, <1>4, <2>1, FS_Injection
<1>6. \A x \in S : \E i \in 1..n : s[i] = x
  BY <1>5 DEF Surjection
<1> HIDE DEF n
<1>7. s \in Seq(S) /\ DOMAIN s = 1..n
  BY <1>1, <1>2
<1>8. QED
  BY <1>2, <1>6, <1>7 DEF ToSet

\* A finite set, as a sequence in some order.
LEMMA SequenceOfFinite ==
    ASSUME NEW E, NEW S \in SUBSET E, IsFiniteSet(S)
    PROVE  /\ SetToSeq(S) \in Seq(E) /\ ToSet(SetToSeq(S)) = S
           /\ SetToSeq(S) \in SetToSeqs(S) /\ IsInjective(SetToSeq(S))
<1> DEFINE n == Cardinality(S)
<1>1. \E f \in [1..n -> S] : IsInjective(f)
  <2>1. PICK f \in Bijection(1..n, S) : TRUE
    BY FS_CardinalityType DEF ExistsBijection
  <2>2. f \in [1..n -> S] /\ IsInjective(f)
    BY <2>1 DEF Bijection, Injection, IsInjective
  <2>3. QED
    BY <2>2
<1>2. SetToSeq(S) \in [1..n -> S] /\ IsInjective(SetToSeq(S))
  BY <1>1 DEF SetToSeq
<1>3. SetToSeq(S) \in SetToSeqs(S)
  BY <1>2 DEF SetToSeqs, IsInjective
<1>4. SetToSeq(S) \in Seq(S) /\ ToSet(SetToSeq(S)) = S
  BY <1>3, SequencesOfSet
<1>5. SetToSeq(S) \in Seq(E)
  BY <1>4, SeqMonotonic
<1>6. QED
  BY <1>2, <1>3, <1>4, <1>5

\* SetToSeq of a set of at most one element.
LEMMA SequenceOfFew ==
    ASSUME NEW E, NEW S \in {{}} \cup {{x} : x \in E}
    PROVE  SetToSeq(S) \in Seq(E) /\ ToSet(SetToSeq(S)) = S /\ IsFiniteSet(S)
<1>1. IsFiniteSet(S) /\ S \in SUBSET E
  BY FS_EmptySet, FS_Singleton
<1>2. QED
  BY <1>1, SequenceOfFinite

\* A function on 1..n is a sequence.
LEMMA FunctionIsSeq ==
    ASSUME NEW E, NEW n \in Nat, NEW f \in [1..n -> E]
    PROVE  f \in Seq(E)
  OBVIOUS

\* Sequences of no and of one element.
LEMMA ShortSeqs ==
    ASSUME NEW E
    PROVE  <<>> \in Seq(E) /\ \A e \in E : <<e>> \in Seq(E)
  OBVIOUS

\* Vec::pop leaves the elements before the last one.
LEMMA FrontLemma ==
    ASSUME NEW E, NEW s \in Seq(E), Len(s) # 0
    PROVE  /\ Front(s) \in Seq(E) /\ Len(Front(s)) = Len(s) - 1
           /\ \A i \in 1..(Len(s) - 1) : Front(s)[i] = s[i]
<1>1. Front(s) = SubSeq(s, 1, Len(s) - 1)
  BY Zenon DEF Front
<1> DEFINE n == Len(s) - 1
<1>2. n \in Nat /\ n <= Len(s)
  OBVIOUS
<1> HIDE DEF n
<1>3. SubSeq(s, 1, n) \in Seq(E) /\ Len(SubSeq(s, 1, n)) = n /\ \A i \in 1..n : SubSeq(s, 1, n)[i] = s[i]
  BY <1>2
<1>4. QED
  BY <1>1, <1>3 DEF n

\* An insertion adds one element, and repeats none if it is new.
LEMMA InsertAtElements ==
    ASSUME NEW S, NEW s \in Seq(S), NEW i \in 1..(Len(s) + 1), NEW e \in S
    PROVE  /\ InsertAt(s, i, e) \in Seq(S) /\ ToSet(InsertAt(s, i, e)) = ToSet(s) \cup {e}
           /\ IsInjective(s) /\ e \notin ToSet(s) => IsInjective(InsertAt(s, i, e))
<1> DEFINE t == InsertAt(s, i, e)
<1>1. t \in Seq(S) /\ Inserted(s, i, e, t)
  BY InsertAtLemma
<1> HIDE DEF t
<1>2. ElementsInserted(s, i, e, t)
  <2>1. Inserted(s, i, e, t)
    BY <1>1
  <2>2. QED
    BY <1>1, <2>1, InsertedElements
<1>3. DOMAIN s = 1..Len(s) /\ DOMAIN t = 1..Len(t)
  BY <1>1
<1>4. ToSet(s) = {s[k] : k \in 1..Len(s)} /\ ToSet(t) = {t[k] : k \in 1..Len(t)}
  BY <1>3 DEF ToSet
<1>5. ToSet(t) \subseteq ToSet(s) \cup {e}
  BY <1>2, <1>4 DEF ElementsInserted
<1>6. ToSet(s) \cup {e} \subseteq ToSet(t)
  BY <1>2, <1>4 DEF ElementsInserted
<1>7. ASSUME IsInjective(s), e \notin ToSet(s), NEW j \in 1..Len(t), NEW k \in 1..Len(t), t[j] = t[k]
      PROVE  j = k
  <2>1. t[i] = e /\ \A a \in 1..Len(t) : a # i => t[a] \in ToSet(s)
    BY <1>2, <1>4 DEF ElementsInserted
  <2>2. CASE j = i \/ k = i
    BY <1>7, <2>1, <2>2
  <2>3. CASE j # i /\ k # i
    <3>1. PICK a \in 1..Len(s), b \in 1..Len(s) : t[j] = s[a] /\ t[k] = s[b] /\ (a = b => j = k)
      BY <1>2, <2>3 DEF ElementsInserted
    <3>2. a = b
      BY <1>3, <1>7, <3>1 DEF IsInjective
    <3>3. QED
      BY <3>1, <3>2
  <2>4. QED
    BY <2>2, <2>3
<1>8. IsInjective(s) /\ e \notin ToSet(s) => IsInjective(t)
  BY <1>3, <1>7 DEF IsInjective
<1>9. QED
  BY <1>1, <1>5, <1>6, <1>8 DEF t

(***************************************************************************)
(* Concatenations of lists of sequences                                    *)
(***************************************************************************)

\* The recursive definition of the concatenation of the first k sequences of s.
Flattening(s, n, F) == [i \in 1..n |-> IF i = 1 THEN s[i] ELSE F[i - 1] \o s[i]]

\* There is a function that the definition describes, for every number of sequences.
LEMMA FlatteningExists ==
    ASSUME NEW s, NEW n \in Nat
    PROVE  \E F : F = Flattening(s, n, F)
<1> DEFINE Ok(k) == \E F : F = Flattening(s, k, F)
           P == {k \in 0..n : Ok(k)}
<1>1. 0 \in P
  <2> DEFINE F == [i \in 1..0 |-> <<>>]
  <2>1. F = Flattening(s, 0, F)
    BY DEF Flattening
  <2>2. Ok(0)
    BY <2>1, Zenon
  <2> HIDE DEF Ok
  <2>3. QED
    BY <2>2
<1>2. ASSUME NEW k \in 0..n, k < n, k \in P PROVE k + 1 \in P
  <2>1. Ok(k)
    <3> HIDE DEF Ok
    <3>1. QED
      BY <1>2
  <2>2. PICK F : F = Flattening(s, k, F)
    BY <2>1
  <2> DEFINE H == [i \in 1..(k + 1) |-> IF i <= k THEN F[i] ELSE IF i = 1 THEN s[i] ELSE F[i - 1] \o s[i]]
             G == Flattening(s, k + 1, H)
             D == Flattening(s, k, F)
  <2>3. \A i \in 1..k : H[i] = F[i]
    OBVIOUS
  <2>4. \A i \in 1..(k + 1) : G[i] = IF i = 1 THEN s[i] ELSE H[i - 1] \o s[i]
    BY DEF Flattening
  <2>5. \A i \in 1..k : D[i] = IF i = 1 THEN s[i] ELSE F[i - 1] \o s[i]
    BY DEF Flattening
  <2>6. H[k + 1] = IF k + 1 = 1 THEN s[k + 1] ELSE F[(k + 1) - 1] \o s[k + 1]
    OBVIOUS
  <2>7. DOMAIN H = 1..(k + 1) /\ H = [i \in 1..(k + 1) |-> H[i]]
    OBVIOUS
  <2>8. DOMAIN G = 1..(k + 1) /\ G = [i \in 1..(k + 1) |-> G[i]]
    BY DEF Flattening
  <2>9. F = D
    BY <2>2
  <2> HIDE DEF H, G, D
  <2>10. ASSUME NEW i \in 1..(k + 1) PROVE H[i] = G[i]
    <3>1. CASE i <= k
      <4>1. i \in 1..k /\ (i # 1 => i - 1 \in 1..k)
        BY <3>1
      <4>2. H[i] = IF i = 1 THEN s[i] ELSE F[i - 1] \o s[i]
        BY <2>3, <2>5, <2>9, <4>1
      <4>3. G[i] = IF i = 1 THEN s[i] ELSE H[i - 1] \o s[i]
        BY <2>4
      <4>4. i # 1 => H[i - 1] = F[i - 1]
        BY <2>3, <4>1
      <4>5. QED
        BY <4>2, <4>3, <4>4
    <3>2. CASE i = k + 1
      <4>1. i # 1 => i - 1 \in 1..k
        BY <3>2
      <4>2. i # 1 => H[i - 1] = F[i - 1]
        BY <2>3, <4>1
      <4>3. H[i] = IF i = 1 THEN s[i] ELSE F[i - 1] \o s[i]
        BY <2>6, <3>2
      <4>4. QED
        BY <2>4, <4>2, <4>3
    <3>3. QED
      BY <3>1, <3>2
  <2>11. H = G
    BY <2>7, <2>8, <2>10
  <2>12. Ok(k + 1)
    BY <2>11, Zenon DEF G
  <2> HIDE DEF Ok
  <2>13. QED
    BY <1>2, <2>12
<1>3. 0..n \subseteq P
  <2> HIDE DEF P
  <2>1. QED
    BY <1>1, <1>2, UpTo
<1>4. Ok(n)
  <2> HIDE DEF Ok
  <2>1. QED
    BY <1>3
<1>5. QED
  BY <1>4

\* FlattenSeq is the last of those concatenations.
FlattenedBy(s, F) ==
    /\ FlattenSeq(s) = F[Len(s)] /\ F[1] = s[1]
    /\ \A i \in 1..Len(s) : i # 1 => F[i] = F[i - 1] \o s[i]

\* What FlattenSeq computes is described by the definition, step by step.
LEMMA FlattenSteps ==
    ASSUME NEW S, NEW s \in Seq(S), s # <<>>
    PROVE  \E F : FlattenedBy(s, F)
<1> DEFINE P(G) == G = Flattening(s, Len(s), G)
           F == CHOOSE G : P(G)
<1>1. Len(s) \in Nat /\ Len(s) # 0
  OBVIOUS
<1>2. P(F)
  <2>1. \E G : P(G)
    BY <1>1, FlatteningExists
  <2> HIDE DEF P
  <2>2. QED
    BY <2>1, Zenon
<1>3. F = Flattening(s, Len(s), F)
  BY <1>2, Zenon
<1>4. FlattenSeq(s) = F[Len(s)]
  BY <1>1, Zenon DEF FlattenSeq, Flattening
<1> HIDE DEF F
<1>5. \A i \in 1..Len(s) : F[i] = IF i = 1 THEN s[i] ELSE F[i - 1] \o s[i]
  <2> DEFINE G == Flattening(s, Len(s), F)
  <2>1. \A i \in 1..Len(s) : G[i] = IF i = 1 THEN s[i] ELSE F[i - 1] \o s[i]
    BY DEF Flattening
  <2>2. F = G
    BY <1>3
  <2> HIDE DEF G
  <2>3. QED
    BY <2>1, <2>2
<1>6. F[1] = s[1]
  <2>1. 1 \in 1..Len(s)
    BY <1>1
  <2>2. QED
    BY <1>5, <2>1
<1>7. FlattenedBy(s, F)
  BY <1>4, <1>5, <1>6 DEF FlattenedBy
<1>8. QED
  BY <1>7

\* All of them are sequences.
LEMMA FlattenedType ==
    ASSUME NEW E, NEW s \in Seq(Seq(E)), s # <<>>, NEW F, FlattenedBy(s, F)
    PROVE  \A i \in 1..Len(s) : F[i] \in Seq(E)
<1> DEFINE n == Len(s)
           P == {k \in 0..n : k # 0 => F[k] \in Seq(E)}
<1>1. n \in Nat /\ n # 0 /\ \A i \in 1..n : s[i] \in Seq(E)
  OBVIOUS
<1>2. F[1] = s[1] /\ \A i \in 1..n : i # 1 => F[i] = F[i - 1] \o s[i]
  BY DEF FlattenedBy
<1> HIDE DEF n
<1>3. 0 \in P
  BY <1>1
<1>4. ASSUME NEW k \in 0..n, k < n, k \in P PROVE k + 1 \in P
  <2>1. k + 1 \in 0..n /\ k + 1 \in 1..n /\ s[k + 1] \in Seq(E) /\ (k + 1) - 1 = k
    BY <1>1, <1>4
  <2>2. CASE k = 0
    <3>1. F[k + 1] = s[k + 1]
      BY <1>2, <2>2
    <3>2. QED
      BY <2>1, <3>1
  <2>3. CASE k # 0
    <3>1. F[k] \in Seq(E)
      BY <1>4, <2>3
    <3>2. k + 1 # 1
      BY <2>3
    <3>3. F[k + 1] = F[k] \o s[k + 1]
      BY <1>2, <2>1, <3>2
    <3>4. F[k + 1] \in Seq(E)
      BY <2>1, <3>1, <3>3, ConcatProperties
    <3>5. QED
      BY <2>1, <3>4
  <2>4. QED
    BY <2>2, <2>3
<1>5. 0..n \subseteq P
  <2> HIDE DEF P
  <2>1. QED
    BY <1>1, <1>3, <1>4, UpTo
<1>6. ASSUME NEW i \in 1..n PROVE F[i] \in Seq(E)
  <2>1. i \in 0..n /\ i # 0
    BY <1>1
  <2>2. QED
    BY <1>5, <2>1
<1>7. QED
  BY <1>6 DEF n

\* Concatenating a list of sequences begins with the first of them.
LEMMA FlattenSeqLemma ==
    ASSUME NEW E, NEW s \in Seq(Seq(E))
    PROVE  /\ FlattenSeq(s) \in Seq(E)
           /\ s = <<>> => FlattenSeq(s) = <<>>
           /\ s # <<>> => FlattenSeq(s) = s[1] \o FlattenSeq(Tail(s))
<1>1. Len(s) \in Nat /\ (s = <<>> <=> Len(s) = 0)
  OBVIOUS
<1>2. ASSUME s = <<>> PROVE FlattenSeq(s) = <<>>
  BY <1>1, <1>2, Zenon DEF FlattenSeq
<1>3. ASSUME s # <<>> PROVE FlattenSeq(s) \in Seq(E) /\ FlattenSeq(s) = s[1] \o FlattenSeq(Tail(s))
  <2>1. PICK F : FlattenedBy(s, F)
    BY <1>3, FlattenSteps
  <2>2. \A i \in 1..Len(s) : F[i] \in Seq(E)
    BY <1>3, <2>1, FlattenedType
  <2>3. /\ FlattenSeq(s) = F[Len(s)] /\ F[1] = s[1]
        /\ \A i \in 1..Len(s) : i # 1 => F[i] = F[i - 1] \o s[i]
    BY <2>1 DEF FlattenedBy
  <2> DEFINE n == Len(s)
             t == Tail(s)
  <2>4. /\ n \in Nat /\ n >= 1 /\ t \in Seq(Seq(E)) /\ Len(t) = n - 1 /\ \A i \in 1..(n - 1) : t[i] = s[i + 1]
        /\ \A i \in 1..n : s[i] \in Seq(E)
    BY <1>1, <1>3
  <2>5. /\ FlattenSeq(s) = F[n] /\ \A i \in 1..n : F[i] \in Seq(E)
        /\ F[1] = s[1] /\ \A i \in 1..n : i # 1 => F[i] = F[i - 1] \o s[i]
    BY <2>2, <2>3
  <2> HIDE DEF n, t
  <2>6. (t = <<>> <=> n = 1) /\ (t = <<>> => Len(t) = 0)
    <3>1. t = <<>> <=> Len(t) = 0
      BY <2>4, EmptySeq
    <3>2. Len(t) = 0 <=> n = 1
      BY <2>4
    <3>3. QED
      BY <3>1, <3>2
  <2>7. 1 \in 1..n /\ n \in 1..n
    BY <2>4
  <2>8. CASE t = <<>>
    <3>1. FlattenSeq(t) = <<>>
      BY <2>6, <2>8, Zenon DEF FlattenSeq
    <3>2. FlattenSeq(s) = s[1] /\ s[1] \in Seq(E)
      BY <2>4, <2>5, <2>6, <2>7, <2>8
    <3>3. s[1] \o <<>> = s[1]
      BY <3>2, ConcatSimplifications
    <3>4. QED
      BY <3>1, <3>2, <3>3 DEF t
  <2>9. CASE t # <<>>
    <3>1. PICK G : FlattenedBy(t, G)
      BY <2>4, <2>9, FlattenSteps
    <3>2. \A i \in 1..Len(t) : G[i] \in Seq(E)
      BY <2>4, <2>9, <3>1, FlattenedType
    <3>3. /\ FlattenSeq(t) = G[n - 1] /\ G[1] = t[1] /\ \A i \in 1..(n - 1) : G[i] \in Seq(E)
          /\ \A i \in 1..(n - 1) : i # 1 => G[i] = G[i - 1] \o t[i]
      BY <2>4, <3>1, <3>2 DEF FlattenedBy
    <3> DEFINE m == n - 2
               P == {k \in 0..m : F[k + 2] = s[1] \o G[k + 1]}
    <3>4. m \in Nat /\ n = m + 2 /\ n - 1 = m + 1
      BY <2>4, <2>6, <2>9
    <3> HIDE DEF m
    <3>5. 0 \in P
      <4>1. 2 \in 1..n /\ 1 \in 1..(n - 1) /\ 2 # 1 /\ 2 - 1 = 1 /\ 1 + 1 = 2
        BY <3>4
      <4>2. F[2] = s[1] \o s[2] /\ G[1] = s[2]
        BY <2>4, <2>5, <3>3, <4>1
      <4>3. 0 + 2 = 2 /\ 0 + 1 = 1 /\ 0 \in 0..m
        BY <3>4
      <4>4. QED
        BY <4>2, <4>3
    <3>6. ASSUME NEW k \in 0..m, k < m, k \in P PROVE k + 1 \in P
      <4>1. /\ k + 1 \in 0..m /\ k + 3 \in 1..n /\ k + 3 # 1 /\ (k + 3) - 1 = k + 2 /\ (k + 1) + 2 = k + 3
            /\ k + 2 \in 1..(n - 1) /\ k + 2 # 1 /\ (k + 2) - 1 = k + 1 /\ (k + 1) + 1 = k + 2 /\ (k + 2) + 1 = k + 3
            /\ k + 1 \in 1..(n - 1)
        BY <3>4, <3>6
      <4>2. F[k + 3] = F[k + 2] \o s[k + 3] /\ F[k + 2] = s[1] \o G[k + 1]
        BY <2>5, <3>6, <4>1
      <4>3. G[k + 2] = G[k + 1] \o s[k + 3]
        BY <2>4, <3>3, <4>1
      <4>4. s[1] \in Seq(E) /\ G[k + 1] \in Seq(E) /\ s[k + 3] \in Seq(E)
        BY <2>4, <2>7, <3>3, <4>1
      <4>5. (s[1] \o G[k + 1]) \o s[k + 3] = s[1] \o (G[k + 1] \o s[k + 3])
        <5>1. \A a, b, c \in Seq(E) : (a \o b) \o c = a \o (b \o c)
          BY ConcatAssociative
        <5>2. QED
          BY <4>4, <5>1
      <4>6. F[k + 3] = s[1] \o G[k + 2]
        BY <4>2, <4>3, <4>5
      <4>7. QED
        BY <4>1, <4>6
    <3>7. 0..m \subseteq P
      <4> HIDE DEF P
      <4>1. QED
        BY <3>4, <3>5, <3>6, UpTo
    <3>8. F[n] = s[1] \o G[n - 1]
      <4>1. m \in P
        <5> HIDE DEF P
        <5>1. m \in 0..m
          BY <3>4
        <5>2. QED
          BY <3>7, <5>1
      <4>2. QED
        BY <3>4, <4>1
    <3>9. F[n] \in Seq(E)
      BY <2>5, <2>7
    <3>10. QED
      BY <2>5, <3>3, <3>8, <3>9 DEF t
  <2>10. QED
    BY <2>8, <2>9
<1>4. QED
  BY <1>1, <1>2, <1>3

\* Concatenating ends with the last of the sequences.
LEMMA FlattenAppend ==
    ASSUME NEW E, NEW s \in Seq(Seq(E)), NEW x \in Seq(E)
    PROVE  FlattenSeq(Append(s, x)) = FlattenSeq(s) \o x
<1> DEFINE t == Append(s, x)
           n == Len(s)
<1>1. /\ n \in Nat /\ (s = <<>> <=> n = 0) /\ t \in Seq(Seq(E)) /\ Len(t) = n + 1 /\ t[n + 1] = x
      /\ \A i \in 1..n : t[i] = s[i]
  OBVIOUS
<1>2. t # <<>>
  <2> HIDE DEF n, t
  <2>1. Len(t) # 0
    BY <1>1
  <2>2. QED
    BY <1>1, <2>1, EmptySeq
<1>3. PICK G : FlattenedBy(t, G)
  BY <1>1, <1>2, FlattenSteps
<1>4. /\ FlattenSeq(t) = G[n + 1] /\ G[1] = t[1]
      /\ \A i \in 1..(n + 1) : i # 1 => G[i] = G[i - 1] \o t[i]
  BY <1>1, <1>3 DEF FlattenedBy
<1> HIDE DEF n, t
<1>5. CASE s = <<>>
  <2>1. FlattenSeq(s) = <<>>
    BY <1>5, FlattenSeqLemma
  <2>2. FlattenSeq(t) = x
    BY <1>1, <1>4, <1>5
  <2>3. <<>> \o x = x
    BY ConcatSimplifications
  <2>4. QED
    BY <2>1, <2>2, <2>3 DEF t
<1>6. CASE s # <<>>
  <2>1. PICK F : FlattenedBy(s, F)
    BY <1>6, FlattenSteps
  <2>2. /\ FlattenSeq(s) = F[n] /\ F[1] = s[1]
        /\ \A i \in 1..n : i # 1 => F[i] = F[i - 1] \o s[i]
    BY <2>1 DEF FlattenedBy, n
  <2> DEFINE m == n - 1
             P == {k \in 0..m : F[k + 1] = G[k + 1]}
  <2>3. m \in Nat /\ n = m + 1
    BY <1>1, <1>6
  <2> HIDE DEF m
  <2>4. 0 \in P
    <3>1. 1 \in 1..n /\ 0 \in 0..m /\ 0 + 1 = 1
      BY <2>3
    <3>2. QED
      BY <1>1, <1>4, <2>2, <3>1
  <2>5. ASSUME NEW k \in 0..m, k < m, k \in P PROVE k + 1 \in P
    <3>1. /\ k + 2 \in 1..n /\ k + 2 \in 1..(n + 1) /\ k + 2 # 1 /\ (k + 2) - 1 = k + 1 /\ (k + 1) + 1 = k + 2
          /\ k + 1 \in 0..m
      BY <2>3, <2>5
    <3>2. F[k + 2] = F[k + 1] \o s[k + 2] /\ G[k + 2] = G[k + 1] \o t[k + 2] /\ t[k + 2] = s[k + 2]
      BY <1>1, <1>4, <2>2, <3>1
    <3>3. QED
      BY <2>5, <3>1, <3>2
  <2>6. F[n] = G[n]
    <3>1. 0..m \subseteq P
      <4> HIDE DEF P
      <4>1. QED
        BY <2>3, <2>4, <2>5, UpTo
    <3>2. m \in 0..m
      BY <2>3
    <3>3. m \in P
      <4> HIDE DEF P
      <4>1. QED
        BY <3>1, <3>2
    <3>4. QED
      BY <2>3, <3>3
  <2>7. G[n + 1] = G[n] \o x
    <3>1. n + 1 \in 1..(n + 1) /\ n + 1 # 1 /\ (n + 1) - 1 = n
      BY <2>3
    <3>2. QED
      BY <1>1, <1>4, <3>1
  <2>8. QED
    BY <1>4, <2>2, <2>6, <2>7 DEF t
<1>7. QED
  BY <1>5, <1>6

\* Without repetitions a sequence is as long as it has elements.
LEMMA InjectiveLength ==
    ASSUME NEW E, NEW s \in Seq(E), IsInjective(s)
    PROVE  IsFiniteSet(ToSet(s)) /\ Cardinality(ToSet(s)) = Len(s)
<1> DEFINE n == Len(s)
<1>1. n \in Nat /\ DOMAIN s = 1..n /\ s \in [1..n -> ToSet(s)]
  BY DEF ToSet
<1>2. \A i, j \in 1..n : s[i] = s[j] => i = j
  BY DEF IsInjective
<1>3. \A e \in ToSet(s) : \E i \in 1..n : s[i] = e
  BY DEF ToSet
<1> DEFINE T == ToSet(s)
<1>4. IsFiniteSet(1..n) /\ Cardinality(1..n) = n
  <2> HIDE DEF n
  <2>1. /\ 1 \in Int /\ n \in Int
    BY <1>1
  <2>2. IsFiniteSet(1..n) /\ Cardinality(1..n) = IF 1 > n THEN 0 ELSE n - 1 + 1
    BY <2>1, FS_Interval
  <2>3. QED
    BY <1>1, <2>2
<1> HIDE DEF n, T
<1>5. s \in Bijection(1..n, T)
  <2>1. s \in Injection(1..n, T)
    BY <1>1, <1>2 DEF T, Injection, IsInjective
  <2>2. s \in Surjection(1..n, T)
    BY <1>1, <1>3 DEF T, Surjection
  <2>3. QED
    BY <2>1, <2>2 DEF Bijection
<1>6. ExistsBijection(1..n, T)
  BY <1>5 DEF ExistsBijection
<1>7. QED
  BY <1>4, <1>6, FS_Bijection DEF n, T
=============================================================================
