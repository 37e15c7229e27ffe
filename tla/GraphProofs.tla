----------------------------- MODULE GraphProofs -----------------------------
(***************************************************************************)
(* Proofs about the graph algorithms, for every graph.                     *)
(***************************************************************************)
EXTENDS LoopTree, SeqLemmas

(***************************************************************************)
(* Reachability                                                            *)
(***************************************************************************)

\* Whoever is in S has its successors in S, but for those to avoid.
ClosedSet(g, Avoid, S) == \A n \in S : Succs(g, n) \ Avoid \subseteq S

\* R is the least closed set with From.
IsReach(g, From, Avoid, R) ==
    /\ From \ Avoid \subseteq R /\ R \subseteq NodeSet(g) \ Avoid /\ ClosedSet(g, Avoid, R)
    /\ \A S : From \ Avoid \subseteq S /\ ClosedSet(g, Avoid, S) => R \subseteq S

LEMMA GraphLemma ==
    ASSUME NEW g, IsGraph(g)
    PROVE  /\ Len(g.nodes) \in Nat /\ Len(g.nodes) >= 1 /\ entry_node(g) \in NodeSet(g)
           /\ \A i \in 1..Len(g.nodes) : g.nodes[i] \in NodeSet(g)
           /\ \A i, j \in 1..Len(g.nodes) : g.nodes[i] = g.nodes[j] => i = j
           /\ \A n \in NodeSet(g) : /\ Len(g.succ[n]) \in Nat /\ Succs(g, n) \subseteq NodeSet(g)
                                    /\ \A k \in 1..Len(g.succ[n]) : g.succ[n][k] \in Succs(g, n)
           /\ IsFiniteSet(NodeSet(g)) /\ Cardinality(NodeSet(g)) = Len(g.nodes)
<1> DEFINE s == g.nodes
           N == NodeSet(g)
<1>1. s \in Seq(N) /\ s # <<>> /\ IsInjective(s) /\ N = {s[i] : i \in 1..Len(s)}
  BY DEF IsGraph, NodeSet
<1>2. /\ Len(s) \in Nat /\ Len(s) >= 1 /\ entry_node(g) \in N
      /\ \A i \in 1..Len(s) : s[i] \in N
  <2>1. Len(s) \in Nat \ {0}
    <3> HIDE DEF s
    <3>1. QED
      BY <1>1, EmptySeq
  <2>2. 1 \in 1..Len(s)
    BY <2>1
  <2>3. QED
    BY <1>1, <2>1, <2>2 DEF entry_node
<1>3. \A i, j \in 1..Len(s) : s[i] = s[j] => i = j
  <2> HIDE DEF s
  <2>1. DOMAIN s = 1..Len(s)
    BY <1>1
  <2>2. QED
    BY <1>1, <2>1 DEF IsInjective
<1>4. ASSUME NEW n \in N
      PROVE  /\ Len(g.succ[n]) \in Nat /\ Succs(g, n) \subseteq N
             /\ \A k \in 1..Len(g.succ[n]) : g.succ[n][k] \in Succs(g, n)
  <2>1. g.succ[n] \in Seq(N)
    BY DEF IsGraph
  <2> HIDE DEF N
  <2>2. QED
    BY <2>1 DEF Succs
<1>5. N = ToSet(s)
  BY <1>1 DEF ToSet
<1>6. IsFiniteSet(N) /\ Cardinality(N) = Len(s)
  <2> HIDE DEF s, N
  <2>1. QED
    BY <1>1, <1>5, InjectiveLength
<1>7. QED
  BY <1>2, <1>3, <1>4, <1>6 DEF s, N

LEMMA ReachLemma ==
    ASSUME NEW g, IsGraph(g), NEW From \in SUBSET NodeSet(g), NEW Avoid
    PROVE  IsReach(g, From, Avoid, ReachAvoiding(g, From, Avoid))
<1> DEFINE N == NodeSet(g)
           m == Len(g.nodes)
           D == SUBSET (N \ Avoid)
           More(X) == X \cup ((UNION {Succs(g, n) : n \in X}) \ Avoid)
           G == [X \in D |-> More(X)]
           B == From \ Avoid
           Is(f) == f = [k \in 0..m |-> IF k = 0 THEN From \ Avoid
                                        ELSE f[k - 1] \cup ((UNION {Succs(g, n) : n \in f[k - 1]}) \ Avoid)]
           F == CHOOSE f : Is(f)
<1>1. /\ m \in Nat /\ IsFiniteSet(N) /\ Cardinality(N) = m
      /\ \A n \in N : Succs(g, n) \subseteq N
  BY GraphLemma
<1>2. ReachAvoiding(g, From, Avoid) = F[m]
  BY Zenon DEF ReachAvoiding
<1>3. B \in D /\ G \in [D -> D] /\ \A X \in D : G[X] = More(X) /\ X \subseteq G[X]
  <2>1. ASSUME NEW X \in D PROVE More(X) \in D
    <3>1. \A n \in X : Succs(g, n) \subseteq N
      BY <1>1
    <3>2. UNION {Succs(g, n) : n \in X} \subseteq N
      <4> HIDE DEF N
      <4>1. QED
        BY <3>1
    <3>3. QED
      BY <3>2
  <2>2. QED
    BY <2>1
<1>4. Is(F)
  <2>1. PICK f : Iterates(D, G, B, m, f)
    <3> HIDE DEF D, G, B, m
    <3>1. QED
      BY <1>1, <1>3, IterationExists
  <2>2. f \in [0..m -> D] /\ f[0] = B /\ \A k \in 1..m : f[k] = G[f[k - 1]]
    BY <2>1 DEF Iterates
  <2>3. \A k \in 1..m : f[k] = More(f[k - 1])
    <3> HIDE DEF G, More, m
    <3>1. \A k \in 1..m : f[k - 1] \in D
      BY <1>1, <2>2
    <3>2. QED
      BY <1>3, <2>2, <3>1
  <2>4. Is(f)
    <3>1. f = [k \in 0..m |-> f[k]]
      BY <2>2
    <3>2. ASSUME NEW k \in 0..m
          PROVE  f[k] = IF k = 0 THEN From \ Avoid
                        ELSE f[k - 1] \cup ((UNION {Succs(g, n) : n \in f[k - 1]}) \ Avoid)
      <4>1. k # 0 => k \in 1..m
        BY <1>1
      <4>2. QED
        BY <2>2, <2>3, <4>1
    <3>3. QED
      BY <3>1, <3>2, Zenon
  <2> HIDE DEF Is
  <2>5. QED
    BY <2>4
<1>5. /\ F[0] = B /\ \A k \in 1..m : F[k] = More(F[k - 1])
  <2> HIDE DEF F
  <2>1. 0 \in 0..m /\ \A k \in 1..m : k \in 0..m /\ k # 0
    BY <1>1
  <2>2. QED
    BY <1>4, <2>1
<1> HIDE DEF F, Is, m
<1>6. \A k \in 0..m : F[k] \in D
  <2> DEFINE P == {k \in 0..m : F[k] \in D}
  <2>1. 0 \in P
    BY <1>1, <1>3, <1>5
  <2>2. ASSUME NEW k \in 0..m, k < m, k \in P PROVE k + 1 \in P
    <3>1. k + 1 \in 1..m /\ (k + 1) - 1 = k /\ F[k] \in D /\ k + 1 \in 0..m
      BY <1>1, <2>2
    <3>2. F[k + 1] = More(F[k]) /\ More(F[k]) \in D
      <4> HIDE DEF D, More
      <4>1. QED
        BY <1>3, <1>5, <3>1
    <3>3. QED
      BY <3>1, <3>2
  <2>3. 0..m \subseteq P
    <3> HIDE DEF P
    <3>1. QED
      BY <1>1, <2>1, <2>2, UpTo
  <2>4. QED
    BY <2>3
<1>7. ASSUME NEW S, B \subseteq S, ClosedSet(g, Avoid, S) PROVE F[m] \subseteq S
  <2> DEFINE P == {k \in 0..m : F[k] \subseteq S}
  <2>1. 0 \in P
    BY <1>1, <1>5, <1>7
  <2>2. ASSUME NEW k \in 0..m, k < m, k \in P PROVE k + 1 \in P
    <3>1. k + 1 \in 1..m /\ (k + 1) - 1 = k /\ F[k] \subseteq S /\ k + 1 \in 0..m
      BY <1>1, <2>2
    <3>2. F[k + 1] = More(F[k])
      <4> HIDE DEF More
      <4>1. QED
        BY <1>5, <3>1
    <3>3. \A n \in F[k] : Succs(g, n) \ Avoid \subseteq S
      BY <1>7, <3>1 DEF ClosedSet
    <3>4. (UNION {Succs(g, n) : n \in F[k]}) \ Avoid \subseteq S
      BY <3>3
    <3>5. QED
      BY <3>1, <3>2, <3>4
  <2>3. 0..m \subseteq P
    <3> HIDE DEF P
    <3>1. QED
      BY <1>1, <2>1, <2>2, UpTo
  <2>4. m \in 0..m
    BY <1>1
  <2>5. QED
    BY <2>3, <2>4
<1>8. \A k \in 0..m : B \subseteq F[k]
  <2> DEFINE P == {k \in 0..m : B \subseteq F[k]}
  <2>1. 0 \in P
    BY <1>1, <1>5
  <2>2. ASSUME NEW k \in 0..m, k < m, k \in P PROVE k + 1 \in P
    <3>1. k + 1 \in 1..m /\ (k + 1) - 1 = k /\ B \subseteq F[k] /\ k + 1 \in 0..m
      BY <1>1, <2>2
    <3>2. F[k + 1] = More(F[k])
      <4> HIDE DEF More
      <4>1. QED
        BY <1>5, <3>1
    <3>3. QED
      BY <3>1, <3>2
  <2>3. 0..m \subseteq P
    <3> HIDE DEF P
    <3>1. QED
      BY <1>1, <2>1, <2>2, UpTo
  <2>4. QED
    BY <2>3
<1>9. \A k \in 0..m : IsFiniteSet(F[k]) /\ Cardinality(F[k]) \in Nat /\ Cardinality(F[k]) <= m
  <2> SUFFICES ASSUME NEW k \in 0..m PROVE IsFiniteSet(F[k]) /\ Cardinality(F[k]) \in Nat /\ Cardinality(F[k]) <= m
    OBVIOUS
  <2>1. F[k] \in SUBSET N
    BY <1>6
  <2> HIDE DEF N
  <2>2. IsFiniteSet(F[k]) /\ Cardinality(F[k]) <= Cardinality(N)
    BY <1>1, <2>1, FS_Subset
  <2>3. QED
    BY <1>1, <2>2, FS_CardinalityType
\* As long as a step adds something, there is one element more for each.
<1>10. \A k \in 0..m : More(F[k]) = F[k] \/ Cardinality(F[k]) >= k + 1
  <2> DEFINE P == {k \in 0..m : More(F[k]) = F[k] \/ Cardinality(F[k]) >= k + 1}
  <2>1. 0 \in P
    <3>1. 0 \in 0..m
      BY <1>1
    <3>2. CASE F[0] = {}
      <4>1. More(F[0]) = F[0]
        BY <3>2
      <4>2. QED
        BY <3>1, <4>1
    <3>3. CASE F[0] # {}
      <4>1. Cardinality(F[0]) # 0
        BY <1>9, <3>1, <3>3, FS_EmptySet
      <4>2. Cardinality(F[0]) >= 0 + 1
        BY <1>9, <3>1, <4>1
      <4>3. QED
        BY <3>1, <4>2
    <3>4. QED
      BY <3>2, <3>3
  <2>2. ASSUME NEW k \in 0..m, k < m, k \in P PROVE k + 1 \in P
    <3>1. k + 1 \in 1..m /\ (k + 1) - 1 = k /\ k + 1 \in 0..m /\ k \in Nat
      BY <1>1, <2>2
    <3>2. F[k + 1] = More(F[k])
      <4> HIDE DEF More
      <4>1. QED
        BY <1>5, <3>1
    <3>3. CASE More(F[k]) = F[k]
      BY <3>1, <3>2, <3>3, Zenon
    <3>4. CASE More(F[k]) # F[k]
      <4>1. F[k] \subseteq F[k + 1] /\ F[k + 1] # F[k] /\ F[k] \in SUBSET F[k + 1]
        BY <3>2, <3>4
      <4>2. Cardinality(F[k]) <= Cardinality(F[k + 1]) /\ Cardinality(F[k + 1]) # Cardinality(F[k])
        BY <1>9, <3>1, <4>1, FS_Subset
      <4>3. Cardinality(F[k]) >= k + 1
        BY <2>2, <3>4
      <4>4. Cardinality(F[k + 1]) >= (k + 1) + 1
        BY <1>9, <3>1, <4>2, <4>3
      <4>5. QED
        BY <3>1, <4>4
    <3>5. QED
      BY <3>3, <3>4
  <2>3. 0..m \subseteq P
    <3> HIDE DEF P
    <3>1. QED
      BY <1>1, <2>1, <2>2, UpTo
  <2>4. QED
    BY <2>3
<1>11. More(F[m]) = F[m]
  <2>1. m \in 0..m
    BY <1>1
  <2>2. QED
    BY <1>1, <1>9, <1>10, <2>1
<1>12. ClosedSet(g, Avoid, F[m])
  <2>1. \A n \in F[m] : Succs(g, n) \subseteq UNION {Succs(g, u) : u \in F[m]}
    OBVIOUS
  <2>2. (UNION {Succs(g, u) : u \in F[m]}) \ Avoid \subseteq F[m]
    BY <1>11
  <2> HIDE DEF More
  <2>3. QED
    BY <2>1, <2>2 DEF ClosedSet
<1>13. F[m] \in D /\ B \subseteq F[m]
  BY <1>1, <1>6, <1>8
<1>14. QED
  BY <1>2, <1>7, <1>12, <1>13 DEF IsReach

\* What is reached from a node: the node, and with a node its successors; and that is all.
LEMMA ReachFacts ==
    ASSUME NEW g, IsGraph(g), NEW n \in NodeSet(g)
    PROVE  /\ n \in Reach(g, n) /\ Reach(g, n) \subseteq NodeSet(g)
           /\ \A u \in Reach(g, n) : Succs(g, u) \subseteq Reach(g, n)
           /\ \A S : n \in S /\ (\A u \in S : Succs(g, u) \subseteq S) => Reach(g, n) \subseteq S
<1>1. IsReach(g, {n}, {}, Reach(g, n))
  BY ReachLemma DEF Reach
<1>2. QED
  BY <1>1 DEF IsReach, ClosedSet

LEMMA ReachTransitive ==
    ASSUME NEW g, IsGraph(g), NEW n \in NodeSet(g), NEW u \in Reach(g, n), NEW w \in Reach(g, u)
    PROVE  w \in Reach(g, n)
<1>1. u \in NodeSet(g)
  BY ReachFacts
<1>2. \A v \in Reach(g, n) : Succs(g, v) \subseteq Reach(g, n)
  BY ReachFacts
<1>3. Reach(g, u) \subseteq Reach(g, n)
  BY <1>1, <1>2, ReachFacts
<1>4. QED
  BY <1>3

(***************************************************************************)
(* The stack of a depth-first walk                                         *)
(***************************************************************************)

\* The stack spells a path, each of its nodes once, and the successors that were looked at
\* have been seen.
StackOK(g, st, seen) ==
    /\ st \in Seq(NodeSet(g) \X Nat) /\ seen \subseteq NodeSet(g)
    /\ \A i \in 1..Len(st) : st[i][1] \in seen /\ st[i][2] \in 1..(Len(g.succ[st[i][1]]) + 1)
    /\ \A i \in 1..(Len(st) - 1) : st[i][2] >= 2 /\ st[i + 1][1] = g.succ[st[i][1]][st[i][2] - 1]
    /\ \A i \in 1..Len(st) : \A k \in 1..(st[i][2] - 1) : g.succ[st[i][1]][k] \in seen
    /\ \A i, j \in 1..Len(st) : i <= j => st[j][1] \in Reach(g, st[i][1])
    /\ \A i, j \in 1..Len(st) : st[i][1] = st[j][1] => i = j

Advance(st) == [st EXCEPT ![Len(st)][2] = @ + 1]

\* t is st with the index on top increased.
Advanced(st, t) ==
    /\ Len(t) = Len(st) /\ \A i \in 1..Len(st) : t[i][1] = st[i][1]
    /\ \A i \in 1..(Len(st) - 1) : t[i][2] = st[i][2]
    /\ t[Len(st)][2] = st[Len(st)][2] + 1

LEMMA AdvanceLemma ==
    ASSUME NEW N, NEW st \in Seq(N \X Nat), Len(st) # 0
    PROVE  Advance(st) \in Seq(N \X Nat) /\ Advanced(st, Advance(st))
<1> DEFINE n == Len(st)
           e == st[n]
           d == <<e[1], e[2] + 1>>
           t == [st EXCEPT ![n] = d]
<1>1. n \in Nat /\ n >= 1 /\ n \in 1..n
  OBVIOUS
<1>2. e \in N \X Nat
  BY <1>1
<1>3. [e EXCEPT ![2] = e[2] + 1] = d /\ d \in N \X Nat
  BY <1>2
<1>4. Advance(st) = t
  BY <1>3, Zenon DEF Advance
<1> HIDE DEF d, e
<1>5. t \in Seq(N \X Nat) /\ Len(t) = n /\ \A i \in 1..n : t[i] = IF i = n THEN d ELSE st[i]
  BY <1>1, <1>3, ExceptSeq
<1>6. d[1] = st[n][1] /\ d[2] = st[n][2] + 1
  BY DEF d, e
<1> HIDE DEF t, n
<1>7. Advanced(st, t)
  BY <1>1, <1>5, <1>6 DEF Advanced, n
<1>8. QED
  BY <1>4, <1>5, <1>7

\* Starting at a node.
LEMMA StackStart ==
    ASSUME NEW g, IsGraph(g), NEW seen \in SUBSET NodeSet(g), NEW n \in NodeSet(g)
    PROVE  StackOK(g, <<<<n, 1>>>>, seen \cup {n})
<1> DEFINE st == <<<<n, 1>>>>
<1>1. st \in Seq(NodeSet(g) \X Nat) /\ Len(st) = 1 /\ st[1] = <<n, 1>>
  OBVIOUS
<1>2. n \in Reach(g, n) /\ Len(g.succ[n]) \in Nat
  BY ReachFacts, GraphLemma
<1> HIDE DEF st
<1>3. st[1][1] = n /\ st[1][2] = 1
  BY <1>1
<1>4. QED
  BY <1>1, <1>2, <1>3 DEF StackOK, st

\* The next successor was seen before.
LEMMA StackAdvance ==
    ASSUME NEW g, IsGraph(g), NEW st, NEW seen, StackOK(g, st, seen), Len(st) # 0,
           st[Len(st)][2] <= Len(g.succ[st[Len(st)][1]]),
           g.succ[st[Len(st)][1]][st[Len(st)][2]] \in seen
    PROVE  StackOK(g, Advance(st), seen)
<1> DEFINE n == Len(st)
           t == Advance(st)
<1>1. st \in Seq(NodeSet(g) \X Nat) /\ n \in Nat
  BY DEF StackOK
<1>2. t \in Seq(NodeSet(g) \X Nat) /\ Advanced(st, t)
  BY <1>1, AdvanceLemma
<1> HIDE DEF n, t
<1>3. /\ Len(t) = n /\ \A i \in 1..n : t[i][1] = st[i][1]
      /\ \A i \in 1..(n - 1) : t[i][2] = st[i][2]
      /\ t[n][2] = st[n][2] + 1
  BY <1>2 DEF Advanced, n
<1>4. /\ seen \subseteq NodeSet(g) /\ n >= 1
      /\ \A i \in 1..n : st[i][1] \in seen /\ st[i][2] \in 1..(Len(g.succ[st[i][1]]) + 1)
      /\ \A i \in 1..(n - 1) : st[i][2] >= 2 /\ st[i + 1][1] = g.succ[st[i][1]][st[i][2] - 1]
      /\ \A i \in 1..n : \A k \in 1..(st[i][2] - 1) : g.succ[st[i][1]][k] \in seen
      /\ \A i, j \in 1..n : i <= j => st[j][1] \in Reach(g, st[i][1])
      /\ \A i, j \in 1..n : st[i][1] = st[j][1] => i = j
  BY <1>1 DEF StackOK, n
<1>5. \A i \in 1..n : Len(g.succ[st[i][1]]) \in Nat
  BY <1>4, GraphLemma
<1>6. st[n][2] <= Len(g.succ[st[n][1]]) /\ g.succ[st[n][1]][st[n][2]] \in seen
  BY DEF n
<1>7. \A i \in 1..n : t[i][1] \in seen /\ t[i][2] \in 1..(Len(g.succ[t[i][1]]) + 1)
  <2> SUFFICES ASSUME NEW i \in 1..n PROVE t[i][1] \in seen /\ t[i][2] \in 1..(Len(g.succ[t[i][1]]) + 1)
    OBVIOUS
  <2>1. i \in 1..(n - 1) \/ i = n
    BY <1>1
  <2>2. st[i][2] \in 1..(Len(g.succ[st[i][1]]) + 1) /\ Len(g.succ[st[i][1]]) \in Nat /\ t[i][1] = st[i][1]
    BY <1>3, <1>4, <1>5
  <2>3. CASE i = n
    <3>1. t[i][2] = st[i][2] + 1 /\ st[i][2] <= Len(g.succ[st[i][1]])
      BY <1>3, <1>6, <2>3
    <3>2. QED
      BY <1>4, <2>2, <3>1
  <2>4. CASE i \in 1..(n - 1)
    BY <1>3, <1>4, <2>2, <2>4
  <2>5. QED
    BY <2>1, <2>3, <2>4
<1>8. \A i \in 1..(n - 1) : t[i][2] >= 2 /\ t[i + 1][1] = g.succ[t[i][1]][t[i][2] - 1]
  <2>1. \A i \in 1..(n - 1) : i \in 1..n /\ i + 1 \in 1..n
    BY <1>1
  <2>2. QED
    BY <1>3, <1>4, <2>1
<1>9. \A i \in 1..n : \A k \in 1..(t[i][2] - 1) : g.succ[t[i][1]][k] \in seen
  <2> SUFFICES ASSUME NEW i \in 1..n, NEW k \in 1..(t[i][2] - 1) PROVE g.succ[st[i][1]][k] \in seen
    BY <1>3
  <2>1. CASE i \in 1..(n - 1)
    BY <1>3, <1>4, <2>1
  <2>2. CASE i = n
    <3>1. k \in 1..(st[n][2] - 1) \/ k = st[n][2]
      BY <1>3, <1>4, <2>2
    <3>2. QED
      BY <1>4, <1>6, <2>2, <3>1
  <2>3. QED
    BY <1>1, <2>1, <2>2
<1>10. \A i, j \in 1..n : i <= j => t[j][1] \in Reach(g, t[i][1])
  BY <1>3, <1>4
<1>11. \A i, j \in 1..n : t[i][1] = t[j][1] => i = j
  BY <1>3, <1>4
<1>12. QED
  BY <1>2, <1>3, <1>4, <1>7, <1>8, <1>9, <1>10, <1>11 DEF StackOK, t

\* The next successor is new.
LEMMA StackPush ==
    ASSUME NEW g, IsGraph(g), NEW st, NEW seen, StackOK(g, st, seen), Len(st) # 0,
           st[Len(st)][2] <= Len(g.succ[st[Len(st)][1]]),
           NEW u, u = g.succ[st[Len(st)][1]][st[Len(st)][2]], u \notin seen
    PROVE  /\ u \in NodeSet(g) /\ u \in Succs(g, st[Len(st)][1])
           /\ StackOK(g, Append(Advance(st), <<u, 1>>), seen \cup {u})
           /\ \A i \in 1..Len(st) : u \in Reach(g, st[i][1])
<1> DEFINE n == Len(st)
           a == Advance(st)
           t == Append(a, <<u, 1>>)
           N == NodeSet(g)
<1>1. st \in Seq(N \X Nat) /\ n \in Nat
  BY DEF StackOK
<1>2. a \in Seq(N \X Nat) /\ Advanced(st, a)
  BY <1>1, AdvanceLemma
<1> HIDE DEF a, N
<1>3. /\ Len(a) = n /\ \A i \in 1..n : a[i][1] = st[i][1]
      /\ \A i \in 1..(n - 1) : a[i][2] = st[i][2]
      /\ a[n][2] = st[n][2] + 1
  BY <1>2 DEF Advanced
<1>4. /\ seen \subseteq N /\ n >= 1
      /\ \A i \in 1..n : st[i][1] \in seen /\ st[i][2] \in 1..(Len(g.succ[st[i][1]]) + 1)
      /\ \A i \in 1..(n - 1) : st[i][2] >= 2 /\ st[i + 1][1] = g.succ[st[i][1]][st[i][2] - 1]
      /\ \A i \in 1..n : \A k \in 1..(st[i][2] - 1) : g.succ[st[i][1]][k] \in seen
      /\ \A i, j \in 1..n : i <= j => st[j][1] \in Reach(g, st[i][1])
      /\ \A i, j \in 1..n : st[i][1] = st[j][1] => i = j
  BY <1>1 DEF StackOK, N
<1>5. \A i \in 1..n : Len(g.succ[st[i][1]]) \in Nat
  BY <1>4, GraphLemma DEF N
<1>6. st[n][2] <= Len(g.succ[st[n][1]]) /\ u = g.succ[st[n][1]][st[n][2]] /\ n \in 1..n
  BY <1>1, <1>4
<1> HIDE DEF n
<1>7. u \in Succs(g, st[n][1]) /\ u \in N
  <2>1. st[n][1] \in N /\ st[n][2] \in 1..Len(g.succ[st[n][1]])
    BY <1>4, <1>5, <1>6
  <2>2. QED
    BY <1>6, <2>1, GraphLemma DEF N
<1>8. t \in Seq(N \X Nat) /\ Len(t) = n + 1 /\ t[n + 1] = <<u, 1>> /\ \A i \in 1..n : t[i] = a[i]
  <2>1. <<u, 1>> \in N \X Nat
    BY <1>7
  <2>2. QED
    BY <1>2, <1>3, <2>1, AppendProperties
<1> HIDE DEF t
<1>9. t[n + 1][1] = u /\ t[n + 1][2] = 1 /\ \A i \in 1..n : t[i][1] = st[i][1]
  BY <1>3, <1>8
<1>10. \A i \in 1..n : st[i][2] \in Nat /\ st[i][2] >= 1 /\ st[i][2] <= Len(g.succ[st[i][1]]) + 1
  BY <1>4, <1>5
<1>11. t[n][2] = st[n][2] + 1 /\ \A i \in 1..(n - 1) : t[i][2] = st[i][2] /\ i \in 1..n /\ i + 1 \in 1..n
  <2>1. \A i \in 1..(n - 1) : i \in 1..n /\ i + 1 \in 1..n
    BY <1>1
  <2>2. \A i \in 1..n : t[i][2] = a[i][2]
    BY <1>8
  <2>3. QED
    BY <1>3, <1>6, <2>1, <2>2
<1>12. \A i \in 1..(n + 1) : i \in 1..n \/ i = n + 1
  BY <1>1
<1>13. \A i \in 1..(n + 1) : t[i][1] \in seen \cup {u} /\ t[i][2] \in 1..(Len(g.succ[t[i][1]]) + 1)
  <2>1. Len(g.succ[u]) \in Nat
    BY <1>7, GraphLemma DEF N
  <2>2. ASSUME NEW i \in 1..n PROVE t[i][2] \in 1..(Len(g.succ[st[i][1]]) + 1)
    <3>1. CASE i = n
      <4>1. t[n][2] = st[n][2] + 1
        BY <1>11
      <4>2. st[n][2] \in 1..(Len(g.succ[st[n][1]]) + 1) /\ Len(g.succ[st[n][1]]) \in Nat
        BY <1>4, <1>5, <1>6
      <4>3. QED
        BY <1>6, <3>1, <4>1, <4>2
    <3>2. CASE i # n
      <4>1. i \in 1..(n - 1)
        BY <1>1, <3>2
      <4>2. t[i][2] = st[i][2]
        BY <1>11, <4>1
      <4>3. QED
        BY <1>4, <4>2
    <3>3. QED
      BY <3>1, <3>2
  <2>3. \A i \in 1..n : t[i][1] \in seen
    BY <1>4, <1>9
  <2>4. t[n + 1][2] \in 1..(Len(g.succ[t[n + 1][1]]) + 1)
    <3>1. \A l \in Nat : 1 \in 1..(l + 1)
      OBVIOUS
    <3>2. QED
      BY <1>9, <2>1, <3>1
  <2>5. QED
    BY <1>9, <1>12, <2>2, <2>3, <2>4
<1>14. \A i \in 1..n : t[i][2] >= 2 /\ t[i + 1][1] = g.succ[t[i][1]][t[i][2] - 1]
  <2> SUFFICES ASSUME NEW i \in 1..n PROVE t[i][2] >= 2 /\ t[i + 1][1] = g.succ[t[i][1]][t[i][2] - 1]
    OBVIOUS
  <2>1. CASE i = n
    <3>1. t[n][2] = st[n][2] + 1 /\ st[n][2] \in Nat /\ st[n][2] >= 1
      BY <1>6, <1>10, <1>11
    <3>2. t[n][2] >= 2 /\ t[n][2] - 1 = st[n][2]
      BY <3>1
    <3>3. QED
      BY <1>6, <1>9, <2>1, <3>2
  <2>2. CASE i # n
    <3>1. i \in 1..(n - 1) /\ i + 1 \in 1..n
      BY <1>1, <2>2
    <3>2. t[i][2] = st[i][2] /\ t[i + 1][1] = st[i + 1][1] /\ t[i][1] = st[i][1]
      BY <1>9, <1>11, <3>1
    <3>3. QED
      BY <1>4, <3>1, <3>2
  <2>3. QED
    BY <2>1, <2>2
<1>15. \A i \in 1..(n + 1) : \A k \in 1..(t[i][2] - 1) : g.succ[t[i][1]][k] \in seen \cup {u}
  <2> SUFFICES ASSUME NEW i \in 1..(n + 1), NEW k \in 1..(t[i][2] - 1) PROVE g.succ[t[i][1]][k] \in seen \cup {u}
    OBVIOUS
  <2>1. CASE i = n + 1
    <3>1. t[i][2] - 1 = 0
      BY <1>9, <2>1
    <3>2. QED
      BY <3>1
  <2>2. CASE i = n
    <3>1. t[n][2] = st[n][2] + 1 /\ st[n][2] \in Nat
      BY <1>6, <1>10, <1>11
    <3>2. k \in 1..(st[n][2] - 1) \/ k = st[n][2]
      BY <2>2, <3>1
    <3>3. QED
      BY <1>4, <1>6, <1>9, <2>2, <3>2
  <2>3. CASE i # n /\ i # n + 1
    <3>1. i \in 1..(n - 1) /\ i \in 1..n
      BY <1>1, <2>3
    <3>2. t[i][2] = st[i][2] /\ t[i][1] = st[i][1]
      BY <1>9, <1>11, <3>1
    <3>3. QED
      BY <1>4, <3>1, <3>2
  <2>4. QED
    BY <2>1, <2>2, <2>3
<1>16. \A i \in 1..n : u \in Reach(g, st[i][1])
  <2> SUFFICES ASSUME NEW i \in 1..n PROVE u \in Reach(g, st[i][1])
    OBVIOUS
  <2>1. st[i][1] \in NodeSet(g) /\ st[n][1] \in Reach(g, st[i][1])
    BY <1>1, <1>4, <1>6 DEF N
  <2>2. QED
    BY <1>7, <2>1, ReachFacts
<1>17. \A i, j \in 1..(n + 1) : i <= j => t[j][1] \in Reach(g, t[i][1])
  <2> SUFFICES ASSUME NEW i \in 1..(n + 1), NEW j \in 1..(n + 1), i <= j PROVE t[j][1] \in Reach(g, t[i][1])
    OBVIOUS
  <2>1. CASE j = n + 1 /\ i = n + 1
    <3>1. u \in Reach(g, u)
      BY <1>7, ReachFacts DEF N
    <3>2. QED
      BY <1>9, <2>1, <3>1
  <2>2. CASE j = n + 1 /\ i # n + 1
    BY <1>9, <1>12, <1>16, <2>2
  <2>3. CASE j # n + 1
    <3>1. j \in 1..n /\ i \in 1..n
      BY <1>1, <2>3
    <3>2. QED
      BY <1>4, <1>9, <3>1
  <2>4. QED
    BY <2>1, <2>2, <2>3
<1>18. \A i, j \in 1..(n + 1) : t[i][1] = t[j][1] => i = j
  <2>1. \A i \in 1..n : t[i][1] \in seen /\ t[i][1] # u
    BY <1>4, <1>9
  <2>2. QED
    BY <1>4, <1>9, <1>12, <2>1
<1>19. StackOK(g, t, seen \cup {u})
  <2>1. (n + 1) - 1 = n /\ seen \cup {u} \subseteq NodeSet(g)
    BY <1>1, <1>4, <1>7 DEF N
  <2>2. QED
    BY <1>8, <1>13, <1>14, <1>15, <1>17, <1>18, <2>1 DEF StackOK, N
<1>20. QED
  BY <1>7, <1>16, <1>19 DEF n, t, a, N

\* The node on top is finished: its successors have been seen.
LEMMA StackPop ==
    ASSUME NEW g, IsGraph(g), NEW st, NEW seen, StackOK(g, st, seen), Len(st) # 0
    PROVE  /\ StackOK(g, Front(st), seen) /\ Len(Front(st)) = Len(st) - 1
           /\ \A i \in 1..(Len(st) - 1) : Front(st)[i] = st[i]
           /\ st[Len(st)][2] > Len(g.succ[st[Len(st)][1]]) => Succs(g, st[Len(st)][1]) \subseteq seen
<1> DEFINE n == Len(st)
           t == Front(st)
<1>1. st \in Seq(NodeSet(g) \X Nat) /\ n \in Nat
  BY DEF StackOK
<1>2. t \in Seq(NodeSet(g) \X Nat) /\ Len(t) = n - 1 /\ \A i \in 1..(n - 1) : t[i] = st[i]
  BY <1>1, FrontLemma
<1> HIDE DEF n, t
<1>3. /\ seen \subseteq NodeSet(g) /\ n >= 1
      /\ \A i \in 1..n : st[i][1] \in seen /\ st[i][2] \in 1..(Len(g.succ[st[i][1]]) + 1)
      /\ \A i \in 1..(n - 1) : st[i][2] >= 2 /\ st[i + 1][1] = g.succ[st[i][1]][st[i][2] - 1]
      /\ \A i \in 1..n : \A k \in 1..(st[i][2] - 1) : g.succ[st[i][1]][k] \in seen
      /\ \A i, j \in 1..n : i <= j => st[j][1] \in Reach(g, st[i][1])
      /\ \A i, j \in 1..n : st[i][1] = st[j][1] => i = j
  BY <1>1 DEF StackOK, n
<1>4. /\ \A i \in 1..(n - 1) : i \in 1..n
      /\ \A i \in 1..((n - 1) - 1) : i \in 1..(n - 1) /\ i + 1 \in 1..(n - 1)
  BY <1>1
<1>5. StackOK(g, t, seen)
  <2>1. \A i \in 1..(n - 1) : t[i][1] \in seen /\ t[i][2] \in 1..(Len(g.succ[t[i][1]]) + 1)
    BY <1>2, <1>3, <1>4
  <2>2. \A i \in 1..((n - 1) - 1) : t[i][2] >= 2 /\ t[i + 1][1] = g.succ[t[i][1]][t[i][2] - 1]
    BY <1>2, <1>3, <1>4
  <2>3. \A i \in 1..((n - 1) - 1) : \A k \in 1..(t[i][2] - 1) : g.succ[t[i][1]][k] \in seen
    BY <1>2, <1>3, <1>4
  <2>4. /\ \A i, j \in 1..(n - 1) : i <= j => t[j][1] \in Reach(g, t[i][1])
        /\ \A i, j \in 1..(n - 1) : t[i][1] = t[j][1] => i = j
        /\ \A i \in 1..(n - 1) : \A k \in 1..(t[i][2] - 1) : g.succ[t[i][1]][k] \in seen
    BY <1>2, <1>3, <1>4
  <2>5. QED
    BY <1>2, <1>3, <2>1, <2>2, <2>3, <2>4 DEF StackOK
<1>6. ASSUME st[n][2] > Len(g.succ[st[n][1]]) PROVE Succs(g, st[n][1]) \subseteq seen
  <2>1. n \in 1..n
    BY <1>1, <1>3
  <2>2. Len(g.succ[st[n][1]]) \in Nat
    BY <1>3, <2>1, GraphLemma
  <2>3. \A k \in 1..Len(g.succ[st[n][1]]) : k \in 1..(st[n][2] - 1)
    BY <1>3, <1>6, <2>1, <2>2
  <2>4. QED
    BY <1>3, <2>1, <2>3 DEF Succs
<1>7. QED
  BY <1>2, <1>5, <1>6 DEF n, t

(***************************************************************************)
(* The post-order walk                                                     *)
(***************************************************************************)

\* The order so far has each node once, of those that are seen and not on the stack, and
\* a node after its successors, but for those that lie on a cycle with it.
OrderOK(g, F, st, seen) ==
    /\ F \in Seq(NodeSet(g))
    /\ \A i, j \in 1..Len(F) : F[i] = F[j] => i = j
    /\ \A i \in 1..Len(F) : F[i] \in seen /\ \A j \in 1..Len(st) : F[i] # st[j][1]
    /\ \A n \in seen : (\E i \in 1..Len(F) : F[i] = n) \/ (\E j \in 1..Len(st) : st[j][1] = n)
    /\ \A i \in 1..Len(F) : Succs(g, F[i]) \subseteq seen
    /\ \A i \in 1..Len(F) : \A s \in Succs(g, F[i]) : (\E j \in 1..i : F[j] = s) \/ SameCycle(g, F[i], s)

LEMMA OrderStart ==
    ASSUME NEW g, NEW F, NEW seen, OrderOK(g, F, <<>>, seen), NEW n, n \notin seen
    PROVE  OrderOK(g, F, <<<<n, 1>>>>, seen \cup {n})
<1> DEFINE t == <<<<n, 1>>>>
<1>1. Len(t) = 1 /\ t[1][1] = n /\ 1 \in 1..Len(t)
  OBVIOUS
<1>2. \A j \in 1..Len(t) : t[j][1] = n
  OBVIOUS
<1>3. \A k \in seen : \E i \in 1..Len(F) : F[i] = k
  BY DEF OrderOK
<1> HIDE DEF t
<1>4. OrderOK(g, F, t, seen \cup {n})
  BY <1>1, <1>2, <1>3 DEF OrderOK
<1>5. QED
  BY <1>4 DEF t

LEMMA OrderAdvance ==
    ASSUME NEW g, NEW F, NEW st, NEW t, NEW seen, OrderOK(g, F, st, seen), Advanced(st, t)
    PROVE  OrderOK(g, F, t, seen)
  BY DEF OrderOK, Advanced

LEMMA OrderPush ==
    ASSUME NEW g, NEW N, NEW F, NEW st, NEW a \in Seq(N \X Nat), NEW seen, OrderOK(g, F, st, seen), Advanced(st, a),
           NEW u \in N, u \notin seen
    PROVE  OrderOK(g, F, Append(a, <<u, 1>>), seen \cup {u})
<1> DEFINE n == Len(st)
           t == Append(a, <<u, 1>>)
<1>1. n = Len(a) /\ n \in Nat /\ \A i \in 1..n : a[i][1] = st[i][1]
  BY DEF Advanced
<1> HIDE DEF n
<1>2. Len(t) = n + 1 /\ t[n + 1] = <<u, 1>> /\ \A i \in 1..n : t[i] = a[i]
  BY <1>1, AppendProperties
<1> HIDE DEF t
<1>3. /\ t[n + 1][1] = u /\ n + 1 \in 1..Len(t)
      /\ \A i \in 1..n : i \in 1..Len(t) /\ t[i][1] = st[i][1]
      /\ \A i \in 1..Len(t) : i \in 1..n \/ i = n + 1
  BY <1>1, <1>2
<1>4. \A i \in 1..Len(F) : F[i] \in seen /\ \A j \in 1..Len(t) : F[i] # t[j][1]
  BY <1>3 DEF OrderOK, n
<1>5. \A k \in seen \cup {u} : (\E i \in 1..Len(F) : F[i] = k) \/ (\E j \in 1..Len(t) : t[j][1] = k)
  BY <1>3 DEF OrderOK, n
<1>6. OrderOK(g, F, t, seen \cup {u})
  BY <1>4, <1>5 DEF OrderOK
<1>7. QED
  BY <1>6 DEF t

\* What a finished node leads to is in the order, or below it on the stack.
LEMMA OrderPop ==
    ASSUME NEW g, IsGraph(g), NEW F, NEW st, NEW seen, StackOK(g, st, seen), OrderOK(g, F, st, seen), Len(st) # 0,
           st[Len(st)][2] > Len(g.succ[st[Len(st)][1]])
    PROVE  OrderOK(g, Append(F, st[Len(st)][1]), Front(st), seen)
<1> DEFINE n == Len(st)
           u == st[n][1]
           t == Front(st)
           m == Len(F)
           G == Append(F, u)
<1>1. Len(t) = n - 1 /\ (\A i \in 1..(n - 1) : t[i] = st[i]) /\ Succs(g, u) \subseteq seen
  BY StackPop
<1>2. /\ n \in Nat /\ n >= 1 /\ n \in 1..n /\ seen \subseteq NodeSet(g) /\ u \in seen /\ u \in NodeSet(g)
      /\ \A i, j \in 1..n : i <= j => st[j][1] \in Reach(g, st[i][1])
      /\ \A i, j \in 1..n : st[i][1] = st[j][1] => i = j
      /\ \A i \in 1..n : st[i][1] \in seen
  <2>1. n \in Nat /\ n >= 1 /\ n \in 1..n
    BY DEF StackOK
  <2>2. QED
    BY <2>1 DEF StackOK
<1>3. F \in Seq(NodeSet(g)) /\ m \in Nat
  BY DEF OrderOK
<1> HIDE DEF m, u, t
<1>4. G \in Seq(NodeSet(g)) /\ Len(G) = m + 1 /\ G[m + 1] = u /\ \A i \in 1..m : G[i] = F[i]
  BY <1>2, <1>3, AppendProperties DEF m
<1> HIDE DEF G, n
<1>5. /\ m + 1 \in 1..Len(G) /\ \A i \in 1..m : i \in 1..Len(G)
      /\ \A i \in 1..Len(G) : i \in 1..m \/ i = m + 1
  BY <1>3, <1>4
<1>6. \A i \in 1..Len(t) : t[i] = st[i] /\ i \in 1..n /\ i # n
  BY <1>1, <1>2
<1>7. \A i \in 1..n : i \in 1..Len(t) \/ i = n
  BY <1>1, <1>2
<1>8. /\ \A i, j \in 1..m : F[i] = F[j] => i = j
      /\ \A i \in 1..m : F[i] \in seen /\ \A j \in 1..n : F[i] # st[j][1]
      /\ \A k \in seen : (\E i \in 1..m : F[i] = k) \/ (\E j \in 1..n : st[j][1] = k)
      /\ \A i \in 1..m : Succs(g, F[i]) \subseteq seen
      /\ \A i \in 1..m : \A s \in Succs(g, F[i]) : (\E j \in 1..i : F[j] = s) \/ SameCycle(g, F[i], s)
  BY DEF OrderOK, m, n
<1>9. u = st[n][1]
  BY DEF u
<1>10. \A i, j \in 1..Len(G) : G[i] = G[j] => i = j
  BY <1>2, <1>4, <1>5, <1>8, <1>9
<1>11. \A i \in 1..Len(G) : G[i] \in seen /\ \A j \in 1..Len(t) : G[i] # t[j][1]
  <2> SUFFICES ASSUME NEW i \in 1..Len(G) PROVE G[i] \in seen /\ \A j \in 1..Len(t) : G[i] # t[j][1]
    OBVIOUS
  <2>1. \A j \in 1..Len(t) : t[j][1] = st[j][1] /\ j \in 1..n /\ st[j][1] # u
    BY <1>2, <1>6, <1>9
  <2>2. CASE i \in 1..m
    BY <1>4, <1>8, <2>1, <2>2
  <2>3. CASE i = m + 1
    BY <1>2, <1>4, <2>1, <2>3
  <2>4. QED
    BY <1>5, <2>2, <2>3
<1>12. \A k \in seen : (\E i \in 1..Len(G) : G[i] = k) \/ (\E j \in 1..Len(t) : t[j][1] = k)
  <2> SUFFICES ASSUME NEW k \in seen
               PROVE  (\E i \in 1..Len(G) : G[i] = k) \/ (\E j \in 1..Len(t) : t[j][1] = k)
    OBVIOUS
  <2>1. CASE \E i \in 1..m : F[i] = k
    BY <1>4, <1>5, <2>1
  <2>2. CASE \E j \in 1..n : st[j][1] = k
    BY <1>4, <1>5, <1>6, <1>7, <1>9, <2>2
  <2>3. QED
    BY <1>8, <2>1, <2>2
<1>13. \A i \in 1..Len(G) : Succs(g, G[i]) \subseteq seen
  BY <1>1, <1>4, <1>5, <1>8
<1>14. ASSUME NEW i \in 1..Len(G), NEW s \in Succs(g, G[i])
       PROVE  (\E j \in 1..i : G[j] = s) \/ SameCycle(g, G[i], s)
  <2>1. CASE i \in 1..m
    <3>1. s \in Succs(g, F[i]) /\ G[i] = F[i]
      BY <1>4, <2>1
    <3>2. CASE \E j \in 1..i : F[j] = s
      <4>1. PICK j \in 1..i : F[j] = s
        BY <3>2
      <4>2. j \in 1..m
        BY <1>3, <2>1
      <4>3. QED
        BY <1>4, <4>1, <4>2
    <3>3. QED
      BY <1>8, <2>1, <3>1, <3>2
  <2>2. CASE i = m + 1
    <3>1. s \in Succs(g, u) /\ s \in seen /\ G[i] = u
      BY <1>1, <1>4, <2>2
    <3>2. CASE \E j \in 1..m : F[j] = s
      <4>1. PICK j \in 1..m : F[j] = s
        BY <3>2
      <4>2. j \in 1..i /\ G[j] = s
        BY <1>3, <1>4, <2>2, <4>1
      <4>3. QED
        BY <4>2
    <3>3. CASE \E j \in 1..n : st[j][1] = s
      <4>1. PICK j \in 1..n : st[j][1] = s
        BY <3>3
      <4>2. u \in Reach(g, s)
        BY <1>2, <1>9, <4>1
      <4>3. s \in Reach(g, u)
        BY <1>2, <3>1, ReachFacts
      <4>4. QED
        BY <3>1, <4>2, <4>3 DEF SameCycle
    <3>4. QED
      BY <1>8, <3>1, <3>2, <3>3
  <2>3. QED
    BY <1>5, <2>1, <2>2
<1>15. OrderOK(g, G, t, seen)
  BY <1>4, <1>10, <1>11, <1>12, <1>13, <1>14 DEF OrderOK
<1>16. QED
  BY <1>15 DEF G, t, u, n

\* What has been finished so far, in this walk and in those before.
Finished == IF Walking THEN post_order \o po ELSE post_order

WalkTypeOK ==
    /\ graph \in Graphs /\ root \in 1..(Len(graph.nodes) + 1) /\ (Walking => root <= Len(graph.nodes))
    /\ po \in Seq(NodeSet(graph)) /\ po_by_component \in Seq(Seq(NodeSet(graph)))

\* The nodes before the root have been seen, and the root is where the walk began.
RootsOK ==
    /\ \A i \in 1..(root - 1) : graph.nodes[i] \in seen_nodes
    /\ Walking => stack[1][1] = graph.nodes[root]

\* The first walk sees what the entry reaches, and ends with the entry.
EntryOK ==
    IF po_by_component = <<>>
      THEN /\ root = 1 /\ seen_nodes \subseteq Reach(graph, entry_node(graph))
           /\ ~ Walking => seen_nodes = {}
      ELSE LET first == po_by_component[1]
           IN  /\ first # <<>> /\ first[Len(first)] = entry_node(graph)
               /\ ToSet(first) = Reach(graph, entry_node(graph))

WalkInv ==
    /\ WalkTypeOK /\ StackOK(graph, stack, seen_nodes) /\ OrderOK(graph, Finished, stack, seen_nodes)
    /\ RootsOK /\ EntryOK

LEMMA WalkFacts ==
    ASSUME WalkInv
    PROVE  /\ IsGraph(graph) /\ Len(stack) \in Nat /\ (Walking <=> Len(stack) # 0)
           /\ Len(graph.nodes) \in Nat /\ \A i \in 1..Len(graph.nodes) : graph.nodes[i] \in NodeSet(graph)
           /\ post_order \in Seq(NodeSet(graph))
<1>1. graph \in Graphs /\ stack \in Seq(NodeSet(graph) \X Nat) /\ po_by_component \in Seq(Seq(NodeSet(graph)))
  BY DEF WalkInv, WalkTypeOK, StackOK
<1>2. IsGraph(graph)
  BY <1>1, GraphsAssumption
<1>3. post_order \in Seq(NodeSet(graph))
  BY <1>1, FlattenSeqLemma DEF post_order
<1>4. Len(stack) \in Nat /\ (stack = <<>> <=> Len(stack) = 0)
  BY <1>1, EmptySeq
<1>5. QED
  BY <1>2, <1>3, <1>4, GraphLemma DEF Walking

LEMMA WalkBegins == graph \in Graphs /\ WalkInit => WalkInv
<1> SUFFICES ASSUME graph \in Graphs, WalkInit PROVE WalkInv
  OBVIOUS
<1>1. root = 1 /\ seen_nodes = {} /\ stack = <<>> /\ po = <<>> /\ po_by_component = <<>>
  BY DEF WalkInit
<1>2. Len(stack) = 0 /\ ~ Walking /\ \A E : <<>> \in Seq(E)
  BY <1>1 DEF Walking
<1>3. post_order = <<>>
  BY <1>1, <1>2, FlattenSeqLemma DEF post_order
<1>4. Finished = <<>> /\ Len(Finished) = 0
  BY <1>2, <1>3 DEF Finished
<1>5. IsGraph(graph) /\ Len(graph.nodes) \in Nat
  BY GraphsAssumption, GraphLemma
<1>6. WalkTypeOK
  BY <1>1, <1>2, <1>5 DEF WalkTypeOK
<1>7. StackOK(graph, stack, seen_nodes)
  BY <1>1, <1>2 DEF StackOK
<1>8. OrderOK(graph, Finished, stack, seen_nodes)
  BY <1>1, <1>2, <1>4 DEF OrderOK
<1>9. RootsOK /\ EntryOK
  BY <1>1, <1>2 DEF RootsOK, EntryOK
<1>10. QED
  BY <1>6, <1>7, <1>8, <1>9 DEF WalkInv

LEMMA StartStep == WalkInv /\ StartComponent => WalkInv'
<1> SUFFICES ASSUME WalkInv, StartComponent PROVE WalkInv'
  OBVIOUS
<1> DEFINE n == graph.nodes[root]
<1>1. /\ ~ Walking /\ stack = <<>> /\ root <= Len(graph.nodes) /\ po' = <<>> /\ graph' = graph
      /\ po_by_component' = po_by_component /\ post_order' = post_order
  BY DEF StartComponent, Walking, post_order
<1>2. /\ n \in seen_nodes => root' = root + 1 /\ seen_nodes' = seen_nodes /\ stack' = stack
      /\ n \notin seen_nodes => root' = root /\ seen_nodes' = seen_nodes \cup {n} /\ stack' = <<<<n, 1>>>>
  BY DEF StartComponent
<1>3. /\ IsGraph(graph) /\ Len(graph.nodes) \in Nat /\ post_order \in Seq(NodeSet(graph))
      /\ root \in 1..Len(graph.nodes) /\ n \in NodeSet(graph)
  <2>1. root \in 1..Len(graph.nodes)
    BY <1>1, WalkFacts DEF WalkInv, WalkTypeOK
  <2>2. QED
    BY <2>1, WalkFacts
<1>4. /\ graph \in Graphs /\ po_by_component \in Seq(Seq(NodeSet(graph))) /\ <<>> \in Seq(NodeSet(graph))
      /\ StackOK(graph, stack, seen_nodes) /\ OrderOK(graph, Finished, stack, seen_nodes)
      /\ (\A i \in 1..(root - 1) : graph.nodes[i] \in seen_nodes) /\ EntryOK
      /\ seen_nodes \subseteq NodeSet(graph)
  BY EmptySeq DEF WalkInv, WalkTypeOK, RootsOK, StackOK
<1>5. Finished = post_order
  BY <1>1 DEF Finished
<1>6. CASE n \in seen_nodes
  <2>1. ~ Walking' /\ Finished' = Finished
    BY <1>1, <1>2, <1>5, <1>6 DEF Walking, Finished
  <2>2. WalkTypeOK'
    BY <1>1, <1>2, <1>3, <1>4, <1>6, <2>1 DEF WalkTypeOK
  <2>3. RootsOK'
    <3>1. \A i \in 1..(root' - 1) : i \in 1..(root - 1) \/ i = root
      BY <1>2, <1>3, <1>6
    <3>2. QED
      BY <1>1, <1>2, <1>4, <1>6, <2>1, <3>1 DEF RootsOK
  <2>4. EntryOK'
    <3>1. po_by_component # <<>>
      BY <1>1, <1>4, <1>6 DEF EntryOK
    <3>2. QED
      BY <1>1, <1>4, <3>1 DEF EntryOK
  <2>5. QED
    BY <1>1, <1>2, <1>4, <1>6, <2>1, <2>2, <2>3, <2>4 DEF WalkInv
<1>7. CASE n \notin seen_nodes
  <2>1. stack'[1][1] = n /\ Walking'
    BY <1>2, <1>7 DEF Walking
  <2>2. Finished' = Finished
    <3>1. post_order \o <<>> = post_order
      BY <1>3, ConcatEmptySeq
    <3>2. QED
      BY <1>1, <1>5, <2>1, <3>1 DEF Finished
  <2>3. StackOK(graph, stack', seen_nodes')
    <3>1. seen_nodes \in SUBSET NodeSet(graph)
      BY <1>4
    <3> HIDE DEF n
    <3>2. StackOK(graph, <<<<n, 1>>>>, seen_nodes \cup {n})
      BY <1>3, <3>1, StackStart
    <3>3. QED
      BY <1>2, <1>7, <3>2
  <2>4. OrderOK(graph, Finished, stack', seen_nodes')
    <3>1. OrderOK(graph, Finished, <<>>, seen_nodes)
      BY <1>1, <1>4
    <3> HIDE DEF n
    <3>2. QED
      BY <1>2, <1>7, <3>1, OrderStart
  <2>5. WalkTypeOK'
    BY <1>1, <1>2, <1>3, <1>4, <1>7 DEF WalkTypeOK
  <2>6. RootsOK'
    BY <1>1, <1>2, <1>4, <1>7, <2>1 DEF RootsOK
  <2>7. EntryOK'
    <3>1. CASE po_by_component = <<>>
      <4>1. root = 1 /\ seen_nodes = {}
        BY <1>1, <1>4, <3>1 DEF EntryOK
      <4>2. n = entry_node(graph) /\ n \in Reach(graph, n)
        BY <1>3, <4>1, ReachFacts DEF entry_node
      <4>3. seen_nodes' \subseteq Reach(graph, entry_node(graph))
        BY <1>2, <1>7, <4>1, <4>2
      <4>4. QED
        BY <1>1, <1>2, <1>7, <2>1, <3>1, <4>1, <4>3 DEF EntryOK
    <3>2. CASE po_by_component # <<>>
      BY <1>1, <1>4, <3>2 DEF EntryOK
    <3>3. QED
      BY <3>1, <3>2
  <2>8. QED
    BY <1>1, <2>2, <2>3, <2>4, <2>5, <2>6, <2>7 DEF WalkInv
<1>8. QED
  BY <1>6, <1>7

LEMMA VisitStep == WalkInv /\ VisitSuccessor => WalkInv'
<1> SUFFICES ASSUME WalkInv, VisitSuccessor PROVE WalkInv'
  OBVIOUS
<1> DEFINE u == graph.succ[TopNode][TopIndex]
           l == Len(stack)
<1>1. /\ Walking /\ TopIndex <= Len(graph.succ[TopNode]) /\ UNCHANGED <<graph, root, po, po_by_component>>
      /\ u \in seen_nodes => stack' = Advance(stack) /\ seen_nodes' = seen_nodes
      /\ u \notin seen_nodes => stack' = Append(Advance(stack), <<u, 1>>) /\ seen_nodes' = seen_nodes \cup {u}
  BY DEF VisitSuccessor, Bumped, Advance
<1>2. /\ IsGraph(graph) /\ l \in Nat /\ l # 0 /\ Len(graph.nodes) \in Nat
  BY <1>1, WalkFacts
<1>3. /\ StackOK(graph, stack, seen_nodes) /\ OrderOK(graph, Finished, stack, seen_nodes)
      /\ WalkTypeOK /\ RootsOK /\ EntryOK /\ stack \in Seq(NodeSet(graph) \X Nat)
  BY DEF WalkInv, StackOK
<1>4. TopNode = stack[l][1] /\ TopIndex = stack[l][2]
  BY DEF TopNode, TopIndex
<1>5. Advance(stack) \in Seq(NodeSet(graph) \X Nat) /\ Advanced(stack, Advance(stack))
  BY <1>2, <1>3, AdvanceLemma
<1>6. /\ StackOK(graph, stack', seen_nodes') /\ OrderOK(graph, Finished, stack', seen_nodes')
      /\ stack'[1][1] = stack[1][1] /\ Len(stack') # 0 /\ stack' \in Seq(NodeSet(graph) \X Nat)
      /\ seen_nodes \subseteq seen_nodes'
  <2>0. Len(Advance(stack)) = l /\ 1 \in 1..l /\ Advance(stack)[1][1] = stack[1][1]
    BY <1>2, <1>5 DEF Advanced
  <2>1. CASE u \in seen_nodes
    <3>1. stack' = Advance(stack) /\ seen_nodes' = seen_nodes
      BY <1>1, <2>1
    <3>2. StackOK(graph, Advance(stack), seen_nodes)
      BY <1>1, <1>2, <1>3, <1>4, <2>1, StackAdvance
    <3>3. OrderOK(graph, Finished, Advance(stack), seen_nodes)
      BY <1>3, <1>5, OrderAdvance
    <3>4. QED
      BY <1>2, <1>5, <2>0, <3>1, <3>2, <3>3
  <2>2. CASE u \notin seen_nodes
    <3>1. stack' = Append(Advance(stack), <<u, 1>>) /\ seen_nodes' = seen_nodes \cup {u}
      BY <1>1, <2>2
    <3>2. u \in NodeSet(graph) /\ StackOK(graph, Append(Advance(stack), <<u, 1>>), seen_nodes \cup {u})
      BY <1>1, <1>2, <1>3, <1>4, <2>2, StackPush
    <3> HIDE DEF u
    <3>3. OrderOK(graph, Finished, Append(Advance(stack), <<u, 1>>), seen_nodes \cup {u})
      BY <1>3, <1>5, <2>2, <3>2, OrderPush
    <3>4. /\ Append(Advance(stack), <<u, 1>>)[1] = Advance(stack)[1]
          /\ Append(Advance(stack), <<u, 1>>) \in Seq(NodeSet(graph) \X Nat)
          /\ Len(Append(Advance(stack), <<u, 1>>)) = l + 1
      <4> DEFINE a == Advance(stack)
                 E == NodeSet(graph) \X Nat
      <4>1. <<u, 1>> \in E /\ a \in Seq(E) /\ Len(a) = l
        BY <1>5, <2>0, <3>2
      <4> HIDE DEF a, E, l
      <4>2. QED
        BY <2>0, <4>1, AppendProperties DEF a, E
    <3>5. QED
      BY <1>2, <2>0, <3>1, <3>2, <3>3, <3>4
  <2>3. QED
    BY <2>1, <2>2
<1>7. Walking'
  BY <1>6, EmptySeq DEF Walking
<1>8. Finished' = Finished
  BY <1>1, <1>7 DEF Finished, post_order
<1>9. WalkTypeOK'
  BY <1>1, <1>3, <1>7 DEF WalkTypeOK
<1>10. RootsOK'
  BY <1>1, <1>3, <1>6, <1>7 DEF RootsOK
<1>11. EntryOK'
  <2>1. CASE po_by_component = <<>>
    <3>1. seen_nodes \subseteq Reach(graph, entry_node(graph)) /\ root = 1
      BY <1>3, <2>1 DEF EntryOK
    <3>2. u \notin seen_nodes => u \in Reach(graph, entry_node(graph))
      <4> SUFFICES ASSUME u \notin seen_nodes PROVE u \in Reach(graph, entry_node(graph))
        OBVIOUS
      <4>1. u \in Succs(graph, TopNode)
        BY <1>1, <1>2, <1>3, <1>4, StackPush
      <4>2. TopNode \in seen_nodes
        <5>1. l \in 1..l
          BY <1>2
        <5>2. QED
          BY <1>3, <1>4, <5>1 DEF StackOK
      <4>3. QED
        BY <1>2, <3>1, <4>1, <4>2, ReachFacts, GraphLemma
    <3>3. seen_nodes' \subseteq Reach(graph, entry_node(graph))
      BY <1>1, <3>1, <3>2
    <3>4. QED
      BY <1>1, <1>7, <2>1, <3>1, <3>3 DEF EntryOK
  <2>2. CASE po_by_component # <<>>
    BY <1>1, <1>3, <2>2 DEF EntryOK
  <2>3. QED
    BY <2>1, <2>2
<1>12. QED
  BY <1>1, <1>6, <1>8, <1>9, <1>10, <1>11 DEF WalkInv

\* The walk ends with the node it began with, when it has seen all that this one reaches.
LEMMA FinishStep == WalkInv /\ FinishNode => WalkInv'
<1> SUFFICES ASSUME WalkInv, FinishNode PROVE WalkInv'
  OBVIOUS
<1> DEFINE l == Len(stack)
           u == TopNode
           N == NodeSet(graph)
           e == entry_node(graph)
<1>1. /\ Walking /\ TopIndex > Len(graph.succ[TopNode]) /\ po' = Append(po, u) /\ stack' = Front(stack)
      /\ graph' = graph /\ seen_nodes' = seen_nodes
      /\ stack' = <<>> => po_by_component' = Append(po_by_component, po') /\ root' = root + 1
      /\ stack' # <<>> => po_by_component' = po_by_component /\ root' = root
  BY DEF FinishNode
<1>2. IsGraph(graph) /\ l \in Nat /\ l # 0 /\ Len(graph.nodes) \in Nat /\ post_order \in Seq(N)
  BY <1>1, WalkFacts
<1>3. /\ StackOK(graph, stack, seen_nodes) /\ OrderOK(graph, Finished, stack, seen_nodes)
      /\ WalkTypeOK /\ RootsOK /\ EntryOK /\ stack \in Seq(N \X Nat)
  BY DEF WalkInv, StackOK
<1>4. TopNode = stack[l][1] /\ TopIndex = stack[l][2]
  BY DEF TopNode, TopIndex
<1>5. /\ StackOK(graph, stack', seen_nodes) /\ Len(stack') = l - 1 /\ Succs(graph, u) \subseteq seen_nodes
      /\ \A i \in 1..(l - 1) : stack'[i] = stack[i]
  BY <1>1, <1>2, <1>3, <1>4, StackPop
<1>6. OrderOK(graph, Append(Finished, u), stack', seen_nodes)
  BY <1>1, <1>2, <1>3, <1>4, OrderPop
<1>7. u \in seen_nodes /\ u \in N
  <2>1. l \in 1..l
    BY <1>2
  <2>2. QED
    BY <1>3, <1>4, <2>1 DEF StackOK
<1>8. /\ po \in Seq(N) /\ po' \in Seq(N) /\ Len(po') = Len(po) + 1 /\ po'[Len(po')] = u /\ Len(po) \in Nat
      /\ po_by_component \in Seq(Seq(N)) /\ Finished = post_order \o po
  <2>1. po \in Seq(N) /\ po_by_component \in Seq(Seq(N))
    BY <1>3 DEF WalkTypeOK
  <2>2. Finished = post_order \o po
    BY <1>1 DEF Finished
  <2> HIDE DEF N, u
  <2>3. QED
    BY <1>1, <1>7, <2>1, <2>2, AppendProperties
<1>9. stack' = <<>> <=> l = 1
  <2>1. stack' \in Seq(N \X Nat)
    BY <1>5 DEF StackOK
  <2> HIDE DEF l, N
  <2>2. stack' = <<>> <=> Len(stack') = 0
    BY <2>1, EmptySeq
  <2>3. QED
    BY <1>2, <1>5, <2>2
<1>10. post_order \o po' = Append(Finished, u)
  <2>1. post_order \o Append(po, u) = Append(post_order \o po, u)
    <3> HIDE DEF u, N
    <3>1. \A s, t \in Seq(N) : \A x \in N : s \o Append(t, x) = Append(s \o t, x)
      <4> SUFFICES ASSUME NEW s \in Seq(N), NEW t \in Seq(N), NEW x \in N PROVE s \o Append(t, x) = Append(s \o t, x)
        OBVIOUS
      <4>1. <<x>> \in Seq(N) /\ s \o t \in Seq(N)
        OBVIOUS
      <4>2. Append(t, x) = t \o <<x>> /\ Append(s \o t, x) = (s \o t) \o <<x>>
        BY <4>1, AppendIsConcat
      <4>3. QED
        BY <4>1, <4>2, ConcatAssociative
    <3>2. QED
      BY <1>2, <1>7, <1>8, <3>1
  <2>2. QED
    BY <1>1, <1>8, <2>1
<1>11. Finished' = Append(Finished, u)
  <2>1. CASE stack' = <<>>
    <3>1. post_order' = FlattenSeq(po_by_component')
      BY DEF post_order
    <3>2. FlattenSeq(Append(po_by_component, po')) = post_order \o po'
      <4> HIDE DEF N
      <4>1. QED
        BY <1>8, FlattenAppend DEF post_order
    <3>3. ~ Walking'
      BY <2>1 DEF Walking
    <3>4. QED
      BY <1>1, <1>10, <2>1, <3>1, <3>2, <3>3 DEF Finished
  <2>2. CASE stack' # <<>>
    <3>1. post_order' = post_order /\ Walking'
      BY <1>1, <2>2 DEF post_order, Walking
    <3>2. QED
      BY <1>10, <3>1 DEF Finished
  <2>3. QED
    BY <2>1, <2>2
<1>12. WalkTypeOK'
  <2>1. graph' \in Graphs /\ root \in 1..(Len(graph.nodes) + 1) /\ root <= Len(graph.nodes)
    BY <1>1, <1>3 DEF WalkTypeOK
  <2>2. root' \in 1..(Len(graph.nodes) + 1) /\ (Walking' => root' <= Len(graph.nodes))
    BY <1>1, <1>2, <2>1 DEF Walking
  <2>3. po_by_component' \in Seq(Seq(N))
    <3> HIDE DEF N
    <3>1. Append(po_by_component, po') \in Seq(Seq(N))
      BY <1>8, AppendProperties
    <3>2. QED
      BY <1>1, <1>8, <3>1
  <2>4. QED
    BY <1>1, <1>8, <2>1, <2>2, <2>3 DEF WalkTypeOK
<1>13. graph.nodes[root] \in seen_nodes /\ stack[1][1] = graph.nodes[root] /\ (l = 1 => u = graph.nodes[root])
  <2>1. stack[1][1] = graph.nodes[root] /\ 1 \in 1..l
    BY <1>1, <1>2, <1>3 DEF RootsOK
  <2>2. stack[1][1] \in seen_nodes
    BY <1>3, <2>1 DEF StackOK
  <2>3. QED
    BY <1>4, <2>1, <2>2
<1>14. RootsOK'
  <2>1. (\A i \in 1..(root - 1) : graph.nodes[i] \in seen_nodes) /\ root \in Nat
    BY <1>3 DEF RootsOK, WalkTypeOK
  <2>2. \A i \in 1..((root + 1) - 1) : i \in 1..(root - 1) \/ i = root
    BY <2>1
  <2>3. \A i \in 1..(root' - 1) : graph.nodes[i] \in seen_nodes
    BY <1>1, <1>13, <2>1, <2>2
  <2>4. Walking' => stack'[1][1] = graph.nodes[root']
    <3>1. Walking' => stack' # <<>> /\ 1 \in 1..(l - 1)
      <4> HIDE DEF l
      <4>1. l # 1 => 1 \in 1..(l - 1)
        BY <1>2
      <4>2. QED
        BY <1>9, <4>1 DEF Walking
    <3>2. QED
      BY <1>1, <1>5, <1>13, <3>1
  <2>5. QED
    BY <1>1, <2>3, <2>4 DEF RootsOK
<1>15. EntryOK'
  <2>1. CASE po_by_component # <<>>
    <3>1. po_by_component' # <<>> /\ po_by_component'[1] = po_by_component[1]
      <4>1. CASE stack' # <<>>
        BY <1>1, <2>1, <4>1
      <4>2. CASE stack' = <<>>
        <5> DEFINE b == po_by_component
                   Q == Seq(N)
        <5>1. b \in Seq(Q) /\ b # <<>> /\ po' \in Q
          BY <1>8, <2>1
        <5> HIDE DEF b, Q
        <5>2. Len(b) \in Nat /\ Len(b) # 0
          BY <5>1, EmptySeq
        <5>3. Append(b, po') # <<>> /\ Append(b, po')[1] = b[1]
          BY <5>1, <5>2, AppendProperties
        <5>4. QED
          BY <1>1, <4>2, <5>3 DEF b
      <4>3. QED
        BY <4>1, <4>2
    <3>2. QED
      BY <1>1, <1>3, <2>1, <3>1 DEF EntryOK
  <2>2. CASE po_by_component = <<>> /\ stack' # <<>>
    BY <1>1, <1>3, <2>2 DEF EntryOK, Walking
  <2>3. CASE po_by_component = <<>> /\ stack' = <<>>
    <3>1. root = 1 /\ seen_nodes \subseteq Reach(graph, e)
      BY <1>3, <2>3 DEF EntryOK
    <3>2. u = e /\ l = 1
      BY <1>9, <1>13, <2>3, <3>1 DEF entry_node
    <3>3. po_by_component' # <<>> /\ po_by_component'[1] = po'
      <4> HIDE DEF N
      <4>1. po_by_component' = <<po'>>
        BY <1>1, <1>8, <2>3
      <4>2. QED
        BY <4>1
    <3>4. post_order = <<>> /\ post_order \o po' = po'
      <4>1. post_order = <<>>
        BY <1>8, <2>3, FlattenSeqLemma DEF post_order
      <4> HIDE DEF N
      <4>2. QED
        BY <1>8, <4>1, ConcatEmptySeq
    <3>5. Append(Finished, u) = po'
      BY <1>10, <3>4
    <3>6. OrderOK(graph, po', <<>>, seen_nodes)
      BY <1>6, <2>3, <3>5
    <3>7. ToSet(po') = seen_nodes
      <4>1. /\ \A i \in 1..Len(po') : po'[i] \in seen_nodes
            /\ \A n \in seen_nodes : \E i \in 1..Len(po') : po'[i] = n
        BY <3>6 DEF OrderOK
      <4>2. DOMAIN po' = 1..Len(po')
        BY <1>8
      <4>3. QED
        BY <4>1, <4>2 DEF ToSet
    <3>8. \A n \in seen_nodes : Succs(graph, n) \subseteq seen_nodes
      BY <3>6 DEF OrderOK
    <3>9. e \in N /\ e \in seen_nodes
      BY <1>7, <3>2
    <3>10. Reach(graph, e) \subseteq seen_nodes
      BY <1>2, <3>8, <3>9, ReachFacts
    <3>11. po' # <<>>
      <4> HIDE DEF N
      <4>1. Len(po') # 0
        BY <1>8
      <4>2. QED
        BY <1>8, <4>1, EmptySeq
    <3>12. po'[Len(po')] = e /\ ToSet(po') = Reach(graph, e) /\ entry_node(graph') = e
      BY <1>1, <1>8, <3>1, <3>2, <3>7, <3>10
    <3> HIDE DEF e
    <3>13. /\ po_by_component'[1] # <<>> /\ po_by_component'[1][Len(po_by_component'[1])] = entry_node(graph')
           /\ ToSet(po_by_component'[1]) = Reach(graph', entry_node(graph'))
      BY <1>1, <3>3, <3>11, <3>12
    <3>14. QED
      BY <3>3, <3>13, Zenon DEF EntryOK
  <2>4. QED
    BY <2>1, <2>2, <2>3
<1>16. QED
  BY <1>1, <1>5, <1>6, <1>11, <1>12, <1>14, <1>15 DEF WalkInv

LEMMA WalkStep == WalkInv /\ (WalkNext \/ UNCHANGED walkVars) => WalkInv'
<1>1. WalkInv /\ UNCHANGED walkVars => WalkInv'
  BY DEF walkVars, WalkInv, WalkTypeOK, RootsOK, EntryOK, Finished, Walking, post_order
<1>2. QED
  BY <1>1, StartStep, VisitStep, FinishStep DEF WalkNext

(***************************************************************************)
(* What the walk promises                                                  *)
(***************************************************************************)

LEMMA PlacedOnce == WalkInv => EachNodeOnce
<1> SUFFICES ASSUME WalkInv PROVE EachNodeOnce
  OBVIOUS
<1> DEFINE N == NodeSet(graph)
           F == Finished
           T == [i \in 1..Len(stack) |-> stack[i][1]]
           m == Len(F)
           l == Len(stack)
           s == F \o T
<1>1. /\ StackOK(graph, stack, seen_nodes) /\ OrderOK(graph, F, stack, seen_nodes) /\ stack \in Seq(N \X Nat)
      /\ l \in Nat /\ F \in Seq(N) /\ m \in Nat /\ IsGraph(graph) /\ post_order \in Seq(N)
  <2>1. StackOK(graph, stack, seen_nodes) /\ OrderOK(graph, F, stack, seen_nodes)
    BY DEF WalkInv
  <2>2. stack \in Seq(N \X Nat) /\ F \in Seq(N)
    BY <2>1 DEF StackOK, OrderOK
  <2> HIDE DEF F, N
  <2>3. m \in Nat
    BY <2>2
  <2>4. QED
    BY <2>1, <2>2, <2>3, WalkFacts DEF N
<1>2. post_order \o (IF Walking THEN po ELSE <<>>) = F
  <2>1. post_order \o <<>> = post_order
    BY <1>1, ConcatEmptySeq
  <2>2. QED
    BY <2>1 DEF Finished
<1>3. T \in Seq(N) /\ Len(T) = l /\ \A i \in 1..l : T[i] = stack[i][1]
  <2>1. T \in [1..l -> N]
    BY <1>1 DEF StackOK
  <2>2. T \in Seq(N)
    BY <1>1, <2>1, FunctionIsSeq
  <2>3. DOMAIN T = 1..l
    OBVIOUS
  <2>4. Len(T) = l
    <3> HIDE DEF T, l
    <3>1. DOMAIN T = 1..Len(T) /\ Len(T) \in Nat
      BY <2>2
    <3>2. QED
      BY <1>1, <2>3, <3>1
  <2>5. QED
    BY <2>2, <2>4
<1> HIDE DEF T, F, m, l
<1>4. /\ s \in Seq(N) /\ Len(s) = m + l
      /\ \A i \in 1..(m + l) : s[i] = IF i <= m THEN F[i] ELSE T[i - m]
  BY <1>1, <1>3, ConcatProperties DEF m
<1> HIDE DEF s
<1>5. /\ \A i, j \in 1..m : F[i] = F[j] => i = j
      /\ \A i \in 1..m : F[i] \in seen_nodes /\ \A j \in 1..l : F[i] # T[j]
      /\ \A n \in seen_nodes : (\E i \in 1..m : F[i] = n) \/ (\E j \in 1..l : T[j] = n)
      /\ \A i, j \in 1..l : T[i] = T[j] => i = j
      /\ \A i \in 1..l : T[i] \in seen_nodes
  <2>1. /\ \A i, j \in 1..m : F[i] = F[j] => i = j
        /\ \A i \in 1..m : F[i] \in seen_nodes /\ \A j \in 1..l : F[i] # stack[j][1]
        /\ \A n \in seen_nodes : (\E i \in 1..m : F[i] = n) \/ (\E j \in 1..l : stack[j][1] = n)
    BY <1>1 DEF OrderOK, m, l
  <2>2. /\ \A i, j \in 1..l : stack[i][1] = stack[j][1] => i = j
        /\ \A i \in 1..l : stack[i][1] \in seen_nodes
    BY <1>1 DEF StackOK, l
  <2>3. \A i \in 1..l : T[i] = stack[i][1]
    BY <1>3
  <2>4. \A n \in seen_nodes : (\E i \in 1..m : F[i] = n) \/ (\E j \in 1..l : T[j] = n)
    BY <2>1, <2>3
  <2>5. \A i \in 1..m : F[i] \in seen_nodes /\ \A j \in 1..l : F[i] # T[j]
    BY <2>1, <2>3
  <2>6. \A i, j \in 1..l : T[i] = T[j] => i = j
    BY <2>2, <2>3
  <2>7. QED
    BY <2>1, <2>2, <2>3, <2>4, <2>5, <2>6
<1>6. \A i \in 1..(m + l) : IF i <= m THEN i \in 1..m ELSE i - m \in 1..l /\ (i - m) + m = i
  BY <1>1
<1>7. \A j \in 1..l : j + m \in 1..(m + l) /\ ~ (j + m <= m) /\ (j + m) - m = j
  BY <1>1
<1>8. IsInjective(s)
  <2>1. ASSUME NEW i \in 1..(m + l), NEW j \in 1..(m + l), s[i] = s[j] PROVE i = j
    <3>1. CASE i <= m /\ j <= m
      BY <1>4, <1>5, <1>6, <2>1, <3>1
    <3>2. CASE i <= m /\ ~ (j <= m)
      BY <1>4, <1>5, <1>6, <2>1, <3>2
    <3>3. CASE ~ (i <= m) /\ j <= m
      BY <1>4, <1>5, <1>6, <2>1, <3>3
    <3>4. CASE ~ (i <= m) /\ ~ (j <= m)
      <4>1. T[i - m] = T[j - m] /\ i - m \in 1..l /\ j - m \in 1..l
        BY <1>4, <1>6, <2>1, <3>4
      <4>2. i - m = j - m
        BY <1>5, <4>1
      <4>3. QED
        BY <1>1, <4>2
    <3>5. QED
      BY <3>1, <3>2, <3>3, <3>4
  <2>2. DOMAIN s = 1..(m + l)
    BY <1>4
  <2>3. QED
    BY <2>1, <2>2 DEF IsInjective
<1>9. {s[i] : i \in 1..Len(s)} = seen_nodes
  <2>1. \A i \in 1..(m + l) : s[i] \in seen_nodes
    BY <1>4, <1>5, <1>6
  <2>2. ASSUME NEW n \in seen_nodes PROVE \E i \in 1..(m + l) : s[i] = n
    <3>1. CASE \E i \in 1..m : F[i] = n
      <4>1. PICK i \in 1..m : F[i] = n
        BY <3>1
      <4>2. i \in 1..(m + l) /\ i <= m
        BY <1>1
      <4>3. QED
        BY <1>4, <4>1, <4>2
    <3>2. CASE \E j \in 1..l : T[j] = n
      BY <1>4, <1>7, <3>2
    <3>3. QED
      BY <1>5, <3>1, <3>2
  <2>3. QED
    BY <1>4, <2>1, <2>2
<1>10. \A i \in 1..(l - 1) : stack[i + 1][1] = graph.succ[stack[i][1]][stack[i][2] - 1]
  BY <1>1 DEF StackOK, l
<1>11. s = (post_order \o (IF Walking THEN po ELSE <<>>)) \o [i \in 1..Len(stack) |-> stack[i][1]]
  BY <1>2 DEF s, T
<1>12. QED
  <2>1. /\ IsInjective(s) /\ {s[i] : i \in 1..Len(s)} = seen_nodes
        /\ \A i \in 1..(Len(stack) - 1) : stack[i + 1][1] = graph.succ[stack[i][1]][stack[i][2] - 1]
    BY <1>8, <1>9, <1>10 DEF l
  <2>2. s = (FlattenSeq(po_by_component) \o (IF Walking THEN po ELSE <<>>)) \o [i \in 1..Len(stack) |-> stack[i][1]]
    BY <1>11 DEF post_order
  <2>3. QED
    BY <2>1, <2>2, Zenon DEF EachNodeOnce

LEMMA WalkEnds == WalkInv /\ WalkDone => Len(post_order) = Len(graph.nodes) /\ SuccessorsFirst /\ EntryComponent
<1> SUFFICES ASSUME WalkInv, WalkDone
             PROVE  Len(post_order) = Len(graph.nodes) /\ SuccessorsFirst /\ EntryComponent
  OBVIOUS
<1> DEFINE N == NodeSet(graph)
           F == post_order
           m == Len(F)
<1>1. /\ ~ Walking /\ stack = <<>> /\ Finished = F /\ root > Len(graph.nodes)
  BY DEF WalkDone, Walking, Finished
<1>2. /\ IsGraph(graph) /\ Len(graph.nodes) \in Nat /\ F \in Seq(N) /\ m \in Nat
      /\ OrderOK(graph, F, <<>>, seen_nodes) /\ WalkTypeOK /\ RootsOK /\ EntryOK
      /\ seen_nodes \subseteq N /\ Len(graph.nodes) >= 1
  BY <1>1, WalkFacts, GraphLemma DEF WalkInv, StackOK
<1>3. root = Len(graph.nodes) + 1
  BY <1>1, <1>2 DEF WalkTypeOK
<1>4. N = seen_nodes
  <2>1. \A i \in 1..Len(graph.nodes) : i \in 1..(root - 1)
    BY <1>2, <1>3
  <2>2. QED
    BY <1>2, <2>1 DEF RootsOK, NodeSet
<1>5. Len(F) = Len(graph.nodes)
  <2> HIDE DEF F, N
  <2>1. DOMAIN F = 1..m
    BY <1>2
  <2>2. IsInjective(F) /\ ToSet(F) = seen_nodes
    BY <1>2, <2>1 DEF OrderOK, IsInjective, ToSet
  <2>3. Cardinality(N) = Len(F)
    BY <1>2, <1>4, <2>2, InjectiveLength
  <2>4. QED
    BY <1>2, <2>3, GraphLemma DEF N
<1>6. SuccessorsFirst
  <2> SUFFICES ASSUME NEW i \in 1..m, NEW j \in 1..m, i < j, F[j] \in Succs(graph, F[i])
               PROVE  SameCycle(graph, F[i], F[j])
    BY DEF SuccessorsFirst
  <2>1. CASE \E k \in 1..i : F[k] = F[j]
    <3>1. PICK k \in 1..i : F[k] = F[j]
      BY <2>1
    <3>2. k \in 1..m /\ k # j
      BY <1>2
    <3>3. QED
      BY <1>2, <3>1, <3>2 DEF OrderOK
  <2>2. QED
    BY <1>2, <2>1 DEF OrderOK
<1>7. EntryComponent
  <2> DEFINE first == po_by_component[1]
             r == Reverse(first)
             e == entry_node(graph)
  <2>1. po_by_component # <<>> /\ po_by_component \in Seq(Seq(N))
    BY <1>2, <1>3 DEF EntryOK, WalkTypeOK
  <2>2. 1 \in DOMAIN po_by_component /\ first \in Seq(N)
    <3> HIDE DEF N
    <3>1. Len(po_by_component) \in Nat /\ Len(po_by_component) # 0
      BY <2>1, EmptySeq
    <3>2. QED
      BY <2>1, <3>1
  <2>3. topological_order_by_component[1] = r
    BY <2>2 DEF topological_order_by_component
  <2>4. first # <<>> /\ first[Len(first)] = e /\ ToSet(first) = Reach(graph, e)
    BY <1>2, <2>1 DEF EntryOK
  <2> HIDE DEF first
  <2>5. Len(first) \in Nat /\ Len(first) # 0
    BY <2>2, <2>4, EmptySeq
  <2>6. r \in Seq(N) /\ ToSet(r) = ToSet(first)
    BY <2>2, ReversedElements
  <2>7. r[1] = first[Len(first)]
    <3>1. r = [k \in 1..Len(first) |-> first[(Len(first) - k) + 1]]
      BY DEF Reverse
    <3>2. 1 \in 1..Len(first) /\ (Len(first) - 1) + 1 = Len(first)
      BY <2>5
    <3>3. QED
      BY <3>1, <3>2
  <2>8. {r[i] : i \in 1..Len(r)} = ToSet(r)
    BY <2>6 DEF ToSet
  <2> HIDE DEF r
  <2>9. QED
    BY <2>3, <2>4, <2>6, <2>7, <2>8 DEF EntryComponent
<1>8. QED
  BY <1>5, <1>6, <1>7

LEMMA WalkResult == WalkInv => PostOrderCorrect
  BY PlacedOnce, WalkEnds DEF PostOrderCorrect

(***************************************************************************)
(* The numbering of DFSTraversal                                           *)
(***************************************************************************)

\* Of the nodes with a number, those that are no more on the stack.
Left(pre, st) == {n \in DOMAIN pre : \A j \in 1..Len(st) : st[j][1] # n}

\* The numbers are handed out in order, each once, and grow along the stack.
NumbersOK(pre, post, c, d, st) ==
    /\ c \in Nat /\ d \in Nat /\ DOMAIN post = DOMAIN pre
    /\ \A n \in DOMAIN pre : pre[n] \in 0..(c - 1)
    /\ \A m, n \in DOMAIN pre : pre[m] = pre[n] => m = n
    /\ \A k \in 0..(c - 1) : \E n \in DOMAIN pre : pre[n] = k
    /\ \A n \in Left(pre, st) : post[n] \in 0..(d - 1)
    /\ \A m, n \in Left(pre, st) : post[m] = post[n] => m = n
    /\ \A k \in 0..(d - 1) : \E n \in Left(pre, st) : post[n] = k
    /\ \A i, j \in 1..Len(st) : i < j => pre[st[i][1]] < pre[st[j][1]]

\* What was found after a node on the stack is reached from it; a node that was left has
\* only edges to what was found before it or left before it; and what was found after
\* a node and left before it is reached from that node.
EdgesOK(g, pre, post, st) ==
    /\ \A i \in 1..Len(st) : \A n \in DOMAIN pre : pre[n] >= pre[st[i][1]] => n \in Reach(g, st[i][1])
    /\ \A u \in Left(pre, st) : \A s \in Succs(g, u) :
          s \in DOMAIN pre /\ (pre[s] <= pre[u] \/ (s \in Left(pre, st) /\ post[s] < post[u]))
    /\ \A s, n \in Left(pre, st) : pre[s] <= pre[n] /\ post[n] <= post[s] => n \in Reach(g, s)

FoundOK(g, pre) == entry_node(g) \in DOMAIN pre /\ DOMAIN pre \subseteq Reach(g, entry_node(g))

\* The nodes of a stack whose top has advanced are the same.
LEMMA NumbersAdvance ==
    ASSUME NEW g, NEW pre, NEW post, NEW c, NEW d, NEW st, NEW t, Advanced(st, t),
           NumbersOK(pre, post, c, d, st), EdgesOK(g, pre, post, st)
    PROVE  NumbersOK(pre, post, c, d, t) /\ EdgesOK(g, pre, post, t)
<1>1. Len(t) = Len(st) /\ \A i \in 1..Len(st) : t[i][1] = st[i][1]
  BY DEF Advanced
<1>2. Left(pre, t) = Left(pre, st)
  BY <1>1 DEF Left
<1>3. NumbersOK(pre, post, c, d, t)
  BY <1>1, <1>2 DEF NumbersOK
<1>4. EdgesOK(g, pre, post, t)
  BY <1>1, <1>2 DEF EdgesOK
<1>5. QED
  BY <1>3, <1>4

\* The node found has the greatest number, and goes on top.
LEMMA NumbersPush ==
    ASSUME NEW g, IsGraph(g), NEW pre, NEW post, NEW c, NEW d, NEW st, StackOK(g, st, DOMAIN pre), Len(st) # 0,
           NumbersOK(pre, post, c, d, st), EdgesOK(g, pre, post, st),
           NEW u, u \notin DOMAIN pre, u \in NodeSet(g), \A i \in 1..Len(st) : u \in Reach(g, st[i][1]),
           NEW pre2, DOMAIN pre2 = DOMAIN pre \cup {u}, pre2[u] = c, \A n \in DOMAIN pre : pre2[n] = pre[n],
           NEW post2, DOMAIN post2 = DOMAIN pre \cup {u}, \A n \in DOMAIN pre : post2[n] = post[n]
    PROVE  LET t == Append(Advance(st), <<u, 1>>)
           IN  NumbersOK(pre2, post2, c + 1, d, t) /\ EdgesOK(g, pre2, post2, t)
<1> DEFINE a == Advance(st)
           t == Append(a, <<u, 1>>)
           l == Len(st)
           E == NodeSet(g) \X Nat
           P == DOMAIN pre
           L == Left(pre, st)
<1>1. st \in Seq(E) /\ l \in Nat /\ l # 0 /\ \A i \in 1..l : st[i][1] \in P
  BY DEF StackOK
<1>2. a \in Seq(E) /\ Advanced(st, a)
  BY <1>1, AdvanceLemma
<1> HIDE DEF a
<1>3. Len(a) = l /\ \A i \in 1..l : a[i][1] = st[i][1]
  BY <1>2 DEF Advanced
<1>4. Len(t) = l + 1 /\ t[l + 1] = <<u, 1>> /\ \A i \in 1..l : t[i] = a[i]
  <2>1. <<u, 1>> \in E
    OBVIOUS
  <2> HIDE DEF E, l
  <2>2. QED
    BY <1>2, <1>3, <2>1, AppendProperties
<1> HIDE DEF t, l, E
<1>5. /\ t[l + 1][1] = u /\ \A i \in 1..l : t[i][1] = st[i][1] /\ t[i][1] \in P /\ i \in 1..(l + 1)
      /\ \A i \in 1..(l + 1) : i \in 1..l \/ i = l + 1
      /\ l + 1 \in 1..(l + 1)
  BY <1>1, <1>3, <1>4
<1>6. /\ c \in Nat /\ d \in Nat /\ DOMAIN post = P
      /\ \A n \in P : pre[n] \in 0..(c - 1)
      /\ \A m, n \in P : pre[m] = pre[n] => m = n
      /\ \A k \in 0..(c - 1) : \E n \in P : pre[n] = k
      /\ \A n \in L : post[n] \in 0..(d - 1)
      /\ \A m, n \in L : post[m] = post[n] => m = n
      /\ \A k \in 0..(d - 1) : \E n \in L : post[n] = k
      /\ \A i, j \in 1..l : i < j => pre[st[i][1]] < pre[st[j][1]]
  BY DEF NumbersOK, l
<1>7. /\ \A i \in 1..l : \A n \in P : pre[n] >= pre[st[i][1]] => n \in Reach(g, st[i][1])
      /\ \A n \in L : \A s \in Succs(g, n) : s \in P /\ (pre[s] <= pre[n] \/ (s \in L /\ post[s] < post[n]))
      /\ \A s, n \in L : pre[s] <= pre[n] /\ post[n] <= post[s] => n \in Reach(g, s)
  BY DEF EdgesOK, l
<1>8. Left(pre2, t) = L /\ L \subseteq P
  BY <1>4, <1>5 DEF Left, l
<1>9. /\ u \notin P /\ pre2[u] = c /\ DOMAIN pre2 = P \cup {u} /\ DOMAIN post2 = P \cup {u}
      /\ \A n \in P : pre2[n] = pre[n] /\ post2[n] = post[n] /\ n # u
      /\ \A i \in 1..l : u \in Reach(g, st[i][1])
  BY DEF l
<1> HIDE DEF P, L
<1>10. NumbersOK(pre2, post2, c + 1, d, t)
  <2>1. \A n \in P \cup {u} : pre2[n] \in 0..((c + 1) - 1)
    BY <1>6, <1>9
  <2>2. \A m, n \in P \cup {u} : pre2[m] = pre2[n] => m = n
    <3>1. \A n \in P : pre2[n] # c
      BY <1>6, <1>9
    <3>2. QED
      BY <1>6, <1>9, <3>1
  <2>3. \A k \in 0..((c + 1) - 1) : \E n \in P \cup {u} : pre2[n] = k
    <3>1. \A k \in 0..((c + 1) - 1) : k \in 0..(c - 1) \/ k = c
      BY <1>6
    <3>2. QED
      BY <1>6, <1>9, <3>1
  <2>4. \A n \in L : post2[n] = post[n]
    BY <1>8, <1>9
  <2>5. \A i, j \in 1..(l + 1) : i < j => pre2[t[i][1]] < pre2[t[j][1]]
    <3> SUFFICES ASSUME NEW i \in 1..(l + 1), NEW j \in 1..(l + 1), i < j PROVE pre2[t[i][1]] < pre2[t[j][1]]
      OBVIOUS
    <3>1. i \in 1..l
      BY <1>1, <1>5
    <3>2. pre2[t[i][1]] = pre[st[i][1]] /\ st[i][1] \in P
      BY <1>5, <1>9, <3>1
    <3>3. CASE j \in 1..l
      BY <1>5, <1>6, <1>9, <3>1, <3>2, <3>3
    <3>4. CASE j = l + 1
      <4>1. pre2[t[j][1]] = c /\ pre[st[i][1]] \in 0..(c - 1)
        BY <1>5, <1>6, <1>9, <3>2, <3>4
      <4>2. QED
        BY <1>6, <3>2, <4>1
    <3>5. QED
      BY <1>5, <3>3, <3>4
  <2>6. QED
    BY <1>4, <1>6, <1>8, <1>9, <2>1, <2>2, <2>3, <2>4, <2>5 DEF NumbersOK
<1>11. EdgesOK(g, pre2, post2, t)
  <2>1. ASSUME NEW i \in 1..(l + 1), NEW n \in P \cup {u}, pre2[n] >= pre2[t[i][1]] PROVE n \in Reach(g, t[i][1])
    <3>1. CASE i \in 1..l
      <4>1. t[i][1] = st[i][1] /\ st[i][1] \in P
        BY <1>5, <3>1
      <4>2. CASE n = u
        BY <1>9, <3>1, <4>1, <4>2
      <4>3. CASE n \in P
        <5>1. pre[n] >= pre[st[i][1]]
          BY <1>9, <2>1, <4>1, <4>3
        <5>2. QED
          BY <1>7, <3>1, <4>1, <4>3, <5>1
      <4>4. QED
        BY <4>2, <4>3
    <3>2. CASE i = l + 1
      <4>1. t[i][1] = u /\ pre2[n] >= c
        BY <1>5, <1>9, <2>1, <3>2
      <4>2. n = u
        BY <1>6, <1>9, <4>1
      <4>3. QED
        BY <4>1, <4>2, ReachFacts
    <3>3. QED
      BY <1>5, <3>1, <3>2
  <2>2. ASSUME NEW n \in L, NEW s \in Succs(g, n)
        PROVE  s \in P \cup {u} /\ (pre2[s] <= pre2[n] \/ (s \in L /\ post2[s] < post2[n]))
    <3>1. s \in P /\ n \in P /\ (pre[s] <= pre[n] \/ (s \in L /\ post[s] < post[n]))
      BY <1>7, <1>8
    <3>2. pre2[s] = pre[s] /\ pre2[n] = pre[n] /\ post2[s] = post[s] /\ post2[n] = post[n]
      BY <1>9, <3>1
    <3>3. QED
      BY <3>1, <3>2
  <2>3. ASSUME NEW s \in L, NEW n \in L, pre2[s] <= pre2[n], post2[n] <= post2[s] PROVE n \in Reach(g, s)
    <3>1. s \in P /\ n \in P
      BY <1>8
    <3>2. pre2[s] = pre[s] /\ pre2[n] = pre[n] /\ post2[s] = post[s] /\ post2[n] = post[n]
      BY <1>9, <3>1
    <3>3. QED
      BY <1>7, <2>3, <3>2
  <2>4. QED
    BY <1>4, <1>8, <1>9, <2>1, <2>2, <2>3 DEF EdgesOK
<1>12. QED
  BY <1>10, <1>11 DEF t, a

\* The node on top is left: everything it leads to was found before it, or left before.
LEMMA NumbersPop ==
    ASSUME NEW g, IsGraph(g), NEW pre, NEW post, NEW c, NEW d, NEW st, StackOK(g, st, DOMAIN pre), Len(st) # 0,
           NumbersOK(pre, post, c, d, st), EdgesOK(g, pre, post, st),
           st[Len(st)][2] > Len(g.succ[st[Len(st)][1]]),
           NEW post2, DOMAIN post2 = DOMAIN pre, post2[st[Len(st)][1]] = d,
           \A n \in DOMAIN pre : n # st[Len(st)][1] => post2[n] = post[n]
    PROVE  NumbersOK(pre, post2, c, d + 1, Front(st)) /\ EdgesOK(g, pre, post2, Front(st))
<1> DEFINE t == Front(st)
           l == Len(st)
           u == st[l][1]
           P == DOMAIN pre
           L == Left(pre, st)
           M == Left(pre, t)
<1>1. Len(t) = l - 1 /\ (\A i \in 1..(l - 1) : t[i] = st[i]) /\ Succs(g, u) \subseteq P
  BY StackPop
<1>2. /\ l \in Nat /\ l # 0 /\ l \in 1..l /\ P \subseteq NodeSet(g)
      /\ \A i \in 1..l : st[i][1] \in P
      /\ \A i, j \in 1..l : st[i][1] = st[j][1] => i = j
  <2>1. l \in Nat /\ l \in 1..l /\ l # 0
    BY DEF StackOK
  <2>2. QED
    BY <2>1 DEF StackOK
<1>3. /\ post2[u] = d /\ DOMAIN post2 = P /\ \A n \in P : n # u => post2[n] = post[n]
  OBVIOUS
<1>4. /\ c \in Nat /\ d \in Nat /\ DOMAIN post = P
      /\ \A n \in P : pre[n] \in 0..(c - 1)
      /\ \A m, n \in P : pre[m] = pre[n] => m = n
      /\ \A k \in 0..(c - 1) : \E n \in P : pre[n] = k
      /\ \A n \in L : post[n] \in 0..(d - 1)
      /\ \A m, n \in L : post[m] = post[n] => m = n
      /\ \A k \in 0..(d - 1) : \E n \in L : post[n] = k
      /\ \A i, j \in 1..l : i < j => pre[st[i][1]] < pre[st[j][1]]
  BY DEF NumbersOK
<1>5. /\ \A i \in 1..l : \A n \in P : pre[n] >= pre[st[i][1]] => n \in Reach(g, st[i][1])
      /\ \A n \in L : \A s \in Succs(g, n) : s \in P /\ (pre[s] <= pre[n] \/ (s \in L /\ post[s] < post[n]))
      /\ \A s, n \in L : pre[s] <= pre[n] /\ post[n] <= post[s] => n \in Reach(g, s)
  BY DEF EdgesOK
<1>6. L = {n \in P : \A j \in 1..l : st[j][1] # n} /\ M = {n \in P : \A j \in 1..(l - 1) : st[j][1] # n}
  BY <1>1 DEF Left
<1>7. \A i \in 1..l : i \in 1..(l - 1) \/ i = l
  BY <1>2
<1>8. \A i \in 1..(l - 1) : i \in 1..l /\ i # l /\ i < l
  BY <1>2
<1>9. u = st[l][1]
  OBVIOUS
<1> HIDE DEF t, l, u, P, L, M
<1>10. M = L \cup {u} /\ u \in P /\ u \notin L /\ L \subseteq P
  <2>1. u \in P /\ \A j \in 1..(l - 1) : st[j][1] # u
    BY <1>2, <1>8, <1>9
  <2>2. u \in M /\ u \notin L /\ L \subseteq M /\ L \subseteq P
    BY <1>2, <1>6, <1>8, <1>9, <2>1
  <2>3. \A n \in M : n = u \/ n \in L
    BY <1>6, <1>7, <1>9
  <2>4. QED
    BY <2>1, <2>2, <2>3
<1>11. post2[u] = d /\ \A n \in L : post2[n] = post[n] /\ post2[n] \in 0..(d - 1) /\ n # u
  BY <1>3, <1>4, <1>10
<1>12. NumbersOK(pre, post2, c, d + 1, t)
  <2>1. \A n \in M : post2[n] \in 0..((d + 1) - 1)
    BY <1>4, <1>10, <1>11
  <2>2. \A m, n \in M : post2[m] = post2[n] => m = n
    <3>1. \A n \in L : post2[n] # d
      BY <1>4, <1>11
    <3>2. QED
      BY <1>4, <1>10, <1>11, <3>1
  <2>3. \A k \in 0..((d + 1) - 1) : \E n \in M : post2[n] = k
    <3>1. \A k \in 0..((d + 1) - 1) : k \in 0..(d - 1) \/ k = d
      BY <1>4
    <3>2. QED
      BY <1>4, <1>10, <1>11, <3>1
  <2>4. \A i, j \in 1..(l - 1) : i < j => pre[t[i][1]] < pre[t[j][1]]
    BY <1>1, <1>4, <1>8
  <2>5. d + 1 \in Nat /\ Len(t) = l - 1
    BY <1>1, <1>4
  <2>6. QED
    BY <1>3, <1>4, <2>1, <2>2, <2>3, <2>4, <2>5 DEF NumbersOK, M, P
<1>13. EdgesOK(g, pre, post2, t)
  <2>1. \A i \in 1..(l - 1) : \A n \in P : pre[n] >= pre[t[i][1]] => n \in Reach(g, t[i][1])
    BY <1>1, <1>5, <1>8
  <2>2. ASSUME NEW n \in M, NEW s \in Succs(g, n)
        PROVE  s \in P /\ (pre[s] <= pre[n] \/ (s \in M /\ post2[s] < post2[n]))
    <3>1. CASE n \in L
      <4>1. s \in P /\ (pre[s] <= pre[n] \/ (s \in L /\ post[s] < post[n]))
        BY <1>5, <3>1
      <4>2. s \in L => post2[s] = post[s] /\ s \in M
        BY <1>10, <1>11
      <4>3. QED
        BY <1>11, <3>1, <4>1, <4>2
    <3>2. CASE n = u
      <4>1. s \in P
        BY <1>1, <3>2 DEF u, P
      <4>2. CASE s \in L
        <5>1. post2[s] \in 0..(d - 1) /\ post2[n] = d /\ s \in M
          BY <1>10, <1>11, <3>2, <4>2
        <5>2. post2[s] < post2[n]
          BY <1>4, <5>1
        <5>3. QED
          BY <4>1, <5>1, <5>2
      <4>3. CASE s \notin L
        <5>1. PICK j \in 1..l : st[j][1] = s
          BY <1>6, <4>1, <4>3
        <5>2. pre[s] \in 0..(c - 1)
          BY <1>4, <4>1
        <5>3. pre[s] <= pre[n]
          BY <1>4, <1>2, <1>7, <1>8, <1>9, <3>2, <5>1, <5>2
        <5>4. QED
          BY <4>1, <5>3
      <4>4. QED
        BY <4>2, <4>3
    <3>3. QED
      BY <1>10, <3>1, <3>2
  <2>3. ASSUME NEW s \in M, NEW n \in M, pre[s] <= pre[n], post2[n] <= post2[s] PROVE n \in Reach(g, s)
    <3>1. CASE s = u
      <4>1. n \in P /\ pre[n] \in 0..(c - 1) /\ pre[u] \in 0..(c - 1)
        BY <1>4, <1>10
      <4>2. pre[n] >= pre[st[l][1]]
        BY <1>9, <2>3, <3>1, <4>1
      <4>3. QED
        BY <1>2, <1>5, <1>9, <3>1, <4>1, <4>2
    <3>2. CASE s \in L /\ n = u
      <4>1. post2[n] = d /\ post2[s] \in 0..(d - 1)
        BY <1>11, <3>2
      <4>2. QED
        BY <1>4, <2>3, <4>1
    <3>3. CASE s \in L /\ n \in L
      <4>1. post[n] <= post[s]
        BY <1>11, <2>3, <3>3
      <4>2. QED
        BY <1>5, <2>3, <3>3, <4>1
    <3>4. QED
      BY <1>10, <3>1, <3>2, <3>3
  <2>4. QED
    BY <1>1, <2>1, <2>2, <2>3 DEF EdgesOK, M, P
<1>14. QED
  BY <1>12, <1>13 DEF t

DFSInv ==
    /\ graph \in Graphs /\ StackOK(graph, dfs_stack, DOMAIN pre_order_number)
    /\ NumbersOK(pre_order_number, post_order_number, pre_order_counter, post_order_counter, dfs_stack)
    /\ EdgesOK(graph, pre_order_number, post_order_number, dfs_stack)
    /\ FoundOK(graph, pre_order_number)

LEMMA DFSFacts ==
    ASSUME DFSInv
    PROVE  /\ IsGraph(graph) /\ Len(dfs_stack) \in Nat /\ (dfs_stack = <<>> <=> Len(dfs_stack) = 0)
           /\ dfs_stack \in Seq(NodeSet(graph) \X Nat)
<1>1. graph \in Graphs /\ dfs_stack \in Seq(NodeSet(graph) \X Nat)
  BY DEF DFSInv, StackOK
<1>2. Len(dfs_stack) \in Nat /\ (dfs_stack = <<>> <=> Len(dfs_stack) = 0)
  BY <1>1, EmptySeq
<1>3. QED
  BY <1>1, <1>2, GraphsAssumption

\* DFSTraversal reads a graph with the same operators.
LEMMA SameOperators ==
    /\ \A s : DFS!Front(s) = Front(s)
    /\ \A S : DFS!Cardinality(S) = Cardinality(S)
    /\ \A g : DFS!entry_node(g) = entry_node(g)
    /\ \A g, n : DFS!Succs(g, n) = Succs(g, n)
    /\ \A g, n : DFS!Reach(g, n) = Reach(g, n)
<1>1. \A s : DFS!Front(s) = Front(s)
  BY DEF DFS!Front, Front
<1>2. \A S : DFS!Cardinality(S) = Cardinality(S)
  BY DEF DFS!Cardinality, Cardinality
<1>3. \A g : DFS!entry_node(g) = entry_node(g)
  BY DEF DFS!entry_node, entry_node
<1>4. \A g, n : DFS!Succs(g, n) = Succs(g, n)
  BY DEF DFS!Succs, Succs
<1>5. \A g, F, A : DFS!ReachAvoiding(g, F, A) = ReachAvoiding(g, F, A)
  BY DEF DFS!Succs, Succs, DFS!ReachAvoiding, ReachAvoiding
<1>6. \A g, n : DFS!Reach(g, n) = Reach(g, n)
  BY <1>5 DEF DFS!Reach, Reach
<1>7. QED
  BY <1>1, <1>2, <1>3, <1>4, <1>6

LEMMA DFSBegins == graph \in Graphs /\ DFS!Init => DFSInv
<1> SUFFICES ASSUME graph \in Graphs, DFS!Init PROVE DFSInv
  OBVIOUS
<1> DEFINE e == entry_node(graph)
           st == <<<<e, 1>>>>
           f == [n \in {e} |-> 0]
<1>1. /\ dfs_stack = st /\ pre_order_number = f /\ post_order_number = f
      /\ pre_order_counter = 1 /\ post_order_counter = 0
  BY SameOperators DEF DFS!Init
<1>2. IsGraph(graph) /\ e \in NodeSet(graph)
  BY GraphsAssumption, GraphLemma
<1>3. e \in Reach(graph, e)
  BY <1>2, ReachFacts
<1>4. DOMAIN f = {e} /\ f[e] = 0
  OBVIOUS
<1>5. StackOK(graph, st, {e})
  <2>1. StackOK(graph, <<<<e, 1>>>>, {} \cup {e})
    <3>1. {} \in SUBSET NodeSet(graph)
      OBVIOUS
    <3> HIDE DEF e
    <3>2. QED
      BY <1>2, <3>1, StackStart
  <2>2. {} \cup {e} = {e}
    OBVIOUS
  <2>3. QED
    BY <2>1, <2>2
<1>6. Len(st) = 1 /\ \A i \in 1..1 : st[i][1] = e
  OBVIOUS
<1> HIDE DEF f, st, e
<1>7. Left(f, st) = {}
  BY <1>4, <1>6 DEF Left
<1>8. NumbersOK(f, f, 1, 0, st)
  <2>1. \A k \in 0..(1 - 1) : k = 0
    OBVIOUS
  <2>2. 0 \in 0..(1 - 1) /\ 0..(0 - 1) = {}
    OBVIOUS
  <2>3. \A i, j \in 1..1 : ~ (i < j)
    OBVIOUS
  <2>4. QED
    BY <1>4, <1>6, <1>7, <2>1, <2>2, <2>3 DEF NumbersOK
<1>9. EdgesOK(graph, f, f, st)
  BY <1>3, <1>4, <1>6, <1>7 DEF EdgesOK
<1>10. FoundOK(graph, f)
  BY <1>3, <1>4 DEF FoundOK, e
<1>11. QED
  BY <1>1, <1>4, <1>5, <1>8, <1>9, <1>10 DEF DFSInv

LEMMA DFSVisitStep == DFSInv /\ DFS!VisitSuccessor => DFSInv'
<1> SUFFICES ASSUME DFSInv, DFS!VisitSuccessor PROVE DFSInv'
  OBVIOUS
<1> DEFINE l == Len(dfs_stack)
           n == dfs_stack[l][1]
           k == dfs_stack[l][2]
           u == graph.succ[n][k]
           P == DOMAIN pre_order_number
<1>1. /\ dfs_stack # <<>> /\ k <= Len(graph.succ[n]) /\ graph' = graph /\ post_order_counter' = post_order_counter
      /\ u \in P => /\ dfs_stack' = Advance(dfs_stack) /\ pre_order_number' = pre_order_number
                    /\ post_order_number' = post_order_number /\ pre_order_counter' = pre_order_counter
      /\ u \notin P => /\ dfs_stack' = Append(Advance(dfs_stack), <<u, 1>>)
                       /\ pre_order_number' = DFS!WithNode(pre_order_number, u, pre_order_counter)
                       /\ post_order_number' = DFS!WithNode(post_order_number, u, 0)
                       /\ pre_order_counter' = pre_order_counter + 1
  BY DEF DFS!VisitSuccessor, DFS!Done, DFS!TopNode, DFS!TopIndex, DFS!Bumped, DFS!Discovered, Advance
<1>2. /\ IsGraph(graph) /\ l # 0 /\ dfs_stack \in Seq(NodeSet(graph) \X Nat) /\ l \in Nat
  BY <1>1, DFSFacts
<1>3. /\ graph \in Graphs /\ StackOK(graph, dfs_stack, P)
      /\ NumbersOK(pre_order_number, post_order_number, pre_order_counter, post_order_counter, dfs_stack)
      /\ EdgesOK(graph, pre_order_number, post_order_number, dfs_stack)
      /\ FoundOK(graph, pre_order_number)
  BY DEF DFSInv
<1>4. CASE u \in P
  <2>1. StackOK(graph, Advance(dfs_stack), P)
    BY <1>1, <1>2, <1>3, <1>4, StackAdvance
  <2>2. Advanced(dfs_stack, Advance(dfs_stack))
    BY <1>2, AdvanceLemma
  <2>3. /\ NumbersOK(pre_order_number, post_order_number, pre_order_counter, post_order_counter, Advance(dfs_stack))
        /\ EdgesOK(graph, pre_order_number, post_order_number, Advance(dfs_stack))
    BY <1>3, <2>2, NumbersAdvance
  <2>4. QED
    BY <1>1, <1>3, <1>4, <2>1, <2>3 DEF DFSInv
<1>5. CASE u \notin P
  <2> DEFINE t == Append(Advance(dfs_stack), <<u, 1>>)
             pre == DFS!WithNode(pre_order_number, u, pre_order_counter)
             post == DFS!WithNode(post_order_number, u, 0)
  <2>1. /\ u \in NodeSet(graph) /\ u \in Succs(graph, n) /\ StackOK(graph, t, P \cup {u})
        /\ \A i \in 1..l : u \in Reach(graph, dfs_stack[i][1])
    BY <1>1, <1>2, <1>3, <1>5, StackPush
  <2>2. DOMAIN post_order_number = P
    BY <1>3 DEF NumbersOK
  <2>3. /\ DOMAIN pre = P \cup {u} /\ pre[u] = pre_order_counter /\ \A x \in P : pre[x] = pre_order_number[x]
        /\ DOMAIN post = P \cup {u} /\ \A x \in P : post[x] = post_order_number[x]
    <3> HIDE DEF u
    <3>1. QED
      BY <1>5, <2>2 DEF DFS!WithNode
  <2> HIDE DEF pre, post, u
  <2>4. /\ NumbersOK(pre, post, pre_order_counter + 1, post_order_counter, t)
        /\ EdgesOK(graph, pre, post, t)
    BY <1>2, <1>3, <1>5, <2>1, <2>3, NumbersPush
  <2>5. FoundOK(graph, pre)
    <3>1. n \in P
      <4>1. l \in 1..l
        BY <1>2
      <4>2. QED
        BY <1>3, <4>1 DEF StackOK
    <3>2. u \in Reach(graph, entry_node(graph))
      BY <1>2, <1>3, <2>1, <3>1, ReachFacts, GraphLemma DEF FoundOK
    <3>3. QED
      BY <1>3, <2>3, <3>2 DEF FoundOK
  <2>6. dfs_stack' = t /\ pre_order_number' = pre /\ post_order_number' = post /\ pre_order_counter' = pre_order_counter + 1
    BY <1>1, <1>5 DEF pre, post, u
  <2>7. QED
    BY <1>1, <1>3, <2>1, <2>3, <2>4, <2>5, <2>6 DEF DFSInv
<1>6. QED
  BY <1>4, <1>5

LEMMA DFSFinishStep == DFSInv /\ DFS!FinishNode => DFSInv'
<1> SUFFICES ASSUME DFSInv, DFS!FinishNode PROVE DFSInv'
  OBVIOUS
<1> DEFINE l == Len(dfs_stack)
           n == dfs_stack[l][1]
           k == dfs_stack[l][2]
           P == DOMAIN pre_order_number
           post == [post_order_number EXCEPT ![n] = post_order_counter]
<1>1. /\ dfs_stack # <<>> /\ k > Len(graph.succ[n]) /\ graph' = graph /\ pre_order_number' = pre_order_number
      /\ pre_order_counter' = pre_order_counter /\ post_order_counter' = post_order_counter + 1
      /\ post_order_number' = post /\ dfs_stack' = Front(dfs_stack)
  BY SameOperators DEF DFS!FinishNode, DFS!Done, DFS!TopNode, DFS!TopIndex
<1>2. /\ IsGraph(graph) /\ l # 0 /\ dfs_stack \in Seq(NodeSet(graph) \X Nat) /\ l \in Nat
  BY <1>1, DFSFacts
<1>3. /\ graph \in Graphs /\ StackOK(graph, dfs_stack, P)
      /\ NumbersOK(pre_order_number, post_order_number, pre_order_counter, post_order_counter, dfs_stack)
      /\ EdgesOK(graph, pre_order_number, post_order_number, dfs_stack)
      /\ FoundOK(graph, pre_order_number)
  BY DEF DFSInv
<1>4. n \in P /\ DOMAIN post_order_number = P
  <2>1. l \in 1..l
    BY <1>2
  <2>2. QED
    BY <1>3, <2>1 DEF StackOK, NumbersOK
<1>5. DOMAIN post = P /\ post[n] = post_order_counter /\ \A x \in P : x # n => post[x] = post_order_number[x]
  BY <1>4
<1> HIDE DEF post
<1>6. StackOK(graph, Front(dfs_stack), P)
  BY <1>2, <1>3, StackPop
<1>7. /\ NumbersOK(pre_order_number, post, pre_order_counter, post_order_counter + 1, Front(dfs_stack))
      /\ EdgesOK(graph, pre_order_number, post, Front(dfs_stack))
  <2> HIDE DEF P
  <2>1. \A x \in P : x # dfs_stack[Len(dfs_stack)][1] => post[x] = post_order_number[x]
    BY <1>5
  <2>2. /\ dfs_stack[Len(dfs_stack)][2] > Len(graph.succ[dfs_stack[Len(dfs_stack)][1]])
        /\ post[dfs_stack[Len(dfs_stack)][1]] = post_order_counter /\ Len(dfs_stack) # 0
    BY <1>1, <1>2, <1>5
  <2>3. QED
    BY <1>2, <1>3, <1>5, <2>1, <2>2, NumbersPop DEF P
<1>8. QED
  BY <1>1, <1>3, <1>6, <1>7 DEF DFSInv

LEMMA DFSStep == DFSInv /\ (DFS!Next \/ UNCHANGED <<graph, dfsVars>>) => DFSInv'
<1>1. DFSInv /\ UNCHANGED <<graph, dfsVars>> => DFSInv'
  BY DEF dfsVars, DFSInv
<1>2. QED
  BY <1>1, DFSVisitStep, DFSFinishStep DEF DFS!Next

\* When the walk is over, every number is in its place and every edge of its kind.
LEMMA DFSResult == DFSInv => DFS!TraversalCorrect
<1> SUFFICES ASSUME DFSInv, dfs_stack = <<>>
             PROVE  DFS!NumbersArePermutations /\ DFS!BackEdgesCloseCycles /\ DFS!CyclesHaveBackEdges
  BY DEF DFS!TraversalCorrect, DFS!Done
<1> DEFINE P == DOMAIN pre_order_number
           pre == pre_order_number
           post == post_order_number
           c == pre_order_counter
           e == entry_node(graph)
<1>1. IsGraph(graph) /\ P \subseteq NodeSet(graph) /\ e \in P /\ P \subseteq Reach(graph, e) /\ e \in NodeSet(graph)
  BY DFSFacts, GraphLemma DEF DFSInv, StackOK, FoundOK
<1>2. Left(pre, dfs_stack) = P
  <2>1. 1..Len(dfs_stack) = {}
    OBVIOUS
  <2>2. QED
    BY <2>1 DEF Left
<1>3. /\ c \in Nat /\ post_order_counter \in Nat /\ DOMAIN post = P
      /\ \A n \in P : pre[n] \in 0..(c - 1)
      /\ \A m, n \in P : pre[m] = pre[n] => m = n
      /\ \A k \in 0..(c - 1) : \E n \in P : pre[n] = k
      /\ \A n \in P : post[n] \in 0..(post_order_counter - 1)
      /\ \A m, n \in P : post[m] = post[n] => m = n
      /\ \A k \in 0..(post_order_counter - 1) : \E n \in P : post[n] = k
  BY <1>2 DEF DFSInv, NumbersOK
<1>4. /\ \A n \in P : \A s \in Succs(graph, n) : s \in P /\ (pre[s] <= pre[n] \/ post[s] < post[n])
      /\ \A s, n \in P : pre[s] <= pre[n] /\ post[n] <= post[s] => n \in Reach(graph, s)
  BY <1>2 DEF DFSInv, EdgesOK
<1>5. P = Reach(graph, e)
  <2>1. \A n \in P : Succs(graph, n) \subseteq P
    BY <1>4
  <2>2. Reach(graph, e) \subseteq P
    BY <1>1, <2>1, ReachFacts
  <2>3. QED
    BY <1>1, <2>2
<1>6. IsFiniteSet(P)
  BY <1>1, GraphLemma, FS_Subset
<1>7. ASSUME NEW f, NEW d \in Nat, DOMAIN f = P, \A n \in P : f[n] \in 0..(d - 1),
             \A m, n \in P : f[m] = f[n] => m = n, \A k \in 0..(d - 1) : \E n \in P : f[n] = k
      PROVE  Cardinality(P) = d /\ {f[n] : n \in P} = 0..(d - 1)
  <2> DEFINE g == [n \in P |-> f[n]]
             T == 0..(d - 1)
  <2>1. g \in Injection(P, T) /\ g \in Surjection(P, T)
    BY <1>7 DEF Injection, Surjection, IsInjective
  <2>2. ExistsBijection(P, T)
    BY <2>1 DEF ExistsBijection, Bijection
  <2> HIDE DEF T
  <2>3. Cardinality(T) = Cardinality(P)
    BY <1>6, <2>2, FS_Bijection
  <2>4. Cardinality(T) = d
    <3>1. 0 \in Int /\ d - 1 \in Int
      BY <1>7
    <3>2. Cardinality(0..(d - 1)) = IF 0 > d - 1 THEN 0 ELSE (d - 1) - 0 + 1
      BY <3>1, FS_Interval
    <3>3. QED
      BY <1>7, <3>2 DEF T
  <2>5. {f[n] : n \in P} = 0..(d - 1)
    BY <1>7
  <2>6. QED
    BY <2>3, <2>4, <2>5
<1>8. Cardinality(P) = c /\ {pre[n] : n \in P} = 0..(c - 1)
  BY <1>3, <1>7
<1>9. Cardinality(P) = post_order_counter /\ {post[n] : n \in P} = 0..(post_order_counter - 1)
  BY <1>3, <1>7
<1>10. \A n \in P : DFS!reverse_post_order_number(n) = (c - 1) - post[n]
  BY <1>8, SameOperators DEF DFS!reverse_post_order_number, DFS!Discovered
<1>11. DFS!Discovered = P
  BY DEF DFS!Discovered
<1> HIDE DEF P, pre, post, c, e
<1>12. \A n \in P : post[n] \in 0..(c - 1)
  BY <1>3, <1>8, <1>9
<1>13. {DFS!reverse_post_order_number(n) : n \in P} = 0..(c - 1)
  <2>1. ASSUME NEW n \in P PROVE DFS!reverse_post_order_number(n) \in 0..(c - 1)
    <3>1. DFS!reverse_post_order_number(n) = (c - 1) - post[n] /\ post[n] \in 0..(c - 1) /\ c \in Nat
      BY <1>3, <1>10, <1>12
    <3> DEFINE q == post[n]
    <3> HIDE DEF q
    <3>2. \A i \in 0..(c - 1) : (c - 1) - i \in 0..(c - 1)
      BY <3>1
    <3>3. QED
      BY <3>1, <3>2
  <2>2. ASSUME NEW k \in 0..(c - 1) PROVE \E n \in P : DFS!reverse_post_order_number(n) = k
    <3>1. (c - 1) - k \in 0..(c - 1)
      BY <1>3
    <3>2. PICK n \in P : post[n] = (c - 1) - k
      BY <1>3, <1>8, <1>9, <3>1
    <3>3. DFS!reverse_post_order_number(n) = k
      BY <1>3, <1>10, <3>2
    <3>4. QED
      BY <3>3
  <2>3. QED
    BY <2>1, <2>2
<1>14. DFS!NumbersArePermutations
  <2>1. Cardinality(P) - 1 = c - 1
    BY <1>8
  <2>2. /\ {pre_order_number[n] : n \in P} = 0..(Cardinality(P) - 1)
        /\ {post_order_number[n] : n \in P} = 0..(Cardinality(P) - 1)
        /\ {DFS!reverse_post_order_number(n) : n \in P} = 0..(Cardinality(P) - 1)
    BY <1>8, <1>9, <1>13, <2>1 DEF pre, post
  <2>3. P = Reach(graph, entry_node(graph))
    BY <1>5 DEF e
  <2>4. QED
    BY <1>11, <2>2, <2>3, SameOperators, Zenon DEF DFS!NumbersArePermutations
<1>15. ASSUME NEW n \in P, NEW s \in Succs(graph, n)
       PROVE  /\ s \in P /\ DFS!edge_kind(n, s) # "panic"
              /\ DFS!edge_kind(n, s) = "Back" => n \in Reach(graph, s)
              /\ DFS!edge_kind(n, s) # "Back" =>
                    DFS!reverse_post_order_number(n) < DFS!reverse_post_order_number(s)
  <2>1. s \in P /\ (pre[s] <= pre[n] \/ post[s] < post[n])
    BY <1>4
  <2>2. /\ pre[s] \in 0..(c - 1) /\ pre[n] \in 0..(c - 1) /\ post[s] \in 0..(c - 1) /\ post[n] \in 0..(c - 1)
        /\ (pre[n] = pre[s] <=> n = s) /\ (post[n] = post[s] <=> n = s)
    BY <1>3, <1>12, <2>1
  <2>3. DFS!edge_kind(n, s) =
           IF (pre[n] = pre[s]) # (post[n] = post[s]) THEN "panic"
           ELSE IF pre[n] = pre[s] THEN "Back"
           ELSE IF pre[n] < pre[s]
                  THEN IF post[n] > post[s] THEN "Forward" ELSE "panic"
                  ELSE IF post[n] < post[s] THEN "Back" ELSE "Cross"
    BY DEF DFS!edge_kind, pre, post
  <2>4. /\ DFS!reverse_post_order_number(n) = (c - 1) - post[n]
        /\ DFS!reverse_post_order_number(s) = (c - 1) - post[s]
    BY <1>10, <2>1
  <2>5. (pre[n] = pre[s]) = (post[n] = post[s])
    BY <2>2
  <2>6. CASE n = s
    <3>1. DFS!edge_kind(n, s) = "Back"
      BY <2>2, <2>3, <2>5, <2>6
    <3>2. n \in Reach(graph, s)
      BY <1>4, <2>1, <2>2, <2>6
    <3>3. QED
      BY <2>1, <3>1, <3>2
  <2>7. CASE n # s /\ pre[n] < pre[s]
    <3>1. post[n] > post[s] /\ pre[n] # pre[s]
      BY <2>1, <2>2, <2>7
    <3>2. DFS!edge_kind(n, s) = "Forward"
      BY <2>3, <2>5, <2>7, <3>1
    <3>3. QED
      BY <1>3, <2>1, <2>2, <2>4, <3>1, <3>2
  <2>8. CASE n # s /\ ~ (pre[n] < pre[s])
    <3>1. pre[s] <= pre[n] /\ pre[n] # pre[s] /\ post[n] # post[s]
      BY <2>2, <2>8
    <3>2. CASE post[n] < post[s]
      <4>1. DFS!edge_kind(n, s) = "Back"
        BY <2>3, <2>5, <2>8, <3>1, <3>2
      <4>2. n \in Reach(graph, s)
        BY <1>4, <2>1, <2>2, <3>1, <3>2
      <4>3. QED
        BY <2>1, <4>1, <4>2
    <3>3. CASE ~ (post[n] < post[s])
      <4>1. DFS!edge_kind(n, s) = "Cross"
        BY <2>3, <2>5, <2>8, <3>1, <3>3
      <4>2. post[s] < post[n]
        BY <2>2, <3>1, <3>3
      <4>3. QED
        BY <1>3, <2>1, <2>2, <2>4, <4>1, <4>2
    <3>4. QED
      BY <3>2, <3>3
  <2>9. QED
    BY <2>6, <2>7, <2>8
<1>16. DFS!BackEdgesCloseCycles /\ DFS!CyclesHaveBackEdges
  BY <1>11, <1>15, SameOperators DEF DFS!BackEdgesCloseCycles, DFS!CyclesHaveBackEdges
<1>17. QED
  BY <1>14, <1>16

(***************************************************************************)
(* The order of the first walk is that of a tree: each node but the entry  *)
(* has a predecessor that is ordered after it.                             *)
(***************************************************************************)

\* Each node of F is a successor of one on the stack or of one that comes later in F.
ParentsAbove(g, F, st) ==
    \A k \in 1..Len(F) : \/ \E j \in 1..Len(st) : F[k] \in Succs(g, st[j][1])
                         \/ \E m \in (k + 1)..Len(F) : F[k] \in Succs(g, F[m])

\* The last node of F is the root of the others.
ParentsWithin(g, F) ==
    \A k \in 1..(Len(F) - 1) : \E m \in (k + 1)..Len(F) : F[k] \in Succs(g, F[m])

FirstInv ==
    IF po_by_component = <<>> THEN Walking => ParentsAbove(graph, po, stack)
    ELSE IsInjective(po_by_component[1]) /\ ParentsWithin(graph, po_by_component[1])

LEMMA ParentsKept ==
    ASSUME NEW g, NEW F, NEW st, NEW t, ParentsAbove(g, F, st), Len(st) \in Nat, Len(t) \in Nat, Len(st) <= Len(t),
           \A i \in 1..Len(st) : t[i][1] = st[i][1]
    PROVE  ParentsAbove(g, F, t)
<1>1. \A j \in 1..Len(st) : j \in 1..Len(t)
  OBVIOUS
<1>2. QED
  BY <1>1 DEF ParentsAbove

LEMMA ParentsPop ==
    ASSUME NEW g, IsGraph(g), NEW st, NEW seen, StackOK(g, st, seen), Len(st) # 0, NEW F \in Seq(NodeSet(g)),
           ParentsAbove(g, F, st), NEW G, G = Append(F, st[Len(st)][1])
    PROVE  /\ Len(st) # 1 => ParentsAbove(g, G, Front(st))
           /\ Len(st) = 1 => ParentsWithin(g, G)
<1> DEFINE l == Len(st)
           u == st[l][1]
           n == Len(F)
           N == NodeSet(g)
           t == Front(st)
<1>1. /\ l \in Nat /\ l >= 1 /\ l \in 1..l /\ u \in N /\ n \in Nat
      /\ \A i \in 1..(l - 1) : i \in 1..l
  <2>1. l \in Nat /\ n \in Nat
    BY DEF StackOK
  <2>2. l >= 1 /\ l \in 1..l /\ \A i \in 1..(l - 1) : i \in 1..l
    BY <2>1
  <2>3. u \in N
    BY <2>2 DEF StackOK
  <2>4. QED
    BY <2>1, <2>2, <2>3
<1>2. Len(t) = l - 1 /\ \A i \in 1..(l - 1) : t[i] = st[i]
  BY StackPop
<1>3. l # 1 => l - 1 \in 1..(l - 1) /\ u \in Succs(g, st[l - 1][1])
  <2> SUFFICES ASSUME l # 1 PROVE l - 1 \in 1..(l - 1) /\ u \in Succs(g, st[l - 1][1])
    OBVIOUS
  <2> DEFINE k == st[l - 1][2]
             v == st[l - 1][1]
  <2>1. l - 1 \in 1..(l - 1) /\ l - 1 \in 1..l /\ (l - 1) + 1 = l
    <3> HIDE DEF l
    <3>1. QED
      BY <1>1
  <2>2. k >= 2 /\ st[(l - 1) + 1][1] = g.succ[v][k - 1] /\ v \in N /\ k \in 1..(Len(g.succ[v]) + 1)
    BY <2>1 DEF StackOK
  <2>3. Len(g.succ[v]) \in Nat /\ \A i \in 1..Len(g.succ[v]) : g.succ[v][i] \in Succs(g, v)
    BY <2>2, GraphLemma
  <2> HIDE DEF k, v
  <2>4. k - 1 \in 1..Len(g.succ[v])
    BY <2>2, <2>3
  <2>5. QED
    BY <2>1, <2>2, <2>3, <2>4 DEF v
<1> HIDE DEF l, u, n, N, t
<1>4. Len(G) = n + 1 /\ G[n + 1] = u /\ \A i \in 1..n : G[i] = F[i]
  BY <1>1, AppendProperties DEF N, n, u, l
<1>5. /\ \A k \in 1..(n + 1) : k \in 1..n \/ k = n + 1
      /\ \A k \in 1..n : n + 1 \in (k + 1)..(n + 1) /\ \A m \in (k + 1)..n : m \in 1..n /\ m \in (k + 1)..(n + 1)
      /\ (n + 1) - 1 = n
      /\ \A j \in 1..l : j \in 1..(l - 1) \/ j = l
  BY <1>1
<1>6. \A k \in 1..n : \/ \E j \in 1..(l - 1) : G[k] \in Succs(g, t[j][1])
                      \/ \E m \in (k + 1)..(n + 1) : G[k] \in Succs(g, G[m])
  <2> SUFFICES ASSUME NEW k \in 1..n
               PROVE  \/ \E j \in 1..(l - 1) : G[k] \in Succs(g, t[j][1])
                      \/ \E m \in (k + 1)..(n + 1) : G[k] \in Succs(g, G[m])
    OBVIOUS
  <2>1. \/ \E j \in 1..l : F[k] \in Succs(g, st[j][1])
        \/ \E m \in (k + 1)..n : F[k] \in Succs(g, F[m])
    BY DEF ParentsAbove, l, n
  <2>2. CASE \E j \in 1..l : F[k] \in Succs(g, st[j][1])
    <3>1. PICK j \in 1..l : F[k] \in Succs(g, st[j][1])
      BY <2>2
    <3>2. CASE j = l
      <4>1. G[k] \in Succs(g, G[n + 1])
        BY <1>4, <3>1, <3>2 DEF u
      <4>2. QED
        BY <1>5, <4>1
    <3>3. CASE j \in 1..(l - 1)
      BY <1>2, <1>4, <3>1, <3>3
    <3>4. QED
      BY <1>5, <3>2, <3>3
  <2>3. CASE \E m \in (k + 1)..n : F[k] \in Succs(g, F[m])
    <3>1. PICK m \in (k + 1)..n : F[k] \in Succs(g, F[m])
      BY <2>3
    <3>2. m \in 1..n /\ m \in (k + 1)..(n + 1)
      BY <1>5
    <3>3. G[k] \in Succs(g, G[m])
      BY <1>4, <3>1, <3>2
    <3>4. QED
      BY <3>2, <3>3
  <2>4. QED
    BY <2>1, <2>2, <2>3
<1>7. l # 1 => ParentsAbove(g, G, t)
  <2> SUFFICES ASSUME l # 1 PROVE ParentsAbove(g, G, t)
    OBVIOUS
  <2>1. \E j \in 1..(l - 1) : G[n + 1] \in Succs(g, t[j][1])
    BY <1>2, <1>3, <1>4
  <2>2. QED
    BY <1>2, <1>4, <1>5, <1>6, <2>1 DEF ParentsAbove
<1>8. l = 1 => ParentsWithin(g, G)
  <2> SUFFICES ASSUME l = 1 PROVE ParentsWithin(g, G)
    OBVIOUS
  <2>1. 1..(l - 1) = {}
    OBVIOUS
  <2>2. QED
    BY <1>4, <1>5, <1>6, <2>1 DEF ParentsWithin
<1>9. QED
  BY <1>7, <1>8 DEF l, t

LEMMA FirstStep == WalkInv /\ FirstInv /\ (WalkNext \/ UNCHANGED walkVars) => FirstInv'
<1> SUFFICES ASSUME WalkInv, FirstInv, WalkNext \/ UNCHANGED walkVars PROVE FirstInv'
  OBVIOUS
<1> DEFINE l == Len(stack)
           b == po_by_component
<1>1. /\ IsGraph(graph) /\ l \in Nat /\ (Walking <=> l # 0) /\ StackOK(graph, stack, seen_nodes)
      /\ po \in Seq(NodeSet(graph)) /\ b \in Seq(Seq(NodeSet(graph))) /\ stack \in Seq(NodeSet(graph) \X Nat)
      /\ OrderOK(graph, Finished, stack, seen_nodes) /\ WalkInv'
  BY WalkFacts, WalkStep DEF WalkInv, WalkTypeOK, StackOK
<1>2. CASE UNCHANGED walkVars
  BY <1>2 DEF walkVars, FirstInv, Walking
<1>3. CASE StartComponent
  <2>1. b' = b /\ graph' = graph /\ po' = <<>>
    BY <1>3 DEF StartComponent
  <2>2. ParentsAbove(graph, <<>>, stack')
    <3>1. Len(<<>>) = 0
      OBVIOUS
    <3>2. QED
      BY <3>1 DEF ParentsAbove
  <2>3. QED
    BY <2>1, <2>2 DEF FirstInv
<1>4. CASE VisitSuccessor
  <2> DEFINE u == graph.succ[TopNode][TopIndex]
             a == Advance(stack)
  <2>1. /\ Walking /\ UNCHANGED <<graph, po, po_by_component>>
        /\ stack' = a \/ stack' = Append(a, <<u, 1>>)
    BY <1>4 DEF VisitSuccessor, Bumped, Advance
  <2>2. a \in Seq(NodeSet(graph) \X Nat) /\ Len(a) = l /\ \A i \in 1..l : a[i][1] = stack[i][1]
    BY <1>1, <2>1, AdvanceLemma DEF Advanced
  <2>3. stack' \in Seq(NodeSet(graph) \X Nat) /\ Len(stack') \in Nat
    <3>1. stack' \in Seq(NodeSet(graph') \X Nat)
      BY <1>1 DEF WalkInv, StackOK
    <3>2. QED
      BY <2>1, <3>1
  <2> HIDE DEF a, u
  <2>4. l <= Len(stack') /\ \A i \in 1..l : stack'[i][1] = stack[i][1]
    <3>1. CASE stack' = a
      BY <1>1, <2>2, <3>1
    <3>2. CASE stack' = Append(a, <<u, 1>>)
      <4> HIDE DEF l
      <4>1. Len(stack') = l + 1 /\ \A i \in 1..l : stack'[i] = a[i]
        <5> DEFINE x == <<u, 1>>
        <5> HIDE DEF x
        <5>1. Len(Append(a, x)) = Len(a) + 1 /\ \A i \in 1..Len(a) : Append(a, x)[i] = a[i]
          BY <2>2
        <5>2. QED
          BY <2>2, <3>2, <5>1 DEF x
      <4>2. QED
        BY <1>1, <2>2, <4>1
    <3>3. QED
      BY <2>1, <3>1, <3>2
  <2>5. CASE b = <<>>
    <3>1. ParentsAbove(graph, po, stack)
      BY <2>1, <2>5 DEF FirstInv
    <3>2. ParentsAbove(graph, po, stack')
      BY <1>1, <2>3, <2>4, <3>1, ParentsKept
    <3>3. QED
      BY <2>1, <2>5, <3>2 DEF FirstInv
  <2>6. CASE b # <<>>
    BY <2>1, <2>6 DEF FirstInv
  <2>7. QED
    BY <2>5, <2>6
<1>5. CASE FinishNode
  <2> DEFINE u == stack[l][1]
  <2>1. /\ Walking /\ graph' = graph /\ po' = Append(po, u) /\ stack' = Front(stack)
        /\ stack' = <<>> => b' = Append(b, po')
        /\ stack' # <<>> => b' = b
    BY <1>5 DEF FinishNode, TopNode
  <2>2. Len(stack') = l - 1 /\ (stack' = <<>> <=> l = 1)
    <3>1. Len(stack') = l - 1
      BY <1>1, <2>1, StackPop
    <3>2. stack' \in Seq(NodeSet(graph') \X Nat)
      BY <1>1 DEF WalkInv, StackOK
    <3> HIDE DEF l
    <3>3. stack' = <<>> <=> Len(stack') = 0
      BY <3>2, EmptySeq
    <3>4. QED
      BY <1>1, <3>1, <3>3
  <2>3. CASE b = <<>> /\ stack' # <<>>
    <3>1. ParentsAbove(graph, po, stack)
      BY <2>1, <2>3 DEF FirstInv
    <3>2. ParentsAbove(graph, po', stack')
      BY <1>1, <2>1, <2>2, <2>3, <3>1, ParentsPop
    <3>3. QED
      BY <2>1, <2>3, <3>2 DEF FirstInv
  <2>4. CASE b = <<>> /\ stack' = <<>>
    <3>1. ParentsAbove(graph, po, stack)
      BY <2>1, <2>4 DEF FirstInv
    <3>2. ParentsWithin(graph, po')
      BY <1>1, <2>1, <2>2, <2>4, <3>1, ParentsPop
    <3>3. b' # <<>> /\ b'[1] = po'
      <4>1. b' = <<po'>>
        BY <1>1, <2>1, <2>4
      <4>2. QED
        BY <4>1
    <3>4. IsInjective(po')
      <4>1. b' = <<po'>> /\ po' \in Seq(NodeSet(graph)) /\ b' \in Seq(Seq(NodeSet(graph)))
        BY <1>1, <2>1, <2>4 DEF WalkInv, WalkTypeOK
      <4>2. FlattenSeq(b') = po'
        <5>1. b' = Append(b, po') /\ FlattenSeq(b) = <<>>
          BY <1>1, <2>1, <2>4, FlattenSeqLemma
        <5>2. FlattenSeq(b') = FlattenSeq(b) \o po'
          BY <1>1, <4>1, <5>1, FlattenAppend
        <5>3. QED
          BY <4>1, <5>1, <5>2, ConcatEmptySeq
      <4>3. Finished' = po'
        BY <2>4, <4>2 DEF Finished, Walking, post_order
      <4>4. OrderOK(graph, po', stack', seen_nodes')
        BY <1>1, <2>1, <4>3 DEF WalkInv
      <4>5. DOMAIN po' = 1..Len(po')
        BY <4>1
      <4>6. QED
        BY <4>4, <4>5 DEF OrderOK, IsInjective
    <3>5. QED
      BY <2>1, <3>2, <3>3, <3>4 DEF FirstInv
  <2>5. CASE b # <<>>
    <3>1. b' # <<>> /\ b'[1] = b[1]
      <4> DEFINE Q == Seq(NodeSet(graph))
      <4>1. b \in Seq(Q) /\ po' \in Q
        BY <1>1, <2>1 DEF WalkInv, WalkTypeOK
      <4> HIDE DEF b, Q, u, l
      <4>2. Len(b) \in Nat /\ Len(b) # 0
        BY <2>5, <4>1, EmptySeq
      <4>3. Append(b, po') # <<>> /\ Append(b, po')[1] = b[1]
        BY <4>1, <4>2, AppendProperties
      <4>4. QED
        BY <2>1, <2>5, <4>3
    <3>2. QED
      BY <2>1, <2>5, <3>1 DEF FirstInv
  <2>6. QED
    BY <2>3, <2>4, <2>5
<1>6. QED
  BY <1>2, <1>3, <1>4, <1>5 DEF WalkNext

(***************************************************************************)
(* The tree that compute_dominator_tree builds over positions              *)
(***************************************************************************)

\* A property of positions that is handed on from the earlier ones holds for all.
LEMMA ByPosition ==
    ASSUME NEW n \in Nat, NEW S, \A i \in 1..n : (\A j \in 1..(i - 1) : j \in S) => i \in S
    PROVE  1..n \subseteq S
<1> DEFINE P == {k \in 0..n : 1..k \subseteq S}
<1>1. 0 \in P
  OBVIOUS
<1>2. ASSUME NEW k \in 0..n, k < n, k \in P PROVE k + 1 \in P
  <2>1. k + 1 \in 1..n /\ k + 1 \in 0..n /\ (k + 1) - 1 = k /\ \A i \in 1..(k + 1) : i \in 1..k \/ i = k + 1
    BY <1>2
  <2>2. k + 1 \in S
    BY <1>2, <2>1
  <2>3. QED
    BY <1>2, <2>1, <2>2
<1>3. 0..n \subseteq P
  <2> HIDE DEF P
  <2>1. QED
    BY <1>1, <1>2, UpTo
<1>4. QED
  BY <1>3

\* d[i] is the parent of position i, 0 while there is none; the root is its own.
TreeOK(d, n) ==
    /\ n \in Nat /\ n >= 1 /\ d \in [1..n -> Nat] /\ d[1] = 1
    /\ \A i \in 2..n : d[i] # 0 => d[i] \in 1..(i - 1) /\ d[d[i]] # 0
    /\ \A i, j \in 1..n : i < j /\ d[j] # 0 => d[i] # 0

Placed(d) == {i \in DOMAIN d : d[i] # 0}

\* The position and its ancestors: what every set with the position and with the parents
\* of its members holds.
Up(d, i) == {a \in DOMAIN d : \A S \in SUBSET DOMAIN d : i \in S /\ (\A x \in S : d[x] # 0 => d[x] \in S) => a \in S}

LEMMA UpFacts ==
    ASSUME NEW d, NEW n, TreeOK(d, n), NEW i \in Placed(d)
    PROVE  /\ i \in 1..n /\ i \in Up(d, i) /\ Up(d, i) \subseteq Placed(d)
           /\ \A a \in Up(d, i) : a \in 1..i
           /\ i = 1 => Up(d, i) = {1}
           /\ i # 1 => d[i] \in Placed(d) /\ d[i] \in 1..(i - 1) /\ Up(d, i) = {i} \cup Up(d, d[i])
           /\ 1 \in Placed(d)
<1>1. /\ n \in Nat /\ n >= 1 /\ DOMAIN d = 1..n /\ d[1] = 1 /\ i \in 1..n /\ d[i] # 0
      /\ \A j \in 2..n : d[j] # 0 => d[j] \in 1..(j - 1) /\ d[d[j]] # 0
  BY DEF TreeOK, Placed
<1>2. \A j \in 1..n : d[j] # 0 => d[j] \in 1..j /\ d[j] \in 1..n /\ d[d[j]] # 0
  <2> SUFFICES ASSUME NEW j \in 1..n, d[j] # 0 PROVE d[j] \in 1..j /\ d[j] \in 1..n /\ d[d[j]] # 0
    OBVIOUS
  <2>1. CASE j = 1
    BY <1>1, <2>1
  <2>2. CASE j # 1
    <3>1. j \in 2..n
      BY <1>1, <2>2
    <3>2. d[j] \in 1..(j - 1) /\ d[d[j]] # 0
      BY <1>1, <3>1
    <3>3. QED
      BY <1>1, <3>2
  <2>3. QED
    BY <2>1, <2>2
<1>3. i \in Up(d, i)
  BY <1>1 DEF Up
<1>4. ASSUME NEW a \in Up(d, i) PROVE a \in 1..i /\ a \in Placed(d)
  <2> DEFINE S == {x \in 1..i : d[x] # 0}
  <2>1. S \in SUBSET DOMAIN d /\ i \in S
    BY <1>1
  <2>2. ASSUME NEW x \in S, d[x] # 0 PROVE d[x] \in S
    <3>1. x \in 1..n /\ x \in 1..i
      BY <1>1
    <3>2. d[x] \in 1..x /\ d[d[x]] # 0
      BY <1>2, <2>2, <3>1
    <3>3. QED
      BY <1>1, <3>1, <3>2
  <2>3. a \in S
    BY <2>1, <2>2 DEF Up
  <2>4. QED
    BY <1>1, <2>3 DEF Placed
<1>5. ASSUME i = 1 PROVE Up(d, i) = {1}
  BY <1>3, <1>4, <1>5
<1>6. ASSUME i # 1
      PROVE  d[i] \in Placed(d) /\ d[i] \in 1..(i - 1) /\ Up(d, i) = {i} \cup Up(d, d[i])
  <2>1. i \in 2..n
    BY <1>1, <1>6
  <2>2. d[i] \in 1..(i - 1) /\ d[i] \in 1..n /\ d[d[i]] # 0
    BY <1>1, <1>2, <2>1
  <2>3. ASSUME NEW a \in Up(d, d[i]) PROVE a \in Up(d, i)
    BY <1>1, <2>2, <2>3 DEF Up
  <2>4. ASSUME NEW a \in Up(d, i) PROVE a \in {i} \cup Up(d, d[i])
    <3> DEFINE S == {i} \cup Up(d, d[i])
    <3>1. S \in SUBSET DOMAIN d /\ i \in S
      BY <1>1 DEF Up
    <3>2. d[i] \in Up(d, d[i])
      BY <1>1, <2>2 DEF Up
    <3>3. ASSUME NEW x \in Up(d, d[i]), d[x] # 0 PROVE d[x] \in Up(d, d[i])
      <4>1. x \in DOMAIN d /\ d[x] \in DOMAIN d
        BY <1>1, <1>2, <3>3 DEF Up
      <4>2. \A T \in SUBSET DOMAIN d : d[i] \in T /\ (\A y \in T : d[y] # 0 => d[y] \in T) => d[x] \in T
        BY <3>3 DEF Up
      <4>3. QED
        BY <4>1, <4>2 DEF Up
    <3>4. \A x \in S : d[x] # 0 => d[x] \in S
      BY <3>2, <3>3
    <3> HIDE DEF S
    <3>5. a \in S
      BY <3>1, <3>4 DEF Up
    <3>6. QED
      BY <3>5 DEF S
  <2>5. QED
    BY <1>1, <1>3, <2>2, <2>3, <2>4 DEF Placed
<1>7. 1 \in Placed(d)
  BY <1>1 DEF Placed
<1>8. QED
  BY <1>1, <1>3, <1>4, <1>5, <1>6, <1>7

LEMMA UpTransitive ==
    ASSUME NEW d, NEW i, NEW a \in Up(d, i)
    PROVE  Up(d, a) \subseteq Up(d, i)
  BY DEF Up

\* The ancestors of a position are a chain.
LEMMA UpChain ==
    ASSUME NEW d, NEW n, TreeOK(d, n)
    PROVE  \A i \in Placed(d) : \A a, b \in Up(d, i) : a <= b => a \in Up(d, b)
<1> DEFINE S == {i \in 1..n : i \in Placed(d) => \A a, b \in Up(d, i) : a <= b => a \in Up(d, b)}
<1>1. n \in Nat /\ DOMAIN d = 1..n
  BY DEF TreeOK
<1>2. ASSUME NEW i \in 1..n, \A j \in 1..(i - 1) : j \in S PROVE i \in S
  <2> SUFFICES ASSUME i \in Placed(d), NEW a \in Up(d, i), NEW b \in Up(d, i), a <= b PROVE a \in Up(d, b)
    OBVIOUS
  <2>1. a \in 1..i /\ b \in 1..i
    BY UpFacts
  <2>2. CASE i = 1
    <3>1. Up(d, i) = {1}
      BY <2>2, UpFacts
    <3>2. QED
      BY <2>2, <3>1
  <2>3. CASE b = i
    BY <2>3
  <2>4. CASE i # 1 /\ b # i
    <3>1. d[i] \in Placed(d) /\ d[i] \in 1..(i - 1) /\ Up(d, i) = {i} \cup Up(d, d[i])
      BY <2>4, UpFacts
    <3>2. b \in Up(d, d[i])
      BY <2>4, <3>1
    <3>3. b \in 1..d[i]
      BY <3>1, <3>2, UpFacts
    <3>4. a # i
      BY <1>1, <2>1, <3>1, <3>3
    <3>5. a \in Up(d, d[i])
      BY <3>1, <3>4
    <3>6. QED
      BY <1>2, <3>1, <3>2, <3>5
  <2>5. QED
    BY <2>2, <2>3, <2>4
<1>3. 1..n \subseteq S
  <2> HIDE DEF S
  <2>1. QED
    BY <1>1, <1>2, ByPosition
<1>4. QED
  BY <1>1, <1>3 DEF Placed

\* Positions with the same ancestors are the same.
LEMMA UpUnique ==
    ASSUME NEW d, NEW n, TreeOK(d, n), NEW i \in Placed(d), NEW j \in Placed(d), Up(d, i) = Up(d, j)
    PROVE  i = j
<1>1. i \in Up(d, j) /\ j \in Up(d, i)
  BY UpFacts
<1>2. i \in 1..j /\ j \in 1..i
  BY <1>1, UpFacts
<1>3. i \in 1..n /\ j \in 1..n /\ n \in Nat
  BY UpFacts DEF TreeOK
<1>4. QED
  BY <1>2, <1>3

\* The common ancestors of some positions are those of one of them.
LEMMA NearestExists ==
    ASSUME NEW d, NEW n, TreeOK(d, n), NEW T, T \subseteq Placed(d), T # {}
    PROVE  \E c \in Placed(d) : Up(d, c) = {x \in Placed(d) : \A p \in T : x \in Up(d, p)}
<1> DEFINE C == {x \in Placed(d) : \A p \in T : x \in Up(d, p)}
           Q == {k \in 0..n : \E c \in C : c >= k}
<1>1. /\ n \in Nat /\ Placed(d) \subseteq 1..n /\ 1 \in Placed(d)
      /\ \A p \in Placed(d) : 1 \in Up(d, p)
  <2>1. n \in Nat /\ n >= 1 /\ DOMAIN d = 1..n /\ d[1] = 1
    BY DEF TreeOK
  <2>2. 1 \in Placed(d) /\ Placed(d) \subseteq 1..n
    BY <2>1 DEF Placed
  <2>3. ASSUME NEW p \in Placed(d) PROVE 1 \in Up(d, p)
    <3> DEFINE S == {k \in 1..n : k \in Placed(d) => 1 \in Up(d, k)}
    <3>1. ASSUME NEW k \in 1..n, \A j \in 1..(k - 1) : j \in S PROVE k \in S
      BY <3>1, UpFacts
    <3>2. 1..n \subseteq S
      <4> HIDE DEF S
      <4>1. QED
        BY <2>1, <3>1, ByPosition
    <3>3. QED
      BY <2>2, <3>2
  <2>4. QED
    BY <2>1, <2>2, <2>3
<1>2. 1 \in C
  BY <1>1
<1>3. \E c \in C : \A x \in C : x <= c
  <2> SUFFICES ASSUME \A c \in C : \E x \in C : ~ (x <= c) PROVE FALSE
    OBVIOUS
  <2>1. 0 \in Q
    BY <1>1, <1>2
  <2>2. ASSUME NEW k \in 0..n, k < n, k \in Q PROVE k + 1 \in Q
    <3>1. PICK c \in C : c >= k
      BY <2>2
    <3>2. PICK x \in C : ~ (x <= c)
      BY <3>1
    <3>3. x \in Nat /\ c \in Nat /\ k \in Nat
      BY <1>1
    <3>4. x >= k + 1
      <4> HIDE DEF C, Q
      <4>1. QED
        BY <3>1, <3>2, <3>3
    <3>5. k + 1 \in 0..n
      BY <1>1, <2>2
    <3> HIDE DEF C
    <3>6. QED
      BY <3>4, <3>5
  <2>3. n \in Q
    <3> HIDE DEF Q
    <3>1. 0..n \subseteq Q
      BY <1>1, <2>1, <2>2, UpTo
    <3>2. QED
      BY <1>1, <3>1
  <2>4. PICK c \in C : c >= n
    BY <2>3
  <2>5. PICK x \in C : ~ (x <= c)
    BY <2>4
  <2>6. QED
    BY <1>1, <2>4, <2>5
<1>4. PICK c \in C : \A x \in C : x <= c
  BY <1>3
<1>5. c \in Placed(d) /\ \A p \in T : c \in Up(d, p)
  OBVIOUS
<1>6. \A x \in Up(d, c) : x \in C
  BY <1>5, UpTransitive, UpFacts
<1>7. ASSUME NEW x \in C PROVE x \in Up(d, c)
  <2>1. PICK p \in T : TRUE
    OBVIOUS
  <2>2. x \in Up(d, p) /\ c \in Up(d, p) /\ x <= c /\ p \in Placed(d)
    BY <1>4, <2>1
  <2> HIDE DEF C, Q
  <2>3. QED
    BY <2>2, UpChain
<1>8. QED
  BY <1>5, <1>6, <1>7

LEMMA UpStep ==
    ASSUME NEW d, NEW n, TreeOK(d, n), NEW a \in Placed(d), NEW b \in Placed(d), a > b
    PROVE  d[a] \in Placed(d) /\ d[a] \in 1..(a - 1) /\ Up(d, a) \cap Up(d, b) = Up(d, d[a]) \cap Up(d, b)
<1>1. a \in 1..n /\ b \in 1..n /\ n \in Nat
  BY UpFacts DEF TreeOK
<1>2. a # 1 /\ a \notin 1..b
  BY <1>1
<1>3. d[a] \in Placed(d) /\ d[a] \in 1..(a - 1) /\ Up(d, a) = {a} \cup Up(d, d[a])
  BY <1>2, UpFacts
<1>4. a \notin Up(d, b)
  BY <1>2, UpFacts
<1>5. QED
  BY <1>3, <1>4

\* Where the two fingers meet.
LEMMA IntersectLemma ==
    ASSUME NEW n, TreeOK(dom, n), NEW finger1 \in Placed(dom), NEW finger2 \in Placed(dom)
    PROVE  /\ intersect(finger1, finger2) \in Placed(dom)
           /\ Up(dom, intersect(finger1, finger2)) = Up(dom, finger1) \cap Up(dom, finger2)
<1> DEFINE H == Handled
           Meet(G) == [f \in H \X H |->
                         CASE f[1] > f[2] -> G[<<dom[f[1]], f[2]>>]
                           [] f[2] > f[1] -> G[<<f[1], dom[f[2]]>>]
                           [] OTHER -> f[1]]
           M == CHOOSE G : G = Meet(G)
<1>1. H = Placed(dom) /\ n \in Nat /\ H \subseteq 1..n
  BY UpFacts DEF Handled, Placed, None, TreeOK
<1>2. intersect(finger1, finger2) = M[<<finger1, finger2>>]
  BY DEF intersect
<1> HIDE DEF H
<1>3. M = Meet(M)
  <2> DEFINE Common(f) == CHOOSE c \in H : Up(dom, c) = Up(dom, f[1]) \cap Up(dom, f[2])
             G == [f \in H \X H |-> Common(f)]
  <2>1. ASSUME NEW a \in H, NEW b \in H
        PROVE  Common(<<a, b>>) = CASE a > b -> G[<<dom[a], b>>]
                                    [] b > a -> G[<<a, dom[b]>>]
                                    [] OTHER -> a
    <3>1. CASE a > b
      <4>1. dom[a] \in H /\ Up(dom, a) \cap Up(dom, b) = Up(dom, dom[a]) \cap Up(dom, b)
        BY <1>1, <3>1, UpStep
      <4>2. G[<<dom[a], b>>] = Common(<<dom[a], b>>)
        BY <4>1
      <4>3. Common(<<dom[a], b>>) = Common(<<a, b>>)
        BY <4>1
      <4>4. ~ (b > a)
        BY <1>1, <3>1
      <4> HIDE DEF G, Common
      <4>5. QED
        BY <3>1, <4>2, <4>3, <4>4
    <3>2. CASE b > a
      <4>1. dom[b] \in H /\ Up(dom, b) \cap Up(dom, a) = Up(dom, dom[b]) \cap Up(dom, a)
        BY <1>1, <3>2, UpStep
      <4>2. G[<<a, dom[b]>>] = Common(<<a, dom[b]>>)
        BY <4>1
      <4>3. Up(dom, a) \cap Up(dom, b) = Up(dom, a) \cap Up(dom, dom[b])
        BY <4>1
      <4>4. Common(<<a, dom[b]>>) = Common(<<a, b>>)
        BY <4>3
      <4>5. ~ (a > b)
        BY <1>1, <3>2
      <4> HIDE DEF G, Common
      <4>6. QED
        BY <3>2, <4>2, <4>4, <4>5
    <3>3. CASE ~ (a > b) /\ ~ (b > a)
      <4>1. a = b
        BY <1>1, <3>3
      <4>2. \A c \in H : Up(dom, c) = Up(dom, a) => c = a
        BY <1>1, UpUnique
      <4>3. Common(<<a, b>>) = a
        BY <4>1, <4>2
      <4> HIDE DEF G, Common
      <4>4. QED
        BY <3>3, <4>3
    <3>4. QED
      BY <3>1, <3>2, <3>3
  <2>2. G = Meet(G)
    <3>1. ASSUME NEW f \in H \X H
          PROVE  G[f] = CASE f[1] > f[2] -> G[<<dom[f[1]], f[2]>>]
                          [] f[2] > f[1] -> G[<<f[1], dom[f[2]]>>]
                          [] OTHER -> f[1]
      <4>1. f[1] \in H /\ f[2] \in H /\ f = <<f[1], f[2]>>
        OBVIOUS
      <4>2. G[f] = Common(<<f[1], f[2]>>)
        BY <4>1
      <4> HIDE DEF G, Common
      <4>3. QED
        BY <2>1, <4>1, <4>2
    <3>2. G = [f \in H \X H |-> G[f]]
      OBVIOUS
    <3> HIDE DEF G
    <3>3. QED
      BY <3>1, <3>2
  <2> HIDE DEF G, Meet
  <2>3. QED
    BY <2>2
<1> HIDE DEF M
<1>4. ASSUME NEW a \in H, NEW b \in H
      PROVE  M[<<a, b>>] = CASE a > b -> M[<<dom[a], b>>]
                             [] b > a -> M[<<a, dom[b]>>]
                             [] OTHER -> a
  <2>1. <<a, b>> \in H \X H
    OBVIOUS
  <2>2. M[<<a, b>>] = Meet(M)[<<a, b>>]
    BY <1>3
  <2>3. QED
    BY <2>1, <2>2
<1> HIDE DEF Meet
<1> DEFINE Good(a, b) == M[<<a, b>>] \in H /\ Up(dom, M[<<a, b>>]) = Up(dom, a) \cap Up(dom, b)
           P == {k \in 0..(n + n) : \A a, b \in H : a + b <= k => Good(a, b)}
<1>5. 0 \in P
  <2>1. \A a, b \in H : ~ (a + b <= 0)
    BY <1>1
  <2>2. 0 \in 0..(n + n)
    BY <1>1
  <2> HIDE DEF Good
  <2>3. QED
    BY <2>1, <2>2
<1>6. ASSUME NEW k \in 0..(n + n), k < n + n, k \in P PROVE k + 1 \in P
  <2>1. k + 1 \in 0..(n + n)
    BY <1>1, <1>6
  <2>2. ASSUME NEW a \in H, NEW b \in H, a + b <= k + 1 PROVE Good(a, b)
    <3>1. CASE a > b
      <4>1. dom[a] \in H /\ dom[a] \in 1..(a - 1) /\ Up(dom, a) \cap Up(dom, b) = Up(dom, dom[a]) \cap Up(dom, b)
        BY <1>1, <3>1, UpStep
      <4>2. dom[a] + b <= k
        BY <1>1, <2>2, <4>1
      <4>3. Good(dom[a], b)
        <5> HIDE DEF Good
        <5>1. QED
          BY <1>6, <4>1, <4>2
      <4>4. ~ (b > a)
        BY <1>1, <3>1
      <4>5. M[<<a, b>>] = M[<<dom[a], b>>]
        BY <1>4, <3>1, <4>4
      <4>6. QED
        BY <4>1, <4>3, <4>5
    <3>2. CASE b > a
      <4>1. dom[b] \in H /\ dom[b] \in 1..(b - 1) /\ Up(dom, b) \cap Up(dom, a) = Up(dom, dom[b]) \cap Up(dom, a)
        BY <1>1, <3>2, UpStep
      <4>2. a + dom[b] <= k
        BY <1>1, <2>2, <4>1
      <4>3. Good(a, dom[b])
        <5> HIDE DEF Good
        <5>1. QED
          BY <1>6, <4>1, <4>2
      <4>4. ~ (a > b)
        BY <1>1, <3>2
      <4>5. M[<<a, b>>] = M[<<a, dom[b]>>]
        BY <1>4, <3>2, <4>4
      <4>6. Up(dom, a) \cap Up(dom, b) = Up(dom, a) \cap Up(dom, dom[b])
        BY <4>1
      <4>7. QED
        BY <4>3, <4>5, <4>6
    <3>3. CASE ~ (a > b) /\ ~ (b > a)
      <4>1. a = b
        BY <1>1, <3>3
      <4>2. M[<<a, b>>] = a
        BY <1>4, <3>3
      <4>3. QED
        BY <4>1, <4>2
    <3>4. QED
      BY <3>1, <3>2, <3>3
  <2> HIDE DEF Good
  <2>3. QED
    BY <2>1, <2>2
<1>7. Good(finger1, finger2)
  <2> HIDE DEF Good
  <2>1. n + n \in P
    <3> HIDE DEF P
    <3>1. n + n \in Nat
      BY <1>1
    <3>2. 0..(n + n) \subseteq P
      BY <1>5, <1>6, <3>1, UpTo
    <3>3. QED
      BY <3>1, <3>2
  <2>2. finger1 + finger2 <= n + n
    BY <1>1
  <2>3. QED
    BY <1>1, <2>1, <2>2
<1>8. QED
  BY <1>1, <1>2, <1>7

\* The nearest common ancestor of the predecessors that were handled.
LEMMA FoldLemma ==
    ASSUME NEW n, TreeOK(dom, n), NEW p \in Placed(dom), NEW T, T \subseteq Placed(dom)
    PROVE  /\ FoldSet(intersect, p, T) \in Placed(dom)
           /\ Up(dom, FoldSet(intersect, p, T)) = {x \in Up(dom, p) : \A q \in T : x \in Up(dom, q)}
<1> DEFINE H == Placed(dom)
           One(s) == CHOOSE x \in s : TRUE
           Iter(G) == [s \in SUBSET T |-> IF s = {} THEN p ELSE intersect(One(s), G[s \ {One(s)}])]
           F == CHOOSE G : G = Iter(G)
           Nearest(s) == {x \in Up(dom, p) : \A q \in s : x \in Up(dom, q)}
           Good(c, s) == c \in H /\ Up(dom, c) = Nearest(s)
<1>1. FoldSet(intersect, p, T) = F[T]
  BY DEF FoldSet, MapThenFoldSet
<1>2. ASSUME NEW s \in SUBSET T PROVE \E c : Good(c, s)
  <2>1. s \cup {p} \subseteq H /\ s \cup {p} # {}
    OBVIOUS
  <2>2. \E c \in H : Up(dom, c) = {x \in H : \A q \in s \cup {p} : x \in Up(dom, q)}
    BY <2>1, NearestExists
  <2>3. {x \in H : \A q \in s \cup {p} : x \in Up(dom, q)} = Nearest(s)
    BY UpFacts
  <2>4. QED
    BY <2>2, <2>3
<1>3. ASSUME NEW s \in SUBSET T, NEW c, NEW e, Good(c, s), Good(e, s) PROVE c = e
  BY <1>3, UpUnique
<1>4. Good(p, {})
  OBVIOUS
<1>5. ASSUME NEW s \in SUBSET T, s # {}, NEW c, Good(c, s \ {One(s)}) PROVE Good(intersect(One(s), c), s)
  <2>1. One(s) \in s /\ One(s) \in H
    BY <1>5
  <2> HIDE DEF One
  <2>2. /\ intersect(One(s), c) \in H
        /\ Up(dom, intersect(One(s), c)) = Up(dom, One(s)) \cap Up(dom, c)
    BY <1>5, <2>1, IntersectLemma
  <2>3. Up(dom, One(s)) \cap Nearest(s \ {One(s)}) = Nearest(s)
    BY <2>1
  <2>4. QED
    BY <1>5, <2>2, <2>3
<1> HIDE DEF One, Good, Nearest, H
<1>6. F = Iter(F)
  <2> DEFINE G == [s \in SUBSET T |-> CHOOSE c : Good(c, s)]
  <2>1. \A s \in SUBSET T : Good(G[s], s)
    BY <1>2
  <2> HIDE DEF G
  <2>2. ASSUME NEW s \in SUBSET T
        PROVE  G[s] = IF s = {} THEN p ELSE intersect(One(s), G[s \ {One(s)}])
    <3>1. CASE s = {}
      BY <1>3, <1>4, <2>1, <3>1
    <3>2. CASE s # {}
      <4>1. Good(intersect(One(s), G[s \ {One(s)}]), s)
        BY <1>5, <2>1, <3>2
      <4>2. QED
        BY <1>3, <2>1, <3>2, <4>1
    <3>3. QED
      BY <3>1, <3>2
  <2>3. G = [s \in SUBSET T |-> G[s]]
    BY DEF G
  <2>4. G = Iter(G)
    BY <2>2, <2>3
  <2> HIDE DEF Iter
  <2>5. QED
    BY <2>4
<1> HIDE DEF F
<1>7. ASSUME NEW s \in SUBSET T
      PROVE  F[s] = IF s = {} THEN p ELSE intersect(One(s), F[s \ {One(s)}])
  <2>1. F[s] = Iter(F)[s]
    BY <1>6
  <2>2. QED
    BY <2>1
<1> HIDE DEF Iter
<1>8. IsFiniteSet(T)
  <2>1. H \subseteq 1..n /\ n \in Nat
    BY UpFacts DEF TreeOK, H
  <2>2. IsFiniteSet(1..n)
    BY <2>1, FS_Interval
  <2>3. QED
    BY <2>1, <2>2, FS_Subset DEF H
<1> DEFINE m == Cardinality(T)
           P == {k \in 0..m : \A s \in SUBSET T : Cardinality(s) <= k => Good(F[s], s)}
<1>9. m \in Nat /\ \A s \in SUBSET T : IsFiniteSet(s) /\ Cardinality(s) \in Nat /\ Cardinality(s) <= m
  BY <1>8, FS_Subset, FS_CardinalityType
<1> HIDE DEF m
<1>10. 0 \in P
  <2>1. \A s \in SUBSET T : Cardinality(s) <= 0 => s = {}
    <3> SUFFICES ASSUME NEW s \in SUBSET T, Cardinality(s) <= 0 PROVE s = {}
      OBVIOUS
    <3>1. Cardinality(s) = 0 /\ IsFiniteSet(s)
      BY <1>9
    <3>2. QED
      BY <3>1, FS_EmptySet
  <2>2. 0 \in 0..m
    BY <1>9
  <2>3. QED
    BY <1>4, <1>7, <2>1, <2>2
<1>11. ASSUME NEW k \in 0..m, k < m, k \in P PROVE k + 1 \in P
  <2>1. k + 1 \in 0..m
    BY <1>9, <1>11
  <2>2. ASSUME NEW s \in SUBSET T, Cardinality(s) <= k + 1 PROVE Good(F[s], s)
    <3>1. CASE s = {}
      BY <1>4, <1>7, <3>1
    <3>2. CASE s # {}
      <4>1. One(s) \in s
        BY <3>2 DEF One
      <4>2. Cardinality(s \ {One(s)}) = Cardinality(s) - 1
        BY <1>9, <4>1, FS_RemoveElement
      <4>3. Cardinality(s \ {One(s)}) <= k /\ s \ {One(s)} \in SUBSET T
        BY <1>9, <2>2, <4>2
      <4>4. Good(F[s \ {One(s)}], s \ {One(s)})
        BY <1>11, <4>3
      <4>5. QED
        BY <1>5, <1>7, <3>2, <4>4
    <3>3. QED
      BY <3>1, <3>2
  <2>3. QED
    BY <2>1, <2>2
<1>12. Good(F[T], T)
  <2>1. 0..m \subseteq P
    <3> HIDE DEF P
    <3>1. QED
      BY <1>9, <1>10, <1>11, UpTo
  <2>2. m \in P
    BY <1>9, <2>1
  <2>3. QED
    BY <1>9, <2>2
<1>13. QED
  BY <1>1, <1>12 DEF Good, Nearest, H

(***************************************************************************)
(* Dominance by paths                                                      *)
(***************************************************************************)

LEMMA DominatesFacts ==
    ASSUME NEW g, IsGraph(g), NEW a
    PROVE  /\ DominatesDef(g, a, a)
           /\ DominatesDef(g, a, entry_node(g)) => a = entry_node(g)
           /\ \A p \in NodeSet(g) : \A s \in Succs(g, p) : s # a /\ DominatesDef(g, a, s) => DominatesDef(g, a, p)
           /\ \A S : (entry_node(g) # a => entry_node(g) \in S) /\ (\A v \in S : Succs(g, v) \ {a} \subseteq S)
                        => \A v : v \notin S => DominatesDef(g, a, v)
<1> DEFINE e == entry_node(g)
           R == ReachAvoiding(g, {e}, {a})
<1>1. IsReach(g, {e}, {a}, R)
  <2>1. {e} \in SUBSET NodeSet(g)
    BY GraphLemma
  <2> HIDE DEF e
  <2>2. QED
    BY <2>1, ReachLemma
<1>2. \A v : DominatesDef(g, a, v) <=> v \notin R
  BY DEF DominatesDef
<1> HIDE DEF R, e
<1>3. /\ {e} \ {a} \subseteq R /\ R \subseteq NodeSet(g) \ {a} /\ \A v \in R : Succs(g, v) \ {a} \subseteq R
      /\ \A S : {e} \ {a} \subseteq S /\ (\A v \in S : Succs(g, v) \ {a} \subseteq S) => R \subseteq S
  BY <1>1 DEF IsReach, ClosedSet
<1>4. DominatesDef(g, a, a) /\ (DominatesDef(g, a, e) => a = e)
  BY <1>2, <1>3
<1>5. \A p \in NodeSet(g) : \A s \in Succs(g, p) : s # a /\ DominatesDef(g, a, s) => DominatesDef(g, a, p)
  BY <1>2, <1>3
<1>6. \A S : (e # a => e \in S) /\ (\A v \in S : Succs(g, v) \ {a} \subseteq S)
                => \A v : v \notin S => DominatesDef(g, a, v)
  BY <1>2, <1>3
<1>7. QED
  BY <1>4, <1>5, <1>6 DEF e

\* The nodes that the entry reaches, each once, the entry first and the others after one
\* of their predecessors.
RpoOK(g, r) ==
    /\ r \in Seq(NodeSet(g)) /\ Len(r) >= 1 /\ r[1] = entry_node(g)
    /\ \A i, j \in 1..Len(r) : r[i] = r[j] => i = j
    /\ \A i \in 1..Len(r) : r[i] \in Reach(g, entry_node(g))
    /\ \A v \in Reach(g, entry_node(g)) : \E i \in 1..Len(r) : r[i] = v
    /\ \A i \in 2..Len(r) : \E j \in 1..(i - 1) : r[i] \in Succs(g, r[j])

LEMMA OrderOfWalk == WalkInv /\ FirstInv /\ WalkDone => RpoOK(graph, rpo)
<1> SUFFICES ASSUME WalkInv, FirstInv, WalkDone PROVE RpoOK(graph, rpo)
  OBVIOUS
<1> DEFINE N == NodeSet(graph)
           f == po_by_component[1]
           n == Len(f)
<1>1. EntryComponent
  BY WalkEnds
<1>2. ~ Walking /\ root > Len(graph.nodes) /\ IsGraph(graph) /\ Len(graph.nodes) >= 1 /\ Len(graph.nodes) \in Nat
  BY WalkFacts, GraphLemma DEF WalkDone
<1>3. po_by_component # <<>> /\ po_by_component \in Seq(Seq(N))
  BY <1>2 DEF WalkInv, EntryOK, WalkTypeOK
<1>4. 1 \in DOMAIN po_by_component /\ f \in Seq(N)
  <2> HIDE DEF N
  <2>1. Len(po_by_component) \in Nat /\ Len(po_by_component) # 0
    BY <1>3, EmptySeq
  <2>2. QED
    BY <1>3, <2>1
<1>5. rpo = Reverse(f)
  BY <1>4 DEF rpo, topological_order_by_component
<1>6. f # <<>> /\ IsInjective(f) /\ ParentsWithin(graph, f)
  BY <1>3 DEF FirstInv, WalkInv, EntryOK
<1> HIDE DEF f, N
<1>7. n \in Nat /\ n >= 1 /\ DOMAIN f = 1..n
  BY <1>4, <1>6, EmptySeq
<1>8. rpo \in Seq(N) /\ rpo = [k \in 1..n |-> f[(n - k) + 1]]
  BY <1>4, <1>5, ReversedElements DEF Reverse
<1>9. Len(rpo) = n
  <2>1. DOMAIN rpo = 1..n
    BY <1>8
  <2> HIDE DEF n
  <2>2. \A s \in Seq(N) : DOMAIN s = 1..Len(s) /\ Len(s) \in Nat
    OBVIOUS
  <2>3. DOMAIN rpo = 1..Len(rpo) /\ Len(rpo) \in Nat
    BY <1>8, <2>2
  <2>4. QED
    BY <1>7, <2>1, <2>3
<1>10. \A k \in 1..n : rpo[k] = f[(n - k) + 1] /\ (n - k) + 1 \in 1..n
  BY <1>7, <1>8
<1> HIDE DEF n
<1>11. ASSUME NEW i \in 1..n, NEW j \in 1..n, rpo[i] = rpo[j] PROVE i = j
  <2>1. (n - i) + 1 = (n - j) + 1
    BY <1>6, <1>7, <1>10, <1>11 DEF IsInjective
  <2>2. QED
    BY <1>7, <2>1
<1>12. ASSUME NEW i \in 2..n PROVE \E j \in 1..(i - 1) : rpo[i] \in Succs(graph, rpo[j])
  <2> DEFINE k == (n - i) + 1
  <2>1. k \in 1..(n - 1) /\ i \in 1..n /\ rpo[i] = f[k]
    BY <1>7, <1>10
  <2> HIDE DEF k
  <2>2. PICK m \in (k + 1)..n : f[k] \in Succs(graph, f[m])
    BY <1>6, <2>1 DEF ParentsWithin, n
  <2> DEFINE j == (n - m) + 1
  <2>3. j \in 1..(i - 1) /\ j \in 1..n /\ (n - j) + 1 = m
    BY <1>7, <2>1 DEF k
  <2> HIDE DEF j
  <2>4. rpo[j] = f[m]
    BY <1>10, <2>3
  <2>5. QED
    BY <2>1, <2>2, <2>3, <2>4
<1>13. /\ rpo[1] = entry_node(graph)
       /\ {rpo[i] : i \in 1..n} = Reach(graph, entry_node(graph))
  <2>1. topological_order_by_component[1] = rpo
    BY DEF rpo
  <2>2. QED
    BY <1>1, <1>9, <2>1 DEF EntryComponent
<1>14. QED
  BY <1>7, <1>8, <1>9, <1>11, <1>12, <1>13 DEF RpoOK, N

\* Whatever strictly dominates a node dominates its parent in the tree, at any time.
StrictOK(g, r, d) ==
    \A j \in 2..Len(r) : d[j] # 0 =>
       \A a \in NodeSet(g) : a # r[j] /\ DominatesDef(g, a, r[j]) => DominatesDef(g, a, r[d[j]])

LEMMA RpoFacts ==
    ASSUME NEW g, IsGraph(g), NEW r, RpoOK(g, r), NEW d, TreeOK(d, Len(r))
    PROVE  /\ Len(r) \in Nat /\ DOMAIN r = 1..Len(r) /\ DOMAIN d = 1..Len(r) /\ Placed(d) \subseteq 1..Len(r)
           /\ \A i \in 1..Len(r) : r[i] \in NodeSet(g)
           /\ \A i \in Placed(d) : i # 1 => i \in 2..Len(r) /\ d[i] # 0 /\ d[i] \in Placed(d) /\ d[i] \in 1..(i - 1)
<1>1. Len(r) \in Nat /\ DOMAIN r = 1..Len(r) /\ \A i \in 1..Len(r) : r[i] \in NodeSet(g)
  BY DEF RpoOK
<1>2. DOMAIN d = 1..Len(r)
  BY DEF TreeOK
<1>3. ASSUME NEW i \in Placed(d), i # 1
      PROVE  i \in 2..Len(r) /\ d[i] # 0 /\ d[i] \in Placed(d) /\ d[i] \in 1..(i - 1)
  BY <1>1, <1>3, UpFacts DEF Placed
<1>4. QED
  BY <1>1, <1>2, <1>3 DEF Placed

\* So all dominators of a node are above it in the tree.
LEMMA AncestorsCover ==
    ASSUME NEW g, IsGraph(g), NEW r, RpoOK(g, r), NEW d, TreeOK(d, Len(r)), StrictOK(g, r, d)
    PROVE  \A i \in Placed(d) : \A a \in NodeSet(g) : DominatesDef(g, a, r[i]) => \E x \in Up(d, i) : r[x] = a
<1> DEFINE n == Len(r)
           S == {i \in 1..n : i \in Placed(d) =>
                    \A a \in NodeSet(g) : DominatesDef(g, a, r[i]) => \E x \in Up(d, i) : r[x] = a}
<1>1. ASSUME NEW i \in 1..n, \A j \in 1..(i - 1) : j \in S PROVE i \in S
  <2> SUFFICES ASSUME i \in Placed(d), NEW a \in NodeSet(g), DominatesDef(g, a, r[i])
               PROVE  \E x \in Up(d, i) : r[x] = a
    OBVIOUS
  <2>1. i \in Up(d, i)
    BY UpFacts
  <2>2. CASE r[i] = a
    BY <2>1, <2>2
  <2>3. CASE r[i] # a /\ i = 1
    <3>1. DominatesDef(g, a, entry_node(g)) /\ a # entry_node(g)
      BY <2>3 DEF RpoOK
    <3>2. QED
      BY <3>1, DominatesFacts
  <2>4. CASE r[i] # a /\ i # 1
    <3>1. i \in 2..n /\ d[i] # 0 /\ d[i] \in Placed(d) /\ d[i] \in 1..(i - 1)
      BY <2>4, RpoFacts
    <3>2. DominatesDef(g, a, r[d[i]])
      BY <2>4, <3>1 DEF StrictOK
    <3>3. PICK x \in Up(d, d[i]) : r[x] = a
      BY <1>1, <3>1, <3>2
    <3>4. x \in Up(d, i)
      BY <2>4, UpFacts
    <3>5. QED
      BY <3>3, <3>4
  <2>5. QED
    BY <2>2, <2>3, <2>4
<1>2. 1..n \subseteq S
  <2>1. n \in Nat
    BY RpoFacts
  <2> HIDE DEF S
  <2>2. QED
    BY <1>1, <2>1, ByPosition
<1>3. QED
  BY <1>2, RpoFacts

\* And a dominator that is above an ancestor of the node dominates this ancestor.
LEMMA DominatorsAbove ==
    ASSUME NEW g, IsGraph(g), NEW r, RpoOK(g, r), NEW d, TreeOK(d, Len(r)), StrictOK(g, r, d)
    PROVE  \A i \in Placed(d) : \A c \in Up(d, i) : \A x \in Up(d, c) :
              DominatesDef(g, r[x], r[i]) => DominatesDef(g, r[x], r[c])
<1> DEFINE n == Len(r)
           S == {i \in 1..n : i \in Placed(d) =>
                    \A c \in Up(d, i) : \A x \in Up(d, c) : DominatesDef(g, r[x], r[i]) => DominatesDef(g, r[x], r[c])}
<1>1. ASSUME NEW i \in 1..n, \A j \in 1..(i - 1) : j \in S PROVE i \in S
  <2> SUFFICES ASSUME i \in Placed(d), NEW c \in Up(d, i), NEW x \in Up(d, c), DominatesDef(g, r[x], r[i])
               PROVE  DominatesDef(g, r[x], r[c])
    OBVIOUS
  <2>1. CASE c = i
    BY <2>1
  <2>2. CASE c # i
    <3>1. i # 1
      BY <2>2, UpFacts
    <3>2. i \in 2..n /\ d[i] # 0 /\ d[i] \in Placed(d) /\ d[i] \in 1..(i - 1) /\ c \in Up(d, d[i])
      BY <2>2, <3>1, RpoFacts, UpFacts
    <3>3. c \in Placed(d) /\ c \in 1..d[i]
      BY <3>2, UpFacts
    <3>4. x \in Placed(d) /\ x \in 1..c
      BY <3>3, UpFacts
    <3>5. x # i /\ x \in 1..n
      BY <3>2, <3>3, <3>4, RpoFacts
    <3>6. r[x] # r[i] /\ r[x] \in NodeSet(g)
      BY <3>5, RpoFacts DEF RpoOK
    <3>7. DominatesDef(g, r[x], r[d[i]])
      BY <3>2, <3>6 DEF StrictOK
    <3>8. QED
      BY <1>1, <3>2, <3>7
  <2>3. QED
    BY <2>1, <2>2
<1>2. 1..n \subseteq S
  <2>1. n \in Nat
    BY RpoFacts
  <2> HIDE DEF S
  <2>2. QED
    BY <1>1, <2>1, ByPosition
<1>3. QED
  BY <1>2, RpoFacts

\* The handled predecessors of position i.
PredsOf(g, r, d, i) == {p \in Placed(d) : r[p] \in Preds(g, r[i])}

\* The common ancestors of these predecessors are the ancestors of c.
NearestOf(g, r, d, i, c) ==
    c \in Placed(d) /\ Up(d, c) = {x \in Placed(d) : \A p \in PredsOf(g, r, d, i) : x \in Up(d, p)}

SettledAt(g, r, d, i) == NearestOf(g, r, d, i, d[i])

\* A node in turn has a predecessor that was handled before it.
LEMMA HandledPred ==
    ASSUME NEW g, IsGraph(g), NEW r, RpoOK(g, r), NEW d, TreeOK(d, Len(r)), NEW i \in 2..Len(r),
           \A k \in 1..(i - 1) : d[k] # 0
    PROVE  \E j \in PredsOf(g, r, d, i) : j \in 1..(i - 1)
<1>1. /\ Len(r) \in Nat /\ DOMAIN d = 1..Len(r) /\ \A k \in 1..Len(r) : r[k] \in NodeSet(g)
  BY RpoFacts
<1>2. PICK j \in 1..(i - 1) : r[i] \in Succs(g, r[j])
  BY DEF RpoOK
<1>3. j \in 1..Len(r)
  BY <1>1
<1>4. QED
  BY <1>1, <1>2, <1>3 DEF PredsOf, Placed, Preds

LEMMA HandleTree ==
    ASSUME NEW g, IsGraph(g), NEW r, RpoOK(g, r), NEW d, TreeOK(d, Len(r)), NEW i \in 2..Len(r),
           \A k \in 1..(i - 1) : d[k] # 0, NEW c, NearestOf(g, r, d, i, c)
    PROVE  c \in 1..(i - 1) /\ TreeOK([d EXCEPT ![i] = c], Len(r))
<1> DEFINE n == Len(r)
           e == [d EXCEPT ![i] = c]
<1>1. /\ n \in Nat /\ n >= 1 /\ d \in [1..n -> Nat] /\ d[1] = 1
      /\ \A k \in 2..n : d[k] # 0 => d[k] \in 1..(k - 1) /\ d[d[k]] # 0
      /\ \A a, b \in 1..n : a < b /\ d[b] # 0 => d[a] # 0
  BY DEF TreeOK
<1>2. c \in 1..(i - 1)
  <2>1. PICK j \in PredsOf(g, r, d, i) : j \in 1..(i - 1)
    BY HandledPred
  <2>2. c \in Up(d, j) /\ j \in Placed(d)
    BY UpFacts DEF NearestOf, PredsOf
  <2>3. c \in 1..j
    BY <2>2, UpFacts
  <2>4. QED
    BY <1>1, <2>1, <2>3
<1>3. i \in 1..n /\ c \in Nat /\ c # 0 /\ c # i /\ c \in 1..n /\ d[c] # 0 /\ i # 1
  BY <1>1, <1>2
<1>4. e[i] = c /\ \A k \in 1..n : k # i => e[k] = d[k]
  BY <1>1, <1>3
<1>5. e \in [1..n -> Nat]
  BY <1>1, <1>3
<1> HIDE DEF e, n
<1>6. ASSUME NEW k \in 2..n, e[k] # 0 PROVE e[k] \in 1..(k - 1) /\ e[e[k]] # 0
  <2>1. CASE k = i
    BY <1>2, <1>3, <1>4, <2>1
  <2>2. CASE k # i
    <3>1. k \in 1..n /\ e[k] = d[k]
      BY <1>1, <1>4, <2>2
    <3>2. d[k] \in 1..(k - 1) /\ d[d[k]] # 0
      BY <1>1, <1>6, <3>1
    <3>3. d[k] \in 1..n
      BY <1>1, <3>1, <3>2
    <3>4. QED
      BY <1>3, <1>4, <3>1, <3>2, <3>3
  <2>3. QED
    BY <2>1, <2>2
<1>7. ASSUME NEW a \in 1..n, NEW b \in 1..n, a < b, e[b] # 0 PROVE e[a] # 0
  <2>1. CASE a = i
    BY <1>3, <1>4, <2>1
  <2>2. CASE a # i /\ b = i
    <3>1. a \in 1..(i - 1)
      BY <1>1, <1>7, <2>2
    <3>2. QED
      BY <1>4, <2>2, <3>1
  <2>3. CASE a # i /\ b # i
    BY <1>1, <1>4, <1>7, <2>3
  <2>4. QED
    BY <2>1, <2>2, <2>3
<1>8. e[1] = 1
  <2>1. 1 \in 1..n
    BY <1>1
  <2>2. QED
    BY <1>1, <1>3, <1>4, <2>1
<1>9. TreeOK(e, n)
  BY <1>1, <1>5, <1>6, <1>7, <1>8 DEF TreeOK
<1>10. QED
  BY <1>2, <1>9 DEF e, n

LEMMA HandleStrict ==
    ASSUME NEW g, IsGraph(g), NEW r, RpoOK(g, r), NEW d, TreeOK(d, Len(r)), StrictOK(g, r, d), NEW i \in 2..Len(r),
           \A k \in 1..(i - 1) : d[k] # 0, NEW c, NearestOf(g, r, d, i, c)
    PROVE  StrictOK(g, r, [d EXCEPT ![i] = c])
<1> DEFINE n == Len(r)
           e == [d EXCEPT ![i] = c]
<1>1. n \in Nat /\ DOMAIN d = 1..n /\ Placed(d) \subseteq 1..n /\ \A k \in 1..n : r[k] \in NodeSet(g)
  BY RpoFacts
<1>2. i \in 1..n /\ \A k \in 2..n : k \in 1..n
  BY <1>1
<1>3. e[i] = c /\ \A k \in 1..n : k # i => e[k] = d[k]
  BY <1>1, <1>2
<1>4. ASSUME NEW a \in NodeSet(g), a # r[i], DominatesDef(g, a, r[i]) PROVE DominatesDef(g, a, r[c])
  <2>1. ASSUME NEW p \in PredsOf(g, r, d, i)
        PROVE  DominatesDef(g, a, r[p]) /\ \E x \in Up(d, p) : r[x] = a
    <3>1. p \in Placed(d) /\ r[p] \in NodeSet(g) /\ r[i] \in Succs(g, r[p])
      BY <1>1 DEF PredsOf, Preds
    <3>2. DominatesDef(g, a, r[p])
      BY <1>4, <3>1, DominatesFacts
    <3>3. QED
      BY <3>1, <3>2, AncestorsCover
  <2>2. PICK j \in PredsOf(g, r, d, i) : j \in 1..(i - 1)
    BY HandledPred
  <2>3. PICK x \in Up(d, j) : r[x] = a
    BY <2>1
  <2>4. j \in Placed(d)
    BY DEF PredsOf
  <2>5. x \in Placed(d) /\ x \in 1..n
    BY <1>1, <2>4, UpFacts
  <2>6. ASSUME NEW p \in PredsOf(g, r, d, i) PROVE x \in Up(d, p)
    <3>1. p \in Placed(d)
      BY DEF PredsOf
    <3>2. PICK y \in Up(d, p) : r[y] = a
      BY <2>1
    <3>3. y \in 1..n
      BY <1>1, <3>1, UpFacts
    <3>4. y = x
      BY <2>3, <2>5, <3>2, <3>3 DEF RpoOK
    <3>5. QED
      BY <3>4
  <2>7. x \in Up(d, c) /\ c \in Up(d, c) /\ c \in Placed(d)
    BY <2>5, <2>6, UpFacts DEF NearestOf
  <2>8. c \in Up(d, j)
    BY <2>7 DEF NearestOf
  <2>9. DominatesDef(g, r[x], r[j])
    BY <2>1, <2>3
  <2>10. QED
    BY <2>3, <2>4, <2>7, <2>8, <2>9, DominatorsAbove
<1> HIDE DEF e, n
<1>5. ASSUME NEW j \in 2..n, e[j] # 0, NEW a \in NodeSet(g), a # r[j], DominatesDef(g, a, r[j])
      PROVE  DominatesDef(g, a, r[e[j]])
  <2>1. CASE j = i
    BY <1>3, <1>4, <1>5, <2>1
  <2>2. CASE j # i
    <3>1. e[j] = d[j]
      BY <1>2, <1>3, <2>2
    <3>2. QED
      BY <1>5, <3>1 DEF StrictOK, n
  <2>3. QED
    BY <2>1, <2>2
<1>6. QED
  BY <1>5 DEF StrictOK, e, n

(***************************************************************************)
(* The passes over the nodes                                               *)
(***************************************************************************)

\* What holds from the first pass on.
PassInv ==
    /\ TreeOK(dom, Len(rpo)) /\ StrictOK(graph, rpo, dom)
    /\ pos \in 2..(Len(rpo) + 1) /\ \A i \in 1..(pos - 1) : dom[i] # 0
    /\ ~ changed => \A i \in 2..(pos - 1) : SettledAt(graph, rpo, dom, i)
    /\ Computed => /\ ~ changed /\ pos > Len(rpo)
                   /\ dominators_map =
                        [n \in ToSet(rpo) |-> IF n = rpo[1] THEN {} ELSE {rpo[dom[rpo_index(n)]]}]

DomInv == WalkInv /\ FirstInv /\ IF dom = <<>> THEN ~ Computed ELSE WalkDone /\ PassInv

LEMMA DomBegins == graph \in Graphs /\ TreeInit => DomInv
<1> SUFFICES ASSUME graph \in Graphs, TreeInit PROVE DomInv
  OBVIOUS
<1>1. WalkInit /\ dom = <<>> /\ dominators_map = <<>>
  BY DEF TreeInit
<1>2. WalkInv
  BY <1>1, WalkBegins
<1>3. FirstInv
  BY <1>1 DEF WalkInit, Walking, FirstInv
<1>4. QED
  BY <1>1, <1>2, <1>3 DEF DomInv, Computed

LEMMA DomFacts ==
    ASSUME DomInv, dom # <<>>
    PROVE  /\ IsGraph(graph) /\ RpoOK(graph, rpo) /\ Len(rpo) \in Nat /\ Len(rpo) >= 1 /\ DOMAIN rpo = 1..Len(rpo)
           /\ DOMAIN dom = 1..Len(rpo) /\ Len(dom) = Len(rpo) /\ Handled = Placed(dom)
           /\ pos \in DOMAIN rpo <=> pos <= Len(rpo)
           /\ \A i \in 1..Len(rpo) : ProcessedPreds(i) = PredsOf(graph, rpo, dom, i)
<1>1. WalkInv /\ FirstInv /\ WalkDone /\ PassInv
  BY DEF DomInv
<1>2. IsGraph(graph) /\ RpoOK(graph, rpo)
  BY <1>1, WalkFacts, OrderOfWalk
<1>3. TreeOK(dom, Len(rpo)) /\ pos \in 2..(Len(rpo) + 1)
  BY <1>1 DEF PassInv
<1>4. Len(rpo) \in Nat /\ Len(rpo) >= 1 /\ DOMAIN rpo = 1..Len(rpo) /\ DOMAIN dom = 1..Len(rpo)
  BY <1>2, <1>3, RpoFacts DEF TreeOK
<1>5. Len(dom) = Len(rpo)
  <2>1. dom \in [1..Len(rpo) -> Nat]
    BY <1>3 DEF TreeOK
  <2> DEFINE n == Len(rpo)
  <2> HIDE DEF n
  <2>2. n \in Nat /\ dom \in [1..n -> Nat]
    BY <1>4, <2>1 DEF n
  <2>3. QED
    BY <2>2 DEF n
<1>6. Handled = Placed(dom)
  BY DEF Handled, Placed, None
<1>7. QED
  BY <1>2, <1>3, <1>4, <1>5, <1>6 DEF ProcessedPreds, PredsOf

LEMMA RpoKept == walkVars' = walkVars => rpo' = rpo /\ graph' = graph /\ (WalkDone' <=> WalkDone)
  BY DEF walkVars, rpo, topological_order_by_component, WalkDone, Walking

LEMMA OrderPhase == DomInv /\ Order => DomInv'
<1> SUFFICES ASSUME DomInv, Order PROVE DomInv'
  OBVIOUS
<1>1. WalkNext /\ dom' = dom /\ dominators_map' = dominators_map /\ WalkInv /\ FirstInv
  BY DEF Order, treeVars, DomInv
<1>2. WalkInv' /\ FirstInv'
  BY <1>1, WalkStep, FirstStep
<1>3. dom = <<>>
  <2> SUFFICES ASSUME dom # <<>> PROVE FALSE
    OBVIOUS
  <2>1. ~ Walking /\ root > Len(graph.nodes)
    BY DEF DomInv, WalkDone
  <2>2. Len(graph.nodes) \in Nat /\ root \in Nat
    BY <1>1, WalkFacts DEF WalkInv, WalkTypeOK
  <2>3. QED
    BY <1>1, <2>1, <2>2 DEF WalkNext, StartComponent, VisitSuccessor, FinishNode
<1>4. QED
  BY <1>1, <1>2, <1>3 DEF DomInv, Computed

LEMMA StartPass == DomInv /\ Start => DomInv'
<1> SUFFICES ASSUME DomInv, Start PROVE DomInv'
  OBVIOUS
<1> DEFINE n == Len(rpo)
<1>1. /\ WalkDone /\ dom = <<>> /\ dom' = [i \in DOMAIN rpo |-> IF i = 1 THEN 1 ELSE None]
      /\ pos' = 2 /\ changed' = FALSE /\ walkVars' = walkVars /\ dominators_map' = dominators_map
  BY DEF Start
<1>2. WalkInv /\ FirstInv /\ ~ Computed
  BY <1>1 DEF DomInv
<1>3. WalkInv' /\ FirstInv'
  BY <1>1, <1>2, WalkStep, FirstStep
<1>4. rpo' = rpo /\ graph' = graph /\ WalkDone'
  BY <1>1, RpoKept
<1>5. RpoOK(graph, rpo)
  BY <1>1, <1>2, OrderOfWalk
<1>6. n \in Nat /\ n >= 1 /\ DOMAIN rpo = 1..n
  BY <1>5 DEF RpoOK
<1> HIDE DEF n
<1>7. DOMAIN dom' = 1..n /\ dom'[1] = 1 /\ (\A i \in 2..n : dom'[i] = 0) /\ dom' \in [1..n -> Nat]
  BY <1>1, <1>6 DEF None
<1>8. TreeOK(dom', n)
  <2>1. \A i, j \in 1..n : i < j => j \in 2..n
    BY <1>6
  <2>2. QED
    BY <1>6, <1>7, <2>1 DEF TreeOK
<1>9. StrictOK(graph, rpo, dom')
  BY <1>7 DEF StrictOK, n
<1>10. dom' # <<>>
  BY <1>6, <1>7
<1>11. /\ pos' \in 2..(n + 1) /\ 2..(pos' - 1) = {}
       /\ \A i \in 1..(pos' - 1) : dom'[i] # 0
  <2>1. \A i \in 1..(2 - 1) : i = 1
    OBVIOUS
  <2>2. QED
    BY <1>1, <1>6, <1>7, <2>1
<1>12. ~ Computed'
  BY <1>1, <1>2 DEF Computed
<1>13. PassInv'
  BY <1>4, <1>8, <1>9, <1>11, <1>12 DEF PassInv, n
<1>14. QED
  BY <1>3, <1>4, <1>10, <1>13 DEF DomInv

LEMMA HandlePass == DomInv /\ HandleNode => DomInv'
<1> SUFFICES ASSUME DomInv, HandleNode PROVE DomInv'
  OBVIOUS
<1> DEFINE n == Len(rpo)
           PP == PredsOf(graph, rpo, dom, pos)
<1>1. /\ dom # <<>> /\ pos \in DOMAIN rpo /\ pos' = pos + 1 /\ walkVars' = walkVars
      /\ dominators_map' = dominators_map
  BY DEF HandleNode
<1>2. WalkInv /\ FirstInv /\ WalkDone /\ PassInv
  BY <1>1 DEF DomInv
<1>3. /\ IsGraph(graph) /\ RpoOK(graph, rpo) /\ n \in Nat /\ n >= 1 /\ DOMAIN rpo = 1..n /\ DOMAIN dom = 1..n
      /\ ProcessedPreds(pos) = PP
  BY <1>1, DomFacts
<1>4. /\ TreeOK(dom, n) /\ StrictOK(graph, rpo, dom) /\ pos \in 2..(n + 1) /\ \A i \in 1..(pos - 1) : dom[i] # 0
      /\ ~ changed => \A i \in 2..(pos - 1) : SettledAt(graph, rpo, dom, i)
      /\ Computed => pos > n
  BY <1>2 DEF PassInv
<1>5. pos \in 2..n /\ pos \in 1..n /\ pos <= n
  BY <1>1, <1>3, <1>4
<1>6. PICK p \in PP : LET new_idom == FoldSet(intersect, p, PP \ {p})
                      IN  /\ dom' = [dom EXCEPT ![pos] = new_idom]
                          /\ changed' = (changed \/ dom[pos] # new_idom)
  BY <1>3 DEF HandleNode
<1> DEFINE c == FoldSet(intersect, p, PP \ {p})
<1>7. dom' = [dom EXCEPT ![pos] = c] /\ changed' = (changed \/ dom[pos] # c)
  BY <1>6
<1>8. NearestOf(graph, rpo, dom, pos, c)
  <2>1. PP \subseteq Placed(dom) /\ p \in Placed(dom)
    BY DEF PredsOf
  <2>2. c \in Placed(dom) /\ Up(dom, c) = {x \in Up(dom, p) : \A q \in PP \ {p} : x \in Up(dom, q)}
    <3>1. PP \ {p} \subseteq Placed(dom)
      BY <2>1
    <3> HIDE DEF PP
    <3>2. QED
      BY <1>4, <2>1, <3>1, FoldLemma
  <2>3. Up(dom, p) \subseteq Placed(dom)
    BY <1>4, <2>1, UpFacts
  <2> HIDE DEF c
  <2>4. Up(dom, c) = {x \in Placed(dom) : \A q \in PP : x \in Up(dom, q)}
    <3> HIDE DEF PP
    <3>1. QED
      BY <2>2, <2>3
  <2>5. QED
    BY <2>2, <2>4 DEF NearestOf
<1> HIDE DEF c, PP
<1>9. c \in 1..(pos - 1) /\ TreeOK(dom', n)
  <2> HIDE DEF n
  <2>1. c \in 1..(pos - 1) /\ TreeOK([dom EXCEPT ![pos] = c], n)
    BY <1>3, <1>4, <1>5, <1>8, HandleTree DEF n
  <2>2. QED
    BY <1>7, <2>1
<1>10. StrictOK(graph, rpo, dom')
  <2>1. StrictOK(graph, rpo, [dom EXCEPT ![pos] = c])
    BY <1>3, <1>4, <1>5, <1>8, HandleStrict
  <2>2. QED
    BY <1>7, <2>1
<1> HIDE DEF n
<1>11. dom'[pos] = c /\ \A k \in 1..n : k # pos => dom'[k] = dom[k]
  BY <1>3, <1>5, <1>7
<1>12. rpo' = rpo /\ graph' = graph /\ WalkDone' /\ WalkInv' /\ FirstInv'
  BY <1>1, <1>2, RpoKept, WalkStep, FirstStep
<1>13. \A i \in 1..(pos' - 1) : dom'[i] # 0
  <2> SUFFICES ASSUME NEW i \in 1..(pos' - 1) PROVE dom'[i] # 0
    OBVIOUS
  <2>1. i = pos \/ (i \in 1..(pos - 1) /\ i \in 1..n /\ i # pos)
    BY <1>1, <1>3, <1>5
  <2>2. QED
    BY <1>3, <1>4, <1>5, <1>9, <1>11, <2>1
<1>14. ASSUME ~ changed', NEW i \in 2..(pos' - 1) PROVE SettledAt(graph, rpo, dom', i)
  <2>1. ~ changed /\ dom[pos] = c
    BY <1>7, <1>14
  <2>2. dom' = dom
    <3>1. dom = [k \in 1..n |-> dom[k]]
      BY <1>4 DEF TreeOK
    <3>2. QED
      BY <1>7, <2>1, <3>1
  <2>3. i = pos \/ i \in 2..(pos - 1)
    BY <1>1, <1>5
  <2>4. QED
    BY <1>4, <1>8, <2>1, <2>2, <2>3 DEF SettledAt
<1>15. pos' \in 2..(n + 1) /\ ~ Computed'
  <2>1. pos' \in 2..(n + 1)
    BY <1>1, <1>3, <1>5
  <2>2. ~ (pos > n)
    BY <1>3, <1>5
  <2>3. QED
    BY <1>1, <1>4, <2>1, <2>2 DEF Computed
<1>16. PassInv'
  BY <1>9, <1>10, <1>12, <1>13, <1>14, <1>15 DEF PassInv, n
<1>17. dom' # <<>>
  <2>1. DOMAIN dom' = 1..n /\ dom' \in [1..n -> Nat]
    BY <1>9 DEF TreeOK
  <2>2. n \in Nat /\ n >= 1
    BY <1>3
  <2>3. QED
    BY <2>1, <2>2
<1>18. QED
  BY <1>12, <1>16, <1>17 DEF DomInv

LEMMA LaterPass == DomInv /\ (NextPass \/ BuildTree \/ UNCHANGED domVars) => DomInv'
<1> SUFFICES ASSUME DomInv, NextPass \/ BuildTree \/ UNCHANGED domVars PROVE DomInv'
  OBVIOUS
<1>1. walkVars' = walkVars /\ dom' = dom
  BY DEF NextPass, BuildTree, domVars, walkVars
<1>2. rpo' = rpo /\ graph' = graph /\ (WalkDone' <=> WalkDone) /\ WalkInv' /\ FirstInv'
  BY <1>1, RpoKept, WalkStep, FirstStep DEF DomInv
<1>3. CASE dom = <<>>
  BY <1>1, <1>2, <1>3 DEF DomInv, NextPass, BuildTree, domVars, Computed
<1>4. CASE dom # <<>>
  <2>1. PassInv /\ WalkDone
    BY <1>4 DEF DomInv
  <2>2. CASE NextPass
    <3>1. pos' = 2 /\ changed' = FALSE /\ changed /\ dominators_map' = dominators_map
      BY <2>2 DEF NextPass
    <3>2. ~ Computed'
      BY <2>1, <3>1 DEF PassInv, Computed
    <3>3. Len(rpo) \in Nat /\ Len(rpo) >= 1 /\ dom[1] = 1
      BY <1>4, <2>1, DomFacts DEF PassInv, TreeOK
    <3>4. pos' \in 2..(Len(rpo) + 1) /\ 2..(pos' - 1) = {} /\ \A i \in 1..(pos' - 1) : dom[i] # 0
      <4>1. \A i \in 1..(2 - 1) : i = 1
        OBVIOUS
      <4>2. QED
        BY <3>1, <3>3, <4>1
    <3>5. TreeOK(dom, Len(rpo)) /\ StrictOK(graph, rpo, dom)
      BY <2>1 DEF PassInv
    <3>6. PassInv'
      BY <1>1, <1>2, <3>2, <3>4, <3>5 DEF PassInv
    <3>7. QED
      BY <1>1, <1>2, <1>4, <2>1, <3>6 DEF DomInv
  <2>3. CASE BuildTree
    <3>1. /\ pos' = pos /\ changed' = changed /\ pos > Len(rpo) /\ ~ changed
          /\ dominators_map' =
               [n \in ToSet(rpo) |-> IF n = rpo[1] THEN {} ELSE {rpo[dom[rpo_index(n)]]}]
      BY <2>3 DEF BuildTree
    <3>2. \A n \in ToSet(rpo) : rpo_index(n)' = rpo_index(n)
      BY <1>2 DEF rpo_index
    <3>3. dominators_map' =
            [n \in ToSet(rpo') |-> IF n = rpo'[1] THEN {} ELSE {rpo'[dom'[rpo_index(n)']]}]
      BY <1>1, <1>2, <3>1, <3>2
    <3>4. PassInv'
      BY <1>1, <1>2, <2>1, <3>1, <3>3 DEF PassInv
    <3>5. QED
      BY <1>1, <1>2, <1>4, <2>1, <3>4 DEF DomInv
  <2>4. CASE UNCHANGED domVars
    <3>1. pos' = pos /\ changed' = changed /\ dominators_map' = dominators_map
      BY <2>4 DEF domVars
    <3>2. \A n \in ToSet(rpo) : rpo_index(n)' = rpo_index(n)
      BY <1>2 DEF rpo_index
    <3>3. PassInv'
      BY <1>1, <1>2, <2>1, <3>1, <3>2 DEF PassInv, Computed
    <3>4. QED
      BY <1>1, <1>2, <1>4, <2>1, <3>3 DEF DomInv
  <2>5. QED
    BY <2>2, <2>3, <2>4
<1>5. QED
  BY <1>3, <1>4

LEMMA DomStep == DomInv /\ (TreeNext \/ UNCHANGED domVars) => DomInv'
  BY OrderPhase, StartPass, HandlePass, LaterPass DEF TreeNext

LEMMA UnwrapsResult == DomInv => UnwrapsSucceed
<1> SUFFICES ASSUME DomInv, dom # <<>>
             PROVE  /\ pos \in DOMAIN rpo => ProcessedPreds(pos) # {}
                    /\ \A i \in 2..Len(dom) : dom[i] # None => dom[i] < i /\ dom[dom[i]] # None
  BY DEF UnwrapsSucceed
<1>1. /\ IsGraph(graph) /\ RpoOK(graph, rpo) /\ Len(rpo) \in Nat /\ DOMAIN rpo = 1..Len(rpo) /\ Len(dom) = Len(rpo)
      /\ \A i \in 1..Len(rpo) : ProcessedPreds(i) = PredsOf(graph, rpo, dom, i)
  BY DomFacts
<1>2. TreeOK(dom, Len(rpo)) /\ pos \in 2..(Len(rpo) + 1) /\ \A i \in 1..(pos - 1) : dom[i] # 0
  BY DEF DomInv, PassInv
<1>3. ASSUME pos \in DOMAIN rpo PROVE ProcessedPreds(pos) # {}
  <2>1. pos \in 2..Len(rpo) /\ pos \in 1..Len(rpo)
    BY <1>1, <1>2, <1>3
  <2>2. PredsOf(graph, rpo, dom, pos) # {}
    BY <1>1, <1>2, <2>1, HandledPred
  <2>3. QED
    BY <1>1, <2>1, <2>2
<1>4. ASSUME NEW i \in 2..Len(dom), dom[i] # None PROVE dom[i] < i /\ dom[dom[i]] # None
  <2>1. dom[i] \in 1..(i - 1) /\ dom[dom[i]] # 0
    BY <1>1, <1>2, <1>4 DEF TreeOK, None
  <2>2. QED
    BY <1>1, <2>1 DEF None
<1>5. QED
  BY <1>3, <1>4

(***************************************************************************)
(* The finished tree                                                       *)
(***************************************************************************)

\* No position is without parent, and each is where its predecessors put it.
FixedPoint(g, r, d) ==
    /\ TreeOK(d, Len(r)) /\ StrictOK(g, r, d)
    /\ \A i \in 1..Len(r) : d[i] # 0
    /\ \A i \in 2..Len(r) : SettledAt(g, r, d, i)

\* At the fixed point what is above a node in the tree is what dominates it.
LEMMA AboveDominates ==
    ASSUME NEW g, IsGraph(g), NEW r, RpoOK(g, r), NEW d, FixedPoint(g, r, d)
    PROVE  \A i \in 1..Len(r) : \A a \in NodeSet(g) : DominatesDef(g, a, r[i]) <=> \E x \in Up(d, i) : r[x] = a
<1> DEFINE n == Len(r)
<1>1. /\ TreeOK(d, n) /\ StrictOK(g, r, d) /\ n \in Nat /\ n >= 1 /\ DOMAIN d = 1..n
      /\ Placed(d) = 1..n /\ \A k \in 1..n : r[k] \in NodeSet(g)
      /\ \A k \in 2..n : SettledAt(g, r, d, k)
  <2>1. TreeOK(d, n) /\ StrictOK(g, r, d) /\ (\A k \in 1..n : d[k] # 0) /\ \A k \in 2..n : SettledAt(g, r, d, k)
    BY DEF FixedPoint
  <2>2. QED
    BY <2>1, RpoFacts DEF Placed, RpoOK
<1>2. ASSUME NEW i \in 1..n, NEW x \in Up(d, i) PROVE DominatesDef(g, r[x], r[i])
  <2> DEFINE B == {k \in 1..n : x \notin Up(d, k)}
             S == {r[k] : k \in B}
  <2>1. x \in 1..n
    BY <1>1, UpFacts
  <2>2. \A k \in 1..n : r[k] \in S <=> k \in B
    BY DEF RpoOK
  <2>3. entry_node(g) # r[x] => entry_node(g) \in S
    <3> SUFFICES ASSUME r[1] # r[x] PROVE r[1] \in S
      BY DEF RpoOK
    <3>1. x # 1 /\ 1 \in 1..n
      BY <1>1
    <3>2. Up(d, 1) = {1}
      BY <1>1, <3>1, UpFacts
    <3>3. QED
      BY <3>1, <3>2
  <2>4. ASSUME NEW v \in S, NEW s \in Succs(g, v), s # r[x] PROVE s \in S
    <3>1. PICK k \in B : v = r[k]
      OBVIOUS
    <3>2. k \in 1..n /\ x \notin Up(d, k)
      OBVIOUS
    <3> HIDE DEF S, B
    <3>3. v \in Reach(g, entry_node(g)) /\ entry_node(g) \in NodeSet(g)
      BY <3>1, <3>2, GraphLemma DEF RpoOK
    <3>4. s \in Reach(g, entry_node(g))
      BY <3>3, ReachFacts
    <3>5. PICK m \in 1..n : r[m] = s
      BY <3>4 DEF RpoOK
    <3>6. m # x
      BY <2>4, <3>5
    <3>7. x \notin Up(d, m)
      <4>1. CASE m = 1
        <5>1. Up(d, m) = {1}
          BY <1>1, <4>1, UpFacts
        <5>2. QED
          BY <3>6, <4>1, <5>1
      <4>2. CASE m # 1
        <5>1. m \in 2..n
          BY <1>1, <4>2
        <5>2. k \in PredsOf(g, r, d, m)
          BY <1>1, <3>1, <3>2, <3>5 DEF PredsOf, Preds
        <5>3. Up(d, d[m]) = {y \in Placed(d) : \A p \in PredsOf(g, r, d, m) : y \in Up(d, p)}
          BY <1>1, <5>1 DEF SettledAt, NearestOf
        <5>4. x \notin Up(d, d[m])
          BY <3>2, <5>2, <5>3
        <5>5. Up(d, m) = {m} \cup Up(d, d[m])
          BY <1>1, <4>2, UpFacts
        <5>6. QED
          BY <3>6, <5>4, <5>5
      <4>3. QED
        BY <4>1, <4>2
    <3>8. r[m] \in S
      BY <2>2, <3>7 DEF B
    <3>9. QED
      BY <3>5, <3>8
  <2>5. r[i] \notin S
    BY <2>2
  <2> HIDE DEF S
  <2>6. \A v \in S : Succs(g, v) \ {r[x]} \subseteq S
    BY <2>4
  <2>7. QED
    BY <2>3, <2>5, <2>6, DominatesFacts
<1>3. QED
  BY <1>1, <1>2, AncestorsCover

\* From a position up to the root.
Chain(d, q) ==
    /\ q \in Seq(Nat) /\ Len(q) >= 1 /\ q[1] \in Placed(d) /\ q[Len(q)] = 1
    /\ \A t \in 1..(Len(q) - 1) : q[t] # 1 /\ q[t + 1] = d[q[t]]

\* A chain has the ancestors of the position, each nearer to the root than those before it.
LEMMA ChainLemma ==
    ASSUME NEW d, NEW n, TreeOK(d, n), NEW q, Chain(d, q)
    PROVE  /\ \A t \in 1..Len(q) : q[t] \in Up(d, q[1])
           /\ \A x \in Up(d, q[1]) : \E t \in 1..Len(q) : q[t] = x
           /\ \A s, t \in 1..Len(q) : s < t => q[t] < q[s]
<1> DEFINE l == Len(q)
           i == q[1]
<1>1. /\ l \in Nat /\ l >= 1 /\ i \in Placed(d) /\ q[l] = 1 /\ DOMAIN d = 1..n /\ d[1] = 1 /\ n \in Nat /\ n >= 1
      /\ \A t \in 1..(l - 1) : q[t] # 1 /\ q[t + 1] = d[q[t]]
  BY DEF Chain, TreeOK
<1> HIDE DEF l, i
<1>2. \A t \in 1..l : t # 1 => t - 1 \in 1..(l - 1) /\ t - 1 \in 1..l /\ (t - 1) + 1 = t /\ t - 1 \in 1..(t - 1)
  BY <1>1
<1>3. \A t \in 1..l : q[t] \in Up(d, i) /\ q[t] \in Placed(d)
  <2> DEFINE S == {t \in 1..l : q[t] \in Up(d, i) /\ q[t] \in Placed(d)}
  <2>1. ASSUME NEW t \in 1..l, \A s \in 1..(t - 1) : s \in S PROVE t \in S
    <3>1. CASE t = 1
      BY <1>1, <3>1, UpFacts DEF i
    <3>2. CASE t # 1
      <4> DEFINE p == q[t - 1]
      <4>1. p \in Up(d, i) /\ p \in Placed(d) /\ p # 1 /\ q[t] = d[p]
        BY <1>1, <1>2, <2>1, <3>2
      <4> HIDE DEF p
      <4>2. d[p] \in Placed(d) /\ Up(d, p) = {p} \cup Up(d, d[p]) /\ d[p] \in Up(d, d[p])
        BY <4>1, UpFacts
      <4>3. d[p] \in Up(d, i)
        BY <4>1, <4>2, UpTransitive
      <4>4. QED
        BY <4>1, <4>2, <4>3
    <3>3. QED
      BY <3>1, <3>2
  <2>2. 1..l \subseteq S
    <3> HIDE DEF S
    <3>1. QED
      BY <1>1, <2>1, ByPosition
  <2>3. QED
    BY <2>2
<1>4. ASSUME NEW x \in Up(d, i) PROVE \E t \in 1..l : q[t] = x
  <2> DEFINE S == {q[t] : t \in 1..l}
  <2>1. S \in SUBSET DOMAIN d
    BY <1>3 DEF Placed
  <2>2. i \in S
    <3>1. 1 \in 1..l
      BY <1>1
    <3>2. QED
      BY <3>1 DEF i
  <2>3. ASSUME NEW y \in S PROVE d[y] \in S
    <3>1. PICK t \in 1..l : y = q[t]
      OBVIOUS
    <3>2. CASE t = l
      BY <1>1, <3>1, <3>2
    <3>3. CASE t # l
      <4>1. t \in 1..(l - 1) /\ t + 1 \in 1..l
        BY <1>1, <3>3
      <4>2. d[y] = q[t + 1]
        BY <1>1, <3>1, <4>1
      <4>3. QED
        BY <4>1, <4>2
    <3>4. QED
      BY <3>2, <3>3
  <2>4. x \in S
    <3> HIDE DEF S
    <3>1. QED
      BY <2>1, <2>2, <2>3 DEF Up
  <2>5. QED
    BY <2>4
<1>5. ASSUME NEW t \in 1..l, t # 1 PROVE q[t] < q[t - 1] /\ q[t - 1] \in 1..n /\ q[t] \in 1..n
  <2> DEFINE p == q[t - 1]
  <2>1. p \in Placed(d) /\ p # 1 /\ q[t] = d[p] /\ q[t] \in Placed(d)
    BY <1>1, <1>2, <1>3, <1>5
  <2> HIDE DEF p
  <2>2. d[p] \in 1..(p - 1) /\ p \in 1..n /\ d[p] \in 1..n
    BY <2>1, UpFacts
  <2>3. QED
    BY <1>1, <2>1, <2>2 DEF p
<1>6. ASSUME NEW s \in 1..l PROVE \A t \in 1..l : s < t => q[t] < q[s]
  <2> DEFINE S == {t \in 1..l : s < t => q[t] < q[s]}
  <2>1. ASSUME NEW t \in 1..l, \A u \in 1..(t - 1) : u \in S PROVE t \in S
    <3> SUFFICES ASSUME s < t PROVE q[t] < q[s]
      OBVIOUS
    <3>1. t # 1 /\ t - 1 \in 1..(t - 1) /\ (t - 1 = s \/ s < t - 1)
      BY <1>1
    <3>2. t - 1 = s \/ q[t - 1] < q[s]
      BY <2>1, <3>1
    <3>3. q[t] < q[t - 1] /\ q[t - 1] \in 1..n /\ q[t] \in 1..n /\ q[s] \in 1..n
      BY <1>1, <1>3, <1>5, <3>1 DEF Placed
    <3> HIDE DEF S
    <3>4. CASE t - 1 = s
      BY <3>3, <3>4
    <3>5. CASE q[t - 1] < q[s]
      <4>1. \A a, b, c \in Nat : a < b /\ b < c => a < c
        OBVIOUS
      <4>2. q[t] \in Nat /\ q[t - 1] \in Nat /\ q[s] \in Nat
        BY <3>3
      <4>3. QED
        BY <3>3, <3>5, <4>1, <4>2
    <3>6. QED
      BY <3>2, <3>4, <3>5
  <2>2. 1..l \subseteq S
    <3> HIDE DEF S
    <3>1. QED
      BY <1>1, <2>1, ByPosition
  <2>3. QED
    BY <2>2
<1>7. QED
  BY <1>3, <1>4, <1>6 DEF l, i

\* What the finished tree is.
LEMMA MapFacts ==
    ASSUME DomInv, Computed
    PROVE  /\ dom # <<>> /\ IsGraph(graph) /\ RpoOK(graph, rpo) /\ FixedPoint(graph, rpo, dom)
           /\ Len(rpo) \in Nat /\ Len(rpo) >= 1 /\ Placed(dom) = 1..Len(rpo) /\ TreeOK(dom, Len(rpo))
           /\ \A i \in 1..Len(rpo) : dom[i] \in 1..Len(rpo)
           /\ DOMAIN dominators_map = ToSet(rpo) /\ Cardinality(ToSet(rpo)) = Len(rpo)
           /\ ToSet(rpo) = {rpo[i] : i \in 1..Len(rpo)} /\ ToSet(rpo) \subseteq NodeSet(graph)
           /\ dominators_map[rpo[1]] = {}
           /\ \A i \in 2..Len(rpo) : dominators_map[rpo[i]] # {} /\ idom(rpo[i]) = rpo[dom[i]]
<1> DEFINE n == Len(rpo)
           M == [v \in ToSet(rpo) |-> IF v = rpo[1] THEN {} ELSE {rpo[dom[rpo_index(v)]]}]
<1>1. dom # <<>>
  BY DEF DomInv
<1>2. PassInv
  BY <1>1 DEF DomInv
<1>3. /\ IsGraph(graph) /\ RpoOK(graph, rpo) /\ n \in Nat /\ n >= 1 /\ DOMAIN rpo = 1..n /\ DOMAIN dom = 1..n
  BY <1>1, DomFacts
<1>4. /\ TreeOK(dom, n) /\ StrictOK(graph, rpo, dom) /\ pos \in 2..(n + 1) /\ \A i \in 1..(pos - 1) : dom[i] # 0
      /\ ~ changed => \A i \in 2..(pos - 1) : SettledAt(graph, rpo, dom, i)
      /\ ~ changed /\ pos > n /\ dominators_map = M
  BY <1>2 DEF PassInv
<1> HIDE DEF M
<1>5. pos - 1 = n
  BY <1>3, <1>4
<1>6. FixedPoint(graph, rpo, dom)
  BY <1>4, <1>5 DEF FixedPoint
<1>7. Placed(dom) = 1..n
  BY <1>3, <1>4, <1>5 DEF Placed
<1>8. \A i \in 1..n : dom[i] \in 1..n
  <2> SUFFICES ASSUME NEW i \in 1..n PROVE dom[i] \in 1..n
    OBVIOUS
  <2>1. CASE i = 1
    BY <1>3, <1>4, <2>1 DEF TreeOK
  <2>2. CASE i # 1
    <3>1. dom[i] \in Placed(dom)
      BY <1>4, <1>7, <2>2, UpFacts
    <3>2. QED
      BY <1>7, <3>1
  <2>3. QED
    BY <2>1, <2>2
<1>9. ToSet(rpo) = {rpo[i] : i \in 1..n} /\ ToSet(rpo) \subseteq NodeSet(graph)
  BY <1>3 DEF ToSet, RpoOK
<1>10. Cardinality(ToSet(rpo)) = n
  <2>1. rpo \in Seq(NodeSet(graph)) /\ IsInjective(rpo)
    BY <1>3 DEF RpoOK, IsInjective
  <2>2. QED
    BY <2>1, InjectiveLength
<1>11. DOMAIN dominators_map = ToSet(rpo)
  BY <1>4 DEF M
<1>12. dominators_map[rpo[1]] = {}
  <2>1. rpo[1] \in ToSet(rpo)
    BY <1>3, <1>9
  <2>2. QED
    BY <1>4, <2>1 DEF M
<1>13. ASSUME NEW i \in 2..n PROVE dominators_map[rpo[i]] # {} /\ idom(rpo[i]) = rpo[dom[i]]
  <2>1. i \in 1..n /\ 1 \in 1..n /\ i # 1
    BY <1>3
  <2>2. rpo[i] \in ToSet(rpo) /\ rpo[i] # rpo[1]
    BY <1>3, <1>9, <2>1 DEF RpoOK
  <2>3. rpo_index(rpo[i]) = i
    BY <1>3, <2>1 DEF rpo_index, RpoOK
  <2>4. dominators_map[rpo[i]] = {rpo[dom[i]]}
    BY <1>4, <2>2, <2>3 DEF M
  <2>5. QED
    BY <2>4 DEF idom
<1>14. QED
  BY <1>1, <1>3, <1>4, <1>6, <1>7, <1>8, <1>9, <1>10, <1>11, <1>12, <1>13

\* L lists nodes from rpo[i] upwards, k of them or all; q has their positions.
Climbed(L, k, i, q) ==
    /\ q \in Seq(1..Len(rpo)) /\ Len(q) = Len(L) /\ Len(q) \in 1..k /\ q[1] = i
    /\ \A t \in 1..Len(q) : L[t] = rpo[q[t]] /\ q[t] <= (Len(rpo) + 1) - t
    /\ \A t \in 1..(Len(q) - 1) : q[t] # 1 /\ q[t + 1] = dom[q[t]]
    /\ Len(q) = k \/ q[Len(q)] = 1

\* One turn of the iterator of DomTree::dominators.
LEMMA ClimbStep ==
    ASSUME DomInv, Computed, NEW L \in Seq(ToSet(rpo)), NEW k \in Nat, NEW i, NEW q, Climbed(L, k, i, q),
           NEW M, M = IF dominators_map[Last(L)] = {} THEN L ELSE Append(L, idom(Last(L)))
    PROVE  M \in Seq(ToSet(rpo)) /\ \E p : Climbed(M, k + 1, i, p)
<1> DEFINE n == Len(rpo)
           l == Len(q)
           e == q[l]
           W == ToSet(rpo)
<1>1. /\ n \in Nat /\ n >= 1 /\ W = {rpo[j] : j \in 1..n} /\ \A j \in 1..n : dom[j] \in 1..n
      /\ dominators_map[rpo[1]] = {} /\ \A j \in 2..n : dominators_map[rpo[j]] # {} /\ idom(rpo[j]) = rpo[dom[j]]
      /\ TreeOK(dom, n) /\ Placed(dom) = 1..n
  BY MapFacts
<1>2. /\ q \in Seq(1..n) /\ l = Len(L) /\ l \in 1..k /\ q[1] = i
      /\ \A t \in 1..l : L[t] = rpo[q[t]] /\ q[t] <= (n + 1) - t
      /\ \A t \in 1..(l - 1) : q[t] # 1 /\ q[t + 1] = dom[q[t]]
      /\ l = k \/ e = 1
  BY DEF Climbed
<1> HIDE DEF n, l, W
<1>3. l \in 1..l /\ e \in 1..n /\ l \in Nat /\ l >= 1
  <2>1. l \in 1..l /\ l \in Nat /\ l >= 1
    BY <1>2
  <2>2. e \in 1..n
    <3> DEFINE T == 1..n
    <3> HIDE DEF T
    <3>1. q \in Seq(T)
      BY <1>2 DEF T
    <3>2. \A j \in 1..Len(q) : q[j] \in T
      BY <3>1
    <3>3. QED
      BY <2>1, <3>2 DEF l, T
  <2>3. QED
    BY <2>1, <2>2
<1>4. Last(L) = rpo[e]
  BY <1>2, <1>3 DEF Last
<1> HIDE DEF e
<1>5. CASE e = 1
  <2>1. M = L
    BY <1>1, <1>4, <1>5
  <2>2. l \in 1..(k + 1)
    BY <1>2
  <2>3. Climbed(M, k + 1, i, q)
    BY <1>2, <1>5, <2>1, <2>2 DEF Climbed, n, l, e
  <2>4. QED
    BY <2>1, <2>3
<1>6. CASE e # 1
  <2> DEFINE c == dom[e]
             p == Append(q, c)
             v == rpo[c]
  <2>1. e \in 2..n /\ c \in 1..n /\ c \in 1..(e - 1)
    <3>1. e \in 2..n
      BY <1>1, <1>3, <1>6
    <3>2. c \in 1..(e - 1)
      BY <1>1, <1>3, <1>6, UpFacts
    <3>3. QED
      BY <1>1, <1>3, <3>1, <3>2
  <2>2. M = Append(L, v)
    BY <1>1, <1>4, <2>1
  <2>3. v \in W
    BY <1>1, <2>1
  <2>4. l = k /\ e <= (n + 1) - l
    BY <1>2, <1>3, <1>6 DEF e
  <2> HIDE DEF c, v
  <2>5. /\ p \in Seq(1..n) /\ Len(p) = l + 1 /\ p[l + 1] = c /\ \A t \in 1..l : p[t] = q[t]
    BY <1>2, <2>1, AppendProperties DEF l
  <2>6. /\ M \in Seq(W) /\ Len(M) = l + 1 /\ M[l + 1] = v /\ \A t \in 1..l : M[t] = L[t]
    <3> HIDE DEF W
    <3>1. L \in Seq(W)
      BY DEF W
    <3>2. QED
      BY <1>2, <2>2, <2>3, <3>1, AppendProperties
  <2> HIDE DEF p
  <2>7. c <= (n + 1) - (l + 1)
    BY <1>1, <1>3, <2>1, <2>4
  <2>8. \A t \in 1..(l + 1) : t \in 1..l \/ t = l + 1
    BY <1>3
  <2>9. \A t \in 1..(l + 1) : M[t] = rpo[p[t]] /\ p[t] <= (n + 1) - t
    BY <1>2, <2>5, <2>6, <2>7, <2>8 DEF v
  <2>10. \A t \in 1..((l + 1) - 1) : p[t] # 1 /\ p[t + 1] = dom[p[t]]
    <3>1. \A t \in 1..((l + 1) - 1) : t \in 1..l /\ (t = l \/ (t \in 1..(l - 1) /\ t + 1 \in 1..l))
      BY <1>3
    <3>2. p[l] = e
      BY <1>3, <2>5 DEF e
    <3>3. QED
      BY <1>2, <1>6, <2>5, <3>1, <3>2 DEF c
  <2>11. l + 1 \in 1..(k + 1) /\ p[1] = i /\ l + 1 = k + 1
    <3>1. 1 \in 1..l
      BY <1>3
    <3>2. QED
      BY <1>2, <1>3, <2>4, <2>5, <3>1
  <2>12. Climbed(M, k + 1, i, p)
    BY <2>5, <2>6, <2>9, <2>10, <2>11 DEF Climbed, n
  <2>13. QED
    BY <2>6, <2>12 DEF W
<1>7. QED
  BY <1>5, <1>6

\* DomTree::dominators lists the nodes on the chain up to the root.
LEMMA ListedDominators ==
    ASSUME DomInv, Computed, NEW i \in 1..Len(rpo)
    PROVE  /\ dominators(rpo[i]) \in Seq(ToSet(rpo))
           /\ \E q : /\ Chain(dom, q) /\ q[1] = i /\ Len(q) = Len(dominators(rpo[i]))
                     /\ \A t \in 1..Len(q) : dominators(rpo[i])[t] = rpo[q[t]] /\ q[t] \in 1..Len(rpo)
<1> DEFINE n == Len(rpo)
           W == ToSet(rpo)
           c == Cardinality(DOMAIN dominators_map)
           v == rpo[i]
           Next1(L) == IF dominators_map[Last(L)] = {} THEN L ELSE Append(L, idom(Last(L)))
           Is(f) == f = [k \in 1..c |-> IF k = 1 THEN <<v>>
                                        ELSE LET below == f[k - 1]
                                             IN  IF dominators_map[Last(below)] = {} THEN below
                                                 ELSE Append(below, idom(Last(below)))]
           F == CHOOSE f : Is(f)
           Good(L, k) == L \in Seq(W) /\ \E q : Climbed(L, k, i, q)
<1>1. c = n /\ n \in Nat /\ n >= 1 /\ W = {rpo[j] : j \in 1..n} /\ Placed(dom) = 1..n
  BY MapFacts
<1>2. dominators(rpo[i]) = F[n]
  <2>1. dominators(rpo[i]) = F[c]
    BY Zenon DEF dominators
  <2> HIDE DEF F, c
  <2>2. QED
    BY <1>1, <2>1
<1>3. v \in W
  BY <1>1
<1>4. Good(<<v>>, 1)
  <2> DEFINE q == <<i>>
  <2> HIDE DEF n, v, W
  <2>1. q \in Seq(1..n) /\ Len(q) = 1 /\ q[1] = i /\ i \in 1..n
    BY DEF n
  <2>2. <<v>> \in Seq(W) /\ Len(<<v>>) = 1 /\ <<v>>[1] = v
    BY <1>3
  <2> DEFINE L == <<v>>
  <2> HIDE DEF q, L
  <2>3. \A t \in 1..1 : t = 1
    OBVIOUS
  <2>4. 1 \in 1..1 /\ 1..(1 - 1) = {} /\ i <= (n + 1) - 1
    BY <1>1, <2>1
  <2>5. Len(L) = 1 /\ L[1] = v
    BY <2>2 DEF L
  <2>6. Climbed(L, 1, i, q)
    BY <2>1, <2>3, <2>4, <2>5 DEF Climbed, n, v
  <2>7. QED
    BY <2>2, <2>6 DEF L
<1>5. ASSUME NEW k \in Nat, NEW L, Good(L, k) PROVE Good(Next1(L), k + 1)
  BY <1>5, ClimbStep
<1>6. Is(F)
  <2> DEFINE D == {L \in Seq(W) : Len(L) # 0 /\ Next1(L) \in Seq(W) /\ Len(Next1(L)) # 0}
             Ok(k) == \E H : /\ DOMAIN H = 1..k /\ H[1] = <<v>> /\ \A j \in 2..k : H[j] = Next1(H[j - 1])
             P == {k \in 0..n : k # 0 => Ok(k)}
  <2> HIDE DEF n, v
  <2>1. 0 \in P
    BY <1>1
  <2>2. ASSUME NEW k \in 0..n, k < n, k \in P PROVE k + 1 \in P
    <3>1. Ok(k + 1)
      <4>1. CASE k = 0
        <5> DEFINE H == [j \in 1..1 |-> <<v>>]
        <5>1. DOMAIN H = 1..1 /\ H[1] = <<v>> /\ 2..1 = {}
          OBVIOUS
        <5> HIDE DEF H, Next1
        <5>2. Ok(1)
          BY <5>1
        <5>3. k + 1 = 1
          BY <4>1
        <5> HIDE DEF Ok
        <5>4. QED
          BY <5>2, <5>3
      <4>2. CASE k # 0
        <5> HIDE DEF Next1
        <5>1. PICK H : DOMAIN H = 1..k /\ H[1] = <<v>> /\ \A j \in 2..k : H[j] = Next1(H[j - 1])
          BY <2>2, <4>2
        <5> DEFINE N == Next1(H[k])
                   I == [j \in 1..(k + 1) |-> IF j = k + 1 THEN N ELSE H[j]]
        <5>2. k >= 1 /\ 1 \in 1..(k + 1) /\ 1 # k + 1 /\ k + 1 \in 1..(k + 1) /\ (k + 1) - 1 = k
          BY <1>1, <2>2, <4>2
        <5>3. I[1] = <<v>> /\ I[k + 1] = N /\ \A j \in 1..k : I[j] = H[j]
          <6> HIDE DEF N
          <6>1. \A j \in 1..k : j \in 1..(k + 1) /\ j # k + 1
            BY <5>2
          <6>2. QED
            BY <5>1, <5>2, <6>1
        <5>4. DOMAIN I = 1..(k + 1)
          OBVIOUS
        <5> HIDE DEF I
        <5>5. \A j \in 2..(k + 1) : (j = k + 1) \/ (j \in 2..k /\ j \in 1..k /\ j - 1 \in 1..k)
          BY <5>2
        <5>6. k \in 1..k
          BY <5>2
        <5>7. \A j \in 2..(k + 1) : I[j] = Next1(I[j - 1])
          BY <5>1, <5>2, <5>3, <5>5, <5>6
        <5>8. QED
          BY <5>3, <5>4, <5>7
      <4>3. QED
        BY <4>1, <4>2
    <3>2. k + 1 \in 0..n
      BY <1>1, <2>2
    <3> HIDE DEF Ok
    <3>3. QED
      BY <3>1, <3>2
  <2>3. Ok(n)
    <3> HIDE DEF Ok
    <3>1. 0..n \subseteq P
      <4> HIDE DEF P
      <4>1. QED
        BY <1>1, <2>1, <2>2, UpTo
    <3>2. n \in P /\ n # 0
      BY <1>1, <3>1
    <3>3. QED
      BY <3>2
  <2>4. PICK H : DOMAIN H = 1..n /\ H[1] = <<v>> /\ \A j \in 2..n : H[j] = Next1(H[j - 1])
    <3> HIDE DEF Next1
    <3>1. QED
      BY <2>3
  <2> DEFINE f == [k \in 1..n |-> H[k]]
  <2>5. ASSUME NEW k \in 1..n PROVE f[k] = IF k = 1 THEN <<v>> ELSE Next1(f[k - 1])
    <3> HIDE DEF Next1
    <3>1. k # 1 => k \in 2..n /\ k - 1 \in 1..n
      BY <1>1
    <3>2. QED
      BY <2>4, <3>1
  <2>6. f = [k \in 1..n |-> f[k]]
    OBVIOUS
  <2> HIDE DEF f
  <2>7. f = [k \in 1..n |-> IF k = 1 THEN <<v>> ELSE Next1(f[k - 1])]
    <3> HIDE DEF Next1
    <3>1. QED
      BY <2>5, <2>6
  <2>8. Is(f)
    BY <1>1, <2>7, Zenon
  <2> HIDE DEF Is
  <2>9. QED
    BY <2>8
<1>7. /\ F[1] = <<v>> /\ \A k \in 2..n : F[k] = Next1(F[k - 1])
  <2> HIDE DEF F, c, n, v
  <2>1. 1 \in 1..n /\ \A k \in 2..n : k \in 1..n /\ k # 1
    BY <1>1
  <2>2. QED
    BY <1>1, <1>6, <2>1
<1> HIDE DEF F, Is, Next1, c
<1>8. Good(F[n], n)
  <2> DEFINE P == {k \in 0..n : k # 0 => Good(F[k], k)}
  <2> HIDE DEF n, v, Good
  <2>1. 0 \in P
    BY <1>1
  <2>2. ASSUME NEW k \in 0..n, k < n, k \in P PROVE k + 1 \in P
    <3>1. k + 1 \in 0..n /\ k \in Nat
      BY <1>1, <2>2
    <3>2. CASE k = 0
      BY <1>4, <1>7, <3>1, <3>2
    <3>3. CASE k # 0
      <4>1. k + 1 \in 2..n /\ (k + 1) - 1 = k
        BY <3>1, <3>3
      <4>2. F[k + 1] = Next1(F[k])
        BY <1>7, <4>1
      <4>3. Good(F[k + 1], k + 1)
        BY <1>5, <2>2, <3>1, <3>3, <4>2
      <4>4. QED
        BY <3>1, <4>3
    <3>4. QED
      BY <3>2, <3>3
  <2>3. 0..n \subseteq P
    <3> HIDE DEF P
    <3>1. QED
      BY <1>1, <2>1, <2>2, UpTo
  <2>4. n \in P /\ n # 0
    BY <1>1, <2>3
  <2>5. QED
    BY <2>4
<1>9. PICK q : Climbed(F[n], n, i, q)
  BY <1>8
<1>10. /\ q \in Seq(1..n) /\ Len(q) = Len(F[n]) /\ Len(q) \in 1..n /\ q[1] = i
       /\ \A t \in 1..Len(q) : F[n][t] = rpo[q[t]] /\ q[t] <= (n + 1) - t
       /\ \A t \in 1..(Len(q) - 1) : q[t] # 1 /\ q[t + 1] = dom[q[t]]
       /\ Len(q) = n \/ q[Len(q)] = 1
  BY <1>9 DEF Climbed
<1> HIDE DEF n
<1>11. \A t \in 1..Len(q) : q[t] \in 1..n
  <2> DEFINE T == 1..n
  <2> HIDE DEF T
  <2>1. q \in Seq(T)
    BY <1>10 DEF T
  <2>2. \A t \in 1..Len(q) : q[t] \in T
    BY <2>1
  <2>3. QED
    BY <2>2 DEF T
<1>12. q[Len(q)] = 1
  <2> SUFFICES ASSUME Len(q) = n PROVE q[n] = 1
    BY <1>10
  <2>1. n \in 1..Len(q)
    BY <1>1
  <2>2. q[n] \in 1..n /\ q[n] <= (n + 1) - n
    BY <1>10, <1>11, <2>1
  <2>3. QED
    BY <1>1, <2>2
<1>13. Chain(dom, q)
  <2>1. q \in Seq(Nat)
    <3>1. Seq(1..n) \subseteq Seq(Nat)
      BY <1>1
    <3>2. QED
      BY <1>10, <3>1
  <2>2. Len(q) >= 1
    BY <1>1, <1>10
  <2>3. q[1] \in Placed(dom)
    BY <1>1, <1>10 DEF n
  <2>4. QED
    BY <1>10, <1>12, <2>1, <2>2, <2>3 DEF Chain
<1>14. QED
  BY <1>2, <1>8, <1>10, <1>11, <1>13 DEF n, W

\* A node of the tree has exactly its dominators above it.
LEMMA DominatorsListed ==
    ASSUME DomInv, Computed
    PROVE  /\ \A v \in NodeSet(graph) : contains(v) <=> v \in ToSet(rpo)
           /\ \A v \in ToSet(rpo) : \A a \in NodeSet(graph) : a \in ToSet(dominators(v)) <=> DominatesDef(graph, a, v)
           /\ \A a, v \in NodeSet(graph) : dominates(a, v) <=> IF contains(v) THEN DominatesDef(graph, a, v) ELSE a = v
<1>1. /\ IsGraph(graph) /\ RpoOK(graph, rpo) /\ FixedPoint(graph, rpo, dom) /\ TreeOK(dom, Len(rpo))
      /\ DOMAIN dominators_map = ToSet(rpo) /\ ToSet(rpo) = {rpo[i] : i \in 1..Len(rpo)}
  BY MapFacts
<1>2. \A v \in NodeSet(graph) : contains(v) <=> v \in ToSet(rpo)
  BY <1>1 DEF contains
<1>3. ASSUME NEW i \in 1..Len(rpo), NEW a \in NodeSet(graph)
      PROVE  a \in ToSet(dominators(rpo[i])) <=> DominatesDef(graph, a, rpo[i])
  <2> DEFINE L == dominators(rpo[i])
             W == ToSet(rpo)
  <2>1. L \in Seq(W) /\ \E q : /\ Chain(dom, q) /\ q[1] = i /\ Len(q) = Len(L)
                               /\ \A t \in 1..Len(q) : L[t] = rpo[q[t]] /\ q[t] \in 1..Len(rpo)
    BY ListedDominators
  <2> HIDE DEF L, W
  <2>2. PICK q : /\ Chain(dom, q) /\ q[1] = i /\ Len(q) = Len(L)
                 /\ \A t \in 1..Len(q) : L[t] = rpo[q[t]] /\ q[t] \in 1..Len(rpo)
    BY <2>1
  <2>3. ToSet(L) = {L[t] : t \in 1..Len(L)}
    <3>1. DOMAIN L = 1..Len(L)
      BY <2>1
    <3>2. QED
      BY <3>1 DEF ToSet
  <2>4. (\A t \in 1..Len(q) : q[t] \in Up(dom, i)) /\ (\A x \in Up(dom, i) : \E t \in 1..Len(q) : q[t] = x)
    BY <1>1, <2>2, ChainLemma
  <2>5. a \in ToSet(L) <=> \E x \in Up(dom, i) : rpo[x] = a
    BY <2>2, <2>3, <2>4
  <2>6. QED
    BY <1>1, <2>5, AboveDominates DEF L
<1>4. \A v \in ToSet(rpo) : \A a \in NodeSet(graph) : a \in ToSet(dominators(v)) <=> DominatesDef(graph, a, v)
  BY <1>1, <1>3
<1>5. ASSUME NEW a \in NodeSet(graph), NEW v \in NodeSet(graph)
      PROVE  dominates(a, v) <=> IF contains(v) THEN DominatesDef(graph, a, v) ELSE a = v
  <2>1. CASE contains(v)
    <3>1. a \in ToSet(dominators(v)) <=> DominatesDef(graph, a, v)
      BY <1>2, <1>4, <2>1
    <3>2. DominatesDef(graph, v, v)
      BY <1>1, DominatesFacts
    <3>3. QED
      BY <2>1, <3>1, <3>2 DEF dominates
  <2>2. CASE ~ contains(v)
    BY <2>2 DEF dominates
  <2>3. QED
    BY <2>1, <2>2
<1>6. QED
  BY <1>2, <1>4, <1>5

\* Among positions of a list that are not none there is a first one.
LEMMA LeastPosition ==
    ASSUME NEW n \in Nat, NEW I \in SUBSET (1..n), I # {}
    PROVE  Min(I) \in I /\ \A t \in I : Min(I) <= t
<1>1. \E m \in I : \A t \in I : m <= t
  <2> SUFFICES ASSUME \A m \in I : \E t \in I : ~ (m <= t) PROVE FALSE
    OBVIOUS
  <2> DEFINE S == {t \in 1..n : t \notin I}
  <2>1. ASSUME NEW i \in 1..n, \A j \in 1..(i - 1) : j \in S PROVE i \in S
    <3> SUFFICES ASSUME i \in I PROVE FALSE
      OBVIOUS
    <3>1. PICK t \in I : ~ (i <= t)
      OBVIOUS
    <3>2. t \in 1..(i - 1)
      BY <3>1
    <3>3. QED
      BY <2>1, <3>2
  <2>2. 1..n \subseteq S
    <3> HIDE DEF S
    <3>1. QED
      BY <2>1, ByPosition
  <2>3. QED
    BY <2>2
<1>2. QED
  BY <1>1 DEF Min

LEMMA CommonResult == DomInv /\ Computed => NearestCommon
<1> SUFFICES ASSUME DomInv, Computed, NEW m \in DOMAIN dominators_map, NEW n \in DOMAIN dominators_map
             PROVE  LET c == nearest_common_dominator(m, n)
                        common == {d \in DOMAIN dominators_map : DominatesDef(graph, d, m) /\ DominatesDef(graph, d, n)}
                    IN  c \in common /\ \A d \in common : DominatesDef(graph, d, c)
  BY DEF NearestCommon
<1> DEFINE N == Len(rpo)
           W == ToSet(rpo)
           L == dominators(m)
           I == {t \in 1..Len(L) : dominates(L[t], n)}
<1>1. /\ IsGraph(graph) /\ RpoOK(graph, rpo) /\ FixedPoint(graph, rpo, dom) /\ TreeOK(dom, N)
      /\ DOMAIN dominators_map = W /\ W = {rpo[k] : k \in 1..N} /\ N \in Nat /\ N >= 1 /\ Placed(dom) = 1..N
      /\ W \subseteq NodeSet(graph)
  BY MapFacts
<1>2. PICK i \in 1..N, j \in 1..N : m = rpo[i] /\ n = rpo[j]
  BY <1>1
<1>3. L \in Seq(W) /\ \E q : /\ Chain(dom, q) /\ q[1] = i /\ Len(q) = Len(L)
                             /\ \A t \in 1..Len(q) : L[t] = rpo[q[t]] /\ q[t] \in 1..N
  BY <1>2, ListedDominators
<1>4. \A a, v \in W : dominates(a, v) <=> DominatesDef(graph, a, v)
  BY <1>1, DominatorsListed
<1>5. nearest_common_dominator(m, n) = L[IF I # {} THEN Min(I) ELSE 0]
  BY DEF nearest_common_dominator, SelectInSeq
<1> HIDE DEF L, W, N
<1>6. PICK q : /\ Chain(dom, q) /\ q[1] = i /\ Len(q) = Len(L)
               /\ \A t \in 1..Len(q) : L[t] = rpo[q[t]] /\ q[t] \in 1..N
  BY <1>3
<1>7. /\ \A t \in 1..Len(q) : q[t] \in Up(dom, i)
      /\ \A x \in Up(dom, i) : \E t \in 1..Len(q) : q[t] = x
      /\ \A s, t \in 1..Len(q) : s < t => q[t] < q[s]
  <2>1. TreeOK(dom, N) /\ Chain(dom, q) /\ q[1] = i
    BY <1>1, <1>6
  <2>2. /\ \A t \in 1..Len(q) : q[t] \in Up(dom, q[1])
        /\ \A x \in Up(dom, q[1]) : \E t \in 1..Len(q) : q[t] = x
        /\ \A s, t \in 1..Len(q) : s < t => q[t] < q[s]
    BY <2>1, ChainLemma
  <2>3. QED
    BY <2>1, <2>2
<1>8. Len(q) \in Nat /\ Len(q) >= 1 /\ q[Len(q)] = 1
  BY <1>6 DEF Chain
<1>9. \A a \in W : \A k \in 1..N : DominatesDef(graph, a, rpo[k]) <=> \E x \in Up(dom, k) : rpo[x] = a
  <2>1. \A k \in 1..N : \A a \in NodeSet(graph) : DominatesDef(graph, a, rpo[k]) <=> \E x \in Up(dom, k) : rpo[x] = a
    <3>1. IsGraph(graph) /\ RpoOK(graph, rpo) /\ FixedPoint(graph, rpo, dom)
      BY <1>1
    <3>2. QED
      BY <3>1, AboveDominates DEF N
  <2>2. W \subseteq NodeSet(graph)
    BY <1>1
  <2>3. QED
    BY <2>1, <2>2
<1>10. \A x, k \in 1..N : rpo[x] = rpo[k] => x = k
  BY <1>1 DEF RpoOK, N
<1>11. \A k \in 1..N : Up(dom, k) \subseteq 1..N
  BY <1>1, UpFacts
<1>12. \A x, k \in 1..N : DominatesDef(graph, rpo[x], rpo[k]) <=> x \in Up(dom, k)
  BY <1>1, <1>9, <1>10, <1>11
<1>13. \A t \in 1..Len(q) : t \in I <=> q[t] \in Up(dom, j)
  <2> SUFFICES ASSUME NEW t \in 1..Len(q) PROVE t \in I <=> q[t] \in Up(dom, j)
    OBVIOUS
  <2>1. L[t] = rpo[q[t]] /\ q[t] \in 1..N
    BY <1>6
  <2>2. dominates(L[t], n) <=> DominatesDef(graph, rpo[q[t]], rpo[j])
    BY <1>1, <1>2, <1>4, <2>1
  <2>3. QED
    BY <1>6, <1>12, <2>1, <2>2
<1>14. I \in SUBSET (1..Len(q)) /\ I # {}
  <2>1. I \subseteq 1..Len(q)
    BY <1>6
  <2>2. Len(q) \in 1..Len(q)
    BY <1>8
  <2>3. 1 \in Up(dom, j)
    <3>1. DominatesDef(graph, rpo[1], rpo[j])
      <4>1. entry_node(graph) \in NodeSet(graph) /\ rpo[j] \in Reach(graph, entry_node(graph)) /\ rpo[1] = entry_node(graph)
        BY <1>1, GraphLemma DEF RpoOK, N
      <4>2. IsReach(graph, {entry_node(graph)}, {entry_node(graph)}, ReachAvoiding(graph, {entry_node(graph)}, {entry_node(graph)}))
        <5>1. {entry_node(graph)} \in SUBSET NodeSet(graph)
          BY <4>1
        <5>2. QED
          BY <1>1, <5>1, ReachLemma
      <4>3. ReachAvoiding(graph, {entry_node(graph)}, {entry_node(graph)}) \subseteq {}
        BY <4>2 DEF IsReach, ClosedSet
      <4>4. QED
        BY <4>1, <4>3 DEF DominatesDef
    <3>2. 1 \in 1..N
      BY <1>1
    <3>3. QED
      BY <1>12, <3>1, <3>2
  <2>4. Len(q) \in I
    BY <1>8, <1>13, <2>2, <2>3
  <2>5. QED
    BY <2>1, <2>4
<1> HIDE DEF I
<1> DEFINE t == Min(I)
<1>15. t \in I /\ \A u \in I : t <= u
  BY <1>8, <1>14, LeastPosition
<1>16. nearest_common_dominator(m, n) = L[t]
  BY <1>5, <1>14
<1> HIDE DEF t
<1>17. t \in 1..Len(q) /\ L[t] = rpo[q[t]] /\ q[t] \in 1..N /\ q[t] \in Up(dom, i) /\ q[t] \in Up(dom, j)
  BY <1>6, <1>7, <1>13, <1>14, <1>15
<1>18. /\ L[t] \in DOMAIN dominators_map /\ DominatesDef(graph, L[t], m) /\ DominatesDef(graph, L[t], n)
  BY <1>1, <1>2, <1>12, <1>17
<1>19. ASSUME NEW d \in DOMAIN dominators_map, DominatesDef(graph, d, m), DominatesDef(graph, d, n)
       PROVE  DominatesDef(graph, d, L[t])
  <2>1. PICK x \in 1..N : d = rpo[x]
    BY <1>1
  <2>2. x \in Up(dom, i) /\ x \in Up(dom, j)
    BY <1>2, <1>12, <1>19, <2>1
  <2>3. PICK u \in 1..Len(q) : q[u] = x
    BY <1>7, <2>2
  <2>4. t <= u
    BY <1>13, <1>15, <2>2, <2>3
  <2>5. x <= q[t]
    <3>1. u = t \/ t < u
      BY <1>17, <2>4
    <3>2. u = t \/ q[u] < q[t]
      BY <1>7, <1>17, <3>1
    <3>3. x \in Nat /\ q[t] \in Nat
      BY <1>17
    <3>4. QED
      BY <2>3, <3>2, <3>3
  <2>6. x \in Up(dom, q[t])
    BY <1>1, <1>2, <1>17, <2>2, <2>5, UpChain
  <2>7. QED
    BY <1>12, <1>17, <2>1, <2>6
<1>20. QED
  BY <1>16, <1>18, <1>19, Zenon

\* Fewer than two edges lead to a node with one predecessor at most.
LEMMA OnePredecessor ==
    ASSUME NEW g, IsGraph(g), NEW n, ~ (num_predecessors(g, n) >= 2), NEW a \in Preds(g, n), NEW b \in Preds(g, n)
    PROVE  a = b
<1> DEFINE Edges(p) == {k \in 1..Len(g.succ[p]) : g.succ[p][k] = n}
           In(p) == {<<p, i>> : i \in Edges(p)}
           All == {In(p) : p \in NodeSet(g)}
           E == UNION All
<1>1. num_predecessors(g, n) = Cardinality(E)
  BY DEF num_predecessors
<1>2. ASSUME NEW p \in NodeSet(g) PROVE IsFiniteSet(In(p))
  <2>1. Len(g.succ[p]) \in Nat
    BY GraphLemma
  <2>2. IsFiniteSet(1..Len(g.succ[p]))
    BY <2>1, FS_Interval
  <2>3. IsFiniteSet(Edges(p))
    BY <2>2, FS_Subset
  <2> DEFINE T == Edges(p)
             f == [i \in T |-> <<p, i>>]
  <2>4. f \in Surjection(T, In(p))
    BY DEF Surjection
  <2>5. QED
    BY <2>3, <2>4, FS_Surjection
<1>3. IsFiniteSet(All)
  <2> DEFINE T == NodeSet(g)
             f == [p \in T |-> In(p)]
  <2> HIDE DEF In
  <2>1. f \in Surjection(T, All)
    BY DEF Surjection
  <2>2. IsFiniteSet(T)
    BY GraphLemma
  <2>3. QED
    BY <2>1, <2>2, FS_Surjection
<1>4. IsFiniteSet(E)
  <2>1. \A T \in All : IsFiniteSet(T)
    BY <1>2
  <2> HIDE DEF All
  <2>2. QED
    BY <1>3, <2>1, FS_UNION
<1>5. ASSUME NEW p \in Preds(g, n) PROVE \E i : <<p, i>> \in E
  <2>1. PICK i \in 1..Len(g.succ[p]) : g.succ[p][i] = n
    BY DEF Preds, Succs
  <2>2. <<p, i>> \in In(p)
    BY <2>1
  <2>3. In(p) \in All
    BY DEF Preds
  <2> HIDE DEF In, All
  <2>4. QED
    BY <2>2, <2>3
<1> HIDE DEF E
<1>6. PICK i, j : <<a, i>> \in E /\ <<b, j>> \in E
  BY <1>5
<1> SUFFICES ASSUME a # b PROVE FALSE
  OBVIOUS
<1> DEFINE x == <<a, i>>
           y == <<b, j>>
<1>7. x # y
  OBVIOUS
<1> HIDE DEF x, y
<1>8. IsFiniteSet({x}) /\ Cardinality({x}) = 1
  BY FS_Singleton
<1>9. {x} \cup {y} \in SUBSET E
  BY <1>6 DEF x, y
<1>10. Cardinality({x} \cup {y}) = 2
  BY <1>7, <1>8, FS_AddElement
<1>11. 2 <= Cardinality(E) /\ Cardinality(E) \in Nat
  BY <1>4, <1>9, <1>10, FS_Subset, FS_CardinalityType
<1>12. QED
  BY <1>1, <1>11

LEMMA FrontierResult == DomInv => FrontierCorrect
<1> SUFFICES ASSUME DomInv, Computed, Preds(graph, entry_node(graph)) = {}, NEW n \in DOMAIN dominators_map
             PROVE  frontier(n) = {b \in DOMAIN dominators_map :
                       /\ ~ (DominatesDef(graph, n, b) /\ n # b)
                       /\ \E p \in Preds(graph, b) : contains(p) /\ DominatesDef(graph, n, p)}
  BY DEF FrontierCorrect
<1> DEFINE N == Len(rpo)
           W == ToSet(rpo)
           Front1(b) == /\ contains(b) /\ num_predecessors(graph, b) >= 2
                        /\ \E p \in Preds(graph, b) :
                             /\ contains(p)
                             /\ LET up == dominators(p)
                                IN  \E k \in DOMAIN up : up[k] = n /\ \A j \in 1..k : up[j] # idom(b)
           Front2(b) == /\ ~ (DominatesDef(graph, n, b) /\ n # b)
                        /\ \E p \in Preds(graph, b) : contains(p) /\ DominatesDef(graph, n, p)
<1>1. /\ IsGraph(graph) /\ RpoOK(graph, rpo) /\ FixedPoint(graph, rpo, dom) /\ TreeOK(dom, N)
      /\ DOMAIN dominators_map = W /\ W = {rpo[k] : k \in 1..N} /\ N \in Nat /\ N >= 1 /\ Placed(dom) = 1..N
      /\ W \subseteq NodeSet(graph) /\ \A k \in 1..N : dom[k] \in 1..N
  BY MapFacts
<1>2. \A k \in 2..N : idom(rpo[k]) = rpo[dom[k]] /\ SettledAt(graph, rpo, dom, k)
  BY MapFacts DEF FixedPoint
<1>3. \A v \in NodeSet(graph) : contains(v) <=> v \in W
  BY DominatorsListed
<1>4. \A x, k \in 1..N : rpo[x] = rpo[k] => x = k
  BY <1>1 DEF RpoOK
<1>5. \A k \in 1..N : Up(dom, k) \subseteq 1..N /\ \A x \in Up(dom, k) : x \in 1..k
  BY <1>1, UpFacts
<1>6. \A x, k \in 1..N : DominatesDef(graph, rpo[x], rpo[k]) <=> x \in Up(dom, k)
  <2>1. \A k \in 1..N : \A a \in NodeSet(graph) : DominatesDef(graph, a, rpo[k]) <=> \E x \in Up(dom, k) : rpo[x] = a
    <3>1. IsGraph(graph) /\ RpoOK(graph, rpo) /\ FixedPoint(graph, rpo, dom)
      BY <1>1
    <3>2. QED
      BY <3>1, AboveDominates
  <2>2. \A x \in 1..N : rpo[x] \in NodeSet(graph)
    BY <1>1
  <2> HIDE DEF N
  <2>3. QED
    BY <1>4, <1>5, <2>1, <2>2
<1>7. PICK x \in 1..N : n = rpo[x]
  BY <1>1
<1>8. ASSUME NEW b \in W, NEW p \in Preds(graph, b), contains(p)
      PROVE  LET up == dominators(p)
             IN  /\ (\E k \in DOMAIN up : up[k] = n /\ \A j \in 1..k : up[j] # idom(b))
                       => DominatesDef(graph, n, p) /\ ~ (DominatesDef(graph, n, b) /\ n # b)
                 /\ DominatesDef(graph, n, p) /\ ~ (DominatesDef(graph, n, b) /\ n # b)
                       => /\ num_predecessors(graph, b) >= 2
                          /\ \E k \in DOMAIN up : up[k] = n /\ \A j \in 1..k : up[j] # idom(b)
  <2> DEFINE L == dominators(p)
  <2>1. p \in NodeSet(graph) /\ b \in Succs(graph, p) /\ p \in W
    BY <1>3, <1>8 DEF Preds
  <2>2. PICK y \in 1..N, w \in 1..N : b = rpo[y] /\ p = rpo[w]
    BY <1>1, <2>1
  <2>3. y # 1
    <3> SUFFICES ASSUME y = 1 PROVE FALSE
      OBVIOUS
    <3>1. b = entry_node(graph)
      BY <1>1, <2>2 DEF RpoOK
    <3>2. QED
      BY <1>8, <3>1
  <2>4. y \in 2..N /\ dom[y] \in 1..N /\ idom(b) = rpo[dom[y]] /\ SettledAt(graph, rpo, dom, y)
    <3>1. y \in 2..N
      BY <1>1, <2>2, <2>3
    <3>2. QED
      BY <1>1, <1>2, <2>2, <3>1
  <2>5. /\ Up(dom, y) = {y} \cup Up(dom, dom[y]) /\ dom[y] \in 1..(y - 1) /\ dom[y] \in Placed(dom)
        /\ dom[y] \in Up(dom, dom[y])
    BY <1>1, <2>2, <2>3, UpFacts
  <2>6. /\ w \in PredsOf(graph, rpo, dom, y)
        /\ Up(dom, dom[y]) = {z \in Placed(dom) : \A e \in PredsOf(graph, rpo, dom, y) : z \in Up(dom, e)}
    <3>1. w \in PredsOf(graph, rpo, dom, y)
      BY <1>1, <1>8, <2>2 DEF PredsOf
    <3>2. QED
      BY <2>4, <3>1 DEF SettledAt, NearestOf
  <2>7. dom[y] \in Up(dom, w)
    BY <2>5, <2>6
  <2>8. L \in Seq(W) /\ \E q : /\ Chain(dom, q) /\ q[1] = w /\ Len(q) = Len(L)
                               /\ \A t \in 1..Len(q) : L[t] = rpo[q[t]] /\ q[t] \in 1..N
    <3> DEFINE K == dominators(rpo[w])
    <3>1. K \in Seq(W) /\ \E q : /\ Chain(dom, q) /\ q[1] = w /\ Len(q) = Len(K)
                                 /\ \A t \in 1..Len(q) : K[t] = rpo[q[t]] /\ q[t] \in 1..N
      BY ListedDominators
    <3>2. K = L
      BY <2>2
    <3> HIDE DEF K, L, W, N
    <3>3. QED
      BY <3>1, <3>2
  <2> HIDE DEF L, W, N
  <2>9. PICK q : /\ Chain(dom, q) /\ q[1] = w /\ Len(q) = Len(L)
                 /\ \A t \in 1..Len(q) : L[t] = rpo[q[t]] /\ q[t] \in 1..N
    BY <2>8
  <2>10. DOMAIN L = 1..Len(q) /\ Len(q) \in Nat /\ Len(q) >= 1
    BY <2>8, <2>9 DEF Chain
  <2>11. /\ \A t \in 1..Len(q) : q[t] \in Up(dom, w)
         /\ \A z \in Up(dom, w) : \E t \in 1..Len(q) : q[t] = z
         /\ \A s, t \in 1..Len(q) : s < t => q[t] < q[s]
    <3>1. TreeOK(dom, N) /\ Chain(dom, q) /\ q[1] = w
      BY <1>1, <2>9
    <3>2. /\ \A t \in 1..Len(q) : q[t] \in Up(dom, q[1])
          /\ \A z \in Up(dom, q[1]) : \E t \in 1..Len(q) : q[t] = z
          /\ \A s, t \in 1..Len(q) : s < t => q[t] < q[s]
      BY <3>1, ChainLemma
    <3>3. QED
      BY <3>1, <3>2
  <2>12. (DominatesDef(graph, n, p) <=> x \in Up(dom, w)) /\ (DominatesDef(graph, n, b) <=> x \in Up(dom, y))
    BY <1>6, <1>7, <2>2
  <2>13. n # b <=> x # y
    BY <1>4, <1>7, <2>2
  <2>14. \A t \in 1..Len(q) : (L[t] = n <=> q[t] = x) /\ (L[t] = idom(b) <=> q[t] = dom[y])
    BY <1>4, <1>7, <2>4, <2>9
  <2>15. (DominatesDef(graph, n, b) /\ n # b) <=> x \in Up(dom, dom[y])
    <3>1. y \notin Up(dom, dom[y])
      <4>1. y \notin 1..dom[y]
        BY <1>1, <2>4, <2>5
      <4>2. QED
        BY <1>5, <2>4, <4>1
    <3>2. QED
      BY <2>5, <2>12, <2>13, <3>1
  <2>16. ASSUME NEW k \in 1..Len(q), q[k] = x
         PROVE  (\A j \in 1..k : q[j] # dom[y]) <=> x \notin Up(dom, dom[y])
    <3>1. \A j \in 1..k : j \in 1..Len(q)
      BY <2>10
    <3>2. x \in Up(dom, w)
      BY <2>11, <2>16
    <3>3. ASSUME \A j \in 1..k : q[j] # dom[y], x \in Up(dom, dom[y]) PROVE FALSE
      <4>1. PICK j \in 1..Len(q) : q[j] = dom[y]
        BY <2>7, <2>11
      <4>2. k < j
        BY <2>10, <3>3, <4>1
      <4>3. q[j] < q[k]
        BY <2>11, <4>2
      <4>4. dom[y] < x
        BY <2>16, <4>1, <4>3
      <4>5. x \in 1..dom[y] /\ dom[y] \in Nat
        BY <1>5, <2>4, <3>3
      <4>6. QED
        BY <4>4, <4>5
    <3>4. ASSUME NEW j \in 1..k, q[j] = dom[y], x \notin Up(dom, dom[y]) PROVE FALSE
      <4>1. j = k \/ j < k
        BY <2>10
      <4>2. j = k \/ q[k] < q[j]
        BY <2>11, <3>1, <4>1
      <4>3. x <= dom[y]
        <5>1. x \in Nat /\ dom[y] \in Nat
          BY <1>1, <2>4
        <5>2. x = dom[y] \/ x < dom[y]
          BY <2>16, <3>4, <4>2
        <5>3. QED
          BY <5>1, <5>2
      <4>4. w \in Placed(dom)
        BY <1>1, <2>2
      <4>5. x \in Up(dom, dom[y])
        BY <1>1, <2>7, <3>2, <4>3, <4>4, UpChain
      <4>6. QED
        BY <3>4, <4>5
    <3>5. QED
      BY <3>3, <3>4
  <2>17. ASSUME NEW k \in DOMAIN L, L[k] = n, \A j \in 1..k : L[j] # idom(b)
         PROVE  DominatesDef(graph, n, p) /\ ~ (DominatesDef(graph, n, b) /\ n # b)
    <3>1. k \in 1..Len(q) /\ q[k] = x /\ \A j \in 1..k : j \in 1..Len(q)
      BY <2>10, <2>14, <2>17
    <3>2. \A j \in 1..k : q[j] # dom[y]
      BY <2>14, <2>17, <3>1
    <3>3. x \notin Up(dom, dom[y])
      BY <2>16, <3>1, <3>2
    <3>4. x \in Up(dom, w)
      BY <2>11, <3>1
    <3>5. QED
      BY <2>12, <2>15, <3>3, <3>4
  <2>18. ASSUME DominatesDef(graph, n, p), ~ (DominatesDef(graph, n, b) /\ n # b)
         PROVE  num_predecessors(graph, b) >= 2 /\ \E k \in DOMAIN L : L[k] = n /\ \A j \in 1..k : L[j] # idom(b)
    <3>1. x \in Up(dom, w) /\ x \notin Up(dom, dom[y])
      BY <2>12, <2>15, <2>18
    <3>2. PICK k \in 1..Len(q) : q[k] = x
      BY <2>11, <3>1
    <3>3. \A j \in 1..k : q[j] # dom[y]
      BY <2>16, <3>1, <3>2
    <3>4. \A j \in 1..k : j \in 1..Len(q)
      BY <2>10
    <3>5. \E u \in DOMAIN L : L[u] = n /\ \A j \in 1..u : L[j] # idom(b)
      BY <2>10, <2>14, <3>2, <3>3, <3>4
    <3>6. ASSUME ~ (num_predecessors(graph, b) >= 2) PROVE FALSE
      <4>1. \A e \in Preds(graph, b) : e = p
        BY <1>1, <1>8, <3>6, OnePredecessor
      <4>2. \A e \in PredsOf(graph, rpo, dom, y) : e = w
        <5> SUFFICES ASSUME NEW e \in PredsOf(graph, rpo, dom, y) PROVE e = w
          OBVIOUS
        <5>1. e \in 1..N /\ rpo[e] \in Preds(graph, b)
          BY <1>1, <2>2 DEF PredsOf
        <5>2. rpo[e] = rpo[w]
          BY <2>2, <4>1, <5>1
        <5>3. QED
          BY <1>4, <2>2, <5>1, <5>2
      <4>3. x \in Up(dom, dom[y])
        BY <1>1, <2>6, <3>1, <4>2
      <4>4. QED
        BY <3>1, <4>3
    <3>7. QED
      BY <3>5, <3>6
  <2>19. QED
    BY <2>17, <2>18 DEF L
<1>9. \A b \in W : Front1(b) <=> Front2(b)
  <2> SUFFICES ASSUME NEW b \in W PROVE Front1(b) <=> Front2(b)
    OBVIOUS
  <2>1. contains(b)
    BY <1>1 DEF contains
  <2>2. Front1(b) => Front2(b)
    BY <1>8
  <2>3. Front2(b) => Front1(b)
    BY <1>8, <2>1
  <2>4. QED
    BY <2>2, <2>3
<1>10. \A b \in NodeSet(graph) : Front1(b) => b \in W
  BY <1>3
<1>11. frontier(n) = {b \in NodeSet(graph) : Front1(b)}
  BY DEF frontier
<1> HIDE DEF Front1
<1>12. frontier(n) = {b \in W : Front2(b)}
  <2> HIDE DEF Front2, W
  <2>1. QED
    BY <1>1, <1>9, <1>10, <1>11
<1>13. QED
  BY <1>1, <1>12

LEMMA TreeResult == DomInv => UnwrapsSucceed /\ DominatorsCorrect /\ FrontierCorrect
<1>1. DomInv => UnwrapsSucceed /\ FrontierCorrect
  BY UnwrapsResult, FrontierResult
<1>2. DomInv => DominatorsCorrect
  BY DominatorsListed, CommonResult DEF DominatorsCorrect
<1>3. QED
  BY <1>1, <1>2

(***************************************************************************)
(* The walks of the dominator tree and of the loop tree                    *)
(***************************************************************************)

WalksInv == WalkInv /\ DFSInv

\* PostOrder and DFSTraversal, whatever else is done with the graph: what each has found
\* so far, and how it was found.
THEOREM WalksInvariant == LoopSpec => []WalksInv
<1>1. LoopInit => WalksInv
  BY WalkBegins, DFSBegins DEF LoopInit, TreeInit, WalksInv
<1>2. WalksInv /\ [LoopNext]_loopVars => WalksInv'
  <2> SUFFICES ASSUME WalksInv, [LoopNext]_loopVars PROVE WalksInv'
    OBVIOUS
  <2>1. (WalkNext \/ UNCHANGED walkVars) /\ (DFS!Next \/ UNCHANGED <<graph, dfsVars>>)
    <3>1. CASE Dominators
      <4>1. WalkNext \/ UNCHANGED walkVars
        BY <3>1 DEF Dominators, TreeNext, Order, Start, HandleNode, NextPass, BuildTree
      <4>2. graph' = graph
        BY <4>1 DEF WalkNext, StartComponent, VisitSuccessor, FinishNode, walkVars
      <4>3. QED
        BY <3>1, <4>1, <4>2 DEF Dominators
    <3>2. CASE Traverse
      BY <3>2 DEF Traverse
    <3>3. CASE FindLoop
      BY <3>3 DEF FindLoop, domVars, walkVars
    <3>4. CASE UNCHANGED loopVars
      BY <3>4 DEF loopVars, dfsVars, walkVars
    <3>5. QED
      BY <3>1, <3>2, <3>3, <3>4 DEF LoopNext
  <2>2. QED
    BY <2>1, WalkStep, DFSStep DEF WalksInv
<1>3. QED
  BY <1>1, <1>2, PTL DEF LoopSpec

\* traversals.rs: at every moment each node that was seen is placed once; a finished
\* post-order has every node, after its successors but for cycles, and begins with what
\* the entry reaches; and a finished DFSTraversal numbers the reached nodes without gaps
\* and finds as back edges exactly those that close cycles.
THEOREM WalksAreCorrect == LoopSpec => []WalksCorrect
<1>1. WalksInv => WalksCorrect
  BY WalkResult, DFSResult DEF WalksInv, WalksCorrect, TraversalCorrect
<1>2. QED
  BY <1>1, WalksInvariant, PTL

\* compute_dominator_tree, whatever is done with its result: a tree over positions in which
\* every strict dominator of a node dominates its parent, from the first pass on, and
\* which is settled when a pass changes nothing.
THEOREM DominatorsInvariant == LoopSpec => []DomInv
<1>1. LoopInit => DomInv
  BY DomBegins DEF LoopInit
<1>2. DomInv /\ [LoopNext]_loopVars => DomInv'
  <2> SUFFICES ASSUME DomInv, [LoopNext]_loopVars PROVE DomInv'
    OBVIOUS
  <2>1. TreeNext \/ UNCHANGED domVars
    BY DEF LoopNext, Dominators, Traverse, FindLoop, loopVars, domVars, treeVars, walkVars
  <2>2. QED
    BY <2>1, DomStep
<1>3. QED
  BY <1>1, <1>2, PTL DEF LoopSpec

\* dominance.rs: no unwrap fails, the passes build a tree whose queries answer as the
\* definition of dominance by paths does, nearest_common_dominator is the nearest, and the
\* frontier is the set of its definition; at every moment, and on every graph.
THEOREM TreesAreCorrect == LoopSpec => [](TreeCorrect /\ UnwrapsSucceed /\ DominatorsCorrect /\ FrontierCorrect)
<1>1. DomInv => TreeCorrect /\ UnwrapsSucceed /\ DominatorsCorrect /\ FrontierCorrect
  BY TreeResult DEF TreeCorrect
<1>2. QED
  BY <1>1, DominatorsInvariant, PTL

(***************************************************************************)
(* The body of a loop                                                      *)
(***************************************************************************)

\* What the walk backward goes to from a block or loop.
BodyPreds(header, x) == {loop_ancestor(p) : p \in {q \in Preds(graph, entry_of(x)) : q # header /\ contains(q)}}

\* B is the least set with the latches that has with a member those before it.
IsBody(header, latches, B) ==
    /\ \A l \in latches \ {header} : loop_ancestor(l) \in B
    /\ \A x \in B : BodyPreds(header, x) \subseteq B
    /\ \A S : (\A l \in latches \ {header} : loop_ancestor(l) \in S) /\ (\A x \in S : BodyPreds(header, x) \subseteq S)
                 => B \subseteq S

\* As many rounds as the graph has nodes are enough for the walk of BodyOf.
LEMMA BodyWalk ==
    ASSUME IsGraph(graph), DOMAIN dominators_map \subseteq NodeSet(graph), NEW header,
           NEW latches \in SUBSET DOMAIN dominators_map
    PROVE  \E B : IsBody(header, latches, B) /\ BodyOf(header, latches) = B \cup {<<"block", header>>}
<1> DEFINE W == DOMAIN dominators_map
           U == {loop_ancestor(v) : v \in W}
           m == Len(graph.nodes)
           D == SUBSET U
           R(x) == BodyPreds(header, x)
           More(X) == X \cup UNION {R(x) : x \in X}
           G == [X \in D |-> More(X)]
           B == {loop_ancestor(l) : l \in latches \ {header}}
           preds(x) == {loop_ancestor(p) : p \in {q \in Preds(graph, entry_of(x)) : q # header /\ contains(q)}}
           Is(f) == f = [k \in 0..m |-> IF k = 0 THEN {loop_ancestor(l) : l \in latches \ {header}}
                                        ELSE f[k - 1] \cup UNION {preds(x) : x \in f[k - 1]}]
           F == CHOOSE f : Is(f)
<1>1. m \in Nat /\ IsFiniteSet(U) /\ Cardinality(U) \in Nat /\ Cardinality(U) <= m
  <2>1. m \in Nat /\ IsFiniteSet(NodeSet(graph)) /\ Cardinality(NodeSet(graph)) = m
    BY GraphLemma
  <2>2. IsFiniteSet(W) /\ Cardinality(W) <= m
    BY <2>1, FS_Subset
  <2> DEFINE h == [v \in W |-> loop_ancestor(v)]
  <2>3. h \in Surjection(W, U)
    BY DEF Surjection
  <2> HIDE DEF h, W, U
  <2>4. IsFiniteSet(U) /\ Cardinality(U) <= Cardinality(W)
    BY <2>2, <2>3, FS_Surjection
  <2>5. Cardinality(U) \in Nat /\ Cardinality(W) \in Nat
    BY <2>2, <2>4, FS_CardinalityType
  <2> HIDE DEF m
  <2>6. QED
    BY <2>1, <2>2, <2>4, <2>5
<1>2. BodyOf(header, latches) = F[m] \cup {<<"block", header>>}
  BY Zenon DEF BodyOf
<1>3. \A x : R(x) \subseteq U /\ preds(x) = R(x)
  BY DEF contains, BodyPreds
<1>4. B \in D /\ G \in [D -> D] /\ \A X \in D : G[X] = More(X) /\ X \subseteq G[X]
  <2> HIDE DEF R, U
  <2>1. \A X \in D : More(X) \in D
    BY <1>3
  <2>2. G \in [D -> D] /\ \A X \in D : G[X] = More(X) /\ X \subseteq G[X]
    BY <2>1
  <2>3. B \in D
    BY DEF U
  <2>4. QED
    BY <2>2, <2>3
<1>5. Is(F)
  <2>1. PICK f : Iterates(D, G, B, m, f)
    <3> HIDE DEF D, G, B, m
    <3>1. QED
      BY <1>1, <1>4, IterationExists
  <2>2. f \in [0..m -> D] /\ f[0] = B /\ \A k \in 1..m : f[k] = G[f[k - 1]]
    BY <2>1 DEF Iterates
  <2>3. \A k \in 1..m : f[k] = More(f[k - 1])
    <3> HIDE DEF G, More, m
    <3>1. \A k \in 1..m : f[k - 1] \in D
      BY <1>1, <2>2
    <3>2. QED
      BY <1>4, <2>2, <3>1
  <2>4. Is(f)
    <3>1. f = [k \in 0..m |-> f[k]]
      BY <2>2
    <3>2. ASSUME NEW k \in 0..m
          PROVE  f[k] = IF k = 0 THEN {loop_ancestor(l) : l \in latches \ {header}}
                        ELSE f[k - 1] \cup UNION {preds(x) : x \in f[k - 1]}
      <4>1. k # 0 => k \in 1..m
        BY <1>1
      <4>2. UNION {preds(x) : x \in f[k - 1]} = UNION {R(x) : x \in f[k - 1]}
        <5> HIDE DEF preds, R
        <5>1. QED
          BY <1>3
      <4> HIDE DEF preds, R
      <4>3. QED
        BY <2>2, <2>3, <4>1, <4>2
    <3>3. QED
      BY <3>1, <3>2, Zenon
  <2> HIDE DEF Is
  <2>5. QED
    BY <2>4
<1>6. /\ F[0] = B /\ \A k \in 1..m : F[k] = More(F[k - 1])
  <2> HIDE DEF F
  <2>1. 0 \in 0..m /\ \A k \in 1..m : k \in 0..m /\ k # 0
    BY <1>1
  <2>2. \A k \in 1..m : F[k] = F[k - 1] \cup UNION {preds(x) : x \in F[k - 1]}
    BY <1>5, <2>1
  <2>3. F[0] = B
    BY <1>5, <2>1
  <2>4. \A X : UNION {preds(x) : x \in X} = UNION {R(x) : x \in X}
    <3> HIDE DEF preds, R
    <3>1. QED
      BY <1>3
  <2> HIDE DEF preds, R, Is, B
  <2>5. QED
    BY <2>2, <2>3, <2>4
<1> HIDE DEF F, Is, m, preds, R
<1>7. \A k \in 0..m : F[k] \in D
  <2> DEFINE P == {k \in 0..m : F[k] \in D}
  <2>1. 0 \in P
    BY <1>1, <1>4, <1>6
  <2>2. ASSUME NEW k \in 0..m, k < m, k \in P PROVE k + 1 \in P
    <3>1. k + 1 \in 1..m /\ (k + 1) - 1 = k /\ F[k] \in D /\ k + 1 \in 0..m
      BY <1>1, <2>2
    <3>2. F[k + 1] = More(F[k]) /\ More(F[k]) \in D
      <4> HIDE DEF D, More
      <4>1. QED
        BY <1>4, <1>6, <3>1
    <3>3. QED
      BY <3>1, <3>2
  <2>3. 0..m \subseteq P
    <3> HIDE DEF P
    <3>1. QED
      BY <1>1, <2>1, <2>2, UpTo
  <2>4. QED
    BY <2>3
<1>8. ASSUME NEW S, B \subseteq S, \A x \in S : R(x) \subseteq S PROVE F[m] \subseteq S
  <2> DEFINE P == {k \in 0..m : F[k] \subseteq S}
  <2>1. 0 \in P
    BY <1>1, <1>6, <1>8
  <2>2. ASSUME NEW k \in 0..m, k < m, k \in P PROVE k + 1 \in P
    <3>1. k + 1 \in 1..m /\ (k + 1) - 1 = k /\ F[k] \subseteq S /\ k + 1 \in 0..m
      BY <1>1, <2>2
    <3>2. F[k + 1] = More(F[k])
      <4> HIDE DEF More
      <4>1. QED
        BY <1>6, <3>1
    <3>3. More(F[k]) \subseteq S
      BY <1>8, <3>1
    <3>4. QED
      BY <3>1, <3>2, <3>3
  <2>3. 0..m \subseteq P
    <3> HIDE DEF P
    <3>1. QED
      BY <1>1, <2>1, <2>2, UpTo
  <2>4. m \in 0..m
    BY <1>1
  <2>5. QED
    BY <2>3, <2>4
<1>9. \A k \in 0..m : B \subseteq F[k]
  <2> DEFINE P == {k \in 0..m : B \subseteq F[k]}
  <2>1. 0 \in P
    BY <1>1, <1>6
  <2>2. ASSUME NEW k \in 0..m, k < m, k \in P PROVE k + 1 \in P
    <3>1. k + 1 \in 1..m /\ (k + 1) - 1 = k /\ B \subseteq F[k] /\ k + 1 \in 0..m
      BY <1>1, <2>2
    <3>2. F[k + 1] = More(F[k])
      <4> HIDE DEF More
      <4>1. QED
        BY <1>6, <3>1
    <3>3. QED
      BY <3>1, <3>2
  <2>3. 0..m \subseteq P
    <3> HIDE DEF P
    <3>1. QED
      BY <1>1, <2>1, <2>2, UpTo
  <2>4. QED
    BY <2>3
<1> HIDE DEF B
<1>10. \A k \in 0..m : IsFiniteSet(F[k]) /\ Cardinality(F[k]) \in Nat /\ Cardinality(F[k]) <= m
  <2> SUFFICES ASSUME NEW k \in 0..m PROVE IsFiniteSet(F[k]) /\ Cardinality(F[k]) \in Nat /\ Cardinality(F[k]) <= m
    OBVIOUS
  <2>1. F[k] \in SUBSET U
    BY <1>7
  <2> HIDE DEF U
  <2>2. IsFiniteSet(F[k]) /\ Cardinality(F[k]) <= Cardinality(U)
    BY <1>1, <2>1, FS_Subset
  <2>3. Cardinality(F[k]) \in Nat
    BY <2>2, FS_CardinalityType
  <2>4. QED
    BY <1>1, <2>2, <2>3
\* As long as a round adds something, there is one element more for each.
<1>11. \A k \in 0..m : More(F[k]) = F[k] \/ Cardinality(F[k]) >= k + 1
  <2> DEFINE P == {k \in 0..m : More(F[k]) = F[k] \/ Cardinality(F[k]) >= k + 1}
  <2>1. 0 \in P
    <3>1. 0 \in 0..m
      BY <1>1
    <3>2. CASE F[0] = {}
      <4>1. More(F[0]) = F[0]
        BY <3>2
      <4>2. QED
        BY <3>1, <4>1
    <3>3. CASE F[0] # {}
      <4>1. Cardinality(F[0]) # 0
        BY <1>10, <3>1, <3>3, FS_EmptySet
      <4>2. Cardinality(F[0]) >= 0 + 1
        BY <1>10, <3>1, <4>1
      <4>3. QED
        BY <3>1, <4>2
    <3>4. QED
      BY <3>2, <3>3
  <2>2. ASSUME NEW k \in 0..m, k < m, k \in P PROVE k + 1 \in P
    <3>1. k + 1 \in 1..m /\ (k + 1) - 1 = k /\ k + 1 \in 0..m /\ k \in Nat
      BY <1>1, <2>2
    <3>2. F[k + 1] = More(F[k])
      <4> HIDE DEF More
      <4>1. QED
        BY <1>6, <3>1
    <3>3. CASE More(F[k]) = F[k]
      BY <3>1, <3>2, <3>3, Zenon
    <3>4. CASE More(F[k]) # F[k]
      <4>1. F[k] \subseteq F[k + 1] /\ F[k + 1] # F[k] /\ F[k] \in SUBSET F[k + 1]
        BY <3>2, <3>4
      <4>2. Cardinality(F[k]) <= Cardinality(F[k + 1]) /\ Cardinality(F[k + 1]) # Cardinality(F[k])
        BY <1>10, <3>1, <4>1, FS_Subset
      <4>3. Cardinality(F[k]) >= k + 1
        BY <2>2, <3>4
      <4>4. Cardinality(F[k + 1]) >= (k + 1) + 1
        BY <1>10, <3>1, <4>2, <4>3
      <4>5. QED
        BY <3>1, <4>4
    <3>5. QED
      BY <3>3, <3>4
  <2>3. 0..m \subseteq P
    <3> HIDE DEF P
    <3>1. QED
      BY <1>1, <2>1, <2>2, UpTo
  <2>4. QED
    BY <2>3
<1>12. More(F[m]) = F[m]
  <2>1. m \in 0..m
    BY <1>1
  <2>2. QED
    BY <1>1, <1>10, <1>11, <2>1
<1>13. \A x \in F[m] : R(x) \subseteq F[m]
  <2>1. \A x \in F[m] : R(x) \subseteq More(F[m])
    OBVIOUS
  <2>2. QED
    BY <1>12, <2>1
<1>14. B \subseteq F[m]
  BY <1>1, <1>9
<1>15. IsBody(header, latches, F[m])
  <2>1. \A l \in latches \ {header} : loop_ancestor(l) \in F[m]
    BY <1>14 DEF B
  <2>2. \A x \in F[m] : BodyPreds(header, x) \subseteq F[m]
    BY <1>13 DEF R
  <2>3. ASSUME NEW S, \A l \in latches \ {header} : loop_ancestor(l) \in S,
               \A x \in S : BodyPreds(header, x) \subseteq S
        PROVE  F[m] \subseteq S
    <3>1. B \subseteq S /\ \A x \in S : R(x) \subseteq S
      BY <2>3 DEF B, R
    <3>2. QED
      BY <1>8, <3>1
  <2>4. QED
    BY <2>1, <2>2, <2>3 DEF IsBody
<1>16. QED
  BY <1>2, <1>15

(***************************************************************************)
(* Natural loops                                                           *)
(***************************************************************************)

\* The sources of the back edges to h, among the nodes W.
LatchesDef(g, W, h) == {l \in W : h \in Succs(g, l) /\ DominatesDef(g, h, l)}

\* The natural loop of h: h, and what reaches a latch without passing h.
Natural(g, W, h) ==
    {h} \cup {n \in W : \E l \in ReachAvoiding(g, {n}, {h}) : h \in Succs(g, l) /\ DominatesDef(g, h, l)}

\* Its members are dominated by h; it is entered by h only; and it is the least set with the
\* latches that is closed backward up to h.
LEMMA NaturalFacts ==
    ASSUME NEW g, IsGraph(g), NEW W, W = Reach(g, entry_node(g)), NEW h \in W
    PROVE  /\ h \in Natural(g, W, h) /\ Natural(g, W, h) \subseteq W
           /\ LatchesDef(g, W, h) \subseteq Natural(g, W, h)
           /\ \A n \in W : \A s \in Succs(g, n) : s \in Natural(g, W, h) /\ s # h => n \in Natural(g, W, h)
           /\ \A n \in Natural(g, W, h) : DominatesDef(g, h, n)
           /\ \A S : LatchesDef(g, W, h) \ {h} \subseteq S
                       /\ (\A n \in W : \A s \in Succs(g, n) : s \in S /\ s # h /\ n # h => n \in S)
                    => Natural(g, W, h) \ {h} \subseteq S
<1> DEFINE N == Natural(g, W, h)
           RA(n) == ReachAvoiding(g, {n}, {h})
           Latch(l) == h \in Succs(g, l) /\ DominatesDef(g, h, l)
<1>1. /\ W \subseteq NodeSet(g) /\ entry_node(g) \in W /\ \A n \in W : Succs(g, n) \subseteq W
  BY GraphLemma, ReachFacts
<1>2. ASSUME NEW n \in W
      PROVE  /\ RA(n) \subseteq NodeSet(g) \ {h} /\ (n # h => n \in RA(n))
             /\ \A u \in RA(n) : Succs(g, u) \ {h} \subseteq RA(n)
             /\ \A S : (n # h => n \in S) /\ (\A u \in S : Succs(g, u) \ {h} \subseteq S) => RA(n) \subseteq S
  <2>1. IsReach(g, {n}, {h}, RA(n))
    <3>1. {n} \in SUBSET NodeSet(g)
      BY <1>1
    <3>2. QED
      BY <3>1, ReachLemma
  <2>2. /\ {n} \ {h} \subseteq RA(n) /\ RA(n) \subseteq NodeSet(g) \ {h} /\ \A u \in RA(n) : Succs(g, u) \ {h} \subseteq RA(n)
        /\ \A S : {n} \ {h} \subseteq S /\ (\A u \in S : Succs(g, u) \ {h} \subseteq S) => RA(n) \subseteq S
    BY <2>1, Zenon DEF IsReach, ClosedSet
  <2>3. QED
    BY <2>2
<1>3. ASSUME NEW n \in W PROVE RA(n) \subseteq W
  BY <1>1, <1>2
<1>4. N = {h} \cup {n \in W : \E l \in RA(n) : Latch(l)} /\ LatchesDef(g, W, h) = {l \in W : Latch(l)}
  BY DEF Natural, LatchesDef
<1>5. DominatesDef(g, h, h) /\ \A n \in W : DominatesDef(g, h, n) <=> n \notin RA(entry_node(g))
  BY <1>1, DominatesFacts DEF DominatesDef
<1> HIDE DEF RA, Latch, N
<1>6. h \in N /\ N \subseteq W
  BY <1>4
<1>7. LatchesDef(g, W, h) \subseteq N
  <2>1. ASSUME NEW l \in W, Latch(l), l # h PROVE l \in N
    BY <1>2, <1>4, <2>1
  <2>2. QED
    BY <1>4, <1>6, <2>1
<1>8. ASSUME NEW n \in W, NEW s \in Succs(g, n), s \in N, s # h PROVE n \in N
  <2>1. CASE n = h
    BY <1>6, <2>1
  <2>2. CASE n # h
    <3>1. s \in W
      BY <1>1
    <3>2. PICK l \in RA(s) : Latch(l)
      BY <1>4, <1>8
    <3>3. s \in RA(n)
      BY <1>2, <1>8, <2>2
    <3>4. RA(s) \subseteq RA(n)
      BY <1>2, <3>1, <3>3
    <3>5. QED
      BY <1>4, <3>2, <3>4
  <2>3. QED
    BY <2>1, <2>2
<1>9. ASSUME NEW n \in N PROVE DominatesDef(g, h, n)
  <2>1. CASE n = h
    BY <1>5, <2>1
  <2>2. CASE n # h
    <3>1. n \in W
      BY <1>6
    <3>2. PICK l \in RA(n) : Latch(l)
      BY <1>4, <2>2
    <3>3. l \in W /\ l \notin RA(entry_node(g))
      BY <1>3, <1>5, <3>1, <3>2 DEF Latch
    <3>4. n \in RA(entry_node(g)) => RA(n) \subseteq RA(entry_node(g))
      BY <1>1, <1>2, <3>1
    <3>5. QED
      BY <1>5, <3>1, <3>2, <3>3, <3>4
  <2>3. QED
    BY <2>1, <2>2
<1>10. ASSUME NEW S, LatchesDef(g, W, h) \ {h} \subseteq S,
              \A n \in W : \A s \in Succs(g, n) : s \in S /\ s # h /\ n # h => n \in S
       PROVE  N \ {h} \subseteq S
  <2> SUFFICES ASSUME NEW n \in N \ {h}, n \notin S PROVE FALSE
    OBVIOUS
  <2> DEFINE X == {u \in W : u # h /\ u \notin S}
  <2>1. n \in W /\ n # h
    BY <1>6
  <2>2. PICK l \in RA(n) : Latch(l)
    BY <1>4
  <2>3. \A u \in X : Succs(g, u) \ {h} \subseteq X
    BY <1>1, <1>10
  <2>4. n \in X
    BY <2>1
  <2>5. RA(n) \subseteq X
    <3> HIDE DEF X
    <3>1. QED
      BY <1>2, <2>1, <2>3, <2>4
  <2>6. l \in W /\ l # h /\ l \notin S
    BY <2>2, <2>5
  <2>7. l \in LatchesDef(g, W, h)
    BY <1>4, <2>2, <2>6
  <2>8. QED
    BY <1>10, <2>6, <2>7
<1>11. QED
  BY <1>6, <1>7, <1>8, <1>9, <1>10 DEF N

\* Of two natural loops, one whose header is not in the other and which shares a node with
\* it lies inside of it, without the other's header.
LEMMA NaturalNested ==
    ASSUME NEW g, IsGraph(g), NEW W, W = Reach(g, entry_node(g)), NEW h \in W, NEW k \in W,
           h \notin Natural(g, W, k), NEW p \in Natural(g, W, k), p \in Natural(g, W, h)
    PROVE  Natural(g, W, k) \subseteq Natural(g, W, h) \ {h}
<1> DEFINE N == Natural(g, W, h)
           K == Natural(g, W, k)
<1>1. /\ W \subseteq NodeSet(g) /\ entry_node(g) \in W /\ \A n \in W : Succs(g, n) \subseteq W
      /\ \A S : entry_node(g) \in S /\ (\A u \in S : Succs(g, u) \subseteq S) => W \subseteq S
  BY GraphLemma, ReachFacts
<1>2. /\ h \in N /\ N \subseteq W
      /\ \A n \in W : \A s \in Succs(g, n) : s \in N /\ s # h => n \in N
  BY NaturalFacts
<1>3. /\ k \in K /\ K \subseteq W /\ LatchesDef(g, W, k) \subseteq K
      /\ \A n \in W : \A s \in Succs(g, n) : s \in K /\ s # k => n \in K
      /\ \A n \in K : DominatesDef(g, k, n)
      /\ \A S : LatchesDef(g, W, k) \ {k} \subseteq S
                  /\ (\A n \in W : \A s \in Succs(g, n) : s \in S /\ s # k /\ n # k => n \in S)
               => K \ {k} \subseteq S
  BY NaturalFacts
<1>4. DominatesDef(g, k, entry_node(g)) => k = entry_node(g)
  BY DominatesFacts
<1>5. h \notin K /\ p \in K /\ p \in N
  OBVIOUS
<1> HIDE DEF N, K
\* Otherwise what the two have in common is closed backward, and the entry is not in it.
<1>6. k \in N
  <2> SUFFICES ASSUME k \notin N PROVE FALSE
    OBVIOUS
  <2> DEFINE X == N \cap K
             Y == W \ X
  <2>1. entry_node(g) \notin X
    BY <1>3, <1>4
  <2>2. ASSUME NEW n \in Y, NEW s \in Succs(g, n), s \in X PROVE FALSE
    <3>1. n \in W /\ s # h /\ s # k
      BY <1>5, <2>2
    <3>2. QED
      BY <1>2, <1>3, <2>2, <3>1
  <2>3. \A u \in Y : Succs(g, u) \subseteq Y
    BY <1>1, <2>2
  <2>4. W \subseteq Y
    <3>1. entry_node(g) \in Y
      BY <1>1, <2>1
    <3> HIDE DEF Y
    <3>2. QED
      BY <1>1, <2>3, <3>1
  <2>5. QED
    BY <1>2, <1>5, <2>4
<1>7. K \ {k} \subseteq N \cap K
  <2> DEFINE S == N \cap K
  <2>1. LatchesDef(g, W, k) \ {k} \subseteq S
    <3>1. ASSUME NEW l \in LatchesDef(g, W, k) PROVE l \in S
      <4>1. l \in K /\ l \in W /\ k \in Succs(g, l) /\ k # h
        BY <1>3, <1>5 DEF LatchesDef
      <4>2. QED
        BY <1>2, <1>6, <4>1
    <3>2. QED
      BY <3>1
  <2>2. \A n \in W : \A s \in Succs(g, n) : s \in S /\ s # k /\ n # k => n \in S
    BY <1>2, <1>3, <1>5
  <2> HIDE DEF S
  <2>3. K \ {k} \subseteq S
    BY <1>3, <2>1, <2>2
  <2>4. QED
    BY <2>3 DEF S
<1>8. K \subseteq N \ {h}
  BY <1>5, <1>6, <1>7
<1>9. QED
  BY <1>8 DEF N, K

(***************************************************************************)
(* Post-order numbers and dominance                                        *)
(***************************************************************************)

\* The walk begins at the entry, and a node that was left was found from a node that is
\* left later.
ParentsLater(g, pre, post, st) ==
    /\ Len(st) # 0 => st[1][1] = entry_node(g)
    /\ \A n \in Left(pre, st) : n # entry_node(g) =>
          \E p \in DOMAIN pre : n \in Succs(g, p) /\ (p \in Left(pre, st) => post[p] > post[n])

LaterInv == ParentsLater(graph, pre_order_number, post_order_number, dfs_stack)

LEMMA LaterBegins == DFS!Init => LaterInv
<1> SUFFICES ASSUME DFS!Init PROVE LaterInv
  OBVIOUS
<1> DEFINE e == entry_node(graph)
           st == <<<<e, 1>>>>
           f == [n \in {e} |-> 0]
<1>1. dfs_stack = st /\ pre_order_number = f
  BY SameOperators DEF DFS!Init
<1>2. Len(st) = 1 /\ st[1][1] = e /\ DOMAIN f = {e} /\ \A j \in 1..1 : j = 1
  OBVIOUS
<1> HIDE DEF st, f, e
<1>3. \A n \in Left(f, st) : n = e
  BY <1>2 DEF Left
<1>4. QED
  BY <1>1, <1>2, <1>3 DEF LaterInv, ParentsLater, e

LEMMA LaterVisit == DFSInv /\ LaterInv /\ DFS!VisitSuccessor => LaterInv'
<1> SUFFICES ASSUME DFSInv, LaterInv, DFS!VisitSuccessor PROVE LaterInv'
  OBVIOUS
<1> DEFINE l == Len(dfs_stack)
           k == dfs_stack[l][2]
           u == graph.succ[dfs_stack[l][1]][k]
           P == DOMAIN pre_order_number
           a == Advance(dfs_stack)
           L == Left(pre_order_number, dfs_stack)
           e == entry_node(graph)
<1>1. /\ dfs_stack # <<>> /\ graph' = graph
      /\ u \in P => /\ dfs_stack' = a /\ pre_order_number' = pre_order_number
                    /\ post_order_number' = post_order_number
      /\ u \notin P => /\ dfs_stack' = Append(a, <<u, 1>>)
                       /\ pre_order_number' = DFS!WithNode(pre_order_number, u, pre_order_counter)
                       /\ post_order_number' = DFS!WithNode(post_order_number, u, 0)
  BY DEF DFS!VisitSuccessor, DFS!Done, DFS!TopNode, DFS!TopIndex, DFS!Bumped, DFS!Discovered, Advance
<1>2. l # 0 /\ dfs_stack \in Seq(NodeSet(graph) \X Nat) /\ l \in Nat /\ IsGraph(graph)
  BY <1>1, DFSFacts
<1>3. /\ a \in Seq(NodeSet(graph) \X Nat) /\ Len(a) = l /\ \A i \in 1..l : a[i][1] = dfs_stack[i][1]
  BY <1>2, AdvanceLemma DEF Advanced
<1>4. /\ DOMAIN post_order_number = P /\ \A i \in 1..l : dfs_stack[i][1] \in P
      /\ StackOK(graph, dfs_stack, P)
  BY DEF DFSInv, NumbersOK, StackOK
<1>5. /\ dfs_stack[1][1] = e
      /\ \A n \in L : n # e => \E p \in P : n \in Succs(graph, p) /\ (p \in L => post_order_number[p] > post_order_number[n])
  BY <1>2 DEF LaterInv, ParentsLater
<1>6. L \subseteq P
  BY DEF Left
<1>7. 1 \in 1..l
  BY <1>2
<1>8. CASE u \in P
  <2>1. Left(pre_order_number, a) = L
    BY <1>3 DEF Left
  <2> HIDE DEF a, L, P, e, u
  <2>2. ParentsLater(graph, pre_order_number, post_order_number, a)
    BY <1>3, <1>5, <1>7, <2>1 DEF ParentsLater, e, P
  <2>3. QED
    BY <1>1, <1>8, <2>2 DEF LaterInv
<1>9. CASE u \notin P
  <2> DEFINE t == Append(a, <<u, 1>>)
             pre == DFS!WithNode(pre_order_number, u, pre_order_counter)
             post == DFS!WithNode(post_order_number, u, 0)
  <2>1. u \in NodeSet(graph)
    <3>1. k <= Len(graph.succ[dfs_stack[l][1]])
      BY DEF DFS!VisitSuccessor, DFS!TopNode, DFS!TopIndex
    <3>2. QED
      BY <1>2, <1>4, <1>9, <3>1, StackPush
  <2>2. /\ DOMAIN pre = P \cup {u} /\ \A x \in P : post[x] = post_order_number[x]
    <3> HIDE DEF u
    <3>1. QED
      BY <1>4, <1>9 DEF DFS!WithNode
  <2>3. Len(t) = l + 1 /\ t[l + 1] = <<u, 1>> /\ \A i \in 1..l : t[i] = a[i]
    <3> DEFINE E == NodeSet(graph) \X Nat
    <3>1. <<u, 1>> \in E /\ a \in Seq(E)
      BY <1>3, <2>1
    <3> HIDE DEF E, a, u, l
    <3>2. QED
      BY <1>3, <3>1, AppendProperties
  <2> HIDE DEF a, u, l, t, pre, post
  <2>4. /\ t[l + 1][1] = u /\ \A i \in 1..l : t[i][1] = dfs_stack[i][1] /\ i \in 1..(l + 1)
        /\ \A i \in 1..(l + 1) : i \in 1..l \/ i = l + 1
        /\ l + 1 \in 1..(l + 1)
    BY <1>2, <1>3, <2>3
  <2>5. Left(pre, t) = L
    <3>1. \A n \in Left(pre, t) : n # u /\ n \in P
      BY <2>2, <2>3, <2>4 DEF Left
    <3>2. QED
      BY <1>4, <1>9, <2>2, <2>3, <2>4, <3>1 DEF Left, l
  <2>6. ParentsLater(graph, pre, post, t)
    <3>1. t[1][1] = e
      BY <1>5, <1>7, <2>4
    <3>2. ASSUME NEW n \in L, n # e
          PROVE  \E p \in DOMAIN pre : n \in Succs(graph, p) /\ (p \in L => post[p] > post[n])
      <4>1. PICK p \in P : n \in Succs(graph, p) /\ (p \in L => post_order_number[p] > post_order_number[n])
        BY <1>5, <3>2
      <4>2. p \in DOMAIN pre /\ post[p] = post_order_number[p] /\ post[n] = post_order_number[n]
        BY <1>6, <2>2
      <4>3. QED
        BY <4>1, <4>2
    <3>3. QED
      BY <2>5, <3>1, <3>2 DEF ParentsLater
  <2>7. dfs_stack' = t /\ pre_order_number' = pre /\ post_order_number' = post
    BY <1>1, <1>9 DEF t, pre, post
  <2>8. QED
    BY <1>1, <2>6, <2>7 DEF LaterInv
<1>10. QED
  BY <1>8, <1>9

LEMMA LaterFinish == DFSInv /\ LaterInv /\ DFS!FinishNode => LaterInv'
<1> SUFFICES ASSUME DFSInv, LaterInv, DFS!FinishNode PROVE LaterInv'
  OBVIOUS
<1> DEFINE l == Len(dfs_stack)
           u == dfs_stack[l][1]
           P == DOMAIN pre_order_number
           t == Front(dfs_stack)
           L == Left(pre_order_number, dfs_stack)
           M == Left(pre_order_number, t)
           e == entry_node(graph)
           d == post_order_counter
           post == [post_order_number EXCEPT ![u] = d]
<1>1. /\ dfs_stack # <<>> /\ graph' = graph /\ pre_order_number' = pre_order_number
      /\ post_order_number' = post /\ dfs_stack' = t
  BY SameOperators DEF DFS!FinishNode, DFS!Done, DFS!TopNode, DFS!TopIndex
<1>2. l # 0 /\ dfs_stack \in Seq(NodeSet(graph) \X Nat) /\ l \in Nat /\ IsGraph(graph)
  BY <1>1, DFSFacts
<1>3. /\ DOMAIN post_order_number = P /\ \A i \in 1..l : dfs_stack[i][1] \in P
      /\ StackOK(graph, dfs_stack, P) /\ \A n \in L : post_order_number[n] \in 0..(d - 1)
      /\ d \in Nat
      /\ \A i \in 1..(l - 1) : dfs_stack[i][2] >= 2 /\ dfs_stack[i + 1][1] = graph.succ[dfs_stack[i][1]][dfs_stack[i][2] - 1]
      /\ \A i \in 1..l : dfs_stack[i][2] \in 1..(Len(graph.succ[dfs_stack[i][1]]) + 1)
      /\ \A i, j \in 1..l : dfs_stack[i][1] = dfs_stack[j][1] => i = j
      /\ P \subseteq NodeSet(graph)
  BY DEF DFSInv, NumbersOK, StackOK
<1>4. /\ dfs_stack[1][1] = e
      /\ \A n \in L : n # e => \E p \in P : n \in Succs(graph, p) /\ (p \in L => post_order_number[p] > post_order_number[n])
  BY <1>2 DEF LaterInv, ParentsLater
<1>5. Len(t) = l - 1 /\ \A i \in 1..(l - 1) : t[i] = dfs_stack[i]
  BY <1>2, <1>3, StackPop
<1>6. u \in P /\ post[u] = d /\ \A x \in P : x # u => post[x] = post_order_number[x]
  <2>1. l \in 1..l
    BY <1>2
  <2>2. QED
    BY <1>3, <2>1
<1> HIDE DEF post
<1>7. u \notin L /\ M = L \cup {u} /\ L \subseteq P
  <2>1. l \in 1..l /\ (\A i \in 1..(l - 1) : i \in 1..l /\ i # l) /\ \A i \in 1..l : i = l \/ i \in 1..(l - 1)
    BY <1>2
  <2>2. L = {n \in P : \A j \in 1..l : dfs_stack[j][1] # n} /\ M = {n \in P : \A j \in 1..(l - 1) : dfs_stack[j][1] # n}
    BY <1>5 DEF Left
  <2>3. u = dfs_stack[l][1]
    OBVIOUS
  <2> HIDE DEF L, M, P, u, l
  <2>4. u \notin L /\ L \subseteq P /\ u \in M
    BY <1>3, <1>6, <2>1, <2>2, <2>3
  <2>5. M \subseteq L \cup {u} /\ L \subseteq M
    BY <2>1, <2>2, <2>3
  <2>6. QED
    BY <2>4, <2>5
<1>8. u # e => \E p \in P : p # u /\ u \in Succs(graph, p) /\ p \notin L
  <2> SUFFICES ASSUME u # e PROVE \E p \in P : p # u /\ u \in Succs(graph, p) /\ p \notin L
    OBVIOUS
  <2> DEFINE i == l - 1
             p == dfs_stack[i][1]
             j == dfs_stack[i][2] - 1
  <2>1. l # 1
    BY <1>4
  <2>2. i \in 1..(l - 1) /\ i \in 1..l /\ i + 1 = l /\ l \in 1..l /\ i # l
    <3>1. l \in Nat /\ l # 0 /\ l # 1
      BY <1>2, <2>1
    <3> HIDE DEF l
    <3>2. QED
      BY <3>1
  <2>3. p \in P /\ p # u /\ u = graph.succ[p][j] /\ p \in NodeSet(graph)
    BY <1>3, <2>2
  <2>4. Len(graph.succ[p]) \in Nat
    BY <1>2, <2>3, GraphLemma
  <2>5. dfs_stack[i][2] >= 2 /\ dfs_stack[i][2] \in 1..(Len(graph.succ[p]) + 1)
    BY <1>3, <2>2
  <2>6. j \in 1..Len(graph.succ[p])
    <3> DEFINE x == dfs_stack[i][2]
               y == Len(graph.succ[p])
    <3>1. x >= 2 /\ x \in 1..(y + 1) /\ y \in Nat
      BY <2>4, <2>5
    <3> HIDE DEF x, y
    <3>2. x - 1 \in 1..y
      BY <3>1
    <3>3. QED
      BY <3>2 DEF x, y
  <2>7. u \in Succs(graph, p)
    <3> HIDE DEF j, p, u
    <3>1. QED
      BY <1>2, <2>3, <2>6, GraphLemma
  <2>8. p \notin L
    BY <2>2 DEF Left
  <2>9. QED
    BY <2>3, <2>7, <2>8
<1>9. 1 \in 1..(l - 1) \/ l = 1
  <2>1. l \in Nat /\ l # 0
    BY <1>2
  <2> HIDE DEF l
  <2>2. QED
    BY <2>1
<1> HIDE DEF u, P, t, L, M, e, d
<1>10. ParentsLater(graph, pre_order_number, post, t)
  <2>1. Len(t) # 0 => t[1][1] = e
    BY <1>2, <1>4, <1>5, <1>9 DEF l
  <2>2. ASSUME NEW n \in M, n # e
        PROVE  \E p \in P : n \in Succs(graph, p) /\ (p \in M => post[p] > post[n])
    <3>1. CASE n = u
      BY <1>7, <1>8, <2>2, <3>1
    <3>2. CASE n # u
      <4>1. n \in L /\ post[n] = post_order_number[n] /\ d > post[n]
        BY <1>3, <1>6, <1>7, <3>2
      <4>2. PICK p \in P : n \in Succs(graph, p) /\ (p \in L => post_order_number[p] > post_order_number[n])
        BY <1>4, <2>2, <4>1
      <4>3. p \in M => post[p] > post[n]
        <5>1. CASE p = u
          BY <1>6, <4>1, <5>1
        <5>2. CASE p # u
          BY <1>6, <1>7, <4>1, <4>2, <5>2
        <5>3. QED
          BY <5>1, <5>2
      <4>4. QED
        BY <4>2, <4>3
    <3>3. QED
      BY <3>1, <3>2
  <2>3. QED
    BY <2>1, <2>2 DEF ParentsLater, M, P, e
<1>11. QED
  BY <1>1, <1>10 DEF LaterInv

LEMMA LaterStep == DFSInv /\ LaterInv /\ (DFS!Next \/ UNCHANGED <<graph, dfsVars>>) => LaterInv'
<1>1. LaterInv /\ UNCHANGED <<graph, dfsVars>> => LaterInv'
  BY DEF dfsVars, LaterInv
<1>2. QED
  BY <1>1, LaterVisit, LaterFinish DEF DFS!Next

\* When the walk is over: a node is left before the nodes that strictly dominate it.
LEMMA DominatorsLater ==
    ASSUME DFSInv, LaterInv, dfs_stack = <<>>
    PROVE  LET W == Reach(graph, entry_node(graph))
           IN  /\ DOMAIN pre_order_number = W /\ DOMAIN post_order_number = W
               /\ \A n \in W : post_order_number[n] \in 0..(Cardinality(W) - 1)
               /\ \A k \in 0..(Cardinality(W) - 1) : \E n \in W : post_order_number[n] = k
               /\ \A m, n \in W : post_order_number[m] = post_order_number[n] => m = n
               /\ \A d, n \in W : d # n /\ DominatesDef(graph, d, n) => post_order_number[n] < post_order_number[d]
<1> DEFINE W == Reach(graph, entry_node(graph))
           e == entry_node(graph)
           post == post_order_number
           c == post_order_counter
<1>1. DFS!NumbersArePermutations
  BY DFSResult DEF DFS!TraversalCorrect, DFS!Done
<1>2. /\ DOMAIN pre_order_number = W /\ {post[n] : n \in W} = 0..(Cardinality(W) - 1)
  BY <1>1, SameOperators DEF DFS!NumbersArePermutations, DFS!Discovered
<1>3. Left(pre_order_number, dfs_stack) = W
  <2>1. 1..Len(dfs_stack) = {}
    OBVIOUS
  <2>2. QED
    BY <1>2, <2>1 DEF Left
<1>4. /\ c \in Nat /\ DOMAIN post = W /\ \A n \in W : post[n] \in 0..(c - 1)
      /\ \A m, n \in W : post[m] = post[n] => m = n
  BY <1>2, <1>3 DEF DFSInv, NumbersOK
<1>5. \A n \in W : n # e => \E p \in W : n \in Succs(graph, p) /\ post[p] > post[n]
  BY <1>2, <1>3 DEF LaterInv, ParentsLater
<1>6. IsGraph(graph) /\ e \in NodeSet(graph) /\ e \in W
  BY DFSFacts, GraphLemma, ReachFacts
<1>7. ASSUME NEW d \in W, NEW m \in W, d # m, post[d] < post[m] PROVE ~ DominatesDef(graph, d, m)
  <2> DEFINE R == ReachAvoiding(graph, {e}, {d})
             Q == {k \in 0..c : \A n \in W : post[n] >= c - k /\ post[d] < post[n] => n \in R}
  <2>1. IsReach(graph, {e}, {d}, R)
    <3>1. {e} \in SUBSET NodeSet(graph)
      BY <1>6
    <3> HIDE DEF e
    <3>2. QED
      BY <1>6, <3>1, ReachLemma
  <2>2. {e} \ {d} \subseteq R /\ \A u \in R : Succs(graph, u) \ {d} \subseteq R
    BY <2>1 DEF IsReach, ClosedSet
  <2> HIDE DEF R, e, W
  <2>3. 0 \in Q
    <3>1. \A n \in W : ~ (post[n] >= c - 0)
      BY <1>4
    <3>2. QED
      BY <1>4, <3>1
  <2>4. ASSUME NEW k \in 0..c, k < c, k \in Q PROVE k + 1 \in Q
    <3>1. ASSUME NEW n \in W, post[n] >= c - (k + 1), post[d] < post[n] PROVE n \in R
      <4>1. n # d
        BY <1>4, <3>1
      <4>2. CASE n = e
        BY <2>2, <4>1, <4>2
      <4>3. CASE n # e
        <5>1. PICK p \in W : n \in Succs(graph, p) /\ post[p] > post[n]
          BY <1>5, <4>3
        <5>2. post[p] >= c - k /\ post[d] < post[p]
          BY <1>4, <3>1, <5>1
        <5>3. p \in R
          BY <2>4, <5>2
        <5>4. QED
          BY <2>2, <4>1, <5>1, <5>3
      <4>4. QED
        BY <4>2, <4>3
    <3>2. k + 1 \in 0..c
      BY <1>4, <2>4
    <3>3. QED
      BY <3>1, <3>2
  <2>5. 0..c \subseteq Q
    <3> HIDE DEF Q
    <3>1. QED
      BY <1>4, <2>3, <2>4, UpTo
  <2>6. c \in Q
    BY <1>4, <2>5
  <2>7. m \in R
    BY <1>4, <1>7, <2>6
  <2>8. QED
    BY <2>7 DEF DominatesDef, R, e
<1>8. \A d, n \in W : d # n /\ DominatesDef(graph, d, n) => post[n] < post[d]
  <2> HIDE DEF W
  <2>1. QED
    BY <1>4, <1>7
<1>9. QED
  BY <1>2, <1>4, <1>8

(***************************************************************************)
(* The loops found so far                                                  *)
(***************************************************************************)

Reached == Reach(graph, entry_node(graph))
HeaderOf(i) == loops[i].header
LoopAt(i) == Natural(graph, Reached, HeaderOf(i))

\* The loops that a node is in, and the first of some loops.
Inside(n) == {i \in 1..Len(loops) : n \in LoopAt(i)}
FirstOf(I) == {i \in I : \A j \in I : i <= j}

\* A node is left before its strict dominators.
NumberedOK ==
    /\ \A n \in Reached : post_order_number[n] \in Nat
    /\ \A m, n \in Reached : post_order_number[m] = post_order_number[n] => m = n
    /\ \A d, n \in Reached : d # n /\ DominatesDef(graph, d, n) => post_order_number[n] < post_order_number[d]

\* Loops are found in post-order of their headers.
HeadersOK ==
    /\ Len(loops) \in Nat
    /\ \A i \in 1..Len(loops) : HeaderOf(i) \in Reached
    /\ \A i, j \in 1..Len(loops) : i < j => post_order_number[HeaderOf(i)] < post_order_number[HeaderOf(j)]

ParentsOK ==
    /\ \A n \in NodeSet(graph) : block_parent[n] = FirstOf(Inside(n))
    /\ \A c \in 1..Len(loops) : loop_parent[c] = FirstOf(Inside(HeaderOf(c)) \ {c})

LEMMA FirstOfFacts ==
    ASSUME NEW n \in Nat, NEW I \in SUBSET (1..n)
    PROVE  /\ I = {} => FirstOf(I) = {}
           /\ I # {} => \E i \in I : FirstOf(I) = {i} /\ \A j \in I : i <= j
<1>1. CASE I = {}
  BY <1>1 DEF FirstOf
<1>2. CASE I # {}
  <2>1. PICK i \in I : \A j \in I : i <= j
    <3>1. Min(I) \in I /\ \A t \in I : Min(I) <= t
      BY <1>2, LeastPosition
    <3>2. QED
      BY <3>1
  <2>2. \A j \in I : (\A t \in I : j <= t) => j = i
    BY <2>1
  <2>3. FirstOf(I) = {i}
    BY <2>1, <2>2 DEF FirstOf
  <2>4. QED
    BY <1>2, <2>1, <2>3
<1>3. QED
  BY <1>1, <1>2

\* The loops that a node is in are nested, in the order in which they were found.
LEMMA InsideFacts ==
    ASSUME IsGraph(graph), NumberedOK, HeadersOK
    PROVE  /\ \A i \in 1..Len(loops) : i \in Inside(HeaderOf(i)) /\ \A j \in Inside(HeaderOf(i)) : i <= j
           /\ \A n : \A i \in Inside(n) : Inside(HeaderOf(i)) = {j \in Inside(n) : i <= j}
<1> DEFINE L == Len(loops)
           post == post_order_number
<1>1. /\ L \in Nat /\ \A i \in 1..L : HeaderOf(i) \in Reached
      /\ \A i, j \in 1..L : i < j => post[HeaderOf(i)] < post[HeaderOf(j)]
  BY DEF HeadersOK
<1>2. /\ \A n \in Reached : post[n] \in Nat
      /\ \A d, n \in Reached : d # n /\ DominatesDef(graph, d, n) => post[n] < post[d]
  BY DEF NumberedOK
<1>3. ASSUME NEW i \in 1..L
      PROVE HeaderOf(i) \in LoopAt(i) /\ LoopAt(i) \subseteq Reached /\ \A n \in LoopAt(i) : DominatesDef(graph, HeaderOf(i), n)
  BY <1>1, NaturalFacts DEF LoopAt, Reached
<1> HIDE DEF L, post
<1>4. ASSUME NEW i \in 1..L, NEW j \in 1..L, HeaderOf(i) \in LoopAt(j) PROVE i <= j
  <2> SUFFICES ASSUME ~ (i <= j) PROVE FALSE
    OBVIOUS
  <2>1. j < i /\ HeaderOf(j) \in Reached /\ HeaderOf(i) \in Reached
    BY <1>1
  <2>2. post[HeaderOf(j)] < post[HeaderOf(i)] /\ DominatesDef(graph, HeaderOf(j), HeaderOf(i))
    BY <1>1, <1>3, <1>4, <2>1
  <2>3. HeaderOf(j) # HeaderOf(i) /\ post[HeaderOf(j)] \in Nat /\ post[HeaderOf(i)] \in Nat
    BY <1>2, <2>1, <2>2
  <2>4. QED
    BY <1>2, <2>1, <2>2, <2>3
<1>5. ASSUME NEW i \in 1..L, NEW j \in 1..L, i < j, NEW n \in LoopAt(i), n \in LoopAt(j)
      PROVE  LoopAt(i) \subseteq LoopAt(j)
  <2>1. HeaderOf(j) \notin LoopAt(i)
    BY <1>1, <1>4, <1>5
  <2>2. HeaderOf(i) \in Reached /\ HeaderOf(j) \in Reached
    BY <1>1
  <2>3. QED
    BY <1>5, <2>1, <2>2, NaturalNested DEF LoopAt, Reached
<1>6. \A n : Inside(n) = {i \in 1..L : n \in LoopAt(i)}
  BY DEF Inside, L
<1>7. ASSUME NEW i \in 1..L PROVE i \in Inside(HeaderOf(i)) /\ \A j \in Inside(HeaderOf(i)) : i <= j
  BY <1>3, <1>4, <1>6
<1>8. ASSUME NEW n, NEW i \in Inside(n) PROVE Inside(HeaderOf(i)) = {j \in Inside(n) : i <= j}
  <2>1. i \in 1..L /\ n \in LoopAt(i) /\ HeaderOf(i) \in LoopAt(i)
    BY <1>3, <1>6
  <2>2. ASSUME NEW j \in Inside(HeaderOf(i)) PROVE j \in Inside(n) /\ i <= j
    <3>1. j \in 1..L /\ HeaderOf(i) \in LoopAt(j) /\ i <= j
      BY <1>6, <1>7, <2>1
    <3>2. CASE i = j
      BY <3>1, <3>2
    <3>3. CASE i # j
      <4>1. i < j
        BY <1>1, <2>1, <3>1, <3>3
      <4>2. n \in LoopAt(j)
        BY <1>5, <2>1, <3>1, <4>1
      <4>3. QED
        BY <1>6, <3>1, <4>2
    <3>4. QED
      BY <3>2, <3>3
  <2>3. ASSUME NEW j \in Inside(n), i <= j PROVE j \in Inside(HeaderOf(i))
    <3>1. j \in 1..L /\ n \in LoopAt(j)
      BY <1>6
    <3>2. CASE i = j
      BY <1>7, <3>1, <3>2
    <3>3. CASE i # j
      <4>1. i < j
        BY <1>1, <2>1, <2>3, <3>1, <3>3
      <4>2. HeaderOf(i) \in LoopAt(j)
        BY <1>5, <2>1, <3>1, <4>1
      <4>3. QED
        BY <1>6, <3>1, <4>2
    <3>4. QED
      BY <3>2, <3>3
  <2>4. QED
    BY <2>2, <2>3
<1>9. QED
  BY <1>7, <1>8 DEF L

\* Following the parents of a loop lists the loops that its header is in, outermost last.
LEMMA EnclosingLoops ==
    ASSUME IsGraph(graph), NumberedOK, HeadersOK, ParentsOK, NEW id \in 1..Len(loops)
    PROVE  /\ Enclosing(id) \in Seq(1..Len(loops)) /\ ToSet(Enclosing(id)) = Inside(HeaderOf(id))
           /\ Last(Enclosing(id)) \in Inside(HeaderOf(id))
           /\ \A j \in Inside(HeaderOf(id)) : j <= Last(Enclosing(id))
<1> DEFINE L == Len(loops)
           A == Inside(HeaderOf(id))
           D == {s \in Seq(1..L) : Len(s) # 0}
           More(s) == IF loop_parent[Last(s)] = {} THEN s
                      ELSE Append(s, CHOOSE p \in loop_parent[Last(s)] : TRUE)
           G == [s \in D |-> More(s)]
           Is(f) == f = [k \in 0..L |-> IF k = 0 THEN <<id>>
                                        ELSE LET below == f[k - 1]
                                             IN  IF loop_parent[Last(below)] = {} THEN below
                                                 ELSE Append(below, CHOOSE p \in loop_parent[Last(below)] : TRUE)]
           F == CHOOSE f : Is(f)
<1>1. /\ L \in Nat /\ id \in 1..L
  BY DEF HeadersOK
<1>2. Enclosing(id) = F[L]
  BY Zenon DEF Enclosing
<1>3. A \subseteq 1..L /\ id \in A /\ \A j \in A : id <= j
  BY InsideFacts DEF Inside
<1> HIDE DEF A, L
<1>4. ASSUME NEW c \in 1..L
      PROVE  loop_parent[c] \subseteq 1..L /\ loop_parent[c] = FirstOf(Inside(HeaderOf(c)) \ {c})
  BY DEF ParentsOK, FirstOf, Inside, L
\* The parent of a loop around id is the next one around id.
<1>5. ASSUME NEW c \in A
      PROVE  \/ loop_parent[c] = {} /\ \A j \in A : j <= c
             \/ \E p \in A : loop_parent[c] = {p} /\ c < p /\ \A j \in A : j <= c \/ p <= j
  <2> DEFINE I == Inside(HeaderOf(c)) \ {c}
  <2>1. Inside(HeaderOf(c)) = {j \in A : c <= j}
    BY InsideFacts DEF A
  <2>2. I = {j \in A : c < j} /\ I \in SUBSET (1..L) /\ c \in 1..L
    <3>1. c \in 1..L /\ c \in Nat /\ \A j \in A : j \in 1..L /\ j \in Nat
      BY <1>1, <1>3
    <3>2. \A j \in A : (c <= j /\ j # c) <=> c < j
      BY <3>1
    <3>3. I = {j \in A : c < j}
      BY <2>1, <3>2
    <3>4. QED
      BY <3>1, <3>3
  <2>3. loop_parent[c] = FirstOf(I)
    BY <1>4, <2>2
  <2> HIDE DEF I
  <2>4. CASE I = {}
    <3>1. \A j \in A : ~ (c < j) /\ j \in Nat /\ c \in Nat
      BY <1>3, <2>2, <2>4
    <3>2. loop_parent[c] = {}
      BY <1>1, <2>2, <2>3, <2>4, FirstOfFacts
    <3>3. QED
      BY <3>1, <3>2
  <2>5. CASE I # {}
    <3>1. PICK p \in I : FirstOf(I) = {p} /\ \A j \in I : p <= j
      BY <1>1, <2>2, <2>5, FirstOfFacts
    <3>2. p \in A /\ c < p /\ loop_parent[c] = {p}
      BY <2>2, <2>3, <3>1
    <3>3. \A j \in A : j <= c \/ p <= j
      BY <1>3, <2>2, <3>1
    <3>4. QED
      BY <3>2, <3>3
  <2>6. QED
    BY <2>4, <2>5
<1>6. \A s \in D : Last(s) \in 1..L /\ Last(s) = s[Len(s)] /\ Len(s) \in Nat /\ Len(s) \in 1..Len(s)
  <2> SUFFICES ASSUME NEW s \in D
               PROVE  Last(s) \in 1..L /\ Last(s) = s[Len(s)] /\ Len(s) \in Nat /\ Len(s) \in 1..Len(s)
    OBVIOUS
  <2> DEFINE E == 1..L
  <2>1. s \in Seq(E) /\ Len(s) \in Nat /\ Len(s) # 0
    OBVIOUS
  <2> HIDE DEF E, D
  <2>2. Len(s) \in 1..Len(s)
    BY <2>1
  <2>3. s[Len(s)] \in E
    BY <2>1, <2>2
  <2>4. QED
    BY <2>1, <2>2, <2>3 DEF Last, E
<1>7. ASSUME NEW s \in D, NEW p \in 1..L PROVE Append(s, p) \in D /\ ToSet(Append(s, p)) = ToSet(s) \cup {p} /\ Last(Append(s, p)) = p
  <2>1. /\ Append(s, p) \in Seq(1..L) /\ Len(Append(s, p)) = Len(s) + 1 /\ Append(s, p)[Len(s) + 1] = p
    BY AppendProperties
  <2>2. Append(s, p) \in D
    BY <1>6, <2>1
  <2>3. ToSet(Append(s, p)) = ToSet(s) \cup {p}
    <3> DEFINE E == 1..L
    <3>1. s \in Seq(E) /\ p \in E
      OBVIOUS
    <3> HIDE DEF E
    <3>2. QED
      BY <3>1, AppendedElements
  <2>4. QED
    BY <1>6, <2>1, <2>2, <2>3
<1>8. <<id>> \in D /\ ToSet(<<id>>) = {id} /\ Last(<<id>>) = id
  BY <1>1 DEF ToSet, Last
<1>9. G \in [D -> D] /\ \A s \in D : G[s] = More(s)
  <2>1. ASSUME NEW s \in D PROVE More(s) \in D
    <3>1. Last(s) \in 1..L
      BY <1>6
    <3>2. CASE loop_parent[Last(s)] = {}
      BY <3>2
    <3>3. CASE loop_parent[Last(s)] # {}
      <4> DEFINE p == CHOOSE p \in loop_parent[Last(s)] : TRUE
      <4>1. p \in 1..L
        BY <1>4, <3>1, <3>3
      <4> HIDE DEF p, D
      <4>2. Append(s, p) \in D
        BY <1>7, <4>1
      <4>3. QED
        BY <3>3, <4>2 DEF p
    <3>4. QED
      BY <3>2, <3>3
  <2> HIDE DEF More, D
  <2>2. QED
    BY <2>1
<1>10. Is(F)
  <2>1. PICK f : Iterates(D, G, <<id>>, L, f)
    <3> HIDE DEF D, G
    <3>1. QED
      BY <1>1, <1>8, <1>9, IterationExists
  <2>2. f \in [0..L -> D] /\ f[0] = <<id>> /\ \A k \in 1..L : f[k] = G[f[k - 1]]
    BY <2>1 DEF Iterates
  <2>3. \A k \in 1..L : f[k] = More(f[k - 1])
    <3> HIDE DEF G, More, D
    <3>1. \A k \in 1..L : f[k - 1] \in D
      BY <1>1, <2>2
    <3>2. QED
      BY <1>9, <2>2, <3>1
  <2>4. Is(f)
    <3>1. f = [k \in 0..L |-> f[k]]
      BY <2>2
    <3>2. ASSUME NEW k \in 0..L
          PROVE  f[k] = IF k = 0 THEN <<id>>
                        ELSE LET below == f[k - 1]
                             IN  IF loop_parent[Last(below)] = {} THEN below
                                 ELSE Append(below, CHOOSE p \in loop_parent[Last(below)] : TRUE)
      <4>1. k # 0 => k \in 1..L
        BY <1>1
      <4>2. QED
        BY <2>2, <2>3, <4>1
    <3>3. QED
      BY <3>1, <3>2, Zenon
  <2> HIDE DEF Is
  <2>5. QED
    BY <2>4
<1>11. /\ F[0] = <<id>> /\ \A k \in 1..L : F[k] = More(F[k - 1])
  <2> HIDE DEF F
  <2>1. 0 \in 0..L /\ \A k \in 1..L : k \in 0..L /\ k # 0
    BY <1>1
  <2>2. QED
    BY <1>10, <2>1
<1> HIDE DEF F, Is
<1> DEFINE Ok(k) == /\ F[k] \in D /\ Last(F[k]) \in A /\ ToSet(F[k]) = {j \in A : j <= Last(F[k])}
                    /\ Last(F[k]) >= id + k \/ loop_parent[Last(F[k])] = {}
           P == {k \in 0..L : Ok(k)}
<1>12. 0 \in P
  <2>1. {id} = {j \in A : j <= id}
    <3>1. id \in Nat /\ \A j \in A : j \in Nat
      BY <1>1, <1>3
    <3>2. \A j \in A : j <= id <=> j = id
      BY <1>3, <3>1
    <3>3. QED
      BY <1>3, <3>2
  <2>2. id >= id + 0
    BY <1>1
  <2> HIDE DEF D
  <2>3. Ok(0)
    BY <1>3, <1>8, <1>11, <2>1, <2>2
  <2> HIDE DEF Ok
  <2>4. QED
    BY <1>1, <2>3
<1>13. ASSUME NEW k \in 0..L, k < L, k \in P PROVE k + 1 \in P
  <2>1. k + 1 \in 1..L /\ (k + 1) - 1 = k /\ k + 1 \in 0..L /\ k \in Nat
    BY <1>1, <1>13
  <2>2. F[k + 1] = More(F[k])
    <3> HIDE DEF More
    <3>1. QED
      BY <1>11, <2>1
  <2> DEFINE s == F[k]
             c == Last(s)
  <2>3. /\ s \in D /\ c \in A /\ ToSet(s) = {j \in A : j <= c} /\ (c >= id + k \/ loop_parent[c] = {})
    BY <1>13
  <2>4. c \in Nat /\ id \in Nat
    <3> HIDE DEF c, s
    <3>1. QED
      BY <1>1, <1>3, <2>3
  <2>5. CASE loop_parent[c] = {}
    <3>1. F[k + 1] = s
      BY <2>2, <2>5
    <3> HIDE DEF D
    <3>2. Ok(k + 1)
      BY <2>3, <2>5, <3>1
    <3>3. QED
      BY <2>1, <3>2
  <2>6. CASE loop_parent[c] # {}
    <3>1. PICK p \in A : loop_parent[c] = {p} /\ c < p /\ \A j \in A : j <= c \/ p <= j
      <4> HIDE DEF c
      <4>1. QED
        BY <1>5, <2>3, <2>6
    <3>2. F[k + 1] = Append(s, p)
      BY <2>2, <2>6, <3>1
    <3>3. p \in 1..L
      BY <1>3
    <3> HIDE DEF D, c
    <3>4. F[k + 1] \in D /\ ToSet(F[k + 1]) = ToSet(s) \cup {p} /\ Last(F[k + 1]) = p
      BY <1>7, <2>3, <3>2, <3>3
    <3>5. ToSet(s) \cup {p} = {j \in A : j <= p}
      <4>1. \A j \in A : j \in Nat
        BY <1>3
      <4>2. ASSUME NEW j \in A PROVE (j <= c \/ j = p) <=> j <= p
        BY <2>4, <3>1, <4>1
      <4>3. QED
        BY <2>3, <4>2
    <3>6. p >= id + (k + 1)
      <4>1. c >= id + k /\ p \in Nat
        BY <2>3, <2>6, <3>3
      <4>2. QED
        BY <2>1, <2>4, <3>1, <4>1
    <3>7. Ok(k + 1)
      BY <3>1, <3>4, <3>5, <3>6
    <3> HIDE DEF Ok
    <3>8. QED
      BY <2>1, <3>7
  <2>7. QED
    BY <2>5, <2>6
<1>14. Ok(L)
  <2>1. 0..L \subseteq P
    <3> HIDE DEF P
    <3>1. QED
      BY <1>1, <1>12, <1>13, UpTo
  <2>2. L \in 0..L
    BY <1>1
  <2> HIDE DEF Ok
  <2>3. QED
    BY <2>1, <2>2
<1> DEFINE last == Last(F[L])
<1>15. F[L] \in D /\ last \in A /\ ToSet(F[L]) = {j \in A : j <= last} /\ (last >= id + L \/ loop_parent[last] = {})
  BY <1>14
<1> HIDE DEF last, D, Ok, P
<1>16. \A j \in A : j <= last
  <2>1. last \in 1..L /\ id \in 1..L
    BY <1>1, <1>3, <1>15
  <2>2. ~ (last >= id + L)
    BY <1>1, <2>1
  <2>3. loop_parent[last] = {}
    BY <1>15, <2>2
  <2>4. QED
    BY <1>5, <1>15, <2>3
<1>17. ToSet(F[L]) = A
  BY <1>15, <1>16
<1>18. QED
  BY <1>2, <1>15, <1>16, <1>17 DEF D, A, L, last

\* The block itself, or the outermost loop it is in.
LEMMA AncestorFacts ==
    ASSUME IsGraph(graph), NumberedOK, HeadersOK, ParentsOK, NEW n \in NodeSet(graph)
    PROVE  /\ Inside(n) = {} => loop_ancestor(n) = <<"block", n>>
           /\ Inside(n) # {} => \E c \in Inside(n) : (\A j \in Inside(n) : j <= c) /\ loop_ancestor(n) = <<"loop", c>>
<1>1. Len(loops) \in Nat /\ Inside(n) \in SUBSET (1..Len(loops)) /\ block_parent[n] = FirstOf(Inside(n))
  BY DEF HeadersOK, Inside, ParentsOK
<1>2. CASE Inside(n) = {}
  <2>1. block_parent[n] = {}
    BY <1>1, <1>2, FirstOfFacts
  <2>2. QED
    BY <1>2, <2>1 DEF loop_ancestor
<1>3. CASE Inside(n) # {}
  <2>1. PICK i \in Inside(n) : FirstOf(Inside(n)) = {i} /\ \A j \in Inside(n) : i <= j
    BY <1>1, <1>3, FirstOfFacts
  <2>2. block_parent[n] # {} /\ (CHOOSE id \in block_parent[n] : TRUE) = i
    BY <1>1, <2>1
  <2> DEFINE c == Last(Enclosing(i))
  <2>3. Inside(HeaderOf(i)) = {j \in Inside(n) : i <= j} /\ i \in 1..Len(loops)
    BY <1>1, InsideFacts
  <2>4. c \in Inside(HeaderOf(i)) /\ \A j \in Inside(HeaderOf(i)) : j <= c
    BY <2>3, EnclosingLoops
  <2>5. c \in Inside(n) /\ \A j \in Inside(n) : j <= c
    BY <2>1, <2>3, <2>4
  <2>6. loop_ancestor(n) = <<"loop", c>>
    BY <2>2 DEF loop_ancestor
  <2>7. QED
    BY <1>3, <2>5, <2>6
<1>4. QED
  BY <1>2, <1>3

LEMMA EntryFacts == (\A n : entry_of(<<"block", n>>) = n) /\ (\A c : entry_of(<<"loop", c>>) = HeaderOf(c))
BY DEF entry_of, HeaderOf

\* The next header: no loop found so far has it.
LEMMA NextHeader ==
    ASSUME IsGraph(graph), NumberedOK, HeadersOK, NEW h \in Reached,
           \A i \in 1..Len(loops) : post_order_number[HeaderOf(i)] < post_order_number[h]
    PROVE  Inside(h) = {}
<1> SUFFICES ASSUME NEW i \in Inside(h) PROVE FALSE
  OBVIOUS
<1>1. i \in 1..Len(loops) /\ h \in LoopAt(i)
  BY DEF Inside
<1>2. HeaderOf(i) \in Reached /\ post_order_number[HeaderOf(i)] < post_order_number[h]
  BY <1>1 DEF HeadersOK
<1>3. DominatesDef(graph, HeaderOf(i), h)
  BY <1>1, <1>2, NaturalFacts DEF LoopAt, Reached
<1>4. post_order_number[HeaderOf(i)] \in Nat /\ post_order_number[h] \in Nat
  BY <1>2 DEF NumberedOK
<1>5. HeaderOf(i) # h
  BY <1>2, <1>4
<1>6. post_order_number[h] < post_order_number[HeaderOf(i)]
  BY <1>2, <1>3, <1>5 DEF NumberedOK
<1>7. QED
  BY <1>2, <1>4, <1>6

\* The blocks and outermost loops that some nodes are in.
PartsOf(N) == {loop_ancestor(v) : v \in N}

\* find_body finds the natural loop, taken apart into blocks and outermost loops.
LEMMA BodyResult ==
    ASSUME IsGraph(graph), NumberedOK, HeadersOK, ParentsOK, DOMAIN dominators_map = Reached, NEW h \in Reached,
           \A i \in 1..Len(loops) : post_order_number[HeaderOf(i)] < post_order_number[h]
    PROVE  BodyOf(h, LatchesDef(graph, Reached, h)) = PartsOf(Natural(graph, Reached, h))
<1> DEFINE W == Reached
           N == Natural(graph, W, h)
           latches == LatchesDef(graph, W, h)
           L == Len(loops)
<1>1. W \subseteq NodeSet(graph) /\ W = Reach(graph, entry_node(graph)) /\ \A n \in W : Succs(graph, n) \subseteq W
  BY GraphLemma, ReachFacts DEF Reached
<1>2. /\ h \in N /\ N \subseteq W /\ latches \subseteq N /\ latches \subseteq W
      /\ \A n \in W : \A s \in Succs(graph, n) : s \in N /\ s # h => n \in N
      /\ \A S : latches \ {h} \subseteq S
                  /\ (\A n \in W : \A s \in Succs(graph, n) : s \in S /\ s # h /\ n # h => n \in S)
               => N \ {h} \subseteq S
  BY <1>1, NaturalFacts DEF LatchesDef
<1>3. PICK B : IsBody(h, latches, B) /\ BodyOf(h, latches) = B \cup {<<"block", h>>}
  BY <1>1, <1>2, BodyWalk
<1>4. Inside(h) = {}
  BY NextHeader
<1>5. loop_ancestor(h) = <<"block", h>>
  BY <1>1, <1>4, AncestorFacts
<1>6. \A i \in 1..L : /\ HeaderOf(i) \in W /\ h \notin LoopAt(i) /\ LoopAt(i) = Natural(graph, W, HeaderOf(i))
                      /\ HeaderOf(i) # h /\ HeaderOf(i) \in LoopAt(i)
  BY <1>1, <1>4, InsideFacts DEF HeadersOK, Inside, LoopAt
<1>7. \A n : Inside(n) = {i \in 1..L : n \in LoopAt(i)}
  BY DEF Inside
<1>8. \A v, p : p \in Preds(graph, v) <=> p \in NodeSet(graph) /\ v \in Succs(graph, p)
  BY DEF Preds
<1>9. \A p : contains(p) <=> p \in W
  BY DEF contains
<1> HIDE DEF W, N, latches, L
\* Before a loop of this loop come nodes of this loop.
<1>10. ASSUME NEW v \in N \ {h}, NEW p \in Preds(graph, entry_of(loop_ancestor(v))), p # h, contains(p)
       PROVE  p \in N \ {h}
  <2>1. v \in NodeSet(graph) /\ v \in W /\ p \in W
    BY <1>1, <1>2, <1>9, <1>10
  <2>2. CASE Inside(v) = {}
    <3>1. entry_of(loop_ancestor(v)) = v
      BY <2>1, <2>2, AncestorFacts, EntryFacts
    <3>2. v \in Succs(graph, p)
      BY <1>8, <1>10, <3>1
    <3>3. QED
      BY <1>2, <1>10, <2>1, <3>2
  <2>3. CASE Inside(v) # {}
    <3>1. PICK c \in Inside(v) : (\A j \in Inside(v) : j <= c) /\ loop_ancestor(v) = <<"loop", c>>
      BY <2>1, <2>3, AncestorFacts
    <3>2. c \in 1..L /\ v \in LoopAt(c)
      BY <1>7
    <3>3. LoopAt(c) \subseteq N \ {h}
      BY <1>1, <1>6, <3>2, NaturalNested DEF N, W
    <3>4. HeaderOf(c) \in N \ {h} /\ HeaderOf(c) \in Succs(graph, p)
      BY <1>6, <1>8, <1>10, <3>1, <3>2, <3>3, EntryFacts
    <3>5. QED
      BY <1>2, <1>10, <2>1, <3>4
  <2>4. QED
    BY <2>2, <2>3
<1>11. B \subseteq {loop_ancestor(v) : v \in N \ {h}}
  <2> DEFINE S == {loop_ancestor(v) : v \in N \ {h}}
  <2>1. \A l \in latches \ {h} : loop_ancestor(l) \in S
    BY <1>2
  <2>2. ASSUME NEW x \in S PROVE BodyPreds(h, x) \subseteq S
    <3>1. PICK v \in N \ {h} : x = loop_ancestor(v)
      OBVIOUS
    <3>2. \A p \in Preds(graph, entry_of(x)) : p # h /\ contains(p) => p \in N \ {h}
      BY <1>10, <3>1
    <3>3. QED
      BY <3>2 DEF BodyPreds
  <2> HIDE DEF S
  <2>3. B \subseteq S
    BY <1>3, <2>1, <2>2 DEF IsBody
  <2>4. QED
    BY <2>3 DEF S
<1>12. ASSUME NEW n \in W, NEW s \in Succs(graph, n), loop_ancestor(s) \in B, s # h, n # h
       PROVE  loop_ancestor(n) \in B
  <2>1. n \in NodeSet(graph) /\ s \in NodeSet(graph) /\ s \in W
    BY <1>1
  <2>2. ASSUME entry_of(loop_ancestor(s)) = s PROVE loop_ancestor(n) \in B
    <3>1. n \in Preds(graph, entry_of(loop_ancestor(s))) /\ contains(n)
      BY <1>8, <1>9, <2>1, <2>2
    <3>2. loop_ancestor(n) \in BodyPreds(h, loop_ancestor(s))
      BY <1>12, <3>1 DEF BodyPreds
    <3>3. QED
      BY <1>3, <1>12, <3>2 DEF IsBody
  <2>3. CASE Inside(s) = {}
    BY <2>1, <2>2, <2>3, AncestorFacts, EntryFacts
  <2>4. CASE Inside(s) # {}
    <3>1. PICK c \in Inside(s) : (\A j \in Inside(s) : j <= c) /\ loop_ancestor(s) = <<"loop", c>>
      BY <2>1, <2>4, AncestorFacts
    <3>2. c \in 1..L /\ s \in LoopAt(c)
      BY <1>7
    <3>3. CASE s = HeaderOf(c)
      BY <2>2, <3>1, <3>3, EntryFacts
    <3>4. CASE s # HeaderOf(c)
      <4>1. n \in LoopAt(c)
        BY <1>1, <1>6, <3>2, <3>4, NaturalFacts
      <4>2. c \in Inside(n)
        BY <1>7, <3>2, <4>1
      <4>3. PICK d \in Inside(n) : (\A j \in Inside(n) : j <= d) /\ loop_ancestor(n) = <<"loop", d>>
        BY <2>1, <4>2, AncestorFacts
      <4>4. c \in Nat /\ d \in Nat /\ c <= d
        BY <1>7, <4>2, <4>3 DEF HeadersOK, L
      <4>5. Inside(HeaderOf(c)) = {j \in Inside(n) : c <= j} /\ Inside(HeaderOf(c)) = {j \in Inside(s) : c <= j}
        BY <3>1, <4>2, InsideFacts
      <4>6. d \in Inside(s)
        BY <4>4, <4>5
      <4>7. d = c
        BY <3>1, <4>4, <4>6
      <4>8. QED
        BY <1>12, <3>1, <4>3, <4>7
    <3>5. QED
      BY <3>3, <3>4
  <2>5. QED
    BY <2>3, <2>4
<1>13. \A v \in N \ {h} : loop_ancestor(v) \in B
  <2> DEFINE S == {v \in W : loop_ancestor(v) \in B}
  <2>1. latches \ {h} \subseteq S
    BY <1>2, <1>3 DEF IsBody
  <2>2. \A n \in W : \A s \in Succs(graph, n) : s \in S /\ s # h /\ n # h => n \in S
    BY <1>12
  <2> HIDE DEF S
  <2>3. N \ {h} \subseteq S
    BY <1>2, <2>1, <2>2
  <2>4. QED
    BY <2>3 DEF S
<1>14. B \cup {<<"block", h>>} = {loop_ancestor(v) : v \in N}
  <2>1. B = {loop_ancestor(v) : v \in N \ {h}}
    BY <1>11, <1>13
  <2>2. QED
    BY <1>2, <1>5, <2>1
<1>15. QED
  BY <1>3, <1>14 DEF N, W, latches, PartsOf

Members == ({"block"} \X NodeSet(graph)) \cup ({"loop"} \X (1..Len(loops)))

\* Which blocks and loops these are: those that are in no other loop.
LEMMA BodyMembers ==
    ASSUME IsGraph(graph), NumberedOK, HeadersOK, ParentsOK, NEW h \in Reached,
           \A i \in 1..Len(loops) : post_order_number[HeaderOf(i)] < post_order_number[h],
           NEW B, B = PartsOf(Natural(graph, Reached, h))
    PROVE  /\ B \subseteq Members
           /\ \A n \in NodeSet(graph) : <<"block", n>> \in B <=> n \in Natural(graph, Reached, h) /\ Inside(n) = {}
           /\ \A c \in 1..Len(loops) :
                 <<"loop", c>> \in B <=> HeaderOf(c) \in Natural(graph, Reached, h) /\ Inside(HeaderOf(c)) = {c}
<1> DEFINE N == Natural(graph, Reached, h)
           L == Len(loops)
<1>0. B = {loop_ancestor(v) : v \in N}
  BY DEF PartsOf
<1>1. /\ Reached \subseteq NodeSet(graph) /\ N \subseteq Reached /\ Reached = Reach(graph, entry_node(graph))
  BY GraphLemma, ReachFacts, NaturalFacts DEF Reached
<1>2. L \in Nat /\ \A n : Inside(n) \subseteq 1..L /\ \A i \in Inside(n) : n \in LoopAt(i)
  BY DEF Inside, HeadersOK
<1>3. Inside(h) = {}
  BY NextHeader
<1>4. \A i \in 1..L : /\ HeaderOf(i) \in Reached /\ h \notin LoopAt(i) /\ LoopAt(i) = Natural(graph, Reached, HeaderOf(i))
                      /\ HeaderOf(i) \in LoopAt(i)
  BY <1>3, InsideFacts DEF HeadersOK, Inside, LoopAt
<1> HIDE DEF N, L
<1>5. \A v \in N : v \in NodeSet(graph)
  BY <1>1
<1>6. ASSUME NEW v \in N
      PROVE  \/ Inside(v) = {} /\ loop_ancestor(v) = <<"block", v>>
             \/ \E c \in Inside(v) : (\A j \in Inside(v) : j <= c) /\ loop_ancestor(v) = <<"loop", c>>
  BY <1>5, AncestorFacts
<1>7. \A x, y : <<"block", x>> # <<"loop", y>>
  OBVIOUS
<1>8. ASSUME NEW v \in N PROVE loop_ancestor(v) \in Members
  <2>1. v \in NodeSet(graph) /\ \A c \in Inside(v) : c \in 1..L
    BY <1>2, <1>5
  <2>2. <<"block", v>> \in Members /\ \A c \in Inside(v) : <<"loop", c>> \in Members
    BY <2>1 DEF Members, L
  <2>3. QED
    BY <1>6, <2>2
<1>9. B \subseteq Members
  BY <1>0, <1>8
<1>10. ASSUME NEW n \in NodeSet(graph) PROVE <<"block", n>> \in B <=> n \in N /\ Inside(n) = {}
  <2>1. ASSUME n \in N, Inside(n) = {} PROVE <<"block", n>> \in B
    BY <1>0, <1>6, <2>1
  <2>2. ASSUME <<"block", n>> \in B PROVE n \in N /\ Inside(n) = {}
    <3>1. PICK v \in N : <<"block", n>> = loop_ancestor(v)
      BY <1>0, <2>2
    <3>2. Inside(v) = {} /\ <<"block", n>> = <<"block", v>>
      BY <1>6, <1>7, <3>1
    <3>3. n = v
      BY <3>2
    <3>4. QED
      BY <3>2, <3>3
  <2>3. QED
    BY <2>1, <2>2
<1>11. ASSUME NEW c \in 1..L PROVE <<"loop", c>> \in B <=> HeaderOf(c) \in N /\ Inside(HeaderOf(c)) = {c}
  <2>1. ASSUME HeaderOf(c) \in N, Inside(HeaderOf(c)) = {c} PROVE <<"loop", c>> \in B
    <3>1. loop_ancestor(HeaderOf(c)) = <<"loop", c>>
      BY <1>6, <2>1
    <3>2. QED
      BY <1>0, <2>1, <3>1
  <2>2. ASSUME <<"loop", c>> \in B PROVE HeaderOf(c) \in N /\ Inside(HeaderOf(c)) = {c}
    <3>1. PICK v \in N : <<"loop", c>> = loop_ancestor(v)
      BY <1>0, <2>2
    <3>2. PICK d \in Inside(v) : (\A j \in Inside(v) : j <= d) /\ <<"loop", c>> = <<"loop", d>>
      BY <1>6, <1>7, <3>1
    <3>3. c = d
      BY <3>2
    <3>4. c \in Inside(v) /\ \A j \in Inside(v) : j <= c
      BY <3>2, <3>3
    <3>5. v \in LoopAt(c)
      BY <1>2, <3>4
    <3>6. LoopAt(c) \subseteq N \ {h}
      BY <1>1, <1>4, <3>5, NaturalNested DEF N
    <3>7. HeaderOf(c) \in N
      BY <1>4, <3>6
    <3>8. Inside(HeaderOf(c)) = {j \in Inside(v) : c <= j}
      BY <3>4, InsideFacts
    <3>9. \A j \in Inside(v) : c <= j => j = c
      BY <1>2, <3>4
    <3>10. c \in Nat /\ c <= c
      BY <1>2
    <3>11. QED
      BY <3>4, <3>7, <3>8, <3>9, <3>10
  <2>3. QED
    BY <2>1, <2>2
<1>12. QED
  BY <1>9, <1>10, <1>11 DEF N, L

\* The order of two sets of loops with one more at the end.
LEMMA FirstOfMore ==
    ASSUME NEW n \in Nat, NEW I \in SUBSET (1..n)
    PROVE  FirstOf(I \cup {n + 1}) = IF I = {} THEN {n + 1} ELSE FirstOf(I)
<1>1. /\ n + 1 <= n + 1 /\ \A i \in I : i \in Nat /\ i <= n + 1 /\ ~ (n + 1 <= i)
  OBVIOUS
<1>2. CASE I = {}
  BY <1>1, <1>2 DEF FirstOf
<1>3. CASE I # {}
  <2>1. PICK j \in I : TRUE
    BY <1>3
  <2>2. ASSUME NEW i \in FirstOf(I) PROVE i \in FirstOf(I \cup {n + 1})
    BY <1>1 DEF FirstOf
  <2>3. ASSUME NEW i \in FirstOf(I \cup {n + 1}) PROVE i \in FirstOf(I)
    <3>1. i # n + 1
      BY <1>1, <2>1 DEF FirstOf
    <3>2. QED
      BY <3>1 DEF FirstOf
  <2>4. QED
    BY <1>3, <2>2, <2>3
<1>4. QED
  BY <1>2, <1>3

AnyMembers == ({"block"} \X NodeSet(graph)) \cup ({"loop"} \X Nat)

FoundTypeOK ==
    /\ header_pos \in Nat /\ header_pos >= 1
    /\ loops \in Seq([header : Reached, latches : SUBSET Reached, contents : SUBSET AnyMembers])
    /\ loop_parent \in Seq(SUBSET Nat) /\ Len(loop_parent) = Len(loops)
    /\ DOMAIN block_parent = NodeSet(graph)

\* Every header handled so far that has latches has its loop.
LoopsListed ==
    /\ \A i \in 1..Len(loops) : /\ post_order_number[HeaderOf(i)] < header_pos - 1
                                /\ loops[i].latches = LatchesDef(graph, Reached, HeaderOf(i))
                                /\ LatchesDef(graph, Reached, HeaderOf(i)) # {}
    /\ \A h \in Reached : post_order_number[h] < header_pos - 1 /\ LatchesDef(graph, Reached, h) # {}
                             => \E i \in 1..Len(loops) : HeaderOf(i) = h

\* Contents are the inverse of parents.
ContentsOK ==
    \A i \in 1..Len(loops) :
       /\ loops[i].contents \subseteq Members
       /\ \A n \in NodeSet(graph) : <<"block", n>> \in loops[i].contents <=> i \in block_parent[n]
       /\ \A c \in 1..Len(loops) : <<"loop", c>> \in loops[i].contents <=> i \in loop_parent[c]

FoundInv == FoundTypeOK /\ HeadersOK /\ ParentsOK /\ LoopsListed /\ ContentsOK

Fresh ==
    /\ loops = <<>> /\ loop_parent = <<>> /\ header_pos = 1
    /\ block_parent = [n \in NodeSet(graph) |-> {}]

LEMMA FoundBegins == NumberedOK /\ Fresh => FoundInv
<1> SUFFICES ASSUME NumberedOK, Fresh PROVE FoundInv
  OBVIOUS
<1>1. Len(loops) = 0 /\ 1..Len(loops) = {} /\ Len(loop_parent) = 0
  BY DEF Fresh
<1>2. FoundTypeOK
  BY <1>1 DEF Fresh, FoundTypeOK
<1>3. HeadersOK /\ ContentsOK
  BY <1>1 DEF HeadersOK, ContentsOK
<1>4. ParentsOK
  <2>1. \A n : Inside(n) = {}
    BY <1>1 DEF Inside
  <2>2. \A n \in NodeSet(graph) : block_parent[n] = {}
    BY DEF Fresh
  <2>3. QED
    BY <1>1, <2>1, <2>2 DEF ParentsOK, FirstOf
<1>5. LoopsListed
  <2>1. \A h \in Reached : ~ (post_order_number[h] < header_pos - 1)
    BY DEF NumberedOK, Fresh
  <2>2. QED
    BY <1>1, <2>1 DEF LoopsListed
<1>6. QED
  BY <1>2, <1>3, <1>4, <1>5 DEF FoundInv

\* A header without latches has no loop.
LEMMA NoLoopStep ==
    ASSUME NumberedOK, FoundInv, NEW h \in Reached, post_order_number[h] = header_pos - 1,
           LatchesDef(graph, Reached, h) = {},
           graph' = graph, post_order_number' = post_order_number, header_pos' = header_pos + 1,
           loops' = loops, loop_parent' = loop_parent, block_parent' = block_parent
    PROVE  FoundInv'
<1>1. /\ Reached' = Reached /\ (\A i : HeaderOf(i)' = HeaderOf(i)) /\ (\A i : LoopAt(i)' = LoopAt(i))
      /\ (\A n : Inside(n)' = Inside(n)) /\ Members' = Members /\ AnyMembers' = AnyMembers
  BY DEF Reached, HeaderOf, LoopAt, Inside, Members, AnyMembers
<1>2. FoundTypeOK' /\ HeadersOK' /\ ParentsOK' /\ ContentsOK'
  <2>1. FoundTypeOK'
    BY <1>1 DEF FoundInv, FoundTypeOK
  <2>2. HeadersOK' /\ ParentsOK' /\ ContentsOK'
    BY <1>1 DEF FoundInv, HeadersOK, ParentsOK, ContentsOK
  <2>3. QED
    BY <2>1, <2>2
<1>3. LoopsListed'
  <2>1. header_pos \in Nat /\ LoopsListed /\ \A i \in 1..Len(loops) : HeaderOf(i) \in Reached
    BY DEF FoundInv, FoundTypeOK, HeadersOK
  <2>2. \A n \in Reached : post_order_number[n] \in Nat
    BY DEF NumberedOK
  <2>3. \A n \in Reached : post_order_number[n] < header_pos' - 1 => post_order_number[n] < header_pos - 1 \/ n = h
    <3>1. ASSUME NEW n \in Reached, post_order_number[n] < header_pos' - 1
          PROVE  post_order_number[n] < header_pos - 1 \/ post_order_number[n] = post_order_number[h]
      BY <2>1, <2>2, <3>1
    <3>2. QED
      BY <3>1 DEF NumberedOK
  <2>4. \A n \in Reached : post_order_number[n] < header_pos - 1 => post_order_number[n] < header_pos' - 1
    BY <2>1, <2>2
  <2>5. QED
    BY <1>1, <2>1, <2>3, <2>4 DEF LoopsListed
<1>4. QED
  BY <1>2, <1>3 DEF FoundInv

LEMMA LoopStep ==
    ASSUME IsGraph(graph), NumberedOK, DOMAIN dominators_map = Reached, FoundInv, NEW h \in Reached,
           post_order_number[h] = header_pos - 1, LatchesDef(graph, Reached, h) # {},
           graph' = graph, post_order_number' = post_order_number, header_pos' = header_pos + 1,
           find_body(h, LatchesDef(graph, Reached, h))
    PROVE  FoundInv'
<1>0. PICK l : l = Len(loops)
  OBVIOUS
<1> DEFINE N == Natural(graph, Reached, h)
           latches == LatchesDef(graph, Reached, h)
           B == BodyOf(h, latches)
           new == [header |-> h, latches |-> latches, contents |-> B]
           R == [header : Reached, latches : SUBSET Reached, contents : SUBSET AnyMembers]
           post == post_order_number
           up == [c \in DOMAIN loop_parent |-> IF <<"loop", c>> \in B THEN {l + 1} ELSE loop_parent[c]]
<1>1. /\ FoundTypeOK /\ HeadersOK /\ ParentsOK /\ LoopsListed /\ ContentsOK
  BY DEF FoundInv
<1>2. /\ header_pos \in Nat /\ header_pos >= 1 /\ loops \in Seq(R) /\ loop_parent \in Seq(SUBSET Nat)
      /\ Len(loop_parent) = l /\ DOMAIN block_parent = NodeSet(graph) /\ l \in Nat
  BY <1>0, <1>1 DEF FoundTypeOK
<1>3. \A i \in 1..l : post[HeaderOf(i)] < post[h]
  BY <1>0, <1>1 DEF LoopsListed
<1>4. B = PartsOf(N)
  BY <1>0, <1>1, <1>3, BodyResult
<1>5. /\ B \subseteq Members
      /\ \A n \in NodeSet(graph) : <<"block", n>> \in B <=> n \in N /\ Inside(n) = {}
      /\ \A c \in 1..l : <<"loop", c>> \in B <=> HeaderOf(c) \in N /\ Inside(HeaderOf(c)) = {c}
  <2> HIDE DEF B
  <2>1. \A i \in 1..Len(loops) : post_order_number[HeaderOf(i)] < post_order_number[h]
    BY <1>0, <1>3
  <2>2. B = PartsOf(Natural(graph, Reached, h))
    BY <1>4
  <2>3. /\ B \subseteq Members
        /\ \A n \in NodeSet(graph) : <<"block", n>> \in B <=> n \in Natural(graph, Reached, h) /\ Inside(n) = {}
        /\ \A c \in 1..Len(loops) :
              <<"loop", c>> \in B <=> HeaderOf(c) \in Natural(graph, Reached, h) /\ Inside(HeaderOf(c)) = {c}
    BY <1>1, <2>1, <2>2, BodyMembers
  <2>4. QED
    BY <1>0, <2>3
<1>6. Inside(h) = {}
  BY <1>0, <1>1, <1>3, NextHeader
<1>7. h \in N
  BY NaturalFacts DEF Reached
<1>8. /\ loops' = Append(loops, new) /\ loop_parent' = Append(up, {})
      /\ block_parent' = [n \in DOMAIN block_parent |-> IF <<"block", n>> \in B THEN {l + 1} ELSE block_parent[n]]
  BY <1>0 DEF find_body
<1>9. new \in R /\ new.header = h /\ new.latches = latches /\ new.contents = B
  <2>1. latches \in SUBSET Reached
    BY DEF LatchesDef
  <2>2. Members \subseteq AnyMembers
    BY <1>0, <1>2 DEF Members, AnyMembers
  <2>3. B \in SUBSET AnyMembers
    BY <1>5, <2>2
  <2> HIDE DEF B, latches
  <2>4. QED
    BY <2>1, <2>3
<1>10. \A c \in 1..l : loop_parent[c] \in SUBSET Nat /\ c \in DOMAIN loop_parent
  BY <1>2
<1>11. up \in Seq(SUBSET Nat) /\ Len(up) = l /\ \A c \in 1..l : up[c] = IF <<"loop", c>> \in B THEN {l + 1} ELSE loop_parent[c]
  <2>1. DOMAIN loop_parent = 1..l
    BY <1>2
  <2>2. {l + 1} \in SUBSET Nat
    BY <1>2
  <2> HIDE DEF B
  <2>3. up \in [1..l -> SUBSET Nat]
    BY <1>10, <2>1, <2>2
  <2>4. up \in Seq(SUBSET Nat) /\ Len(up) = l
    <3> HIDE DEF up
    <3>1. QED
      BY <1>2, <2>3
  <2>5. QED
    BY <2>1, <2>4
<1> HIDE DEF N, latches, B, new, R, post, up
<1>12. /\ loops' \in Seq(R) /\ Len(loops') = l + 1 /\ loops'[l + 1] = new /\ \A i \in 1..l : loops'[i] = loops[i]
  BY <1>0, <1>2, <1>8, <1>9, AppendProperties
<1>13. /\ loop_parent' \in Seq(SUBSET Nat) /\ Len(loop_parent') = l + 1 /\ loop_parent'[l + 1] = {}
       /\ \A c \in 1..l : loop_parent'[c] = IF <<"loop", c>> \in B THEN {l + 1} ELSE loop_parent[c]
  <2> DEFINE E == SUBSET Nat
  <2>1. {} \in E /\ up \in Seq(E)
    BY <1>11
  <2>2. Len(up) = l /\ \A c \in 1..l : up[c] = IF <<"loop", c>> \in B THEN {l + 1} ELSE loop_parent[c]
    BY <1>11
  <2> HIDE DEF E
  <2>3. /\ loop_parent' \in Seq(E) /\ Len(loop_parent') = l + 1 /\ loop_parent'[l + 1] = {}
        /\ \A c \in 1..l : loop_parent'[c] = up[c]
    BY <1>2, <1>8, <2>1, <2>2, AppendProperties
  <2>4. QED
    BY <2>2, <2>3 DEF E
<1>14. /\ DOMAIN block_parent' = NodeSet(graph)
       /\ \A n \in NodeSet(graph) : block_parent'[n] = IF <<"block", n>> \in B THEN {l + 1} ELSE block_parent[n]
  BY <1>2, <1>8
<1>15. /\ l + 1 \in 1..(l + 1) /\ (\A i \in 1..l : i \in 1..(l + 1) /\ i # l + 1 /\ i < l + 1)
       /\ \A i \in 1..(l + 1) : i \in 1..l \/ i = l + 1
  BY <1>2
<1>16. /\ Reached' = Reached /\ AnyMembers' = AnyMembers /\ N = Natural(graph, Reached, h)
       /\ \A i \in 1..l : HeaderOf(i)' = HeaderOf(i) /\ LoopAt(i)' = LoopAt(i)
       /\ \A i : i = l + 1 => HeaderOf(i)' = h /\ LoopAt(i)' = N
       /\ \A n : LatchesDef(graph, Reached, n)' = LatchesDef(graph, Reached, n)
  <2>1. Reached' = Reached /\ AnyMembers' = AnyMembers
    BY DEF Reached, AnyMembers
  <2>2. \A i : HeaderOf(i)' = loops'[i].header /\ LoopAt(i)' = Natural(graph, Reached, loops'[i].header)
    BY <2>1 DEF HeaderOf, LoopAt
  <2>3. \A i \in 1..l : HeaderOf(i)' = HeaderOf(i) /\ LoopAt(i)' = LoopAt(i)
    BY <1>12, <2>2 DEF HeaderOf, LoopAt
  <2>4. \A i : i = l + 1 => HeaderOf(i)' = h /\ LoopAt(i)' = N
    BY <1>9, <1>12, <2>2 DEF N
  <2>5. QED
    BY <2>1, <2>3, <2>4 DEF N, LatchesDef
<1>17. \A n : /\ Inside(n) \in SUBSET (1..l) /\ l + 1 \notin Inside(n)
              /\ Inside(n)' = IF n \in N THEN Inside(n) \cup {l + 1} ELSE Inside(n)
  <2>1. \A n : Inside(n) = {i \in 1..l : n \in LoopAt(i)}
    BY <1>0 DEF Inside
  <2>2. \A n : Inside(n)' = {i \in 1..(l + 1) : n \in LoopAt(i)'}
    BY <1>12 DEF Inside
  <2>3. ASSUME NEW n, NEW i \in 1..(l + 1)
        PROVE  n \in LoopAt(i)' <=> i \in Inside(n) \/ (i = l + 1 /\ n \in N)
    BY <1>15, <1>16, <2>1
  <2>4. ASSUME NEW n PROVE Inside(n) \in SUBSET (1..l) /\ l + 1 \notin Inside(n)
    BY <1>15, <2>1
  <2>5. ASSUME NEW n PROVE Inside(n)' = IF n \in N THEN Inside(n) \cup {l + 1} ELSE Inside(n)
    <3>1. \A i : i \in Inside(n)' <=> i \in 1..(l + 1) /\ (i \in Inside(n) \/ (i = l + 1 /\ n \in N))
      BY <2>2, <2>3
    <3>2. \A i \in Inside(n) : i \in 1..(l + 1)
      BY <1>15, <2>4
    <3>3. QED
      BY <1>15, <3>1, <3>2
  <2>6. QED
    BY <2>4, <2>5
<1>18. FoundTypeOK'
  <2>1. R' = R
    BY <1>16 DEF R
  <2>2. Len(loop_parent') = Len(loops')
    BY <1>12, <1>13
  <2>3. loops' \in Seq([header : Reached', latches : SUBSET Reached', contents : SUBSET AnyMembers'])
    BY <1>12, <1>16 DEF R
  <2>4. QED
    BY <1>2, <1>13, <1>14, <2>2, <2>3 DEF FoundTypeOK
<1>19. HeadersOK'
  <2>1. l + 1 \in Nat
    BY <1>2
  <2>2. \A i \in 1..(l + 1) : HeaderOf(i)' \in Reached'
    BY <1>0, <1>1, <1>15, <1>16 DEF HeadersOK
  <2>3. ASSUME NEW i \in 1..(l + 1), NEW j \in 1..(l + 1), i < j
        PROVE  post[HeaderOf(i)'] < post[HeaderOf(j)']
    <3>1. i \in 1..l
      BY <1>2, <2>3
    <3>2. CASE j = l + 1
      BY <1>3, <1>16, <3>1, <3>2
    <3>3. CASE j # l + 1
      BY <1>0, <1>1, <1>15, <1>16, <2>3, <3>1, <3>3 DEF HeadersOK, post
    <3>4. QED
      BY <3>2, <3>3
  <2>4. QED
    BY <1>12, <2>1, <2>2, <2>3 DEF HeadersOK, post
<1>20. ASSUME NEW n \in NodeSet(graph)
       PROVE  block_parent'[n] = FirstOf(Inside(n)') /\ block_parent[n] \in SUBSET (1..l)
  <2>1. block_parent[n] = FirstOf(Inside(n))
    BY <1>1 DEF ParentsOK
  <2>2. block_parent'[n] = IF n \in N /\ Inside(n) = {} THEN {l + 1} ELSE FirstOf(Inside(n))
    BY <1>5, <1>14, <2>1
  <2>3. FirstOf(Inside(n) \cup {l + 1}) = IF Inside(n) = {} THEN {l + 1} ELSE FirstOf(Inside(n))
    BY <1>2, <1>17, FirstOfMore
  <2>4. block_parent[n] \in SUBSET (1..l)
    BY <1>17, <2>1 DEF FirstOf
  <2>5. Inside(n)' = IF n \in N THEN Inside(n) \cup {l + 1} ELSE Inside(n)
    BY <1>17
  <2>6. CASE n \in N
    BY <2>2, <2>3, <2>4, <2>5, <2>6
  <2>7. CASE n \notin N
    BY <2>2, <2>4, <2>5, <2>7
  <2>8. QED
    BY <2>6, <2>7
<1>21. ASSUME NEW c \in 1..l, NEW k, k = HeaderOf(c)
       PROVE  /\ loop_parent'[c] = FirstOf(Inside(k)' \ {c}) /\ loop_parent[c] \in SUBSET (1..l)
              /\ HeaderOf(c)' = k
  <2>1. loop_parent[c] = FirstOf(Inside(k) \ {c}) /\ c \in Inside(k)
    BY <1>0, <1>1, <1>21, InsideFacts DEF ParentsOK
  <2> DEFINE I == Inside(k) \ {c}
  <2>2. I \in SUBSET (1..l) /\ (Inside(k) = {c} <=> I = {}) /\ c # l + 1
    BY <1>15, <1>17, <2>1
  <2>3. loop_parent'[c] = IF k \in N /\ I = {} THEN {l + 1} ELSE FirstOf(I)
    BY <1>5, <1>13, <1>21, <2>1, <2>2
  <2>4. FirstOf(I \cup {l + 1}) = IF I = {} THEN {l + 1} ELSE FirstOf(I)
    BY <1>2, <2>2, FirstOfMore
  <2>5. loop_parent[c] \in SUBSET (1..l)
    BY <2>1, <2>2 DEF FirstOf
  <2>6. Inside(k)' \ {c} = IF k \in N THEN I \cup {l + 1} ELSE I
    BY <1>17, <2>2
  <2>7. loop_parent'[c] = FirstOf(Inside(k)' \ {c})
    <3> HIDE DEF I
    <3>1. CASE k \in N
      BY <2>3, <2>4, <2>6, <3>1
    <3>2. CASE k \notin N
      BY <2>3, <2>6, <3>2
    <3>3. QED
      BY <3>1, <3>2
  <2>8. HeaderOf(c)' = k
    BY <1>16, <1>21
  <2>9. QED
    BY <2>5, <2>7, <2>8
<1>22. ParentsOK'
  <2>1. ASSUME NEW c \in 1..(l + 1) PROVE loop_parent'[c] = FirstOf(Inside(HeaderOf(c)) \ {c})'
    <3>1. ASSUME NEW k, k = HeaderOf(c)' PROVE Inside(HeaderOf(c))' = Inside(k)'
      BY <3>1 DEF Inside
    <3>2. CASE c \in 1..l
      <4>1. PICK k : k = HeaderOf(c)
        OBVIOUS
      <4>2. loop_parent'[c] = FirstOf(Inside(k)' \ {c}) /\ HeaderOf(c)' = k
        BY <1>21, <3>2, <4>1
      <4>3. QED
        BY <3>1, <4>2
    <3>3. CASE c = l + 1
      <4>1. HeaderOf(c)' = h
        BY <1>16, <3>3
      <4>2. Inside(h)' = {l + 1}
        BY <1>6, <1>7, <1>17
      <4>3. Inside(HeaderOf(c))' \ {c} = {}
        BY <3>1, <3>3, <4>1, <4>2
      <4>4. loop_parent'[c] = {}
        BY <1>13, <3>3
      <4>5. QED
        BY <4>3, <4>4 DEF FirstOf
    <3>4. QED
      BY <1>15, <3>2, <3>3
  <2>2. QED
    BY <1>12, <1>20, <2>1 DEF ParentsOK
<1>23. LoopsListed'
  <2>1. /\ \A n \in Reached : post[n] \in Nat
        /\ \A m, n \in Reached : post[m] = post[n] => m = n
    BY DEF NumberedOK, post
  <2>2. post[h] = header_pos - 1 /\ header_pos' - 1 = header_pos /\ post' = post
    BY <1>2 DEF post
  <2>3. ASSUME NEW i \in 1..(l + 1)
        PROVE  /\ post[HeaderOf(i)'] < header_pos' - 1
               /\ loops'[i].latches = LatchesDef(graph, Reached, HeaderOf(i)')
               /\ LatchesDef(graph, Reached, HeaderOf(i)') # {}
    <3>1. CASE i \in 1..l
      <4>1. /\ post[HeaderOf(i)] < header_pos - 1 /\ loops[i].latches = LatchesDef(graph, Reached, HeaderOf(i))
            /\ LatchesDef(graph, Reached, HeaderOf(i)) # {} /\ HeaderOf(i) \in Reached
        BY <1>0, <1>1, <3>1 DEF LoopsListed, HeadersOK, post
      <4>2. HeaderOf(i)' = HeaderOf(i) /\ loops'[i] = loops[i]
        BY <1>12, <1>16, <3>1
      <4>3. post[HeaderOf(i)] < header_pos' - 1
        BY <1>2, <2>1, <2>2, <4>1
      <4>4. QED
        BY <4>1, <4>2, <4>3
    <3>2. CASE i = l + 1
      <4>1. HeaderOf(i)' = h /\ loops'[i].latches = latches
        BY <1>9, <1>12, <1>16, <3>2
      <4>2. post[h] < header_pos' - 1
        BY <1>2, <2>2
      <4>3. QED
        BY <4>1, <4>2 DEF latches
    <3>3. QED
      BY <1>15, <3>1, <3>2
  <2>4. ASSUME NEW n \in Reached, post[n] < header_pos' - 1, LatchesDef(graph, Reached, n) # {}
        PROVE  \E i \in 1..(l + 1) : HeaderOf(i)' = n
    <3>1. CASE n = h
      BY <1>15, <1>16, <3>1
    <3>2. CASE n # h
      <4>1. post[n] < header_pos - 1
        BY <1>2, <2>1, <2>2, <2>4, <3>2
      <4>2. PICK i \in 1..l : HeaderOf(i) = n
        BY <1>0, <1>1, <2>4, <4>1 DEF LoopsListed, post
      <4>3. QED
        BY <1>15, <1>16, <4>2
    <3>3. QED
      BY <3>1, <3>2
  <2>5. \A i \in 1..Len(loops') : /\ post_order_number'[HeaderOf(i)'] < header_pos' - 1
                                   /\ loops'[i].latches = LatchesDef(graph', Reached', HeaderOf(i)')
                                   /\ LatchesDef(graph', Reached', HeaderOf(i)') # {}
    BY <1>12, <1>16, <2>3 DEF post
  <2>6. \A n \in Reached' : post_order_number'[n] < header_pos' - 1 /\ LatchesDef(graph', Reached', n) # {}
                             => \E i \in 1..Len(loops') : HeaderOf(i)' = n
    BY <1>12, <1>16, <2>4 DEF post
  <2>7. QED
    BY <2>5, <2>6 DEF LoopsListed
<1>24. /\ Members = ({"block"} \X NodeSet(graph)) \cup ({"loop"} \X (1..l))
       /\ Members' = ({"block"} \X NodeSet(graph)) \cup ({"loop"} \X (1..(l + 1)))
  BY <1>0, <1>12 DEF Members
<1>25. ASSUME NEW i \in 1..(l + 1)
       PROVE  /\ loops'[i].contents \subseteq Members'
              /\ \A n \in NodeSet(graph) : <<"block", n>> \in loops'[i].contents <=> i \in block_parent'[n]
              /\ \A c \in 1..(l + 1) : <<"loop", c>> \in loops'[i].contents <=> i \in loop_parent'[c]
  <2>1. Members \subseteq Members' /\ <<"loop", l + 1>> \notin Members
    <3>1. l + 1 \notin 1..l
      BY <1>2
    <3>2. \A c \in 1..l : c \in 1..(l + 1)
      BY <1>15
    <3>3. QED
      BY <1>24, <3>1, <3>2
  <2>2. CASE i \in 1..l
    <3>1. /\ loops'[i].contents = loops[i].contents /\ loops[i].contents \subseteq Members /\ i # l + 1
          /\ \A n \in NodeSet(graph) : <<"block", n>> \in loops[i].contents <=> i \in block_parent[n]
          /\ \A c \in 1..l : <<"loop", c>> \in loops[i].contents <=> i \in loop_parent[c]
      BY <1>0, <1>1, <1>12, <1>15, <2>2 DEF ContentsOK
    <3>2. ASSUME NEW n \in NodeSet(graph) PROVE i \in block_parent[n] <=> i \in block_parent'[n]
      <4>1. CASE <<"block", n>> \in B
        <5>1. block_parent[n] = {}
          BY <1>1, <1>5, <4>1 DEF ParentsOK, FirstOf
        <5>2. QED
          BY <1>14, <3>1, <4>1, <5>1
      <4>2. CASE <<"block", n>> \notin B
        BY <1>14, <4>2
      <4>3. QED
        BY <4>1, <4>2
    <3>3. ASSUME NEW c \in 1..l PROVE i \in loop_parent[c] <=> i \in loop_parent'[c]
      <4>1. CASE <<"loop", c>> \in B
        <5>1. Inside(HeaderOf(c)) \ {c} = {}
          BY <1>5, <4>1
        <5>2. loop_parent[c] = {}
          BY <1>0, <1>1, <5>1 DEF ParentsOK, FirstOf
        <5>3. QED
          BY <1>13, <3>1, <4>1, <5>2
      <4>2. CASE <<"loop", c>> \notin B
        BY <1>13, <4>2
      <4>3. QED
        BY <4>1, <4>2
    <3>4. <<"loop", l + 1>> \notin loops[i].contents /\ loop_parent'[l + 1] = {}
      BY <1>13, <2>1, <3>1
    <3>5. QED
      BY <1>15, <2>1, <3>1, <3>2, <3>3, <3>4
  <2>3. CASE i = l + 1
    <3>1. loops'[i].contents = B
      BY <1>9, <1>12, <2>3
    <3>2. \A n \in NodeSet(graph) : l + 1 \notin block_parent[n]
      BY <1>15, <1>20
    <3>3. \A c \in 1..l : l + 1 \notin loop_parent[c]
      BY <1>15, <1>21
    <3>4. \A n \in NodeSet(graph) : <<"block", n>> \in B <=> i \in block_parent'[n]
      BY <1>14, <2>3, <3>2
    <3>5. \A c \in 1..l : <<"loop", c>> \in B <=> i \in loop_parent'[c]
      BY <1>13, <2>3, <3>3
    <3>6. <<"loop", l + 1>> \notin B /\ loop_parent'[l + 1] = {}
      BY <1>5, <1>13, <2>1
    <3>7. QED
      BY <1>5, <1>15, <2>1, <3>1, <3>4, <3>5, <3>6
  <2>4. QED
    BY <1>15, <2>2, <2>3
<1>26. ContentsOK'
  BY <1>12, <1>25 DEF ContentsOK
<1>27. QED
  BY <1>18, <1>19, <1>22, <1>23, <1>26 DEF FoundInv

\* The loop tree at every moment: no loop is found before both walks are over, and from
\* then on one header is handled after the other.
LoopsInv ==
    /\ DomInv /\ DFSInv /\ LaterInv
    /\ Fresh \/ (Computed /\ dfs_stack = <<>> /\ FoundInv)

\* Both walks over: the tree has the nodes that the walk has numbered.
LEMMA BothWalksDone ==
    ASSUME LoopsInv, Computed, dfs_stack = <<>>
    PROVE  /\ IsGraph(graph) /\ NumberedOK /\ FoundInv /\ DOMAIN dominators_map = Reached
           /\ DFS!Discovered = Reached /\ DFS!Done /\ DFS!Cardinality(DFS!Discovered) = Cardinality(Reached)
           /\ Cardinality(Reached) \in Nat /\ Cardinality(Reached) >= 1
           /\ \A n \in Reached : post_order_number[n] \in 0..(Cardinality(Reached) - 1)
           /\ \A k \in 0..(Cardinality(Reached) - 1) : \E n \in Reached : post_order_number[n] = k
           /\ \A h \in Reached : latches_of(h) = LatchesDef(graph, Reached, h)
<1>1. DomInv /\ DFSInv /\ LaterInv
  BY DEF LoopsInv
<1>2. IsGraph(graph) /\ Reached \subseteq NodeSet(graph) /\ entry_node(graph) \in Reached
  BY <1>1, DFSFacts, GraphLemma, ReachFacts DEF Reached
<1>3. /\ DOMAIN pre_order_number = Reached
      /\ \A n \in Reached : post_order_number[n] \in 0..(Cardinality(Reached) - 1)
      /\ \A k \in 0..(Cardinality(Reached) - 1) : \E n \in Reached : post_order_number[n] = k
      /\ \A m, n \in Reached : post_order_number[m] = post_order_number[n] => m = n
      /\ \A d, n \in Reached : d # n /\ DominatesDef(graph, d, n) => post_order_number[n] < post_order_number[d]
  BY <1>1, DominatorsLater DEF Reached
<1>4. IsFiniteSet(Reached) /\ Cardinality(Reached) \in Nat /\ Cardinality(Reached) >= 1
  <2>1. IsFiniteSet(Reached) /\ Reached # {}
    BY <1>2, GraphLemma, FS_Subset
  <2>2. Cardinality(Reached) \in Nat /\ Cardinality(Reached) # 0
    BY <2>1, FS_CardinalityType, FS_EmptySet
  <2>3. QED
    BY <2>1, <2>2
<1>5. NumberedOK
  <2>1. \A n \in Reached : post_order_number[n] \in Nat
    BY <1>3, <1>4
  <2>2. QED
    BY <1>3, <2>1 DEF NumberedOK
<1>6. FoundInv
  BY <1>5, FoundBegins DEF LoopsInv
<1>7. DOMAIN dominators_map = Reached
  <2>1. RpoOK(graph, rpo) /\ DOMAIN dominators_map = {rpo[i] : i \in 1..Len(rpo)}
    BY <1>1, MapFacts
  <2>2. /\ \A i \in 1..Len(rpo) : rpo[i] \in Reached
        /\ \A v \in Reached : \E i \in 1..Len(rpo) : rpo[i] = v
    BY <2>1 DEF RpoOK, Reached
  <2>3. QED
    BY <2>1, <2>2
<1>8. ASSUME NEW h \in Reached PROVE latches_of(h) = LatchesDef(graph, Reached, h)
  <2>1. \A p : p \in latches_of(h) <=> p \in NodeSet(graph) /\ h \in Succs(graph, p) /\ contains(p) /\ dominates(h, p)
    BY DEF latches_of, Preds
  <2>2. \A p \in NodeSet(graph) : contains(p) => (dominates(h, p) <=> DominatesDef(graph, h, p))
    BY <1>1, <1>2, DominatorsListed
  <2>3. \A p : contains(p) <=> p \in Reached
    BY <1>7 DEF contains
  <2>4. \A p : p \in latches_of(h) <=> p \in LatchesDef(graph, Reached, h)
    BY <1>2, <2>1, <2>2, <2>3 DEF LatchesDef
  <2>5. \A p \in latches_of(h) : p \in Reached
    BY <2>4 DEF LatchesDef
  <2> QED
    BY <2>4
<1>9. DFS!Discovered = Reached /\ DFS!Done /\ DFS!Cardinality(DFS!Discovered) = Cardinality(Reached)
  <2>1. DFS!Discovered = Reached /\ DFS!Done
    BY <1>3 DEF DFS!Discovered, DFS!Done
  <2>2. QED
    BY <2>1, SameOperators
<1>10. QED
  BY <1>2, <1>3, <1>4, <1>5, <1>6, <1>7, <1>8, <1>9

LEMMA FindLoopStep == LoopsInv /\ FindLoop => FoundInv' /\ Computed' /\ dfs_stack' = <<>>
<1> SUFFICES ASSUME LoopsInv, FindLoop PROVE FoundInv' /\ Computed' /\ dfs_stack' = <<>>
  OBVIOUS
<1>1. Computed /\ dfs_stack = <<>>
  BY DEF FindLoop, DFS!Done
<1>2. /\ IsGraph(graph) /\ NumberedOK /\ FoundInv /\ DOMAIN dominators_map = Reached
      /\ DFS!Discovered = Reached /\ Cardinality(Reached) \in Nat
      /\ \A k \in 0..(Cardinality(Reached) - 1) : \E n \in Reached : post_order_number[n] = k
      /\ \A n \in Reached : latches_of(n) = LatchesDef(graph, Reached, n)
  BY <1>1, BothWalksDone
<1> DEFINE header == CHOOSE n \in DFS!Discovered : post_order_number[n] = header_pos - 1
<1>3. /\ header_pos <= Cardinality(DFS!Discovered) /\ header_pos' = header_pos + 1
      /\ IF latches_of(header) # {} THEN find_body(header, latches_of(header))
         ELSE UNCHANGED <<loops, loop_parent, block_parent>>
      /\ graph' = graph /\ post_order_number' = post_order_number /\ dfs_stack' = dfs_stack
      /\ dominators_map' = dominators_map
  BY DEF FindLoop, domVars, dfsVars
<1>4. header_pos \in Nat /\ header_pos >= 1
  BY <1>2 DEF FoundInv, FoundTypeOK
<1>5. header_pos - 1 \in 0..(Cardinality(Reached) - 1)
  BY <1>2, <1>3, <1>4
<1>6. header \in Reached /\ post_order_number[header] = header_pos - 1
  BY <1>2, <1>5
<1>7. PICK h \in Reached : h = header
  BY <1>6
<1> HIDE DEF header
<1>8. FoundInv'
  <2>1. CASE LatchesDef(graph, Reached, h) = {}
    BY <1>2, <1>3, <1>6, <1>7, <2>1, NoLoopStep
  <2>2. CASE LatchesDef(graph, Reached, h) # {}
    BY <1>2, <1>3, <1>6, <1>7, <2>2, LoopStep
  <2>3. QED
    BY <2>1, <2>2
<1>9. QED
  BY <1>1, <1>3, <1>8 DEF Computed

\* Once the tree is built, its steps are over.
LEMMA TreeOver == DomInv /\ Computed => ~ TreeNext
<1> SUFFICES ASSUME DomInv, Computed, TreeNext PROVE FALSE
  OBVIOUS
<1>1. dom # <<>> /\ WalkDone /\ PassInv
  BY DEF DomInv
<1>2. ~ changed /\ pos > Len(rpo)
  BY <1>1 DEF PassInv
<1>3. pos \notin DOMAIN rpo
  <2>1. pos \in DOMAIN rpo <=> pos <= Len(rpo)
    BY <1>1, DomFacts
  <2>2. pos \in Nat /\ Len(rpo) \in Nat
    BY <1>1, DomFacts DEF PassInv
  <2>3. QED
    BY <1>2, <2>1, <2>2
<1>4. ~ HandleNode /\ ~ Start /\ ~ NextPass /\ ~ BuildTree
  BY <1>1, <1>2, <1>3 DEF HandleNode, Start, NextPass, BuildTree
<1>5. ~ WalkNext
  <2>1. WalkInv /\ ~ Walking /\ root > Len(graph.nodes)
    BY <1>1 DEF DomInv, WalkDone
  <2>2. root \in Nat /\ Len(graph.nodes) \in Nat
    <3>1. Len(graph.nodes) \in Nat /\ root \in 1..(Len(graph.nodes) + 1)
      BY <2>1, WalkFacts DEF WalkInv, WalkTypeOK
    <3>2. QED
      BY <3>1
  <2>3. ~ (root <= Len(graph.nodes))
    BY <2>1, <2>2
  <2>4. QED
    BY <2>1, <2>3 DEF WalkNext, StartComponent, VisitSuccessor, FinishNode
<1>6. QED
  BY <1>4, <1>5 DEF TreeNext, Order

LEMMA LoopsBegin == LoopInit => LoopsInv
<1> SUFFICES ASSUME LoopInit PROVE LoopsInv
  OBVIOUS
<1>1. graph \in Graphs /\ TreeInit /\ DFS!Init /\ Fresh
  BY DEF LoopInit, Fresh
<1>2. QED
  BY <1>1, DomBegins, DFSBegins, LaterBegins DEF LoopsInv

LEMMA LoopsStep == LoopsInv /\ [LoopNext]_loopVars => LoopsInv'
<1> SUFFICES ASSUME LoopsInv, [LoopNext]_loopVars PROVE LoopsInv'
  OBVIOUS
<1>1. DomInv /\ DFSInv /\ LaterInv
  BY DEF LoopsInv
<1>2. (TreeNext \/ UNCHANGED domVars) /\ (DFS!Next \/ UNCHANGED <<graph, dfsVars>>)
  <2>1. CASE Dominators
    <3>1. WalkNext \/ UNCHANGED walkVars
      BY <2>1 DEF Dominators, TreeNext, Order, Start, HandleNode, NextPass, BuildTree
    <3>2. graph' = graph
      BY <3>1 DEF WalkNext, StartComponent, VisitSuccessor, FinishNode, walkVars
    <3>3. QED
      BY <2>1, <3>2 DEF Dominators
  <2>2. CASE Traverse
    BY <2>2 DEF Traverse, domVars, treeVars, walkVars
  <2>3. CASE FindLoop
    BY <2>3 DEF FindLoop, domVars
  <2>4. CASE UNCHANGED loopVars
    BY <2>4 DEF loopVars, domVars, dfsVars
  <2>5. QED
    BY <2>1, <2>2, <2>3, <2>4 DEF LoopNext
<1>3. DomInv' /\ DFSInv' /\ LaterInv'
  BY <1>1, <1>2, DomStep, DFSStep, LaterStep
<1>4. Fresh' \/ (Computed' /\ dfs_stack' = <<>> /\ FoundInv')
  <2>1. CASE FindLoop
    BY <2>1, FindLoopStep
  <2>2. CASE Fresh /\ (Dominators \/ Traverse \/ UNCHANGED loopVars)
    <3>1. graph' = graph /\ foundVars' = foundVars
      <4>1. graph' = graph
        BY <1>2, <2>2 DEF Dominators, Traverse, walkVars, loopVars, TreeNext, Order, Start, HandleNode, NextPass,
                          BuildTree, WalkNext, StartComponent, VisitSuccessor, FinishNode
      <4>2. QED
        BY <2>2, <4>1 DEF Dominators, Traverse, foundVars, loopVars
    <3>2. QED
      BY <2>2, <3>1 DEF Fresh, foundVars
  <2>3. CASE Computed /\ dfs_stack = <<>> /\ FoundInv /\ (Dominators \/ Traverse \/ UNCHANGED loopVars)
    <3>1. ~ Dominators
      BY <1>1, <2>3, TreeOver DEF Dominators
    <3>2. ~ Traverse
      BY <2>3 DEF Traverse, DFS!Next, DFS!VisitSuccessor, DFS!FinishNode, DFS!Done
    <3>3. UNCHANGED loopVars
      BY <2>3, <3>1, <3>2
    <3>4. /\ graph' = graph /\ loops' = loops /\ loop_parent' = loop_parent /\ block_parent' = block_parent
          /\ header_pos' = header_pos /\ post_order_number' = post_order_number /\ dfs_stack' = dfs_stack
          /\ dominators_map' = dominators_map
      BY <3>3 DEF loopVars
    <3>5. FoundTypeOK' /\ HeadersOK' /\ ParentsOK'
      BY <2>3, <3>4 DEF FoundInv, FoundTypeOK, HeadersOK, ParentsOK, Reached, AnyMembers, HeaderOf, Inside, LoopAt
    <3>6. LoopsListed' /\ ContentsOK'
      BY <2>3, <3>4 DEF FoundInv, LoopsListed, ContentsOK, Members, Reached, HeaderOf
    <3>7. QED
      BY <2>3, <3>4, <3>5, <3>6 DEF FoundInv, Computed
  <2>4. QED
    BY <2>1, <2>2, <2>3 DEF LoopsInv, LoopNext
<1>5. QED
  BY <1>3, <1>4 DEF LoopsInv

LEMMA EnclosingNodes ==
    ASSUME IsGraph(graph), NumberedOK, FoundInv, DOMAIN dominators_map = Reached
    PROVE  /\ \A id \in 1..Len(loops) : ToSet(Enclosing(id)) = Inside(HeaderOf(id)) /\ blocks(id) = LoopAt(id)
           /\ DOMAIN loops = 1..Len(loops) /\ Len(loops) \in Nat
<1>1. HeadersOK /\ ParentsOK /\ FoundTypeOK
  BY DEF FoundInv
<1>2. DOMAIN loops = 1..Len(loops) /\ Len(loops) \in Nat
  BY <1>1 DEF FoundTypeOK
<1>3. Reached \subseteq NodeSet(graph)
  BY GraphLemma, ReachFacts DEF Reached
<1>4. \A id \in 1..Len(loops) : ToSet(Enclosing(id)) = Inside(HeaderOf(id))
  BY <1>1, EnclosingLoops
<1>5. ASSUME NEW id \in 1..Len(loops) PROVE blocks(id) = LoopAt(id)
  <2>1. blocks(id) = {n \in Reached : \E p \in block_parent[n] : id \in ToSet(Enclosing(p))}
    BY DEF blocks
  <2>2. ASSUME NEW n \in Reached
        PROVE  (\E p \in block_parent[n] : id \in ToSet(Enclosing(p))) <=> id \in Inside(n)
    <3>1. block_parent[n] = FirstOf(Inside(n)) /\ Inside(n) \in SUBSET (1..Len(loops))
      BY <1>1, <1>3 DEF ParentsOK, Inside
    <3>2. CASE Inside(n) = {}
      BY <1>2, <3>1, <3>2, FirstOfFacts
    <3>3. CASE Inside(n) # {}
      <4>1. PICK i \in Inside(n) : FirstOf(Inside(n)) = {i} /\ \A j \in Inside(n) : i <= j
        BY <1>2, <3>1, <3>3, FirstOfFacts
      <4>2. ToSet(Enclosing(i)) = {j \in Inside(n) : i <= j}
        BY <1>1, <1>4, <3>1, InsideFacts
      <4>3. QED
        BY <3>1, <4>1, <4>2
    <3>4. QED
      BY <3>2, <3>3
  <2>3. LoopAt(id) \subseteq Reached
    BY <1>1, NaturalFacts DEF LoopAt, Reached, HeadersOK
  <2>4. \A n : id \in Inside(n) <=> n \in LoopAt(id)
    BY DEF Inside
  <2>5. QED
    BY <2>1, <2>2, <2>3, <2>4
<1>6. QED
  BY <1>2, <1>4, <1>5

LEMMA NaturalResult ==
    ASSUME LoopsInv, TreeDone
    PROVE  NaturalLoops
<1>1. Computed /\ dfs_stack = <<>> /\ header_pos > Cardinality(DFS!Discovered)
  BY DEF TreeDone, DFS!Done
<1>2. /\ IsGraph(graph) /\ NumberedOK /\ FoundInv /\ DOMAIN dominators_map = Reached
      /\ DFS!Discovered = Reached /\ Cardinality(Reached) \in Nat
      /\ \A n \in Reached : post_order_number[n] \in 0..(Cardinality(Reached) - 1)
  BY <1>1, BothWalksDone
<1>3. HeadersOK /\ ParentsOK /\ FoundTypeOK /\ LoopsListed
  BY <1>2 DEF FoundInv
<1> DEFINE L == Len(loops)
           isLatch(l, h) == h \in Succs(graph, l) /\ DominatesDef(graph, h, l)
           headers == {h \in Reached : \E l \in Reached : isLatch(l, h)}
<1>4. /\ DOMAIN loops = 1..L /\ L \in Nat
      /\ \A id \in 1..L : blocks(id) = LoopAt(id)
  BY <1>2, EnclosingNodes
<1>5. ASSUME NEW h \in Reached PROVE {l \in Reached : isLatch(l, h)} = LatchesDef(graph, Reached, h)
  BY DEF LatchesDef
<1>6. headers = {HeaderOf(i) : i \in 1..L}
  <2>1. ASSUME NEW i \in 1..L PROVE HeaderOf(i) \in headers
    <3>1. HeaderOf(i) \in Reached /\ LatchesDef(graph, Reached, HeaderOf(i)) # {}
      BY <1>3 DEF HeadersOK, LoopsListed
    <3>2. QED
      BY <3>1 DEF LatchesDef
  <2>2. ASSUME NEW h \in headers PROVE \E i \in 1..L : HeaderOf(i) = h
    <3>1. h \in Reached /\ LatchesDef(graph, Reached, h) # {}
      BY DEF LatchesDef
    <3>2. post_order_number[h] < header_pos - 1
      <4>1. header_pos \in Nat /\ post_order_number[h] \in 0..(Cardinality(Reached) - 1)
        BY <1>2, <1>3, <3>1 DEF FoundTypeOK
      <4>2. QED
        BY <1>1, <1>2, <4>1
    <3>3. QED
      BY <1>3, <3>1, <3>2 DEF LoopsListed
  <2> HIDE DEF headers
  <2>3. QED
    BY <2>1, <2>2
<1>7. L = Cardinality(headers)
  <2> DEFINE I == 1..L
             f == [i \in I |-> HeaderOf(i)]
  <2>1. \A i, j \in I : HeaderOf(i) = HeaderOf(j) => i = j
    <3>1. ASSUME NEW i \in I, NEW j \in I, i < j PROVE HeaderOf(i) # HeaderOf(j)
      <4>1. /\ post_order_number[HeaderOf(i)] < post_order_number[HeaderOf(j)]
            /\ HeaderOf(i) \in Reached /\ HeaderOf(j) \in Reached
        BY <1>3, <3>1 DEF HeadersOK
      <4>2. post_order_number[HeaderOf(i)] \in Nat
        BY <1>2, <4>1 DEF NumberedOK
      <4>3. QED
        BY <4>1, <4>2
    <3>2. \A i, j \in I : i = j \/ i < j \/ j < i
      BY <1>4
    <3>3. QED
      BY <3>1, <3>2
  <2> HIDE DEF headers, I
  <2>2. headers = {HeaderOf(i) : i \in I}
    BY <1>6 DEF I
  <2>3. f \in Injection(I, headers) /\ f \in Surjection(I, headers)
    BY <2>1, <2>2 DEF Injection, Surjection, IsInjective
  <2>4. ExistsBijection(I, headers)
    BY <2>3 DEF ExistsBijection, Bijection
  <2>5. IsFiniteSet(I) /\ Cardinality(I) = L
    <3>1. Cardinality(1..L) = IF 1 > L THEN 0 ELSE L - 1 + 1
      BY <1>4, FS_Interval
    <3>2. IsFiniteSet(1..L)
      BY <1>4, FS_Interval
    <3> HIDE DEF L
    <3>3. QED
      BY <1>4, <3>1, <3>2 DEF I
  <2>6. QED
    BY <2>4, <2>5, FS_Bijection
<1>8. ASSUME NEW id \in 1..L
      PROVE  LET h == loops[id].header
             IN  /\ loops[id].latches = {l \in Reached : isLatch(l, h)}
                 /\ blocks(id) = {h} \cup {n \in Reached : \E l \in ReachAvoiding(graph, {n}, {h}) : isLatch(l, h)}
  <2> DEFINE h == loops[id].header
  <2>1. h \in Reached /\ loops[id].latches = LatchesDef(graph, Reached, h)
    BY <1>3 DEF HeadersOK, LoopsListed, HeaderOf
  <2>2. LoopAt(id) = {h} \cup {n \in Reached : \E l \in ReachAvoiding(graph, {n}, {h}) : isLatch(l, h)}
    BY DEF LoopAt, Natural, HeaderOf
  <2> HIDE DEF h
  <2>3. loops[id].latches = {l \in Reached : isLatch(l, h)}
    BY <1>5, <2>1
  <2>4. blocks(id) = LoopAt(id)
    BY <1>4
  <2> HIDE DEF isLatch
  <2>5. /\ loops[id].latches = {l \in Reached : isLatch(l, h)}
        /\ blocks(id) = {h} \cup {n \in Reached : \E l \in ReachAvoiding(graph, {n}, {h}) : isLatch(l, h)}
    BY <2>2, <2>3, <2>4
  <2>6. QED
    BY <2>5, Zenon DEF h
<1>9. {loops[id].header : id \in DOMAIN loops} = headers
  <2> HIDE DEF headers
  <2>1. QED
    BY <1>4, <1>6 DEF HeaderOf
<1>10. QED
  <2>1. L = Cardinality(headers) /\ DOMAIN loops = 1..L
    BY <1>4, <1>7
  <2>2. \A id \in DOMAIN loops :
          LET h == loops[id].header
          IN  /\ loops[id].latches = {l \in DOMAIN dominators_map : isLatch(l, h)}
              /\ blocks(id) = {h} \cup {n \in DOMAIN dominators_map : \E l \in ReachAvoiding(graph, {n}, {h}) : isLatch(l, h)}
    BY <1>2, <1>8, <2>1, Zenon
  <2>3. headers = {h \in DOMAIN dominators_map : \E l \in DOMAIN dominators_map : isLatch(l, h)}
    BY <1>2
  <2>4. QED
    BY <1>9, <2>1, <2>2, <2>3, Zenon DEF NaturalLoops

LEMMA ChildrenResult ==
    ASSUME LoopsInv, TreeDone
    PROVE  EachChildOnce
<1>1. Computed /\ dfs_stack = <<>>
  BY DEF TreeDone, DFS!Done
<1>2. IsGraph(graph) /\ NumberedOK /\ FoundInv /\ DOMAIN dominators_map = Reached
  BY <1>1, BothWalksDone
<1>3. HeadersOK /\ ParentsOK /\ ContentsOK
  BY <1>2 DEF FoundInv
<1> DEFINE L == Len(loops)
<1>4. /\ DOMAIN loops = 1..L /\ L \in Nat
      /\ \A id \in 1..L : ToSet(Enclosing(id)) = Inside(HeaderOf(id))
  BY <1>2, EnclosingNodes
<1>5. ASSUME NEW I \in SUBSET (1..L), NEW i \in FirstOf(I), NEW j \in FirstOf(I) PROVE i = j
  BY <1>4 DEF FirstOf
<1>6. \A n : Inside(n) \in SUBSET (1..L)
  BY DEF Inside
<1>7. ASSUME NEW i \in 1..L, NEW j \in 1..L, NEW x \in loops[i].contents, x \in loops[j].contents PROVE i = j
  <2>1. x \in Members
    BY <1>3 DEF ContentsOK
  <2>2. CASE x \in {"block"} \X NodeSet(graph)
    <3>1. PICK n \in NodeSet(graph) : x = <<"block", n>>
      BY <2>2
    <3>2. i \in block_parent[n] /\ j \in block_parent[n] /\ block_parent[n] = FirstOf(Inside(n))
      BY <1>3, <1>7, <3>1 DEF ContentsOK, ParentsOK
    <3> HIDE DEF L
    <3>3. QED
      BY <1>5, <1>6, <3>2
  <2>3. CASE x \in {"loop"} \X (1..L)
    <3>1. PICK c \in 1..L : x = <<"loop", c>>
      BY <2>3
    <3>2. i \in loop_parent[c] /\ j \in loop_parent[c] /\ loop_parent[c] = FirstOf(Inside(HeaderOf(c)) \ {c})
      BY <1>3, <1>7, <3>1 DEF ContentsOK, ParentsOK
    <3>3. Inside(HeaderOf(c)) \ {c} \in SUBSET (1..L)
      BY <1>6
    <3> HIDE DEF L
    <3>4. QED
      BY <1>5, <3>2, <3>3
  <2>4. QED
    BY <2>1, <2>2, <2>3 DEF Members
<1>8. ASSUME NEW i \in 1..L, NEW j \in loop_parent[i]
      PROVE  post_order_number[loops[j].header] > post_order_number[loops[i].header] /\ depth(j) < depth(i)
  <2>1. j \in Inside(HeaderOf(i)) \ {i}
    BY <1>3 DEF ParentsOK, FirstOf
  <2>2. i \in Inside(HeaderOf(i)) /\ i <= j /\ Inside(HeaderOf(j)) = {k \in Inside(HeaderOf(i)) : j <= k} /\ j \in 1..L
    BY <1>2, <1>3, <1>6, <2>1, InsideFacts
  <2>3. i < j /\ ~ (j <= i)
    BY <1>4, <2>1, <2>2
  <2>4. post_order_number[HeaderOf(i)] < post_order_number[HeaderOf(j)]
    BY <1>3, <2>2, <2>3 DEF HeadersOK
  <2>5. post_order_number[HeaderOf(i)] \in Nat /\ post_order_number[HeaderOf(j)] \in Nat
    BY <1>2, <1>3, <2>2 DEF HeadersOK, NumberedOK
  <2> DEFINE A == Inside(HeaderOf(i))
             B == Inside(HeaderOf(j))
  <2>6. B \in SUBSET A /\ A # B /\ A \in SUBSET (1..L)
    BY <1>6, <2>2, <2>3
  <2>7. depth(i) = Cardinality(A) /\ depth(j) = Cardinality(B)
    BY <1>4, <2>2 DEF depth
  <2> HIDE DEF A, B
  <2>8. IsFiniteSet(A)
    <3>1. IsFiniteSet(1..L)
      <4>1. L \in Int /\ 1 \in Int
        BY <1>4
      <4> HIDE DEF L
      <4>2. QED
        BY <4>1, FS_Interval
    <3>2. QED
      BY <2>6, <3>1, FS_Subset
  <2>9. IsFiniteSet(B) /\ Cardinality(B) <= Cardinality(A) /\ Cardinality(A) # Cardinality(B)
    BY <2>6, <2>8, FS_Subset
  <2>10. Cardinality(A) \in Nat /\ Cardinality(B) \in Nat
    BY <2>8, <2>9, FS_CardinalityType
  <2>11. depth(j) < depth(i)
    BY <2>7, <2>9, <2>10
  <2>12. QED
    BY <2>4, <2>5, <2>11 DEF HeaderOf
<1>9. \A i, j \in DOMAIN loops : i # j => loops[i].contents \cap loops[j].contents = {}
  BY <1>4, <1>7
<1>10. QED
  BY <1>4, <1>8, <1>9 DEF EachChildOnce

LEMMA LoopsResult == LoopsInv => LoopTreeCorrect
BY NaturalResult, ChildrenResult DEF LoopTreeCorrect

\* compute_loop_tree, whatever it is asked for: the loops found so far are those of the
\* headers handled so far, nested as their natural loops are, and every block and loop
\* knows the first loop around it.
THEOREM LoopsInvariant == LoopSpec => []LoopsInv
<1>1. LoopInit => LoopsInv
  BY LoopsBegin
<1>2. LoopsInv /\ [LoopNext]_loopVars => LoopsInv'
  BY LoopsStep
<1>3. QED
  BY <1>1, <1>2, PTL DEF LoopSpec

\* loop_tree.rs: the loop tree has the natural loop of every header of back edges, with the
\* nodes that reach a latch without passing the header, and every block and loop is a
\* child of one parent at most, which is outside of it; on every graph, irreducible or not.
THEOREM LoopTreesAreCorrect == LoopSpec => []LoopTreeCorrect
<1>1. LoopsInv => LoopTreeCorrect
  BY LoopsResult
<1>2. QED
  BY <1>1, LoopsInvariant, PTL
=============================================================================
