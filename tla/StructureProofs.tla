-------------------------- MODULE StructureProofs --------------------------
(***************************************************************************)
(* Proofs about the small structures that everything is kept in, for any   *)
(* size of each: the linked lists, the store of unique objects, symbol     *)
(* tables, the names of results and arguments, union-find, which           *)
(* implements a partition, and the names of a text that is parsed.         *)
(***************************************************************************)
EXTENDS LinkedList, UniqueStore, SymbolTable, GivenNames, UnionFind, NameTracker, SeqLemmas

(***************************************************************************)
(* The linked lists.  The inductive invariant is TypeOK /\ Coupled.  The   *)
(* four insertions are one lemma, SpliceLemma, about putting a free node   *)
(* at position p of a list.                                                *)
(***************************************************************************)
LinksInv == TypeOK /\ Coupled

\* The links that putting the free node n at position p of c must leave.
Spliced(n, c, p) ==
    LET s == items[c] IN
    /\ items' = [items EXCEPT ![c] = InsertAt(@, p, n)]
    /\ container' = [container EXCEPT ![n] = c]
    /\ next' = [m \in Node |->
                  IF m = n THEN (IF p = Len(s) + 1 THEN None ELSE s[p])
                  ELSE IF p > 1 /\ m = s[p - 1] THEN n ELSE next[m]]
    /\ prev' = [m \in Node |->
                  IF m = n THEN (IF p = 1 THEN None ELSE s[p - 1])
                  ELSE IF p < Len(s) + 1 /\ m = s[p] THEN n ELSE prev[m]]
    /\ head' = [head EXCEPT ![c] = IF p = 1 THEN n ELSE @]
    /\ tail' = [tail EXCEPT ![c] = IF p = Len(s) + 1 THEN n ELSE @]

\* A splice of a free node preserves the invariant.
LEMMA SpliceLemma ==
    ASSUME LinksInv, NEW n \in Node, NEW c \in Container, NEW p \in 1..(Len(items[c]) + 1),
           container[n] = None, Spliced(n, c, p)
    PROVE  LinksInv'
<1> DEFINE s == items[c]
           t == items'[c]
<1> USE NoneAssumption
<1>1. s \in Seq(Node)
  BY DEF LinksInv, TypeOK
<1>2. t = InsertAt(s, p, n)
  BY DEF LinksInv, TypeOK, Spliced
<1>3. /\ t \in Seq(Node)
      /\ Len(t) = Len(s) + 1
      /\ \A k \in 1..Len(t) : t[k] = IF k < p THEN s[k] ELSE IF k = p THEN n ELSE s[k - 1]
  <2>1. InsertAt(s, p, n) \in Seq(Node) /\ Inserted(s, p, n, InsertAt(s, p, n))
    BY <1>1, InsertAtLemma, Zenon
  <2>2. t \in Seq(Node) /\ Inserted(s, p, n, t)
    BY <1>2, <2>1, Zenon
  <2> HIDE DEF s, t
  <2> QED BY <2>2 DEF Inserted
<1>4. \A d \in Container : d # c => items'[d] = items[d]
  BY DEF LinksInv, TypeOK, Spliced
<1>5. TypeOK'
  <2>1. items' \in [Container -> Seq(Node)]
    BY <1>3, <1>4 DEF LinksInv, TypeOK, Spliced
  <2>2. next' \in [Node -> Node \cup {None}]
    BY <1>1 DEF LinksInv, TypeOK, Spliced
  <2>3. prev' \in [Node -> Node \cup {None}]
    BY <1>1 DEF LinksInv, TypeOK, Spliced
  <2>4. /\ container' \in [Node -> Container \cup {None}]
        /\ head' \in [Container -> Node \cup {None}]
        /\ tail' \in [Container -> Node \cup {None}]
    BY DEF LinksInv, TypeOK, Spliced
  <2> QED BY <2>1, <2>2, <2>3, <2>4 DEF TypeOK
<1>6. \A d \in Container : \A i \in 1..Len(items[d]) :
         items[d][i] \in Node /\ items[d][i] # n /\ container[items[d][i]] = d
  BY DEF LinksInv, TypeOK, Coupled, NodeCoupled
<1>7. ASSUME NEW d \in Container, d # c, NEW i \in 1..Len(items[d])
      PROVE  NodeCoupled(d, i)'
  <2>1. NodeCoupled(d, i)
    BY DEF LinksInv, Coupled
  <2>2. \A j \in 1..Len(s) : items[d][i] # s[j]
    BY <1>6, <1>7
  <2>3. /\ container'[items[d][i]] = d
        /\ next'[items[d][i]] = next[items[d][i]]
        /\ prev'[items[d][i]] = prev[items[d][i]]
    BY <1>1, <1>6, <1>7, <2>2 DEF LinksInv, TypeOK, Spliced
  <2> QED BY <1>4, <1>7, <2>1, <2>3 DEF NodeCoupled
<1>8. \A i \in 1..Len(s) :
        /\ container[s[i]] = c
        /\ prev[s[i]] = IF i = 1 THEN None ELSE s[i - 1]
        /\ next[s[i]] = IF i = Len(s) THEN None ELSE s[i + 1]
        /\ \A j \in 1..Len(s) : s[j] = s[i] => j = i
  BY DEF LinksInv, Coupled, NodeCoupled
<1>9. ASSUME NEW i \in 1..Len(t)
      PROVE  NodeCoupled(c, i)'
  <2>0. /\ Len(s) \in Nat /\ Len(t) = Len(s) + 1 /\ p \in 1..(Len(s) + 1) /\ i \in 1..(Len(s) + 1)
        /\ \A k \in 1..(Len(s) + 1) : /\ k < p => k \in 1..Len(s) /\ t[k] = s[k]
                                      /\ k = p => t[k] = n
                                      /\ k > p => k - 1 \in 1..Len(s) /\ t[k] = s[k - 1]
    BY <1>1, <1>3
  <2>1. \A k \in 1..Len(s) : s[k] \in Node /\ s[k] # n
    BY <1>6
  <2>2. \A m \in Node :
           /\ container'[m] = IF m = n THEN c ELSE container[m]
           /\ prev'[m] = IF m = n THEN (IF p = 1 THEN None ELSE s[p - 1])
                         ELSE IF p < Len(s) + 1 /\ m = s[p] THEN n ELSE prev[m]
           /\ next'[m] = IF m = n THEN (IF p = Len(s) + 1 THEN None ELSE s[p])
                         ELSE IF p > 1 /\ m = s[p - 1] THEN n ELSE next[m]
    BY DEF LinksInv, TypeOK, Spliced
  <2> HIDE DEF s, t
  <2>3. CASE i < p
    <3>1. i \in 1..Len(s) /\ t[i] = s[i] /\ s[i] \in Node /\ s[i] # n
      BY <2>0, <2>1, <2>3
    <3>2. prev'[s[i]] = prev[s[i]]
      <4>1. p < Len(s) + 1 => s[i] # s[p]
        BY <1>8, <2>0, <2>3, <3>1
      <4> QED BY <2>2, <3>1, <4>1
    <3>3. i > 1 => t[i - 1] = s[i - 1]
      BY <2>0, <2>3
    <3>4. prev'[t[i]] = IF i = 1 THEN None ELSE t[i - 1]
      BY <1>8, <2>0, <3>1, <3>2, <3>3
    <3>5. next'[t[i]] = IF i = Len(t) THEN None ELSE t[i + 1]
      <4>1. CASE i + 1 = p
        <5>1. i = p - 1 /\ i # Len(t) /\ p > 1 /\ t[i + 1] = n
          BY <2>0, <2>3, <4>1
        <5> QED BY <2>2, <3>1, <5>1
      <4>2. CASE i + 1 < p
        <5>1. i + 1 \in 1..Len(s) /\ t[i + 1] = s[i + 1] /\ i # Len(t) /\ i # Len(s)
          BY <2>0, <4>2
        <5>2. p - 1 \in 1..Len(s) /\ p - 1 # i /\ s[p - 1] # s[i]
          BY <1>8, <2>0, <3>1, <4>2
        <5>3. next'[s[i]] = next[s[i]]
          BY <2>2, <3>1, <5>2
        <5> QED BY <1>8, <3>1, <5>1, <5>3
      <4> QED BY <2>0, <2>3, <4>1, <4>2
    <3>6. \A j \in 1..Len(t) : t[j] = t[i] => j = i
      <4> SUFFICES ASSUME NEW j \in 1..Len(t), t[j] = t[i] PROVE j = i
        OBVIOUS
      <4>1. CASE j < p
        BY <1>8, <2>0, <3>1, <4>1
      <4>2. CASE j = p
        BY <2>0, <3>1, <4>2
      <4>3. CASE j > p
        <5>1. j - 1 \in 1..Len(s) /\ s[j - 1] = s[i]
          BY <2>0, <3>1, <4>3
        <5>2. j - 1 = i
          BY <1>8, <3>1, <5>1
        <5> QED BY <2>0, <2>3, <4>3, <5>2
      <4> QED BY <2>0, <4>1, <4>2, <4>3
    <3>7. container'[t[i]] = c
      BY <1>8, <2>2, <3>1
    <3> QED BY <3>4, <3>5, <3>6, <3>7 DEF NodeCoupled, t
  <2>4. CASE i = p
    <3>1. t[i] = n
      BY <2>0, <2>4
    <3>2. i > 1 => t[i - 1] = s[p - 1]
      BY <2>0, <2>4
    <3>3. i # Len(t) => t[i + 1] = s[p]
      BY <2>0, <2>4
    <3>4. prev'[t[i]] = IF i = 1 THEN None ELSE t[i - 1]
      BY <2>0, <2>2, <2>4, <3>1, <3>2
    <3>5. next'[t[i]] = IF i = Len(t) THEN None ELSE t[i + 1]
      BY <2>0, <2>2, <2>4, <3>1, <3>3
    <3>6. \A j \in 1..Len(t) : t[j] = t[i] => j = i
      BY <2>0, <2>1, <2>4, <3>1
    <3>7. container'[t[i]] = c
      BY <2>2, <3>1
    <3> QED BY <3>4, <3>5, <3>6, <3>7 DEF NodeCoupled, t
  <2>5. CASE i > p
    <3>1. i - 1 \in 1..Len(s) /\ t[i] = s[i - 1] /\ s[i - 1] \in Node /\ s[i - 1] # n
      BY <2>0, <2>1, <2>5
    <3>2. next'[s[i - 1]] = next[s[i - 1]]
      <4>1. p > 1 => s[i - 1] # s[p - 1]
        BY <1>8, <2>0, <2>5, <3>1
      <4> QED BY <2>2, <3>1, <4>1
    <3>3. i < Len(t) => t[i + 1] = s[i]
      BY <2>0, <2>5
    <3>4. next'[t[i]] = IF i = Len(t) THEN None ELSE t[i + 1]
      <4>1. next[s[i - 1]] = IF i - 1 = Len(s) THEN None ELSE s[(i - 1) + 1]
        BY <1>8, <3>1
      <4>2. (i - 1) + 1 = i /\ (i - 1 = Len(s) <=> i = Len(t)) /\ (i # Len(t) => i < Len(t))
        BY <2>0
      <4> QED BY <3>1, <3>2, <3>3, <4>1, <4>2
    <3>5. prev'[t[i]] = IF i = 1 THEN None ELSE t[i - 1]
      <4>1. CASE i - 1 = p
        <5>1. i # 1 /\ t[i - 1] = n /\ p < Len(s) + 1
          BY <2>0, <2>5, <4>1
        <5> QED BY <2>2, <3>1, <4>1, <5>1
      <4>2. CASE i - 1 > p
        <5>1. i # 1 /\ i - 1 # 1 /\ t[i - 1] = s[(i - 1) - 1]
          BY <2>0, <4>2
        <5>2. p \in 1..Len(s) /\ s[p] # s[i - 1]
          BY <1>8, <2>0, <3>1, <4>2
        <5>3. prev'[s[i - 1]] = prev[s[i - 1]]
          BY <2>2, <3>1, <5>2
        <5> QED BY <1>8, <3>1, <5>1, <5>3
      <4> QED BY <2>0, <2>5, <4>1, <4>2
    <3>6. \A j \in 1..Len(t) : t[j] = t[i] => j = i
      <4> SUFFICES ASSUME NEW j \in 1..Len(t), t[j] = t[i] PROVE j = i
        OBVIOUS
      <4>1. CASE j < p
        <5>1. j \in 1..Len(s) /\ s[j] = s[i - 1]
          BY <2>0, <3>1, <4>1
        <5>2. j = i - 1
          BY <1>8, <3>1, <5>1
        <5> QED BY <2>0, <2>5, <4>1, <5>2
      <4>2. CASE j = p
        BY <2>0, <3>1, <4>2
      <4>3. CASE j > p
        <5>1. j - 1 \in 1..Len(s) /\ s[j - 1] = s[i - 1]
          BY <2>0, <3>1, <4>3
        <5>2. j - 1 = i - 1
          BY <1>8, <3>1, <5>1
        <5> QED BY <2>0, <5>2
      <4> QED BY <2>0, <4>1, <4>2, <4>3
    <3>7. container'[t[i]] = c
      BY <1>8, <2>2, <3>1
    <3> QED BY <3>4, <3>5, <3>6, <3>7 DEF NodeCoupled, t
  <2> QED BY <2>0, <2>3, <2>4, <2>5
<1>10. \A d \in Container : EndsCoupled(d)'
  <2>1. ASSUME NEW d \in Container, d # c PROVE EndsCoupled(d)'
    BY <1>4, <2>1 DEF LinksInv, TypeOK, Coupled, EndsCoupled, Spliced
  <2>2. EndsCoupled(c)'
    BY <1>1, <1>3 DEF LinksInv, TypeOK, Coupled, EndsCoupled, Spliced
  <2> QED BY <2>1, <2>2
<1>11. ASSUME NEW m \in Node
       PROVE  IF container'[m] = None
                THEN next'[m] = None /\ prev'[m] = None
                ELSE \E i \in 1..Len(items'[container'[m]]) : items'[container'[m]][i] = m
  <2>1. CASE m = n
    BY <1>3, <2>1 DEF LinksInv, TypeOK, Spliced
  <2>2. CASE m # n /\ container[m] = None
    <3>1. container'[m] = None
      BY <2>2 DEF LinksInv, TypeOK, Spliced
    <3>2. \A i \in 1..Len(s) : s[i] # m
      <4>1. c # None
        BY NoneAssumption
      <4>2. \A i \in 1..Len(s) : container[s[i]] = c
        BY <1>8
      <4> HIDE DEF s
      <4> QED BY <2>2, <4>1, <4>2
    <3> QED BY <1>1, <2>2, <3>1, <3>2 DEF LinksInv, Coupled, Spliced
  <2>3. CASE m # n /\ container[m] # None
    <3>1. container'[m] = container[m] /\ container[m] \in Container
      BY <2>3 DEF LinksInv, TypeOK, Spliced
    <3>2. PICK i \in 1..Len(items[container[m]]) : items[container[m]][i] = m
      BY <2>3 DEF LinksInv, Coupled
    <3>3. CASE container[m] # c
      BY <1>4, <3>1, <3>2, <3>3
    <3>4. CASE container[m] = c
      <4>1. i \in 1..Len(t) /\ i + 1 \in 1..Len(t)
        BY <1>1, <1>3, <3>2, <3>4
      <4>2. t[i] = m \/ t[i + 1] = m
        BY <1>1, <1>3, <3>2, <3>4, <4>1
      <4> QED BY <3>1, <3>4, <4>1, <4>2
    <3> QED BY <3>3, <3>4
  <2> QED BY <2>1, <2>2, <2>3
<1> QED BY <1>4, <1>5, <1>7, <1>9, <1>10, <1>11 DEF LinksInv, Coupled


\* The position of a linked node in the list of its container.
LEMMA IndexOfLemma ==
    ASSUME LinksInv, NEW m \in Node, container[m] # None
    PROVE  /\ container[m] \in Container
           /\ IndexOf(m) \in 1..Len(items[container[m]])
           /\ items[container[m]][IndexOf(m)] = m
<1>1. container[m] \in Container
  BY DEF LinksInv, TypeOK
<1>2. \E i \in 1..Len(items[container[m]]) : items[container[m]][i] = m
  BY DEF LinksInv, Coupled
<1> QED BY <1>1, <1>2 DEF IndexOf

\* Each insertion of linked_list.rs leaves the links of a splice.
LEMMA InsertAfterSplices ==
    ASSUME LinksInv, NEW n \in Node, NEW mark \in Node, insert_after(n, mark)
    PROVE  Spliced(n, container[mark], IndexOf(mark) + 1)
<1> DEFINE c == container[mark]
           p == IndexOf(mark)
           s == items[c]
<1> USE NoneAssumption
<1>1. c \in Container /\ p \in 1..Len(s) /\ s[p] = mark
  BY IndexOfLemma DEF insert_after
<1>2. s \in Seq(Node) /\ Len(s) \in Nat
  BY <1>1 DEF LinksInv, TypeOK
<1>3. next[mark] = IF p = Len(s) THEN None ELSE s[p + 1]
  BY <1>1 DEF LinksInv, Coupled, NodeCoupled
<1>4. (p + 1) - 1 = p /\ p + 1 > 1 /\ p + 1 # 1 /\ (p + 1 = Len(s) + 1 <=> p = Len(s))
      /\ (p + 1 < Len(s) + 1 <=> p # Len(s)) /\ (p # Len(s) => s[p + 1] \in Node)
  BY <1>1, <1>2
<1>5. mark # n /\ (next[mark] # n)
  <2>1. \A i \in 1..Len(s) : container[s[i]] = c
    BY <1>1 DEF LinksInv, Coupled, NodeCoupled
  <2> QED BY <1>1, <1>2, <1>3, <2>1 DEF insert_after, Unlinked
<1>6. (next[mark] = None <=> p = Len(s)) /\ (p # Len(s) => next[mark] = s[p + 1])
  BY <1>3, <1>4
<1> HIDE DEF p
<1>7. next' = [next EXCEPT ![mark] = n, ![n] = next[mark]]
  BY DEF insert_after
<1>8. next' = [m \in Node |-> IF m = n THEN next[mark] ELSE IF m = mark THEN n ELSE next[m]]
  BY <1>5, <1>7 DEF LinksInv, TypeOK
<1>9. prev' = [m \in Node |-> IF m = n THEN mark
                              ELSE IF next[mark] # None /\ m = next[mark] THEN n ELSE prev[m]]
  BY <1>5 DEF insert_after, LinksInv, TypeOK
<1>10. /\ items' = [items EXCEPT ![c] = InsertAt(@, p + 1, n)]
       /\ container' = [container EXCEPT ![n] = c]
       /\ head' = head
       /\ tail' = IF next[mark] # None THEN tail ELSE [tail EXCEPT ![c] = n]
  BY DEF insert_after, p
<1>11. head' = [head EXCEPT ![c] = IF p + 1 = 1 THEN n ELSE @]
  BY <1>1, <1>4, <1>10 DEF LinksInv, TypeOK
<1>12. tail' = [tail EXCEPT ![c] = IF p + 1 = Len(s) + 1 THEN n ELSE @]
  BY <1>1, <1>4, <1>6, <1>10 DEF LinksInv, TypeOK
<1>13. next' = [m \in Node |->
                  IF m = n THEN (IF p + 1 = Len(s) + 1 THEN None ELSE s[p + 1])
                  ELSE IF p + 1 > 1 /\ m = s[(p + 1) - 1] THEN n ELSE next[m]]
  BY <1>1, <1>3, <1>4, <1>8
<1>14. prev' = [m \in Node |->
                  IF m = n THEN (IF p + 1 = 1 THEN None ELSE s[(p + 1) - 1])
                  ELSE IF p + 1 < Len(s) + 1 /\ m = s[p + 1] THEN n ELSE prev[m]]
  BY <1>1, <1>4, <1>6, <1>9
<1> QED BY <1>10, <1>11, <1>12, <1>13, <1>14 DEF Spliced, p

LEMMA InsertBeforeSplices ==
    ASSUME LinksInv, NEW n \in Node, NEW mark \in Node, insert_before(n, mark)
    PROVE  Spliced(n, container[mark], IndexOf(mark))
<1> DEFINE c == container[mark]
           p == IndexOf(mark)
           s == items[c]
<1> USE NoneAssumption
<1>1. c \in Container /\ p \in 1..Len(s) /\ s[p] = mark
  BY IndexOfLemma DEF insert_before
<1>2. s \in Seq(Node) /\ Len(s) \in Nat
  BY <1>1 DEF LinksInv, TypeOK
<1>3. prev[mark] = IF p = 1 THEN None ELSE s[p - 1]
  BY <1>1 DEF LinksInv, Coupled, NodeCoupled
<1>4. (p > 1 <=> p # 1) /\ p # Len(s) + 1 /\ p < Len(s) + 1 /\ (p # 1 => s[p - 1] \in Node)
  BY <1>1, <1>2
<1>5. mark # n /\ (prev[mark] # n)
  <2>1. \A i \in 1..Len(s) : container[s[i]] = c
    BY <1>1 DEF LinksInv, Coupled, NodeCoupled
  <2> QED BY <1>1, <1>2, <1>3, <2>1 DEF insert_before, Unlinked
<1>6. (prev[mark] = None <=> p = 1) /\ (p # 1 => prev[mark] = s[p - 1])
  BY <1>3, <1>4
<1> HIDE DEF p
<1>7. prev' = [m \in Node |-> IF m = n THEN prev[mark] ELSE IF m = mark THEN n ELSE prev[m]]
  BY <1>5 DEF insert_before, LinksInv, TypeOK
<1>8. next' = [m \in Node |-> IF m = n THEN mark
                              ELSE IF prev[mark] # None /\ m = prev[mark] THEN n ELSE next[m]]
  BY <1>5 DEF insert_before, LinksInv, TypeOK
<1>9. /\ items' = [items EXCEPT ![c] = InsertAt(@, p, n)]
      /\ container' = [container EXCEPT ![n] = c]
      /\ tail' = tail
      /\ head' = IF prev[mark] # None THEN head ELSE [head EXCEPT ![c] = n]
  BY DEF insert_before, p
<1>10. tail' = [tail EXCEPT ![c] = IF p = Len(s) + 1 THEN n ELSE @]
  BY <1>1, <1>4, <1>9 DEF LinksInv, TypeOK
<1>11. head' = [head EXCEPT ![c] = IF p = 1 THEN n ELSE @]
  BY <1>1, <1>4, <1>6, <1>9 DEF LinksInv, TypeOK
<1>12. next' = [m \in Node |->
                  IF m = n THEN (IF p = Len(s) + 1 THEN None ELSE s[p])
                  ELSE IF p > 1 /\ m = s[p - 1] THEN n ELSE next[m]]
  BY <1>1, <1>4, <1>6, <1>8
<1>13. prev' = [m \in Node |->
                  IF m = n THEN (IF p = 1 THEN None ELSE s[p - 1])
                  ELSE IF p < Len(s) + 1 /\ m = s[p] THEN n ELSE prev[m]]
  BY <1>1, <1>3, <1>4, <1>7
<1> QED BY <1>9, <1>10, <1>11, <1>12, <1>13 DEF Spliced, p

LEMMA InsertAtFrontSplices ==
    ASSUME LinksInv, NEW n \in Node, NEW c \in Container, insert_at_front(n, c)
    PROVE  Spliced(n, c, 1)
<1> DEFINE s == items[c]
<1> USE NoneAssumption
<1>1. s \in Seq(Node) /\ Len(s) \in Nat
  BY DEF LinksInv, TypeOK
<1>2. (head[c] = None <=> 1 = Len(s) + 1) /\ (1 < Len(s) + 1 => head[c] = s[1] /\ s[1] \in Node)
      /\ (1 < Len(s) + 1 <=> head[c] # None)
  BY <1>1 DEF LinksInv, Coupled, EndsCoupled
<1>3. head[c] # n
  BY <1>1, <1>2 DEF LinksInv, Coupled, NodeCoupled, insert_at_front, Unlinked
<1>4. next' = [m \in Node |-> IF m = n THEN head[c] ELSE next[m]]
  BY DEF insert_at_front, LinksInv, TypeOK
<1>5. prev' = [m \in Node |-> IF m = n THEN None
                              ELSE IF head[c] # None /\ m = head[c] THEN n ELSE prev[m]]
  BY <1>3 DEF insert_at_front, Unlinked, LinksInv, TypeOK
<1>6. tail' = [tail EXCEPT ![c] = IF 1 = Len(s) + 1 THEN n ELSE @]
  BY <1>2 DEF insert_at_front, LinksInv, TypeOK
<1>7. head' = [head EXCEPT ![c] = IF 1 = 1 THEN n ELSE @]
  BY DEF insert_at_front
<1>8. next' = [m \in Node |->
                  IF m = n THEN (IF 1 = Len(s) + 1 THEN None ELSE s[1])
                  ELSE IF 1 > 1 /\ m = s[1 - 1] THEN n ELSE next[m]]
  BY <1>1, <1>2, <1>4
<1>9. prev' = [m \in Node |->
                  IF m = n THEN (IF 1 = 1 THEN None ELSE s[1 - 1])
                  ELSE IF 1 < Len(s) + 1 /\ m = s[1] THEN n ELSE prev[m]]
  BY <1>2, <1>5
<1>10. items' = [items EXCEPT ![c] = InsertAt(@, 1, n)] /\ container' = [container EXCEPT ![n] = c]
  BY DEF insert_at_front
<1> QED BY <1>6, <1>7, <1>8, <1>9, <1>10 DEF Spliced

LEMMA InsertAtBackSplices ==
    ASSUME LinksInv, NEW n \in Node, NEW c \in Container, insert_at_back(n, c)
    PROVE  Spliced(n, c, Len(items[c]) + 1)
<1> DEFINE s == items[c]
           p == Len(s) + 1
<1> USE NoneAssumption
<1>1. s \in Seq(Node) /\ Len(s) \in Nat
  BY DEF LinksInv, TypeOK
<1>2. p - 1 = Len(s) /\ (p > 1 <=> tail[c] # None) /\ (p = 1 <=> tail[c] = None) /\ ~(p < Len(s) + 1)
      /\ (p > 1 => tail[c] = s[p - 1] /\ s[p - 1] \in Node)
  BY <1>1 DEF LinksInv, Coupled, EndsCoupled
<1>3. tail[c] # n
  BY <1>1, <1>2 DEF LinksInv, Coupled, NodeCoupled, insert_at_back, Unlinked
<1>4. prev' = [m \in Node |-> IF m = n THEN tail[c] ELSE prev[m]]
  BY DEF insert_at_back, LinksInv, TypeOK
<1>5. next' = [m \in Node |-> IF m = n THEN None
                              ELSE IF tail[c] # None /\ m = tail[c] THEN n ELSE next[m]]
  BY <1>3 DEF insert_at_back, Unlinked, LinksInv, TypeOK
<1>6. head' = [head EXCEPT ![c] = IF p = 1 THEN n ELSE @]
  BY <1>2 DEF insert_at_back, LinksInv, TypeOK
<1>7. tail' = [tail EXCEPT ![c] = IF p = Len(s) + 1 THEN n ELSE @]
  BY DEF insert_at_back
<1>8. prev' = [m \in Node |->
                  IF m = n THEN (IF p = 1 THEN None ELSE s[p - 1])
                  ELSE IF p < Len(s) + 1 /\ m = s[p] THEN n ELSE prev[m]]
  BY <1>2, <1>4
<1>9. next' = [m \in Node |->
                  IF m = n THEN (IF p = Len(s) + 1 THEN None ELSE s[p])
                  ELSE IF p > 1 /\ m = s[p - 1] THEN n ELSE next[m]]
  BY <1>2, <1>5
<1>10. items' = [items EXCEPT ![c] = InsertAt(@, p, n)] /\ container' = [container EXCEPT ![n] = c]
  BY DEF insert_at_back
<1> QED BY <1>6, <1>7, <1>8, <1>9, <1>10 DEF Spliced

\* The links that taking the node at position p out of c must leave.
Removed(n, c, p) ==
    LET s == items[c]
        pv == IF p = 1 THEN None ELSE s[p - 1]
        nx == IF p = Len(s) THEN None ELSE s[p + 1]
    IN  /\ items' = [items EXCEPT ![c] = RemoveAt(@, p)]
        /\ container' = [container EXCEPT ![n] = None]
        /\ next' = [m \in Node |-> IF m = n THEN None
                                   ELSE IF p > 1 /\ m = s[p - 1] THEN nx ELSE next[m]]
        /\ prev' = [m \in Node |-> IF m = n THEN None
                                   ELSE IF p < Len(s) /\ m = s[p + 1] THEN pv ELSE prev[m]]
        /\ head' = [head EXCEPT ![c] = IF p = 1 THEN nx ELSE @]
        /\ tail' = [tail EXCEPT ![c] = IF p = Len(s) THEN pv ELSE @]

LEMMA UnlinkRemoves ==
    ASSUME LinksInv, NEW n \in Node, unlink(n)
    PROVE  Removed(n, container[n], IndexOf(n))
<1> DEFINE c == container[n]
           p == IndexOf(n)
           s == items[c]
           pv == IF p = 1 THEN None ELSE s[p - 1]
           nx == IF p = Len(s) THEN None ELSE s[p + 1]
<1> USE NoneAssumption
<1>1. c \in Container /\ p \in 1..Len(s) /\ s[p] = n
  BY IndexOfLemma DEF unlink
<1>2. s \in Seq(Node) /\ Len(s) \in Nat
  BY <1>1 DEF LinksInv, TypeOK
<1>3. next[n] = nx /\ prev[n] = pv
  BY <1>1 DEF LinksInv, Coupled, NodeCoupled
<1>4. (p > 1 <=> pv # None) /\ (p = 1 <=> pv = None) /\ (p < Len(s) <=> nx # None) /\ (p = Len(s) <=> nx = None)
      /\ (pv # None => pv = s[p - 1] /\ pv \in Node) /\ (nx # None => nx = s[p + 1] /\ nx \in Node)
  BY <1>1, <1>2
<1>5. pv # n /\ nx # n
  <2>1. \A i, j \in 1..Len(s) : s[i] = s[j] => i = j
    BY <1>1 DEF LinksInv, Coupled, NodeCoupled
  <2>2. (p > 1 => p - 1 \in 1..Len(s) /\ p - 1 # p) /\ (p < Len(s) => p + 1 \in 1..Len(s) /\ p + 1 # p)
    BY <1>1, <1>2
  <2>3. pv # None => pv # n
    BY <1>1, <1>4, <2>1, <2>2
  <2>4. nx # None => nx # n
    BY <1>1, <1>4, <2>1, <2>2
  <2> QED BY <2>3, <2>4
<1> HIDE DEF p, pv, nx
<1>6. next' = [m \in Node |-> IF m = n THEN None ELSE IF pv # None /\ m = pv THEN nx ELSE next[m]]
  BY <1>3, <1>4, <1>5 DEF unlink, LinksInv, TypeOK
<1>7. prev' = [m \in Node |-> IF m = n THEN None ELSE IF nx # None /\ m = nx THEN pv ELSE prev[m]]
  BY <1>3, <1>4, <1>5 DEF unlink, LinksInv, TypeOK
<1>8. head' = [head EXCEPT ![c] = IF p = 1 THEN nx ELSE @]
  BY <1>1, <1>3, <1>4 DEF unlink, LinksInv, TypeOK
<1>9. tail' = [tail EXCEPT ![c] = IF p = Len(s) THEN pv ELSE @]
  BY <1>1, <1>3, <1>4 DEF unlink, LinksInv, TypeOK
<1>10. items' = [items EXCEPT ![c] = RemoveAt(@, p)] /\ container' = [container EXCEPT ![n] = None]
  BY DEF unlink, p
<1>11. /\ next' = [m \in Node |-> IF m = n THEN None ELSE IF p > 1 /\ m = s[p - 1] THEN nx ELSE next[m]]
       /\ prev' = [m \in Node |-> IF m = n THEN None ELSE IF p < Len(s) /\ m = s[p + 1] THEN pv ELSE prev[m]]
  BY <1>4, <1>6, <1>7
<1> QED BY <1>8, <1>9, <1>10, <1>11 DEF Removed, p, pv, nx

\* Taking a linked node out of its list preserves the invariant.
LEMMA RemoveNodeLemma ==
    ASSUME LinksInv, NEW n \in Node, NEW c \in Container, NEW p \in 1..Len(items[c]),
           items[c][p] = n, Removed(n, c, p)
    PROVE  LinksInv'
<1> DEFINE s == items[c]
           t == items'[c]
<1> USE NoneAssumption
<1>1. s \in Seq(Node) /\ Len(s) \in Nat
  BY DEF LinksInv, TypeOK
<1>2. t = RemoveAt(s, p)
  BY DEF LinksInv, TypeOK, Removed
<1>3. /\ t \in Seq(Node)
      /\ Len(t) = Len(s) - 1
      /\ \A k \in 1..Len(t) : /\ k < p => k \in 1..Len(s) /\ t[k] = s[k]
                              /\ k >= p => k + 1 \in 1..Len(s) /\ t[k] = s[k + 1]
  <2>1. RemoveAt(s, p) \in Seq(Node) /\ RemovedAt(s, p, RemoveAt(s, p))
    BY <1>1, RemoveAtLemma, Zenon
  <2>2. t \in Seq(Node) /\ RemovedAt(s, p, t)
    BY <1>2, <2>1, Zenon
  <2>3. p \in 1..Len(s)
    OBVIOUS
  <2> HIDE DEF s, t
  <2> QED BY <1>1, <2>2, <2>3 DEF RemovedAt
<1>4. \A d \in Container : d # c => items'[d] = items[d]
  BY DEF LinksInv, TypeOK, Removed
<1>5. TypeOK'
  <2>1. items' \in [Container -> Seq(Node)]
    BY <1>3, <1>4 DEF LinksInv, TypeOK, Removed
  <2>2. next' \in [Node -> Node \cup {None}]
    BY <1>1 DEF LinksInv, TypeOK, Removed
  <2>3. prev' \in [Node -> Node \cup {None}]
    BY <1>1 DEF LinksInv, TypeOK, Removed
  <2>4. /\ container' \in [Node -> Container \cup {None}]
        /\ head' \in [Container -> Node \cup {None}]
        /\ tail' \in [Container -> Node \cup {None}]
    BY <1>1 DEF LinksInv, TypeOK, Removed
  <2> QED BY <2>1, <2>2, <2>3, <2>4 DEF TypeOK
<1>6. \A d \in Container : \A i \in 1..Len(items[d]) :
         items[d][i] \in Node /\ container[items[d][i]] = d
  BY DEF LinksInv, TypeOK, Coupled, NodeCoupled
<1>7. ASSUME NEW d \in Container, d # c, NEW i \in 1..Len(items[d])
      PROVE  NodeCoupled(d, i)'
  <2>1. NodeCoupled(d, i)
    BY DEF LinksInv, Coupled
  <2>2. \A j \in 1..Len(s) : items[d][i] # s[j]
    BY <1>6, <1>7
  <2>3. /\ container'[items[d][i]] = d
        /\ next'[items[d][i]] = next[items[d][i]]
        /\ prev'[items[d][i]] = prev[items[d][i]]
    <3>1. items[d][i] \in Node /\ container[items[d][i]] = d /\ items[d][i] # n
      BY <1>6, <2>2
    <3>2. p > 1 => items[d][i] # s[p - 1]
      BY <1>1, <2>2
    <3>3. p < Len(s) => items[d][i] # s[p + 1]
      BY <1>1, <2>2
    <3>4. container'[items[d][i]] = container[items[d][i]]
      BY <3>1 DEF LinksInv, TypeOK, Removed
    <3>5. next'[items[d][i]] = next[items[d][i]]
      BY <3>1, <3>2 DEF Removed
    <3>6. prev'[items[d][i]] = prev[items[d][i]]
      BY <3>1, <3>3 DEF Removed
    <3> QED BY <3>1, <3>4, <3>5, <3>6
  <2> QED BY <1>4, <1>7, <2>1, <2>3 DEF NodeCoupled
<1>8. \A i \in 1..Len(s) :
        /\ container[s[i]] = c
        /\ prev[s[i]] = IF i = 1 THEN None ELSE s[i - 1]
        /\ next[s[i]] = IF i = Len(s) THEN None ELSE s[i + 1]
        /\ \A j \in 1..Len(s) : s[j] = s[i] => j = i
  BY DEF LinksInv, Coupled, NodeCoupled
<1>9. ASSUME NEW i \in 1..Len(t)
      PROVE  NodeCoupled(c, i)'
  <2>0. i \in Nat /\ i >= 1 /\ i <= Len(s) - 1 /\ p \in 1..Len(s) /\ s[p] = n
    BY <1>1, <1>3
  <2>1. \A k \in 1..Len(s) : s[k] \in Node
    BY <1>6
  <2>2. \A m \in Node :
           /\ container'[m] = IF m = n THEN None ELSE container[m]
           /\ prev'[m] = IF m = n THEN None
                         ELSE IF p < Len(s) /\ m = s[p + 1] THEN (IF p = 1 THEN None ELSE s[p - 1])
                         ELSE prev[m]
           /\ next'[m] = IF m = n THEN None
                         ELSE IF p > 1 /\ m = s[p - 1] THEN (IF p = Len(s) THEN None ELSE s[p + 1])
                         ELSE next[m]
    BY DEF LinksInv, TypeOK, Removed
  <2> HIDE DEF s, t
  <2>3. CASE i < p
    <3>1. i \in 1..Len(s) /\ t[i] = s[i] /\ s[i] \in Node /\ i # p
      BY <1>3, <2>0, <2>1, <2>3
    <3>2. s[i] # n
      BY <1>8, <2>0, <3>1
    <3>3. prev'[s[i]] = prev[s[i]]
      <4>1. p < Len(s) => p + 1 \in 1..Len(s) /\ p + 1 # i
        BY <1>1, <2>0, <2>3
      <4>2. p < Len(s) => s[i] # s[p + 1]
        BY <1>8, <3>1, <4>1
      <4> QED BY <2>2, <3>1, <3>2, <4>2
    <3>4. i > 1 => t[i - 1] = s[i - 1]
      BY <1>3, <2>0, <2>3
    <3>5. prev'[t[i]] = IF i = 1 THEN None ELSE t[i - 1]
      BY <1>8, <2>0, <3>1, <3>3, <3>4
    <3>6. next'[t[i]] = IF i = Len(t) THEN None ELSE t[i + 1]
      <4>1. CASE i + 1 = p
        <5>1. i = p - 1 /\ p > 1 /\ (i = Len(t) <=> p = Len(s)) /\ (i # Len(t) => t[i + 1] = s[p + 1])
          BY <1>1, <1>3, <2>0, <4>1
        <5> QED BY <2>2, <3>1, <3>2, <5>1
      <4>2. CASE i + 1 < p
        <5>1. i + 1 \in 1..Len(t) /\ t[i + 1] = s[i + 1] /\ i # Len(t) /\ i # Len(s)
          BY <1>1, <1>3, <2>0, <4>2
        <5>2. p - 1 \in 1..Len(s) /\ p - 1 # i
          BY <1>1, <2>0, <4>2
        <5>3. next'[s[i]] = next[s[i]]
          BY <1>8, <2>2, <3>1, <3>2, <5>2
        <5> QED BY <1>8, <3>1, <5>1, <5>3
      <4> QED BY <2>0, <2>3, <4>1, <4>2
    <3>7. \A j \in 1..Len(t) : t[j] = t[i] => j = i
      <4> SUFFICES ASSUME NEW j \in 1..Len(t), t[j] = t[i] PROVE j = i
        OBVIOUS
      <4>1. j \in Nat
        BY <1>1, <1>3
      <4>2. CASE j < p
        <5>1. j \in 1..Len(s) /\ s[j] = s[i]
          BY <1>3, <3>1, <4>2
        <5> QED BY <1>8, <3>1, <5>1
      <4>3. CASE j >= p
        <5>1. j + 1 \in 1..Len(s) /\ s[j + 1] = s[i]
          BY <1>3, <3>1, <4>3
        <5>2. j + 1 = i
          BY <1>8, <3>1, <5>1
        <5> QED BY <2>0, <2>3, <4>1, <4>3, <5>2
      <4> QED BY <2>0, <4>1, <4>2, <4>3
    <3>8. container'[t[i]] = c
      BY <1>8, <2>2, <3>1, <3>2
    <3> QED BY <3>5, <3>6, <3>7, <3>8 DEF NodeCoupled, t
  <2>4. CASE i >= p
    <3>1. i + 1 \in 1..Len(s) /\ t[i] = s[i + 1] /\ s[i + 1] \in Node /\ i + 1 # p
      BY <1>3, <2>0, <2>1, <2>4
    <3>2. s[i + 1] # n
      BY <1>8, <2>0, <3>1
    <3>3. next'[s[i + 1]] = next[s[i + 1]]
      <4>1. p > 1 => p - 1 \in 1..Len(s) /\ p - 1 # i + 1
        BY <1>1, <2>0, <2>4
      <4>2. p > 1 => s[i + 1] # s[p - 1]
        BY <1>8, <3>1, <4>1
      <4> QED BY <2>2, <3>1, <3>2, <4>2
    <3>4. (i = Len(t) <=> i + 1 = Len(s)) /\ (i # Len(t) => t[i + 1] = s[(i + 1) + 1])
      <4>1. Len(t) = Len(s) - 1 /\ Len(s) \in Nat
        BY <1>1, <1>3
      <4>2. i = Len(t) <=> i + 1 = Len(s)
        BY <2>0, <4>1
      <4>3. i # Len(t) => i + 1 \in 1..Len(t) /\ i + 1 >= p
        BY <2>0, <2>4, <4>1
      <4> QED BY <1>3, <4>2, <4>3
    <3>5. next'[t[i]] = IF i = Len(t) THEN None ELSE t[i + 1]
      BY <1>8, <3>1, <3>3, <3>4
    <3>6. prev'[t[i]] = IF i = 1 THEN None ELSE t[i - 1]
      <4>1. CASE i = p
        <5>1. p < Len(s)
          BY <1>1, <2>0, <4>1
        <5>2. p # 1 => p - 1 \in 1..Len(t) /\ p - 1 < p
          BY <1>1, <1>3, <2>0, <4>1
        <5>3. p # 1 => t[p - 1] = s[p - 1]
          BY <1>3, <5>2
        <5> QED BY <2>2, <3>1, <3>2, <4>1, <5>1, <5>3
      <4>2. CASE i > p
        <5>0. i # 1 /\ i + 1 # 1 /\ (i + 1) - 1 = i /\ i - 1 \in 1..Len(t) /\ ~ (i - 1 < p) /\ (i - 1) + 1 = i
          BY <1>1, <1>3, <2>0, <4>2
        <5>1. i # 1 /\ i + 1 # 1 /\ (i + 1) - 1 = i /\ t[i - 1] = s[i]
          BY <1>3, <5>0
        <5>2. p + 1 \in 1..Len(s) /\ p + 1 # i + 1
          BY <1>1, <2>0, <4>2
        <5>3. s[p + 1] # s[i + 1]
          BY <1>8, <3>1, <5>2
        <5>4. prev'[s[i + 1]] = prev[s[i + 1]]
          BY <2>2, <3>1, <3>2, <5>3
        <5> QED BY <1>8, <3>1, <5>1, <5>4
      <4> QED BY <2>0, <2>4, <4>1, <4>2
    <3>7. \A j \in 1..Len(t) : t[j] = t[i] => j = i
      <4> SUFFICES ASSUME NEW j \in 1..Len(t), t[j] = t[i] PROVE j = i
        OBVIOUS
      <4>1. j \in Nat
        BY <1>1, <1>3
      <4>2. CASE j < p
        <5>1. j \in 1..Len(s) /\ s[j] = s[i + 1]
          BY <1>3, <3>1, <4>2
        <5>2. j = i + 1
          BY <1>8, <3>1, <5>1
        <5> QED BY <2>0, <2>4, <4>1, <4>2, <5>2
      <4>3. CASE j >= p
        <5>1. j + 1 \in 1..Len(s) /\ s[j + 1] = s[i + 1]
          BY <1>3, <3>1, <4>3
        <5>2. j + 1 = i + 1
          BY <1>8, <3>1, <5>1
        <5> QED BY <2>0, <4>1, <5>2
      <4> QED BY <2>0, <4>1, <4>2, <4>3
    <3>8. container'[t[i]] = c
      BY <1>8, <2>2, <3>1, <3>2
    <3> QED BY <3>5, <3>6, <3>7, <3>8 DEF NodeCoupled, t
  <2> QED BY <2>0, <2>3, <2>4
<1>10. \A d \in Container : EndsCoupled(d)'
  <2>1. ASSUME NEW d \in Container, d # c PROVE EndsCoupled(d)'
    BY <1>4, <2>1 DEF LinksInv, TypeOK, Coupled, EndsCoupled, Removed
  <2>2. /\ head'[c] = IF p = 1 THEN (IF p = Len(s) THEN None ELSE s[p + 1]) ELSE head[c]
        /\ tail'[c] = IF p = Len(s) THEN (IF p = 1 THEN None ELSE s[p - 1]) ELSE tail[c]
    BY DEF LinksInv, TypeOK, Removed
  <2>3. head[c] = s[1] /\ tail[c] = s[Len(s)]
    BY <1>1 DEF LinksInv, Coupled, EndsCoupled
  <2>4. p \in 1..Len(s)
    OBVIOUS
  <2>5. EndsCoupled(c)'
    <3> HIDE DEF s, t
    <3>1. head'[c] = IF Len(t) = 0 THEN None ELSE t[1]
      BY <1>1, <1>3, <2>2, <2>3, <2>4
    <3>2. tail'[c] = IF Len(t) = 0 THEN None ELSE t[Len(t)]
      <4>1. CASE p = Len(s)
        BY <1>1, <1>3, <2>2, <2>4, <4>1
      <4>2. CASE p # Len(s)
        <5>1. Len(t) >= p /\ Len(t) \in 1..Len(t) /\ Len(t) + 1 = Len(s)
          BY <1>1, <1>3, <2>4, <4>2
        <5>2. t[Len(t)] = s[Len(t) + 1]
          BY <1>3, <5>1
        <5> QED BY <1>1, <2>2, <2>3, <4>2, <5>1, <5>2
      <4> QED BY <4>1, <4>2
    <3> QED BY <3>1, <3>2 DEF EndsCoupled, t
  <2> QED BY <2>1, <2>5
<1>11. ASSUME NEW m \in Node
       PROVE  IF container'[m] = None
                THEN next'[m] = None /\ prev'[m] = None
                ELSE \E i \in 1..Len(items'[container'[m]]) : items'[container'[m]][i] = m
  <2>1. CASE m = n
    BY <2>1 DEF LinksInv, TypeOK, Removed
  <2>2. CASE m # n /\ container[m] = None
    <3>1. container'[m] = None
      BY <2>2 DEF LinksInv, TypeOK, Removed
    <3>2. \A i \in 1..Len(s) : s[i] # m
      BY <1>8, <2>2
    <3>3. (p > 1 => s[p - 1] # m) /\ (p < Len(s) => s[p + 1] # m)
      BY <1>1, <3>2
    <3> QED BY <2>2, <3>1, <3>3 DEF LinksInv, Coupled, Removed
  <2>3. CASE m # n /\ container[m] # None
    <3>1. container'[m] = container[m] /\ container[m] \in Container
      BY <2>3 DEF LinksInv, TypeOK, Removed
    <3>2. PICK i \in 1..Len(items[container[m]]) : items[container[m]][i] = m
      BY <2>3 DEF LinksInv, Coupled
    <3>3. CASE container[m] # c
      BY <1>4, <3>1, <3>2, <3>3
    <3>4. CASE container[m] = c
      <4>0. i \in 1..Len(s) /\ s[i] = m /\ p \in 1..Len(s) /\ s[p] = n /\ i # p
        BY <2>3, <3>2, <3>4
      <4> HIDE DEF s, t
      <4>1. CASE i < p
        <5>1. i \in 1..Len(t) /\ t[i] = m
          BY <1>1, <1>3, <4>0, <4>1
        <5> QED BY <3>1, <3>4, <5>1 DEF t
      <4>2. CASE i > p
        <5>1. i - 1 \in 1..Len(t) /\ i - 1 >= p /\ (i - 1) + 1 = i
          BY <1>1, <1>3, <4>0, <4>2
        <5>2. t[i - 1] = m
          BY <1>3, <4>0, <5>1
        <5> QED BY <3>1, <3>4, <5>1, <5>2 DEF t
      <4> QED BY <1>1, <4>0, <4>1, <4>2
    <3> QED BY <3>3, <3>4
  <2> QED BY <2>1, <2>2, <2>3
<1> QED BY <1>4, <1>5, <1>7, <1>9, <1>10, <1>11 DEF LinksInv, Coupled

\* Every operation of linked_list.rs preserves the inductive invariant.
LEMMA NextPreservesIInv ==
    ASSUME LinksInv, [Next]_listVars
    PROVE  LinksInv'
<1>1. ASSUME NEW n \in Node, NEW mark \in Node, insert_after(n, mark)
      PROVE  LinksInv'
  <2>1. container[mark] # None /\ container[n] = None
    BY <1>1 DEF insert_after, Unlinked
  <2>2. container[mark] \in Container /\ IndexOf(mark) + 1 \in 1..(Len(items[container[mark]]) + 1)
    BY <2>1, IndexOfLemma DEF LinksInv, TypeOK
  <2> QED BY <1>1, <2>1, <2>2, InsertAfterSplices, SpliceLemma
<1>2. ASSUME NEW n \in Node, NEW mark \in Node, insert_before(n, mark)
      PROVE  LinksInv'
  <2>1. container[mark] # None /\ container[n] = None
    BY <1>2 DEF insert_before, Unlinked
  <2>2. container[mark] \in Container /\ IndexOf(mark) \in 1..(Len(items[container[mark]]) + 1)
    BY <2>1, IndexOfLemma DEF LinksInv, TypeOK
  <2> QED BY <1>2, <2>1, <2>2, InsertBeforeSplices, SpliceLemma
<1>3. ASSUME NEW n \in Node, NEW c \in Container, insert_at_front(n, c)
      PROVE  LinksInv'
  <2>1. 1 \in 1..(Len(items[c]) + 1) /\ container[n] = None
    BY <1>3 DEF insert_at_front, Unlinked, LinksInv, TypeOK
  <2> QED BY <1>3, <2>1, InsertAtFrontSplices, SpliceLemma
<1>4. ASSUME NEW n \in Node, NEW c \in Container, insert_at_back(n, c)
      PROVE  LinksInv'
  <2>1. Len(items[c]) + 1 \in 1..(Len(items[c]) + 1) /\ container[n] = None
    BY <1>4 DEF insert_at_back, Unlinked, LinksInv, TypeOK
  <2> QED BY <1>4, <2>1, InsertAtBackSplices, SpliceLemma
<1>5. ASSUME NEW n \in Node, unlink(n)
      PROVE  LinksInv'
  <2>1. container[n] # None
    BY <1>5 DEF unlink
  <2>2. /\ container[n] \in Container
        /\ IndexOf(n) \in 1..Len(items[container[n]])
        /\ items[container[n]][IndexOf(n)] = n
    BY <2>1, IndexOfLemma
  <2> QED BY <1>5, <2>2, UnlinkRemoves, RemoveNodeLemma
<1>6. CASE UNCHANGED listVars
  BY <1>6 DEF listVars, LinksInv, TypeOK, Coupled, EndsCoupled, NodeCoupled
<1> QED BY <1>1, <1>2, <1>3, <1>4, <1>5, <1>6 DEF Next

\* The links of linked_list.rs always represent the abstract lists.
THEOREM LinksRepresentLists == Spec => [](TypeOK /\ Coupled)
<1>1. Init => LinksInv
  BY NoneAssumption DEF Init, LinksInv, TypeOK, Coupled, EndsCoupled, NodeCoupled
<1>2. LinksInv /\ [Next]_listVars => LinksInv'
  BY NextPreservesIInv
<1>3. Spec => []LinksInv
  BY <1>1, <1>2, PTL DEF Spec
<1> QED BY <1>3, PTL DEF LinksInv

\* The assertions of linked_list.rs about the list itself never fail.
THEOREM AssertsHold == Spec => []InternalAsserts
<1>1. TypeOK /\ Coupled => InternalAsserts
  <2> SUFFICES ASSUME TypeOK, Coupled PROVE InternalAsserts
    OBVIOUS
  <2> USE NoneAssumption
  <2>1. ASSUME NEW m \in Node, container[m] # None
        PROVE  /\ IF next[m] # None THEN prev[next[m]] = m ELSE tail[container[m]] = m
               /\ IF prev[m] # None THEN next[prev[m]] = m ELSE head[container[m]] = m
    <3> DEFINE c == container[m]
               s == items[c]
    <3>1. c \in Container /\ s \in Seq(Node) /\ Len(s) \in Nat
      BY <2>1 DEF TypeOK
    <3>2. PICK i \in 1..Len(s) : s[i] = m
      BY <2>1 DEF Coupled
    <3>3. \A k \in 1..Len(s) : /\ prev[s[k]] = IF k = 1 THEN None ELSE s[k - 1]
                               /\ next[s[k]] = IF k = Len(s) THEN None ELSE s[k + 1]
                               /\ s[k] \in Node
      BY <3>1 DEF Coupled, NodeCoupled
    <3>4. head[c] = s[1] /\ tail[c] = s[Len(s)]
      BY <3>1, <3>2 DEF Coupled, EndsCoupled
    <3> HIDE DEF s, c
    <3>5. IF next[m] # None THEN prev[next[m]] = m ELSE tail[c] = m
      <4>1. CASE i = Len(s)
        BY <3>2, <3>3, <3>4, <4>1
      <4>2. CASE i # Len(s)
        <5>1. i + 1 \in 1..Len(s) /\ i + 1 # 1 /\ (i + 1) - 1 = i
          BY <3>1, <3>2, <4>2
        <5> QED BY <3>2, <3>3, <4>2, <5>1
      <4> QED BY <4>1, <4>2
    <3>6. IF prev[m] # None THEN next[prev[m]] = m ELSE head[c] = m
      <4>1. CASE i = 1
        BY <3>2, <3>3, <3>4, <4>1
      <4>2. CASE i # 1
        <5>1. i - 1 \in 1..Len(s) /\ i - 1 # Len(s) /\ (i - 1) + 1 = i
          BY <3>1, <3>2, <4>2
        <5> QED BY <3>2, <3>3, <4>2, <5>1
      <4> QED BY <4>1, <4>2
    <3> QED BY <3>5, <3>6 DEF c
  <2>2. ASSUME NEW c \in Container
        PROVE  /\ head[c] # None => prev[head[c]] = None
               /\ tail[c] # None => next[tail[c]] = None
               /\ (head[c] = None) <=> (tail[c] = None)
    <3>1. items[c] \in Seq(Node) /\ Len(items[c]) \in Nat
      BY DEF TypeOK
    <3> QED BY <3>1 DEF Coupled, EndsCoupled, NodeCoupled
  <2>3. \A n \in Node : container[n] = None => next[n] = None /\ prev[n] = None
    BY DEF Coupled
  <2> QED BY <2>1, <2>2, <2>3 DEF InternalAsserts
<1> QED BY <1>1, LinksRepresentLists, PTL

\* An insertion of a node without container is one of the abstract lists.
LEMMA SpliceImplementsInsert ==
    ASSUME LinksInv, NEW n \in Node, NEW c \in Container, NEW p \in 1..(Len(items[c]) + 1),
           container[n] = None, Spliced(n, c, p)
    PROVE  Lists!Next
<1>1. ~ Lists!Linked(n)
  BY NoneAssumption DEF LinksInv, Coupled, NodeCoupled, Lists!Linked
<1>2. Lists!InsertNode(n, c, p)
  BY <1>1 DEF Spliced, Lists!InsertNode, InsertAt, Lists!InsertAt
<1> QED BY <1>2 DEF Lists!Next

\* Every operation of linked_list.rs is one insertion or one removal of the
\* abstract lists, for any number of nodes and containers.
THEOREM LinkedListImplementsLists == Spec => ImplementsLists
<1>1. Init => Lists!Init
  BY DEF Init, Lists!Init
<1>2. LinksInv /\ [Next]_listVars => [Lists!Next]_items
  <2> SUFFICES ASSUME LinksInv, [Next]_listVars PROVE [Lists!Next]_items
    OBVIOUS
  <2>1. ASSUME NEW n \in Node, NEW mark \in Node, insert_after(n, mark)
        PROVE  Lists!Next
    <3>1. container[mark] # None /\ container[n] = None
      BY <2>1 DEF insert_after, Unlinked
    <3>2. container[mark] \in Container /\ IndexOf(mark) + 1 \in 1..(Len(items[container[mark]]) + 1)
      BY <3>1, IndexOfLemma DEF LinksInv, TypeOK
    <3> QED BY <2>1, <3>1, <3>2, InsertAfterSplices, SpliceImplementsInsert
  <2>2. ASSUME NEW n \in Node, NEW mark \in Node, insert_before(n, mark)
        PROVE  Lists!Next
    <3>1. container[mark] # None /\ container[n] = None
      BY <2>2 DEF insert_before, Unlinked
    <3>2. container[mark] \in Container /\ IndexOf(mark) \in 1..(Len(items[container[mark]]) + 1)
      BY <3>1, IndexOfLemma DEF LinksInv, TypeOK
    <3> QED BY <2>2, <3>1, <3>2, InsertBeforeSplices, SpliceImplementsInsert
  <2>3. ASSUME NEW n \in Node, NEW c \in Container, insert_at_front(n, c)
        PROVE  Lists!Next
    <3>1. 1 \in 1..(Len(items[c]) + 1) /\ container[n] = None
      BY <2>3 DEF insert_at_front, Unlinked, LinksInv, TypeOK
    <3> QED BY <2>3, <3>1, InsertAtFrontSplices, SpliceImplementsInsert
  <2>4. ASSUME NEW n \in Node, NEW c \in Container, insert_at_back(n, c)
        PROVE  Lists!Next
    <3>1. Len(items[c]) + 1 \in 1..(Len(items[c]) + 1) /\ container[n] = None
      BY <2>4 DEF insert_at_back, Unlinked, LinksInv, TypeOK
    <3> QED BY <2>4, <3>1, InsertAtBackSplices, SpliceImplementsInsert
  <2>5. ASSUME NEW n \in Node, unlink(n)
        PROVE  Lists!Next
    <3>1. container[n] # None
      BY <2>5 DEF unlink
    <3>2. container[n] \in Container /\ IndexOf(n) \in 1..Len(items[container[n]])
      BY <3>1, IndexOfLemma
    <3>3. Lists!RemoveNode(container[n], IndexOf(n))
      BY <2>5, UnlinkRemoves DEF Removed, Lists!RemoveNode, RemoveAt, Lists!RemoveAt
    <3> QED BY <3>2, <3>3 DEF Lists!Next
  <2>6. CASE UNCHANGED listVars
    BY <2>6 DEF listVars
  <2> QED BY <2>1, <2>2, <2>3, <2>4, <2>5, <2>6 DEF Next
<1>3. Spec => []LinksInv
  BY LinksRepresentLists, PTL DEF LinksInv
<1> QED BY <1>1, <1>2, <1>3, PTL DEF Spec, Lists!Spec, ImplementsLists

(***************************************************************************)
(* The store of unique objects.  UniqueInv is inductive: that a key is     *)
(* good and alone (KeysHold, OneKeyEach) rests on the store having every   *)
(* object once, and that on the map leading to every object in it.         *)
(***************************************************************************)

LEMMA UniqueInitLemma == UniqueInit => UniqueInv
<1> SUFFICES ASSUME UniqueInit PROVE UniqueInv
  OBVIOUS
<1>1. UniqueTypeOK
  BY DEF UniqueInit, UniqueTypeOK
<1>2. KeysHold /\ OneKeyEach /\ StoredOnce /\ MapIndexesStore
  BY DEF UniqueInit, KeysHold, OneKeyEach, StoredOnce, MapIndexesStore
<1> QED BY <1>1, <1>2 DEF UniqueInv

\* An object that is found is there under an index that has been given to it.
LEMMA FindLemma ==
    ASSUME UniqueInv, NEW t \in Unique, FindUnique(t)
    PROVE  UniqueInv'
<1>1. PICK k \in possible_matches(t) : keys' = keys \cup {<<t, unique_stores_map[hash[t]][k]>>}
  BY DEF FindUnique
<1>2. UNCHANGED <<hash, unique_store, unique_stores_map>>
  BY DEF FindUnique
<1> DEFINE i == unique_stores_map[hash[t]][k]
<1>3. hash[t] \in HashValue /\ k \in DOMAIN unique_stores_map[hash[t]]
  BY <1>1 DEF UniqueInv, UniqueTypeOK, possible_matches
<1>4. i \in DOMAIN unique_store /\ i \in Nat
  BY <1>3 DEF UniqueTypeOK, UniqueInv, MapIndexesStore
<1>5. unique_store[i] = t
  BY <1>1 DEF possible_matches, eq
<1> HIDE DEF i
<1>6. keys' = keys \cup {<<t, i>>}
  BY <1>1 DEF i
<1>7. UniqueTypeOK'
  BY <1>2, <1>4, <1>6 DEF UniqueInv, UniqueTypeOK
<1>8. KeysHold'
  BY <1>2, <1>4, <1>5, <1>6 DEF UniqueInv, KeysHold
<1>9. OneKeyEach'
  BY <1>2, <1>4, <1>5, <1>6, <1>8 DEF UniqueInv, KeysHold, OneKeyEach, StoredOnce
<1>10. StoredOnce' /\ MapIndexesStore'
  BY <1>2 DEF UniqueInv, StoredOnce, MapIndexesStore
<1> QED BY <1>7, <1>8, <1>9, <1>10 DEF UniqueInv

\* An object that is not found is in the store nowhere, whatever its hash: a new index is
\* then the only one it has.
LEMMA CreateLemma ==
    ASSUME UniqueInv, NEW t \in Unique, CreateUnique(t)
    PROVE  UniqueInv'
<1> DEFINE n == Len(unique_store) + 1
           h == hash[t]
<1> USE DEF UniqueInv
<1>1. /\ unique_store \in Seq(Unique) /\ unique_stores_map \in [HashValue -> Seq(Nat)]
      /\ h \in HashValue /\ Len(unique_store) \in Nat /\ n \in Nat
  BY DEF UniqueTypeOK
<1>2. \A i \in DOMAIN unique_store : unique_store[i] # t
  BY DEF CreateUnique, possible_matches, eq, MapIndexesStore
<1>3. /\ Len(unique_store') = n /\ unique_store'[n] = t
      /\ \A i \in DOMAIN unique_store : i < n /\ i # n /\ unique_store'[i] = unique_store[i]
      /\ DOMAIN unique_store' = DOMAIN unique_store \cup {n}
  BY <1>1 DEF CreateUnique
<1>4. /\ unique_stores_map' = [unique_stores_map EXCEPT ![h] = Append(@, n)]
      /\ hash' = hash /\ keys' = keys \cup {<<t, n>>}
  BY DEF CreateUnique
<1>5. UniqueTypeOK'
  <2>1. unique_store' \in Seq(Unique)
    BY <1>1 DEF CreateUnique
  <2>2. unique_stores_map' \in [HashValue -> Seq(Nat)]
    BY <1>1, <1>4
  <2> QED BY <1>1, <1>4, <2>1, <2>2 DEF UniqueTypeOK
<1>6. KeysHold'
  BY <1>3, <1>4 DEF KeysHold
<1>7. StoredOnce'
  BY <1>2, <1>3 DEF StoredOnce
<1>8. OneKeyEach'
  BY <1>2, <1>3, <1>4 DEF OneKeyEach, KeysHold
<1>9. MapIndexesStore'
  <2> DEFINE s == unique_stores_map[h]
  <2>1. /\ unique_stores_map'[h] = Append(s, n)
        /\ \A g \in HashValue : g # h => unique_stores_map'[g] = unique_stores_map[g]
    BY <1>1, <1>4
  <2>2. /\ DOMAIN Append(s, n) = DOMAIN s \cup {Len(s) + 1}
        /\ Append(s, n)[Len(s) + 1] = n
        /\ \A k \in DOMAIN s : Append(s, n)[k] = s[k]
    BY <1>1
  <2>3. \A g \in HashValue : \A k \in DOMAIN unique_stores_map'[g] :
            unique_stores_map'[g][k] \in DOMAIN unique_store'
    <3> TAKE g \in HashValue
    <3>1. \A k \in DOMAIN unique_stores_map[g] : unique_stores_map[g][k] \in DOMAIN unique_store
      BY DEF MapIndexesStore
    <3>2. DOMAIN unique_store \subseteq DOMAIN unique_store' /\ n \in DOMAIN unique_store'
      BY <1>3
    <3> HIDE DEF n
    <3>3. CASE g = h
      BY <3>1, <3>2, <3>3, <2>1, <2>2
    <3>4. CASE g # h
      BY <3>1, <3>2, <3>4, <2>1
    <3> QED BY <3>3, <3>4
  <2>4. ASSUME NEW i \in DOMAIN unique_store'
        PROVE  LET g == hash'[unique_store'[i]]
               IN  \E k \in DOMAIN unique_stores_map'[g] : unique_stores_map'[g][k] = i
    <3>1. CASE i = n
      BY <3>1, <1>3, <1>4, <2>1, <2>2
    <3>2. CASE i # n
      <4> DEFINE g == hash[unique_store[i]]
      <4>1. i \in DOMAIN unique_store /\ hash'[unique_store'[i]] = g
        BY <3>2, <1>3, <1>4
      <4>2. g \in HashValue
        BY <4>1, <1>1 DEF UniqueTypeOK
      <4>3. PICK k \in DOMAIN unique_stores_map[g] : unique_stores_map[g][k] = i
        BY <4>1 DEF MapIndexesStore
      <4>4. k \in DOMAIN unique_stores_map'[g] /\ unique_stores_map'[g][k] = i
        BY <4>2, <4>3, <2>1, <2>2
      <4> QED BY <4>1, <4>4
    <3> QED BY <3>1, <3>2
  <2> QED BY <2>3, <2>4 DEF MapIndexesStore
<1> QED BY <1>5, <1>6, <1>7, <1>8, <1>9

\* Through a key one always gets the object that was saved, and equal keys are equal
\* objects, however many objects share a hash (save and get of uniqued_any.rs).
THEOREM UniqueStoreCorrect == UniqueSpec => []UniqueInv
<1>1. UniqueInit => UniqueInv
  BY UniqueInitLemma
<1>2. UniqueInv /\ [UniqueNext]_usVars => UniqueInv'
  <2> SUFFICES ASSUME UniqueInv, [UniqueNext]_usVars PROVE UniqueInv'
    OBVIOUS
  <2>1. CASE UniqueNext
    BY <2>1, FindLemma, CreateLemma DEF UniqueNext
  <2>2. CASE UNCHANGED usVars
    BY <2>2 DEF usVars, UniqueTypeOK, UniqueInv, KeysHold, OneKeyEach, StoredOnce, MapIndexesStore
  <2> QED BY <2>1, <2>2
<1> QED BY <1>1, <1>2, PTL DEF UniqueSpec

(***************************************************************************)
(* Symbol tables.  What SymbolsAgree says is inductive once the tables are *)
(* known to be maps from names to operations.                              *)
(***************************************************************************)

SymbolTypeOK ==
    /\ symbol_name \in [SymbolOp -> Name]
    /\ symbol_parent \in [SymbolOp -> Table \cup {Nowhere, Erased}]
    /\ symbol_tables \in [Table -> (UNION {[N -> SymbolOp] : N \in SUBSET Name}) \cup {Unbuilt}]

SymbolInv == SymbolTypeOK /\ SymbolsAgree

\* Changing the entry of one name leaves a map from names to operations.
LEMMA TableLemma ==
    ASSUME SymbolTypeOK, NEW t \in Table, Built(t)
    PROVE  /\ Entries(t) \subseteq Name
           /\ \A n \in Entries(t) : Entry(t, n) \in SymbolOp
<1>1. symbol_tables[t] \in UNION {[N -> SymbolOp] : N \in SUBSET Name}
  BY DEF SymbolTypeOK, Built
<1>2. PICK N \in SUBSET Name : symbol_tables[t] \in [N -> SymbolOp]
  BY <1>1
<1> QED BY <1>2 DEF Entries, Entry

LEMMA SymbolInitLemma == SymbolInit => SymbolInv
<1> SUFFICES ASSUME SymbolInit PROVE SymbolInv
  OBVIOUS
<1>1. SymbolTypeOK
  BY DEF SymbolInit, SymbolTypeOK
<1>2. SymbolsAgree
  BY DEF SymbolInit, SymbolsAgree, Built
<1> QED BY <1>1, <1>2 DEF SymbolInv

\* A table that is built from a body without two symbols of one name agrees with it.
LEMMA BuildLemma ==
    ASSUME SymbolInv, NEW t \in Table, get_symbol_table(t)
    PROVE  SymbolInv'
<1> DEFINE N == {symbol_name[o] : o \in Body(t)}
           T == [n \in N |-> CHOOSE o \in Body(t) : symbol_name[o] = n]
<1>1. /\ symbol_tables' = [symbol_tables EXCEPT ![t] = T]
      /\ symbol_name' = symbol_name /\ symbol_parent' = symbol_parent /\ refused' = refused
      /\ \A o, p \in Body(t) : symbol_name[o] = symbol_name[p] => o = p
  BY DEF get_symbol_table
<1>2. N \subseteq Name /\ Body(t) \subseteq SymbolOp
  BY DEF SymbolInv, SymbolTypeOK, Body
<1>3. \A n \in N : T[n] \in Body(t) /\ symbol_name[T[n]] = n
  OBVIOUS
<1>4. T \in [N -> SymbolOp]
  BY <1>2, <1>3
<1>5. DOMAIN T = N
  OBVIOUS
<1>6. symbol_tables'[t] = T /\ \A u \in Table : u # t => symbol_tables'[u] = symbol_tables[u]
  BY <1>1 DEF SymbolInv, SymbolTypeOK
<1>7. \A o \in Body(t) : symbol_name[o] \in N
  OBVIOUS
<1> HIDE DEF T, N
<1>8. SymbolTypeOK'
  BY <1>1, <1>2, <1>4 DEF SymbolInv, SymbolTypeOK
<1>9. ASSUME NEW u \in Table, Built(u)'
      PROVE  /\ \A o \in Body(u)' : symbol_name'[o] \in Entries(u)'
             /\ \A o, p \in Body(u)' : symbol_name'[o] = symbol_name'[p] => o = p
             /\ \A n \in Entries(u)' : symbol_name'[Entry(u, n)'] = n
                                       /\ (Entry(u, n)' \in Body(u)' \/ <<u, Entry(u, n)'>> \in refused')
  <2>0. Body(u)' = Body(u)
    BY <1>1 DEF Body
  <2>1. CASE u = t
    BY <2>0, <2>1, <1>1, <1>3, <1>5, <1>6, <1>7 DEF Entries, Entry
  <2>2. CASE u # t
    BY <2>0, <2>2, <1>1, <1>6, <1>9 DEF SymbolInv, SymbolsAgree, Built, Entries, Entry
  <2> QED BY <2>1, <2>2
<1> QED BY <1>8, <1>9 DEF SymbolInv, SymbolsAgree

\* Whether it is refused or not, an insertion leaves at most its own entry without a symbol.
LEMMA InsertLemma ==
    ASSUME SymbolInv, NEW t \in Table, NEW o \in SymbolOp, NEW insert_pt, insert(t, o, insert_pt)
    PROVE  SymbolInv'
<1> DEFINE n0 == symbol_name[o]
           T == [n \in Entries(t) \cup {n0} |-> IF n = n0 THEN o ELSE Entry(t, n)]
<1>1. /\ symbol_tables' = [symbol_tables EXCEPT ![t] = T]
      /\ symbol_name' = symbol_name /\ Built(t) /\ symbol_parent[o] # Erased
  BY DEF insert
<1>2. Entries(t) \subseteq Name /\ (\A n \in Entries(t) : Entry(t, n) \in SymbolOp) /\ n0 \in Name
  BY <1>1, TableLemma DEF SymbolInv, SymbolTypeOK
<1>3. T \in [Entries(t) \cup {n0} -> SymbolOp]
  BY <1>2
<1>4. DOMAIN T = Entries(t) \cup {n0} /\ T[n0] = o /\ \A n \in Entries(t) : n # n0 => T[n] = Entry(t, n)
  OBVIOUS
<1>5. symbol_tables'[t] = T /\ \A u \in Table : u # t => symbol_tables'[u] = symbol_tables[u]
  BY <1>1 DEF SymbolInv, SymbolTypeOK
<1>6. /\ refused \subseteq refused'
      /\ \/ <<t, o>> \in refused' /\ symbol_parent' = symbol_parent
         \/ n0 \notin Entries(t) /\ symbol_parent[o] \notin Table \ {t}
            /\ symbol_parent' = [symbol_parent EXCEPT ![o] = t]
  BY DEF insert, Refuses
<1>7. /\ \A p \in Body(t) : symbol_name[p] \in Entries(t)
      /\ \A p, q \in Body(t) : symbol_name[p] = symbol_name[q] => p = q
      /\ \A n \in Entries(t) : symbol_name[Entry(t, n)] = n
                               /\ (Entry(t, n) \in Body(t) \/ <<t, Entry(t, n)>> \in refused)
  BY <1>1 DEF SymbolInv, SymbolsAgree
<1> DEFINE U == Entries(t) \cup {n0}
<1>8. U \subseteq Name /\ T \in [U -> SymbolOp]
  BY <1>2, <1>3
<1> HIDE DEF T, U
<1>9. SymbolTypeOK'
  <2>1. symbol_tables' \in [Table -> (UNION {[N -> SymbolOp] : N \in SUBSET Name}) \cup {Unbuilt}]
    BY <1>1, <1>8 DEF SymbolInv, SymbolTypeOK
  <2>2. symbol_parent' \in [SymbolOp -> Table \cup {Nowhere, Erased}]
    BY <1>6 DEF SymbolInv, SymbolTypeOK
  <2> QED BY <2>1, <2>2, <1>1 DEF SymbolInv, SymbolTypeOK
<1>10. Body(t) \subseteq Body(t)' /\ Body(t)' \subseteq Body(t) \cup {o}
       /\ (o \in Body(t)' => o \in Body(t) \/ n0 \notin Entries(t))
  BY <1>6, SymbolAssumption DEF Body, SymbolInv, SymbolTypeOK
<1>11. o \in Body(t)' \/ <<t, o>> \in refused'
  BY <1>6, SymbolAssumption DEF Body, SymbolInv, SymbolTypeOK
<1>12. \A u \in Table : u # t => Body(u)' = Body(u)
  BY <1>6, SymbolAssumption DEF Body, SymbolInv, SymbolTypeOK
<1>13. ASSUME NEW u \in Table, Built(u)'
       PROVE  /\ \A p \in Body(u)' : symbol_name'[p] \in Entries(u)'
              /\ \A p, q \in Body(u)' : symbol_name'[p] = symbol_name'[q] => p = q
              /\ \A n \in Entries(u)' : symbol_name'[Entry(u, n)'] = n
                                        /\ (Entry(u, n)' \in Body(u)' \/ <<u, Entry(u, n)'>> \in refused')
  <2>1. CASE u = t
    <3>1. Entries(t)' = Entries(t) \cup {n0}
      BY <1>4, <1>5 DEF Entries
    <3>2. Entry(t, n0)' = o /\ \A n \in Entries(t) : n # n0 => Entry(t, n)' = Entry(t, n)
      BY <1>1, <1>4, <1>5 DEF Entry
    <3>3. \A p \in Body(t)' : symbol_name'[p] \in Entries(t)'
      BY <3>1, <1>1, <1>7, <1>10
    <3>4. \A p, q \in Body(t)' : symbol_name'[p] = symbol_name'[q] => p = q
      BY <1>1, <1>7, <1>10
    <3>5. \A n \in Entries(t)' : symbol_name'[Entry(t, n)'] = n
                                 /\ (Entry(t, n)' \in Body(t)' \/ <<t, Entry(t, n)'>> \in refused')
      <4> TAKE n \in Entries(t)'
      <4>1. CASE n = n0
        BY <4>1, <3>2, <1>1, <1>11
      <4>2. CASE n # n0
        <5>1. n \in Entries(t)
          BY <4>2, <3>1
        <5>2. Entry(t, n)' = Entry(t, n)
          BY <4>2, <5>1, <3>2
        <5> QED BY <5>1, <5>2, <1>1, <1>6, <1>7, <1>10
      <4> QED BY <4>1, <4>2
    <3> QED BY <2>1, <3>3, <3>4, <3>5
  <2>2. CASE u # t
    <3>1. Built(u) /\ Entries(u)' = Entries(u) /\ \A n : Entry(u, n)' = Entry(u, n)
      BY <2>2, <1>5, <1>13 DEF Built, Entries, Entry
    <3> QED BY <2>2, <3>1, <1>1, <1>6, <1>12 DEF SymbolInv, SymbolsAgree
  <2> QED BY <2>1, <2>2
<1> QED BY <1>9, <1>13 DEF SymbolInv, SymbolsAgree

\* Removing a symbol takes its entry with it, and no other symbol has its name.
LEMMA RemoveLemma ==
    ASSUME SymbolInv, NEW t \in Table, NEW o \in SymbolOp, NEW to \in {Nowhere, Erased}, remove(t, o, to)
    PROVE  SymbolInv'
<1> DEFINE n0 == symbol_name[o]
           R == Entries(t) \ {n0}
           T == [n \in R |-> Entry(t, n)]
<1>1. /\ symbol_tables' = [symbol_tables EXCEPT ![t] = T]
      /\ symbol_parent' = [symbol_parent EXCEPT ![o] = to]
      /\ symbol_name' = symbol_name /\ refused' = refused
      /\ Built(t) /\ symbol_parent[o] = t
  BY DEF remove, Removable
<1>2. Entries(t) \subseteq Name /\ (\A n \in Entries(t) : Entry(t, n) \in SymbolOp)
  BY <1>1, TableLemma DEF SymbolInv, SymbolTypeOK
<1>3. R \subseteq Name /\ T \in [R -> SymbolOp]
  BY <1>2
<1>4. DOMAIN T = R /\ \A n \in R : T[n] = Entry(t, n)
  OBVIOUS
<1>5. symbol_tables'[t] = T /\ \A u \in Table : u # t => symbol_tables'[u] = symbol_tables[u]
  BY <1>1 DEF SymbolInv, SymbolTypeOK
<1> HIDE DEF T
<1>6. SymbolTypeOK'
  <2> HIDE DEF R
  <2>1. symbol_tables' \in [Table -> (UNION {[N -> SymbolOp] : N \in SUBSET Name}) \cup {Unbuilt}]
    BY <1>1, <1>3 DEF SymbolInv, SymbolTypeOK
  <2> QED BY <2>1, <1>1 DEF SymbolInv, SymbolTypeOK
<1>7. Body(t)' = Body(t) \ {o} /\ o \in Body(t) /\ \A u \in Table : u # t => Body(u)' = Body(u)
  BY <1>1, SymbolAssumption DEF Body, SymbolInv, SymbolTypeOK
<1>8. /\ \A p \in Body(t) : symbol_name[p] \in Entries(t)
      /\ \A p, q \in Body(t) : symbol_name[p] = symbol_name[q] => p = q
      /\ \A n \in Entries(t) : symbol_name[Entry(t, n)] = n
                               /\ (Entry(t, n) \in Body(t) \/ <<t, Entry(t, n)>> \in refused)
  BY <1>1 DEF SymbolInv, SymbolsAgree
<1>9. ASSUME NEW u \in Table, Built(u)'
      PROVE  /\ \A p \in Body(u)' : symbol_name'[p] \in Entries(u)'
             /\ \A p, q \in Body(u)' : symbol_name'[p] = symbol_name'[q] => p = q
             /\ \A n \in Entries(u)' : symbol_name'[Entry(u, n)'] = n
                                       /\ (Entry(u, n)' \in Body(u)' \/ <<u, Entry(u, n)'>> \in refused')
  <2>1. CASE u = t
    <3>1. Entries(t)' = R /\ \A n \in R : Entry(t, n)' = Entry(t, n)
      BY <1>4, <1>5 DEF Entries, Entry
    <3>2. \A n \in R : Entry(t, n) # o
      BY <1>8
    <3> QED BY <2>1, <3>1, <3>2, <1>1, <1>7, <1>8
  <2>2. CASE u # t
    <3>1. Built(u) /\ Entries(u)' = Entries(u) /\ \A n : Entry(u, n)' = Entry(u, n)
      BY <2>2, <1>5, <1>9 DEF Built, Entries, Entry
    <3> QED BY <2>2, <3>1, <1>1, <1>7 DEF SymbolInv, SymbolsAgree
  <2> QED BY <2>1, <2>2
<1> QED BY <1>6, <1>9 DEF SymbolInv, SymbolsAgree

\* The client fills only bodies whose table has not been built.
LEMMA LinkLemma ==
    ASSUME SymbolInv, NEW t \in Table, NEW o \in SymbolOp, Link(t, o)
    PROVE  SymbolInv'
<1>1. /\ ~ Built(t) /\ symbol_parent[o] = Nowhere /\ symbol_parent' = [symbol_parent EXCEPT ![o] = t]
      /\ symbol_name' = symbol_name /\ symbol_tables' = symbol_tables /\ refused' = refused
  BY DEF Link
<1>2. SymbolTypeOK'
  BY <1>1 DEF SymbolInv, SymbolTypeOK
<1>3. \A u \in Table : Built(u)' => u # t /\ Built(u)
  BY <1>1 DEF Built
<1>4. \A u \in Table : u # t => Body(u)' = Body(u)
  BY <1>1, SymbolAssumption DEF Body, SymbolInv, SymbolTypeOK
<1>5. \A u \in Table : Entries(u)' = Entries(u) /\ \A n : Entry(u, n)' = Entry(u, n)
  BY <1>1 DEF Entries, Entry
<1>6. SymbolsAgree'
  BY <1>1, <1>3, <1>4, <1>5 DEF SymbolInv, SymbolsAgree
<1> QED BY <1>2, <1>6 DEF SymbolInv

\* In the body of a built table every name has one symbol and an entry, and entries are
\* symbols of the body but for refused insertions (symbol_table.rs).
THEOREM SymbolsAlwaysAgree == SymbolSpec => []SymbolsAgree
<1>1. SymbolInit => SymbolInv
  BY SymbolInitLemma
<1>2. SymbolInv /\ [SymbolNext]_stVars => SymbolInv'
  <2> SUFFICES ASSUME SymbolInv, [SymbolNext]_stVars PROVE SymbolInv'
    OBVIOUS
  <2>1. CASE SymbolNext
    BY <2>1, BuildLemma, LinkLemma, InsertLemma, RemoveLemma DEF SymbolNext
  <2>2. CASE UNCHANGED stVars
    BY <2>2 DEF stVars, SymbolInv, SymbolTypeOK, SymbolsAgree, Body, Built, Entries, Entry
  <2> QED BY <2>1, <2>2
<1>3. SymbolInv => SymbolsAgree
  BY DEF SymbolInv
<1> QED BY <1>1, <1>2, <1>3, PTL DEF SymbolSpec

(***************************************************************************)
(* Given names.  What an attribute says of each index, after it has been   *)
(* set, moved and taken out.                                               *)
(***************************************************************************)
Given == Identifier \cup {Unnamed}
AnySet(s) == s # <<>> => \E i \in DOMAIN s : s[i] # Unnamed

LEMMA IfAnySetLemma ==
    ASSUME NEW s \in Seq(Given)
    PROVE  /\ IfAnySet(s) \in Seq(Given) /\ AnySet(IfAnySet(s)) /\ Len(IfAnySet(s)) <= Len(s)
           /\ \A j : get(IfAnySet(s), j) = get(s, j)
<1>1. CASE \E i \in DOMAIN s : s[i] # Unnamed
  BY <1>1 DEF IfAnySet, AnySet, get
<1>2. CASE ~ \E i \in DOMAIN s : s[i] # Unnamed
  <2>1. IfAnySet(s) = <<>> /\ DOMAIN <<>> = {} /\ Len(<<>>) = 0 /\ Len(s) >= 0
    BY <1>2 DEF IfAnySet
  <2> QED BY <1>2, <2>1 DEF AnySet, get
<1> QED BY <1>1, <1>2

LEMMA GrowLemma ==
    ASSUME NEW s \in Seq(Given), NEW n \in Nat
    PROVE  /\ grow_to(s, n) \in Seq(Given)
           /\ Len(grow_to(s, n)) = IF n > Len(s) THEN n ELSE Len(s)
           /\ \A j : get(grow_to(s, n), j) = get(s, j)
<1> DEFINE k == IF n > Len(s) THEN n - Len(s) ELSE 0
           u == [i \in 1..k |-> Unnamed]
           t == grow_to(s, n)
<1>1. Len(s) \in Nat /\ k \in Nat /\ DOMAIN s = 1..Len(s)
  OBVIOUS
<1>2. u \in Seq(Given) /\ Len(u) = k /\ \A i \in 1..k : u[i] = Unnamed
  BY <1>1 DEF Given
<1>3. t = s \o u
  BY DEF grow_to
<1> HIDE DEF u, t
<1>4. /\ t \in Seq(Given) /\ Len(t) = Len(s) + k
      /\ \A i \in 1..(Len(s) + k) : t[i] = IF i <= Len(s) THEN s[i] ELSE u[i - Len(s)]
  BY <1>2, <1>3, ConcatProperties
<1>5. DOMAIN t = 1..(Len(s) + k)
  BY <1>4
<1>6. \A j : get(t, j) = get(s, j)
  <2> TAKE j
  <2>1. CASE j \in 1..Len(s)
    BY <1>1, <1>4, <1>5, <2>1 DEF get
  <2>2. CASE j \in 1..(Len(s) + k) /\ j \notin 1..Len(s)
    <3>1. j - Len(s) \in 1..k /\ ~ (j <= Len(s))
      BY <1>1, <2>2
    <3> QED BY <1>1, <1>2, <1>4, <1>5, <2>2, <3>1 DEF get
  <2>3. CASE j \notin 1..(Len(s) + k)
    <3>1. j \notin 1..Len(s)
      BY <1>1, <2>3
    <3> QED BY <1>1, <1>5, <2>3, <3>1 DEF get
  <2> QED BY <2>1, <2>2, <2>3
<1>7. Len(t) = IF n > Len(s) THEN n ELSE Len(s)
  BY <1>1, <1>4
<1> QED BY <1>4, <1>6, <1>7 DEF t

\* t is what the attribute s becomes when index i is named, or inserted with a name.
NameSet(s, i, name, t) ==
    /\ t \in Seq(Given) /\ AnySet(t)
    /\ Len(t) <= (IF i > Len(s) THEN i ELSE Len(s))
    /\ \A j : get(t, j) = IF j = i THEN name ELSE get(s, j)
NameInserted(s, i, name, t) ==
    /\ t \in Seq(Given) /\ AnySet(t)
    /\ Len(t) <= (IF i > Len(s) THEN i ELSE Len(s) + 1)
    /\ \A j \in Nat \ {0} : get(t, j) = IF j < i THEN get(s, j) ELSE IF j = i THEN name ELSE get(s, j - 1)

LEMMA SetNameLemma ==
    ASSUME NEW s \in Seq(Given), AnySet(s), NEW i \in Nat \ {0}, NEW name \in Given
    PROVE  NameSet(s, i, name, set_name(s, i, name))
<1> DEFINE g == grow_to(s, i)
           w == [g EXCEPT ![i] = name]
           t == set_name(s, i, name)
<1>1. CASE s = <<>> /\ name = Unnamed
  <2>1. t = <<>> /\ s = <<>> /\ name = Unnamed
    BY <1>1 DEF set_name
  <2>2. <<>> \in Seq(Given) /\ Len(<<>>) = 0 /\ AnySet(<<>>) /\ \A j : get(<<>>, j) = Unnamed
    BY DEF AnySet, get
  <2>3. t \in Seq(Given) /\ AnySet(t) /\ Len(t) = 0 /\ Len(s) = 0 /\ \A j : get(t, j) = Unnamed /\ get(s, j) = Unnamed
    BY <2>1, <2>2
  <2> HIDE DEF t
  <2>4. NameSet(s, i, name, t)
    BY <2>1, <2>3 DEF NameSet
  <2> QED BY <2>4 DEF t
<1>2. CASE ~ (s = <<>> /\ name = Unnamed)
  <2>1. t = IfAnySet(w)
    BY <1>2 DEF set_name
  <2>2. /\ g \in Seq(Given) /\ Len(g) = (IF i > Len(s) THEN i ELSE Len(s))
        /\ \A j : get(g, j) = get(s, j)
    BY GrowLemma
  <2> HIDE DEF g, t
  <2>3. i \in 1..Len(g) /\ DOMAIN g = 1..Len(g) /\ Len(s) \in Nat
    BY <2>2
  <2>4. w \in Seq(Given) /\ Len(w) = Len(g) /\ DOMAIN w = 1..Len(g) /\ w[i] = name
        /\ \A j \in 1..Len(g) : j # i => w[j] = g[j]
    BY <2>2, <2>3, ExceptSeq
  <2> HIDE DEF w
  <2>5. \A j : get(w, j) = IF j = i THEN name ELSE get(g, j)
    BY <2>3, <2>4 DEF get
  <2>6. /\ t \in Seq(Given) /\ AnySet(t) /\ Len(t) <= Len(w)
        /\ \A j : get(t, j) = get(w, j)
    BY <2>1, <2>4, IfAnySetLemma
  <2>7. Len(t) <= (IF i > Len(s) THEN i ELSE Len(s))
    BY <2>2, <2>4, <2>6
  <2>8. \A j : get(t, j) = IF j = i THEN name ELSE get(s, j)
    BY <2>2, <2>5, <2>6
  <2>9. NameSet(s, i, name, t)
    BY <2>6, <2>7, <2>8 DEF NameSet
  <2> QED BY <2>9 DEF t
<1> QED BY <1>1, <1>2

LEMMA InsertNameLemma ==
    ASSUME NEW s \in Seq(Given), AnySet(s), NEW i \in Nat \ {0}, NEW name \in Given
    PROVE  NameInserted(s, i, name, insert_name(s, i, name))
<1> DEFINE g == grow_to(s, i - 1)
           w == InsertAt(g, i, name)
           t == insert_name(s, i, name)
<1>1. CASE s = <<>> /\ name = Unnamed
  <2>1. t = <<>> /\ s = <<>> /\ name = Unnamed
    BY <1>1 DEF insert_name
  <2>2. <<>> \in Seq(Given) /\ Len(<<>>) = 0 /\ AnySet(<<>>) /\ \A j : get(<<>>, j) = Unnamed
    BY DEF AnySet, get
  <2>3. t \in Seq(Given) /\ AnySet(t) /\ Len(t) = 0 /\ Len(s) = 0 /\ \A j : get(t, j) = Unnamed /\ get(s, j) = Unnamed
    BY <2>1, <2>2
  <2> HIDE DEF t
  <2>4. NameInserted(s, i, name, t)
    BY <2>1, <2>3 DEF NameInserted
  <2> QED BY <2>4 DEF t
<1>2. CASE ~ (s = <<>> /\ name = Unnamed)
  <2>1. t = IfAnySet(w)
    BY <1>2 DEF insert_name
  <2>2. /\ g \in Seq(Given) /\ Len(g) = (IF i - 1 > Len(s) THEN i - 1 ELSE Len(s))
        /\ \A j : get(g, j) = get(s, j)
    BY GrowLemma
  <2> HIDE DEF g, t
  <2>3. i \in 1..(Len(g) + 1) /\ DOMAIN g = 1..Len(g) /\ Len(s) \in Nat /\ Len(g) \in Nat
    BY <2>2
  <2>4. w \in Seq(Given) /\ Inserted(g, i, name, w)
    BY <2>2, <2>3, InsertAtLemma
  <2> HIDE DEF w
  <2>5. DOMAIN w = 1..(Len(g) + 1) /\ Len(w) = Len(g) + 1
    BY <2>3, <2>4 DEF Inserted
  <2>6. \A j \in Nat \ {0} : get(w, j) = IF j < i THEN get(g, j) ELSE IF j = i THEN name ELSE get(g, j - 1)
    BY <2>3, <2>4, <2>5 DEF get, Inserted
  <2>7. /\ t \in Seq(Given) /\ AnySet(t) /\ Len(t) <= Len(w)
        /\ \A j : get(t, j) = get(w, j)
    BY <2>1, <2>4, IfAnySetLemma
  <2>8. Len(t) <= (IF i > Len(s) THEN i ELSE Len(s) + 1)
    BY <2>2, <2>3, <2>5, <2>7
  <2>9. \A j \in Nat \ {0} : get(t, j) = IF j < i THEN get(s, j) ELSE IF j = i THEN name ELSE get(s, j - 1)
    BY <2>2, <2>6, <2>7
  <2>10. NameInserted(s, i, name, t)
    BY <2>7, <2>8, <2>9 DEF NameInserted
  <2> QED BY <2>10 DEF t
<1> QED BY <1>1, <1>2

LEMMA RemoveNameLemma ==
    ASSUME NEW s \in Seq(Given), AnySet(s), NEW i \in Nat \ {0}
    PROVE  /\ remove_name(s, i) \in Seq(Given) /\ AnySet(remove_name(s, i))
           /\ Len(remove_name(s, i)) <= (IF i <= Len(s) THEN Len(s) - 1 ELSE Len(s))
           /\ \A j \in Nat \ {0} :
                 get(remove_name(s, i), j) = IF j < i THEN get(s, j) ELSE get(s, j + 1)
<1> DEFINE w == RemoveAt(s, i)
           t == remove_name(s, i)
<1>0. DOMAIN s = 1..Len(s) /\ Len(s) \in Nat
  OBVIOUS
<1>1. CASE i \notin DOMAIN s
  <2>1. t = s
    BY <1>1 DEF remove_name
  <2> QED BY <1>0, <1>1, <2>1 DEF get
<1>2. CASE i \in DOMAIN s
  <2>1. t = IfAnySet(w)
    BY <1>2 DEF remove_name
  <2>2. w \in Seq(Given) /\ RemovedAt(s, i, w)
    BY <1>0, <1>2, RemoveAtLemma
  <2> HIDE DEF w, t
  <2>3. DOMAIN w = 1..(Len(s) - 1) /\ Len(w) = Len(s) - 1
    BY <1>0, <2>2 DEF RemovedAt
  <2>4. \A j \in Nat \ {0} : get(w, j) = IF j < i THEN get(s, j) ELSE get(s, j + 1)
    BY <1>0, <1>2, <2>2, <2>3 DEF get, RemovedAt
  <2>5. /\ t \in Seq(Given) /\ AnySet(t) /\ Len(t) <= Len(w)
        /\ \A j : get(t, j) = get(w, j)
    BY <2>1, <2>2, IfAnySetLemma
  <2>6. Len(t) <= (IF i <= Len(s) THEN Len(s) - 1 ELSE Len(s))
    BY <1>0, <1>2, <2>3, <2>5
  <2>7. \A j \in Nat \ {0} : get(t, j) = IF j < i THEN get(s, j) ELSE get(s, j + 1)
    BY <2>4, <2>5
  <2> QED BY <2>5, <2>6, <2>7 DEF t
<1> QED BY <1>1, <1>2

\* The names at the indices up to n are set to none, one after the other.
Erasing(s, n, F) == [i \in 0..n |-> IF i = 0 THEN s ELSE set_name(F[i - 1], i, Unnamed)]

LEMMA ErasingExists ==
    ASSUME NEW s, NEW n \in Nat
    PROVE  \E F : F = Erasing(s, n, F)
<1> DEFINE Ok(k) == \E F : F = Erasing(s, k, F)
           Q == {k \in 0..n : Ok(k)}
<1>1. 0 \in Q
  <2>1. [i \in 0..0 |-> s] = Erasing(s, 0, [i \in 0..0 |-> s])
    BY DEF Erasing
  <2> QED BY <2>1
<1>2. ASSUME NEW k \in 0..n, k < n, k \in Q PROVE k + 1 \in Q
  <2>1. PICK F : F = Erasing(s, k, F)
    BY <1>2
  <2> DEFINE G == [j \in 0..(k + 1) |-> IF j = k + 1 THEN set_name(F[k], k + 1, Unnamed) ELSE F[j]]
  <2>2. ASSUME NEW j \in 0..(k + 1)
        PROVE  G[j] = IF j = 0 THEN s ELSE set_name(G[j - 1], j, Unnamed)
    <3>1. G[j] = (IF j = k + 1 THEN set_name(F[k], k + 1, Unnamed) ELSE F[j]) /\ (j # 0 => G[j - 1] = F[j - 1])
      BY <1>2
    <3>2. j # k + 1 => F[j] = IF j = 0 THEN s ELSE set_name(F[j - 1], j, Unnamed)
      BY <2>1 DEF Erasing
    <3>3. CASE j = k + 1
      BY <3>1, <3>3
    <3>4. CASE j # k + 1
      BY <3>1, <3>2, <3>4
    <3> QED BY <3>3, <3>4
  <2>3. G = [j \in 0..(k + 1) |-> G[j]]
    OBVIOUS
  <2> HIDE DEF G
  <2>4. G = Erasing(s, k + 1, G)
    BY <2>2, <2>3 DEF Erasing
  <2>5. k + 1 \in 0..n
    BY <1>2
  <2> QED BY <2>4, <2>5
<1> HIDE DEF Q
<1>3. 0..n \subseteq Q
  BY <1>1, <1>2, UpTo
<1>4. n \in Q
  BY <1>3
<1> QED BY <1>4 DEF Q

LEMMA SetNewIsMember ==
    ASSUME NEW u \in Seq(Given), AnySet(u), NEW k \in Nat \ {0}
    PROVE  NameSet(u, k, Unnamed, set_name(u, k, Unnamed))
  BY SetNameLemma DEF Given

LEMMA ErasedLemma ==
    ASSUME NEW s \in Seq(Given), AnySet(s), NEW n \in Nat, Len(s) <= n
    PROVE  /\ names_erased(s, n) \in Seq(Given) /\ AnySet(names_erased(s, n))
           /\ Len(names_erased(s, n)) <= n
           /\ \A j \in 1..n : get(names_erased(s, n), j) = Unnamed
<1> DEFINE C(H) == H = Erasing(s, n, H)
           F == CHOOSE H : C(H)
<1>1. names_erased(s, n) = F[n]
  BY Zenon DEF names_erased, Erasing
<1>2. F = Erasing(s, n, F)
  <2>1. \E H : C(H)
    BY ErasingExists
  <2>2. C(F)
    <3> HIDE DEF C
    <3> QED BY <2>1
  <2> QED BY <2>2
<1> HIDE DEF F
<1>3. \A i \in 0..n : F[i] = IF i = 0 THEN s ELSE set_name(F[i - 1], i, Unnamed)
  BY <1>2 DEF Erasing
<1> DEFINE Ok(i) == /\ F[i] \in Seq(Given) /\ AnySet(F[i]) /\ Len(F[i]) <= n
                    /\ \A j \in 1..i : get(F[i], j) = Unnamed
           Q == {i \in 0..n : Ok(i)}
<1>4. 0 \in Q
  BY <1>3
<1>5. ASSUME NEW i \in 0..n, i < n, i \in Q PROVE i + 1 \in Q
  <2>1. F[i + 1] = set_name(F[i], i + 1, Unnamed) /\ i + 1 \in 0..n /\ i + 1 \in Nat \ {0} /\ Unnamed \in Given
    BY <1>3, <1>5 DEF Given
  <2>2. Ok(i)
    BY <1>5
  <2>3. /\ F[i + 1] \in Seq(Given) /\ AnySet(F[i + 1])
        /\ Len(F[i + 1]) <= (IF i + 1 > Len(F[i]) THEN i + 1 ELSE Len(F[i]))
        /\ \A j : get(F[i + 1], j) = IF j = i + 1 THEN Unnamed ELSE get(F[i], j)
    <3> DEFINE u == F[i]
               k == i + 1
    <3>1. u \in Seq(Given) /\ AnySet(u) /\ k \in Nat \ {0}
      BY <2>1, <2>2
    <3> HIDE DEF u, k
    <3>2. NameSet(u, k, Unnamed, set_name(u, k, Unnamed))
      BY <3>1, SetNewIsMember
    <3>3. F[k] = set_name(u, k, Unnamed)
      BY <2>1 DEF u, k
    <3>4. /\ F[k] \in Seq(Given) /\ AnySet(F[k])
          /\ Len(F[k]) <= (IF k > Len(u) THEN k ELSE Len(u))
          /\ \A j : get(F[k], j) = IF j = k THEN Unnamed ELSE get(u, j)
      BY <3>2, <3>3 DEF NameSet
    <3> QED BY <3>4 DEF u, k
  <2>4. Len(F[i + 1]) <= n
    BY <2>1, <2>2, <2>3
  <2>5. \A j \in 1..(i + 1) : get(F[i + 1], j) = Unnamed
    BY <2>1, <2>2, <2>3
  <2> QED BY <2>1, <2>3, <2>4, <2>5
<1> HIDE DEF Q
<1>6. 0..n \subseteq Q
  BY <1>4, <1>5, UpTo
<1>7. n \in Q
  BY <1>6
<1> QED BY <1>1, <1>7 DEF Q

(***************************************************************************)
(* The invariant: a value is held at one place only, and at each place the *)
(* attribute has the name of the value there.  It has no name past the     *)
(* last value, so that a value added at the end finds none.                *)
(***************************************************************************)
HeldOnce ==
    /\ held \in [Holder -> Seq(Val)]
    /\ \A e, f \in Holder : \A i \in DOMAIN held[e], j \in DOMAIN held[f] :
          held[e][i] = held[f][j] => e = f /\ i = j
NamesShort ==
    /\ names \in [Holder -> Seq(Given)] /\ given \in [Val -> Given]
    /\ \A e \in Holder : AnySet(names[e]) /\ Len(names[e]) <= Len(held[e])
NamesAgree == \A e \in Holder : \A i \in DOMAIN held[e] : get(names[e], i) = given[held[e][i]]
GNInv == HeldOnce /\ NamesShort /\ NamesAgree

LEMMA GNInvInit == GNInit => GNInv
<1> SUFFICES ASSUME GNInit PROVE GNInv
  OBVIOUS
<1>1. <<>> \in Seq(Val) /\ <<>> \in Seq(Given) /\ DOMAIN <<>> = {} /\ Len(<<>>) = 0 /\ Unnamed \in Given
  BY DEF Given
<1> QED BY <1>1 DEF GNInit, GNInv, HeldOnce, NamesShort, NamesAgree, AnySet

\* One operation or block changes, and the names of the values in the others do not.
LEMMA OneHolderLemma ==
    ASSUME GNInv, NEW e \in Holder, NEW s \in Seq(Val), NEW t \in Seq(Given),
           held' = [held EXCEPT ![e] = s], names' = [names EXCEPT ![e] = t], given' \in [Val -> Given],
           \A i, j \in 1..Len(s) : s[i] = s[j] => i = j,
           \A i \in 1..Len(s) : s[i] \in ToSet(held[e]) \/ s[i] \notin Held,
           AnySet(t), Len(t) <= Len(s), \A i \in 1..Len(s) : get(t, i) = given'[s[i]],
           \A f \in Holder : f # e => \A j \in DOMAIN held[f] : given'[held[f][j]] = given[held[f][j]]
    PROVE  GNInv'
<1>1. /\ held' \in [Holder -> Seq(Val)] /\ held'[e] = s /\ \A f \in Holder : f # e => held'[f] = held[f]
      /\ names' \in [Holder -> Seq(Given)] /\ names'[e] = t /\ \A f \in Holder : f # e => names'[f] = names[f]
  BY DEF GNInv, HeldOnce, NamesShort
<1>2. DOMAIN s = 1..Len(s)
  OBVIOUS
<1>3. ASSUME NEW f \in Holder, f # e, NEW j \in DOMAIN held[f], NEW i \in 1..Len(s)
      PROVE  s[i] # held[f][j]
  <2>1. held[f][j] \in Held
    BY <1>3 DEF Held, ToSet
  <2>2. held[f][j] \notin ToSet(held[e])
    BY <1>3 DEF GNInv, HeldOnce, ToSet
  <2> QED BY <2>1, <2>2
<1>4. HeldOnce'
  <2> SUFFICES ASSUME NEW f \in Holder, NEW g \in Holder, NEW i \in DOMAIN held'[f], NEW j \in DOMAIN held'[g],
                      held'[f][i] = held'[g][j]
               PROVE  f = g /\ i = j
    BY <1>1 DEF HeldOnce
  <2>1. CASE f = e /\ g = e
    BY <1>1, <1>2, <2>1
  <2>2. CASE f = e /\ g # e
    BY <1>1, <1>2, <1>3, <2>2
  <2>3. CASE f # e /\ g = e
    BY <1>1, <1>2, <1>3, <2>3
  <2>4. CASE f # e /\ g # e
    BY <1>1, <2>4 DEF GNInv, HeldOnce
  <2> QED BY <2>1, <2>2, <2>3, <2>4
<1>5. NamesShort'
  <2>1. \A f \in Holder : AnySet(names'[f]) /\ Len(names'[f]) <= Len(held'[f])
    BY <1>1 DEF GNInv, NamesShort
  <2> QED BY <1>1, <2>1 DEF NamesShort
<1>6. NamesAgree'
  <2> SUFFICES ASSUME NEW f \in Holder, NEW i \in DOMAIN held'[f]
               PROVE  get(names'[f], i) = given'[held'[f][i]]
    BY DEF NamesAgree
  <2>1. CASE f = e
    BY <1>1, <1>2, <2>1
  <2>2. CASE f # e
    BY <1>1, <2>2 DEF GNInv, NamesAgree
  <2> QED BY <2>1, <2>2
<1> QED BY <1>4, <1>5, <1>6 DEF GNInv

\* What the invariant says of one operation or block.
LEMMA PlaceLemma ==
    ASSUME GNInv, NEW e \in Holder
    PROVE  /\ held[e] \in Seq(Val) /\ Len(held[e]) \in Nat /\ DOMAIN held[e] = 1..Len(held[e])
           /\ \A i, j \in 1..Len(held[e]) : held[e][i] = held[e][j] => i = j
           /\ \A i \in 1..Len(held[e]) : held[e][i] \in ToSet(held[e]) /\ held[e][i] \in Held /\ held[e][i] \in Val
           /\ names[e] \in Seq(Given) /\ AnySet(names[e]) /\ Len(names[e]) \in Nat
           /\ Len(names[e]) <= Len(held[e]) /\ DOMAIN names[e] = 1..Len(names[e])
           /\ \A i \in 1..Len(held[e]) : get(names[e], i) = given[held[e][i]] /\ get(names[e], i) \in Given
           /\ \A i \in Nat : i > Len(held[e]) => get(names[e], i) = Unnamed
<1>1. /\ held[e] \in Seq(Val) /\ Len(held[e]) \in Nat /\ DOMAIN held[e] = 1..Len(held[e])
      /\ names[e] \in Seq(Given) /\ AnySet(names[e]) /\ Len(names[e]) \in Nat
      /\ Len(names[e]) <= Len(held[e]) /\ DOMAIN names[e] = 1..Len(names[e])
  BY DEF GNInv, HeldOnce, NamesShort
<1>2. \A i, j \in 1..Len(held[e]) : held[e][i] = held[e][j] => i = j
  BY <1>1 DEF GNInv, HeldOnce
<1>3. \A i \in 1..Len(held[e]) : held[e][i] \in ToSet(held[e]) /\ held[e][i] \in Held /\ held[e][i] \in Val
  BY <1>1 DEF ToSet, Held
<1>4. \A i \in 1..Len(held[e]) : get(names[e], i) = given[held[e][i]] /\ given[held[e][i]] \in Given
  BY <1>1, <1>3 DEF GNInv, NamesAgree, NamesShort
<1>5. \A i \in Nat : i > Len(held[e]) => get(names[e], i) = Unnamed
  BY <1>1 DEF get
<1> QED BY <1>1, <1>2, <1>3, <1>4, <1>5

\* A value somewhere else is not the one at place i of e.
LEMMA ElsewhereLemma ==
    ASSUME GNInv, NEW e \in Holder, NEW f \in Holder, f # e, NEW j \in DOMAIN held[f]
    PROVE  /\ \A i \in 1..Len(held[e]) : held[e][i] # held[f][j]
           /\ held[f][j] \in Held /\ held[f][j] \in Val
<1>1. \A i \in DOMAIN held[e] : held[e][i] # held[f][j]
  BY DEF GNInv, HeldOnce
<1> QED BY <1>1, PlaceLemma

\* An insertion of a new element, and a removal, repeat none.
LEMMA InsertedInjective ==
    ASSUME NEW s, NEW t, NEW k, NEW v, ElementsInserted(s, k, v, t),
           \A a, b \in 1..Len(s) : s[a] = s[b] => a = b, \A a \in 1..Len(s) : s[a] # v
    PROVE  \A i, j \in 1..Len(t) : t[i] = t[j] => i = j
<1> SUFFICES ASSUME NEW i \in 1..Len(t), NEW j \in 1..Len(t), t[i] = t[j], i # j PROVE FALSE
  OBVIOUS
<1>1. t[k] = v /\ \A n \in 1..Len(t) : n # k => \E a \in 1..Len(s) : t[n] = s[a]
  BY DEF ElementsInserted
<1>2. i # k /\ j # k
  BY <1>1
<1>3. \E a, b \in 1..Len(s) : t[i] = s[a] /\ t[j] = s[b] /\ (a = b => i = j)
  BY <1>2 DEF ElementsInserted
<1> QED BY <1>3

LEMMA RemovedInjective ==
    ASSUME NEW s, NEW t, NEW k, ElementsRemoved(s, k, t),
           \A a, b \in 1..Len(s) : s[a] = s[b] => a = b
    PROVE  \A i, j \in 1..Len(t) : t[i] = t[j] => i = j
<1> SUFFICES ASSUME NEW i \in 1..Len(t), NEW j \in 1..Len(t), t[i] = t[j] PROVE i = j
  OBVIOUS
<1>1. \A m, n \in 1..Len(t) : \E a, b \in 1..Len(s) : a # k /\ b # k /\ t[m] = s[a] /\ t[n] = s[b] /\ (a = b => m = n)
  BY DEF ElementsRemoved
<1>2. PICK a \in 1..Len(s), b \in 1..Len(s) : a # k /\ b # k /\ t[i] = s[a] /\ t[j] = s[b] /\ (a = b => i = j)
  BY <1>1
<1> QED BY <1>2

LEMMA PushValueStep ==
    ASSUME GNInv, NEW e \in Holder, NEW v \in Val, push_value(e, v)
    PROVE  GNInv'
<1> DEFINE h == held[e]
           s == Append(held[e], v)
<1>1. /\ h \in Seq(Val) /\ Len(h) \in Nat /\ s \in Seq(Val) /\ Len(s) = Len(h) + 1 /\ s[Len(h) + 1] = v
      /\ \A i \in 1..Len(h) : s[i] = h[i]
  BY PlaceLemma, AppendProperties
<1>2. /\ v \notin Held /\ held' = [held EXCEPT ![e] = s] /\ given' = [given EXCEPT ![v] = Unnamed]
      /\ names' = [names EXCEPT ![e] = names[e]]
  BY DEF push_value, GNInv, NamesShort
<1>3. given' \in [Val -> Given] /\ given'[v] = Unnamed /\ \A u \in Val : u # v => given'[u] = given[u]
  BY <1>2 DEF GNInv, NamesShort, Given
<1>4. \A i \in 1..Len(h) : h[i] \in Held /\ h[i] \in Val /\ h[i] # v
  BY <1>2, PlaceLemma
<1> HIDE DEF s
<1>5. \A i, j \in 1..Len(s) : s[i] = s[j] => i = j
  <2>1. \A i, j \in 1..Len(h) : h[i] = h[j] => i = j
    BY PlaceLemma
  <2> HIDE DEF h
  <2> QED BY <1>1, <1>4, <2>1
<1>6. \A i \in 1..Len(s) : s[i] \in ToSet(held[e]) \/ s[i] \notin Held
  <2>1. \A i \in 1..Len(h) : h[i] \in ToSet(held[e])
    BY PlaceLemma
  <2>2. \A i \in 1..Len(s) : i \in 1..Len(h) \/ i = Len(h) + 1
    BY <1>1
  <2> QED BY <1>1, <1>2, <2>1, <2>2
<1>7. names[e] \in Seq(Given) /\ AnySet(names[e]) /\ Len(names[e]) <= Len(s)
  BY <1>1, PlaceLemma
<1>8. \A i \in 1..Len(s) : get(names[e], i) = given'[s[i]]
  <2>1. \A i \in 1..Len(h) : get(names[e], i) = given[h[i]]
    BY PlaceLemma
  <2>2. get(names[e], Len(h) + 1) = Unnamed
    BY <1>1, PlaceLemma
  <2>3. \A i \in 1..Len(s) : i \in 1..Len(h) \/ i = Len(h) + 1
    BY <1>1
  <2> QED BY <1>1, <1>3, <1>4, <2>1, <2>2, <2>3
<1>9. \A f \in Holder : f # e => \A j \in DOMAIN held[f] : given'[held[f][j]] = given[held[f][j]]
  BY <1>2, <1>3, ElsewhereLemma
<1> QED BY <1>1, <1>2, <1>3, <1>5, <1>6, <1>7, <1>8, <1>9, OneHolderLemma

LEMMA InsertValueStep ==
    ASSUME GNInv, NEW e \in Holder, NEW v \in Val, NEW k \in 1..(Len(held[e]) + 1), insert_value(e, k, v)
    PROVE  GNInv'
<1> DEFINE h == held[e]
           s == InsertAt(held[e], k, v)
           m == Unnamed
           t == insert_name(names[e], k, m)
<1>1. /\ h \in Seq(Val) /\ Len(h) \in Nat /\ s \in Seq(Val) /\ Inserted(h, k, v, s) /\ k \in Nat \ {0}
  BY PlaceLemma, InsertAtLemma
<1>2. /\ v \notin Held /\ held' = [held EXCEPT ![e] = s] /\ given' = [given EXCEPT ![v] = m]
      /\ names' = [names EXCEPT ![e] = t]
  BY DEF insert_value
<1>3. given' \in [Val -> Given] /\ given'[v] = m /\ m \in Given /\ \A u \in Val : u # v => given'[u] = given[u]
  BY <1>2 DEF GNInv, NamesShort, Given
<1> HIDE DEF m
<1>4. \A i \in 1..Len(h) : h[i] \in Held /\ h[i] \in Val /\ h[i] # v
  BY <1>2, PlaceLemma
<1>5. /\ t \in Seq(Given) /\ AnySet(t)
      /\ Len(t) <= (IF k > Len(names[e]) THEN k ELSE Len(names[e]) + 1)
      /\ \A j \in Nat \ {0} : get(t, j) = IF j < k THEN get(names[e], j) ELSE IF j = k THEN m ELSE get(names[e], j - 1)
  <2> DEFINE w == names[e]
  <2>1. w \in Seq(Given) /\ AnySet(w)
    BY PlaceLemma
  <2> HIDE DEF w
  <2>2. NameInserted(w, k, m, insert_name(w, k, m))
    BY <1>1, <1>3, <2>1, InsertNameLemma
  <2> QED BY <2>2 DEF w, NameInserted
<1> HIDE DEF s, t
<1>6. /\ Len(s) = Len(h) + 1 /\ s[k] = v
      /\ \A i \in 1..Len(s) : \/ i = k
                              \/ i < k /\ i \in 1..Len(h) /\ s[i] = h[i]
                              \/ i > k /\ i - 1 \in 1..Len(h) /\ s[i] = h[i - 1]
  <2>1. k \in 1..(Len(h) + 1)
    OBVIOUS
  <2> HIDE DEF h
  <2>2. Len(s) = Len(h) + 1 /\ \A i \in 1..(Len(h) + 1) : s[i] = IF i < k THEN h[i] ELSE IF i = k THEN v ELSE h[i - 1]
    BY <1>1 DEF Inserted
  <2>3. \A i \in 1..(Len(h) + 1) : i = k \/ (i < k /\ i \in 1..Len(h)) \/ (i > k /\ ~ (i < k) /\ i # k /\ i - 1 \in 1..Len(h))
    BY <1>1, <2>1
  <2> QED BY <2>1, <2>2, <2>3
<1>7. \A i, j \in 1..Len(s) : s[i] = s[j] => i = j
  <2>1. \A i, j \in 1..Len(h) : h[i] = h[j] => i = j
    BY PlaceLemma
  <2>2. \A i \in 1..Len(h) : h[i] # v
    BY <1>4
  <2>3. k \in 1..(Len(h) + 1)
    OBVIOUS
  <2> HIDE DEF h
  <2>4. ElementsInserted(h, k, v, s)
    BY <1>1, <2>3, InsertedElements
  <2> QED BY <2>1, <2>2, <2>4, InsertedInjective
<1>8. \A i \in 1..Len(s) : s[i] \in ToSet(held[e]) \/ s[i] \notin Held
  <2>1. \A i \in 1..Len(h) : h[i] \in ToSet(held[e])
    BY PlaceLemma
  <2> QED BY <1>2, <1>6, <2>1
<1>9. Len(t) <= Len(s)
  BY <1>1, <1>5, <1>6, PlaceLemma
<1>10. \A i \in 1..Len(s) : get(t, i) = given'[s[i]]
  <2> SUFFICES ASSUME NEW i \in 1..Len(s) PROVE get(t, i) = given'[s[i]]
    OBVIOUS
  <2>0. i \in Nat \ {0} /\ Len(s) \in Nat
    BY <1>1, <1>6
  <2>1. \A n \in 1..Len(h) : get(names[e], n) = given[h[n]] /\ given'[h[n]] = given[h[n]]
    BY <1>3, <1>4, PlaceLemma
  <2>2. CASE i = k
    BY <1>1, <1>3, <1>5, <1>6, <2>2
  <2>3. CASE i < k
    <3>1. ~ (i = k) /\ ~ (i > k)
      BY <1>1, <2>0, <2>3
    <3> QED BY <1>5, <1>6, <2>0, <2>1, <2>3, <3>1
  <2>4. CASE i > k
    <3>1. ~ (i = k) /\ ~ (i < k)
      BY <1>1, <2>0, <2>4
    <3>2. i - 1 \in 1..Len(h) /\ s[i] = h[i - 1] /\ get(t, i) = get(names[e], i - 1)
      BY <1>5, <1>6, <2>0, <3>1
    <3> QED BY <2>1, <3>2
  <2> QED BY <1>1, <2>0, <2>2, <2>3, <2>4
<1>11. \A f \in Holder : f # e => \A j \in DOMAIN held[f] : given'[held[f][j]] = given[held[f][j]]
  BY <1>2, <1>3, ElsewhereLemma
<1> QED BY <1>1, <1>2, <1>3, <1>5, <1>7, <1>8, <1>9, <1>10, <1>11, OneHolderLemma

LEMMA RemoveValueStep ==
    ASSUME GNInv, NEW e \in Holder, NEW k \in 1..Len(held[e]), remove_value(e, k)
    PROVE  GNInv'
<1> DEFINE h == held[e]
           s == RemoveAt(held[e], k)
           t == remove_name(names[e], k)
<1>1. /\ h \in Seq(Val) /\ Len(h) \in Nat /\ s \in Seq(Val) /\ RemovedAt(h, k, s) /\ k \in Nat \ {0}
  BY PlaceLemma, RemoveAtLemma
<1>2. /\ held' = [held EXCEPT ![e] = s] /\ given' = given /\ names' = [names EXCEPT ![e] = t]
  BY DEF remove_value
<1>3. /\ t \in Seq(Given) /\ AnySet(t)
      /\ Len(t) <= (IF k <= Len(names[e]) THEN Len(names[e]) - 1 ELSE Len(names[e]))
      /\ \A j \in Nat \ {0} : get(t, j) = IF j < k THEN get(names[e], j) ELSE get(names[e], j + 1)
  <2> DEFINE w == names[e]
  <2>1. w \in Seq(Given) /\ AnySet(w)
    BY PlaceLemma
  <2> HIDE DEF w
  <2>2. /\ remove_name(w, k) \in Seq(Given) /\ AnySet(remove_name(w, k))
        /\ Len(remove_name(w, k)) <= (IF k <= Len(w) THEN Len(w) - 1 ELSE Len(w))
        /\ \A j \in Nat \ {0} : get(remove_name(w, k), j) = IF j < k THEN get(w, j) ELSE get(w, j + 1)
    BY <1>1, <2>1, RemoveNameLemma
  <2> QED BY <2>2 DEF w
<1> HIDE DEF s, t
<1>4. /\ Len(s) = Len(h) - 1
      /\ \A i \in 1..Len(s) : \/ i < k /\ i \in 1..Len(h) /\ s[i] = h[i]
                              \/ ~ (i < k) /\ i + 1 \in 1..Len(h) /\ s[i] = h[i + 1]
  BY <1>1 DEF RemovedAt
<1>5. \A i, j \in 1..Len(s) : s[i] = s[j] => i = j
  <2>1. \A i, j \in 1..Len(h) : h[i] = h[j] => i = j
    BY PlaceLemma
  <2>2. k \in 1..Len(h)
    OBVIOUS
  <2> HIDE DEF h
  <2>3. ElementsRemoved(h, k, s)
    BY <1>1, <2>2, RemovedElements
  <2> QED BY <2>1, <2>3, RemovedInjective
<1>6. \A i \in 1..Len(s) : s[i] \in ToSet(held[e]) \/ s[i] \notin Held
  <2>1. \A i \in 1..Len(h) : h[i] \in ToSet(held[e])
    BY PlaceLemma
  <2> QED BY <1>4, <2>1
<1>7. Len(t) <= Len(s)
  <2>1. Len(names[e]) \in Nat /\ Len(names[e]) <= Len(h) /\ k <= Len(h)
    BY <1>1, PlaceLemma
  <2>2. Len(t) \in Nat /\ Len(s) = Len(h) - 1
        /\ Len(t) <= (IF k <= Len(names[e]) THEN Len(names[e]) - 1 ELSE Len(names[e]))
    BY <1>3, <1>4
  <2>3. \A a, b, c, d \in Nat : a <= b /\ c <= b /\ d <= (IF c <= a THEN a - 1 ELSE a) => d <= b - 1
    OBVIOUS
  <2> HIDE DEF h
  <2>4. Len(t) <= Len(h) - 1
    BY <1>1, <2>1, <2>2, <2>3, Zenon
  <2> QED BY <2>2, <2>4
<1>8. \A i \in 1..Len(s) : get(t, i) = given'[s[i]]
  <2> SUFFICES ASSUME NEW i \in 1..Len(s) PROVE get(t, i) = given'[s[i]]
    OBVIOUS
  <2>0. i \in Nat \ {0}
    BY <1>1, <1>4
  <2>1. \A n \in 1..Len(h) : get(names[e], n) = given[h[n]]
    BY PlaceLemma
  <2> QED BY <1>2, <1>3, <1>4, <2>0, <2>1
<1>9. given' \in [Val -> Given]
  BY <1>2 DEF GNInv, NamesShort
<1> QED BY <1>1, <1>2, <1>3, <1>5, <1>6, <1>7, <1>8, <1>9, OneHolderLemma

LEMMA SetValueNameStep ==
    ASSUME GNInv, NEW e \in Holder, NEW k \in 1..Len(held[e]), NEW name \in Given, set_value_name(e, k, name)
    PROVE  GNInv'
<1> DEFINE h == held[e]
           t == set_name(names[e], k, name)
<1>1. /\ h \in Seq(Val) /\ Len(h) \in Nat /\ k \in Nat \ {0} /\ h[k] \in Val /\ h[k] \in Held
      /\ \A i, j \in 1..Len(h) : h[i] = h[j] => i = j
  BY PlaceLemma
<1>2. /\ held' = [held EXCEPT ![e] = h] /\ given' = [given EXCEPT ![h[k]] = name] /\ names' = [names EXCEPT ![e] = t]
  BY DEF set_value_name, GNInv, HeldOnce
<1>3. given' \in [Val -> Given] /\ given'[h[k]] = name /\ \A u \in Val : u # h[k] => given'[u] = given[u]
  BY <1>1, <1>2 DEF GNInv, NamesShort
<1>4. /\ t \in Seq(Given) /\ AnySet(t)
      /\ Len(t) <= (IF k > Len(names[e]) THEN k ELSE Len(names[e]))
      /\ \A j : get(t, j) = IF j = k THEN name ELSE get(names[e], j)
  <2> DEFINE w == names[e]
  <2>1. w \in Seq(Given) /\ AnySet(w)
    BY PlaceLemma
  <2> HIDE DEF w
  <2>2. NameSet(w, k, name, set_name(w, k, name))
    BY <1>1, <2>1, SetNameLemma
  <2> QED BY <2>2 DEF w, NameSet
<1> HIDE DEF t
<1>5. Len(t) <= Len(h)
  BY <1>1, <1>4, PlaceLemma
<1>6. \A i \in 1..Len(h) : h[i] \in ToSet(held[e]) \/ h[i] \notin Held
  BY PlaceLemma
<1>7. \A i \in 1..Len(h) : get(t, i) = given'[h[i]]
  <2>1. \A i \in 1..Len(h) : get(names[e], i) = given[h[i]] /\ h[i] \in Val /\ (i # k => h[i] # h[k])
    BY <1>1, PlaceLemma
  <2> HIDE DEF h
  <2> QED BY <1>3, <1>4, <2>1
<1>8. \A f \in Holder : f # e => \A j \in DOMAIN held[f] : given'[held[f][j]] = given[held[f][j]]
  BY <1>1, <1>3, ElsewhereLemma
<1> HIDE DEF h
<1>9. GNInv /\ h \in Seq(Val)
  BY <1>1
<1> QED BY <1>1, <1>2, <1>3, <1>4, <1>5, <1>6, <1>7, <1>8, <1>9, OneHolderLemma

LEMMA EraseStep ==
    ASSUME GNInv, erase_given_names
    PROVE  GNInv'
<1>1. /\ names' = [e \in Holder |-> names_erased(names[e], Len(held[e]))]
      /\ given' = [v \in Val |-> IF v \in Held THEN Unnamed ELSE given[v]]
      /\ held' = held
  BY DEF erase_given_names
<1>2. ASSUME NEW e \in Holder
      PROVE  /\ names'[e] \in Seq(Given) /\ AnySet(names'[e]) /\ Len(names'[e]) <= Len(held[e])
             /\ \A j \in 1..Len(held[e]) : get(names'[e], j) = Unnamed
  <2> DEFINE w == names[e]
             n == Len(held[e])
  <2>1. w \in Seq(Given) /\ AnySet(w) /\ n \in Nat /\ Len(w) <= n
    BY <1>2, PlaceLemma
  <2>2. names'[e] = names_erased(w, n)
    BY <1>1, <1>2
  <2> HIDE DEF w, n
  <2>3. /\ names_erased(w, n) \in Seq(Given) /\ AnySet(names_erased(w, n))
        /\ Len(names_erased(w, n)) <= n
        /\ \A j \in 1..n : get(names_erased(w, n), j) = Unnamed
    BY <2>1, ErasedLemma
  <2> QED BY <2>2, <2>3 DEF n
<1>3. HeldOnce'
  BY <1>1 DEF GNInv, HeldOnce
<1>4. NamesShort'
  <2>1. given' \in [Val -> Given]
    BY <1>1 DEF GNInv, NamesShort, Given
  <2>2. names' \in [Holder -> Seq(Given)]
    BY <1>1, <1>2
  <2>3. \A e \in Holder : AnySet(names'[e]) /\ Len(names'[e]) <= Len(held'[e])
    BY <1>1, <1>2
  <2> QED BY <2>1, <2>2, <2>3 DEF NamesShort
<1>5. NamesAgree'
  <2> SUFFICES ASSUME NEW e \in Holder, NEW i \in DOMAIN held'[e]
               PROVE  get(names'[e], i) = given'[held'[e][i]]
    BY DEF NamesAgree
  <2>1. i \in 1..Len(held[e]) /\ held[e][i] \in Held /\ held[e][i] \in Val
    BY <1>1, PlaceLemma
  <2>2. given'[held[e][i]] = Unnamed
    BY <1>1, <2>1
  <2> QED BY <1>1, <1>2, <2>1, <2>2
<1> QED BY <1>3, <1>4, <1>5 DEF GNInv

LEMMA GNInvStep == GNInv /\ [GNNext]_gnVars => GNInv'
<1> SUFFICES ASSUME GNInv, [GNNext]_gnVars PROVE GNInv'
  OBVIOUS
<1>1. ASSUME NEW e \in Holder, NEW v \in Val, push_value(e, v) PROVE GNInv'
  BY <1>1, PushValueStep
<1>2. ASSUME NEW e \in Holder, NEW v \in Val, NEW i \in 1..(Len(held[e]) + 1), insert_value(e, i, v) PROVE GNInv'
  BY <1>2, InsertValueStep
<1>3. ASSUME NEW e \in Holder, NEW i \in DOMAIN held[e], remove_value(e, i) PROVE GNInv'
  BY <1>3, PlaceLemma, RemoveValueStep
<1>4. ASSUME NEW e \in Holder, NEW i \in DOMAIN held[e], NEW name \in Given, set_value_name(e, i, name) PROVE GNInv'
  BY <1>4, PlaceLemma, SetValueNameStep
<1>5. ASSUME NEW e \in Holder, NEW i \in DOMAIN held[e], NEW f \in Holder, NEW j \in DOMAIN held[f],
             replace_value_uses_with(e, i, f, j)
      PROVE  GNInv'
  <2>1. get_name(e, i) \in Given /\ set_value_name(f, j, get_name(e, i))
    BY <1>5, PlaceLemma DEF replace_value_uses_with, get_name
  <2> QED BY <1>4, <2>1
<1>6. CASE erase_given_names
  BY <1>6, EraseStep
<1>7. CASE UNCHANGED gnVars
  BY <1>7 DEF gnVars, GNInv, HeldOnce, NamesShort, NamesAgree
<1> QED BY <1>1, <1>2, <1>3, <1>4, <1>5, <1>6, <1>7 DEF GNNext, Given

LEMMA GNInvNames == GNInv => NamesFollow
<1> SUFFICES ASSUME GNInv, NEW e \in Holder
             PROVE  /\ \A i \in DOMAIN held[e] : get_name(e, i) = given[held[e][i]]
                    /\ names[e] # <<>> => \E i \in DOMAIN held[e] : given[held[e][i]] # Unnamed
  BY DEF NamesFollow
<1>1. \A i \in DOMAIN held[e] : get_name(e, i) = given[held[e][i]]
  BY PlaceLemma DEF get_name
<1>2. ASSUME names[e] # <<>> PROVE \E i \in DOMAIN held[e] : given[held[e][i]] # Unnamed
  <2>1. PICK i \in DOMAIN names[e] : names[e][i] # Unnamed
    BY <1>2, PlaceLemma DEF AnySet
  <2>2. i \in DOMAIN held[e] /\ get_name(e, i) # Unnamed
    BY <2>1, PlaceLemma DEF get_name, get
  <2> QED BY <1>1, <2>2
<1> QED BY <1>1, <1>2

\* Every result and argument has the name it was given last, however many values are
\* inserted, removed, renamed and replaced before and after it, and an attribute
\* without any name is taken out (given_names.rs, operation.rs, basic_block.rs).
THEOREM NamesAlwaysFollow == GNSpec => []NamesFollow
<1>1. GNSpec => []GNInv
  BY GNInvInit, GNInvStep, PTL DEF GNSpec
<1> QED BY <1>1, GNInvNames, PTL

(***************************************************************************)
(* Union-find.  SetsOK is inductive: the lists of members are a partition  *)
(* of the elements, and parents lead, within each list, to the element the *)
(* list belongs to.  That the search for it ends in as many steps as there *)
(* are elements rests on a height below the length of the list.            *)
(***************************************************************************)

\* A state of the structure: parents within the elements seen, a list of members for
\* each representative.
SetsTyped(s) ==
    /\ s = [parent |-> s.parent, members |-> s.members]
    /\ IsFiniteSet(DOMAIN s.parent) /\ DOMAIN s.parent \subseteq Elem
    /\ s.parent \in [DOMAIN s.parent -> DOMAIN s.parent]
    /\ s.members \in [DOMAIN s.members -> Seq(DOMAIN s.parent)]
    /\ DOMAIN s.members = {v \in DOMAIN s.parent : s.parent[v] = v}

\* The lists are a partition of the elements, and parents do not leave it.
ListsOK(s) ==
    /\ \A r \in DOMAIN s.members : r \in ToSet(s.members[r]) /\ IsInjective(s.members[r])
    /\ \A v \in DOMAIN s.parent : \E r \in DOMAIN s.members : v \in ToSet(s.members[r])
    /\ \A r, q \in DOMAIN s.members : \A v \in ToSet(s.members[r]) : v \in ToSet(s.members[q]) => r = q
    /\ \A r \in DOMAIN s.members : \A v \in ToSet(s.members[r]) : s.parent[v] \in ToSet(s.members[r])

\* Parents lead to the representative in fewer steps than its set has members.
HeightOK(s, h) ==
    /\ h \in [DOMAIN s.parent -> Nat]
    /\ \A v \in DOMAIN s.parent : IF s.parent[v] = v THEN h[v] = 0 ELSE h[s.parent[v]] < h[v]
    /\ \A r \in DOMAIN s.members : \A v \in ToSet(s.members[r]) : h[v] < Len(s.members[r])

SetsOK(s) == SetsTyped(s) /\ ListsOK(s) /\ \E h : HeightOK(s, h)

\* The recursive definition of the ancestors of v.
Climbing(s, v, n, Up) == [k \in 0..n |-> IF k = 0 THEN v ELSE s.parent[Up[k - 1]]]

LEMMA ClimbingExists ==
    ASSUME NEW s, NEW v, NEW n \in Nat
    PROVE  \E Up : Up = Climbing(s, v, n, Up)
<1> DEFINE Ok(k) == \E Up : Up = Climbing(s, v, k, Up)
           Q == {k \in 0..n : Ok(k)}
<1>1. 0 \in Q
  <2>1. [k \in 0..0 |-> v] = Climbing(s, v, 0, [k \in 0..0 |-> v])
    BY DEF Climbing
  <2>2. QED
    BY <2>1
<1>2. ASSUME NEW k \in 0..n, k < n, k \in Q PROVE k + 1 \in Q
  <2>1. PICK Up : Up = Climbing(s, v, k, Up)
    BY <1>2
  <2> DEFINE Down == [j \in 0..(k + 1) |-> IF j = k + 1 THEN s.parent[Up[k]] ELSE Up[j]]
  <2>2. ASSUME NEW j \in 0..(k + 1)
        PROVE  Down[j] = IF j = 0 THEN v ELSE s.parent[Down[j - 1]]
    <3>1. Down[j] = (IF j = k + 1 THEN s.parent[Up[k]] ELSE Up[j]) /\ (j # 0 => Down[j - 1] = Up[j - 1])
      BY <1>2
    <3>2. j # k + 1 => Up[j] = IF j = 0 THEN v ELSE s.parent[Up[j - 1]]
      BY <2>1 DEF Climbing
    <3>3. CASE j = k + 1
      BY <3>1, <3>3
    <3>4. CASE j # k + 1
      BY <3>1, <3>2, <3>4
    <3> QED BY <3>3, <3>4
  <2>3. Down = [j \in 0..(k + 1) |-> Down[j]]
    OBVIOUS
  <2> HIDE DEF Down
  <2>4. Down = Climbing(s, v, k + 1, Down)
    BY <2>2, <2>3 DEF Climbing
  <2>5. k + 1 \in 0..n
    BY <1>2
  <2> QED BY <2>4, <2>5
<1> HIDE DEF Q
<1>3. 0..n \subseteq Q
  BY <1>1, <1>2, UpTo
<1>4. n \in Q
  BY <1>3
<1> QED BY <1>4 DEF Q

\* Two definitions up to n and up to m agree as far as both go.
LEMMA ClimbingUnique ==
    ASSUME NEW s, NEW v, NEW n \in Nat, NEW m \in Nat, n <= m,
           NEW Up, Up = Climbing(s, v, n, Up), NEW Up2, Up2 = Climbing(s, v, m, Up2)
    PROVE  \A k \in 0..n : Up[k] = Up2[k]
<1> DEFINE Q == {k \in 0..n : Up[k] = Up2[k]}
<1>1. \A k \in 0..n : Up[k] = IF k = 0 THEN v ELSE s.parent[Up[k - 1]]
  BY DEF Climbing
<1>2. \A k \in 0..m : Up2[k] = IF k = 0 THEN v ELSE s.parent[Up2[k - 1]]
  BY DEF Climbing
<1>3. 0 \in Q
  BY <1>1, <1>2
<1>4. ASSUME NEW k \in 0..n, k < n, k \in Q PROVE k + 1 \in Q
  BY <1>1, <1>2, <1>4
<1> HIDE DEF Q
<1>5. 0..n \subseteq Q
  BY <1>3, <1>4, UpTo
<1> QED BY <1>5 DEF Q

\* The ancestors of v, one parent after the other.
LEMMA AncestorLemma ==
    ASSUME NEW s, NEW v
    PROVE  /\ Ancestor(s, v, 0) = v
           /\ \A n \in Nat : Ancestor(s, v, n + 1) = s.parent[Ancestor(s, v, n)]
<1> DEFINE F(n) == CHOOSE Up : Up = Climbing(s, v, n, Up)
<1>1. \A n \in Nat : F(n) = Climbing(s, v, n, F(n))
  <2> SUFFICES ASSUME NEW n \in Nat PROVE F(n) = Climbing(s, v, n, F(n))
    OBVIOUS
  <2> DEFINE C(Up) == Up = Climbing(s, v, n, Up)
  <2>1. \E Up : C(Up)
    BY ClimbingExists
  <2>2. C(CHOOSE Up : C(Up))
    <3> HIDE DEF C
    <3> QED BY <2>1
  <2> QED BY <2>2
<1>2. \A n \in Nat : Ancestor(s, v, n) = F(n)[n]
  BY Zenon DEF Ancestor, Climbing
<1> HIDE DEF F
<1>3. F(0)[0] = v
  <2>1. 0 \in 0..0
    OBVIOUS
  <2> QED BY <1>1, <2>1 DEF Climbing
<1>4. ASSUME NEW n \in Nat
      PROVE  F(n + 1)[n + 1] = s.parent[F(n)[n]]
  <2>1. n + 1 \in 0..(n + 1) /\ n \in 0..n /\ n + 1 # 0 /\ (n + 1) - 1 = n /\ n <= n + 1 /\ n + 1 \in Nat
    OBVIOUS
  <2>2. F(n) = Climbing(s, v, n, F(n)) /\ F(n + 1) = Climbing(s, v, n + 1, F(n + 1))
    BY <1>1, <2>1
  <2>3. F(n)[n] = F(n + 1)[n]
    BY <2>1, <2>2, ClimbingUnique
  <2>4. F(n + 1)[n + 1] = s.parent[F(n + 1)[n]]
    <3> DEFINE G == F(n + 1)
    <3>1. G = [k \in 0..(n + 1) |-> IF k = 0 THEN v ELSE s.parent[G[k - 1]]]
      BY <2>2 DEF Climbing
    <3> HIDE DEF G
    <3>2. G[n + 1] = s.parent[G[(n + 1) - 1]]
      BY <2>1, <3>1
    <3> QED BY <2>1, <3>2 DEF G
  <2> QED BY <2>3, <2>4
<1>5. \A n \in Nat : n + 1 \in Nat
  OBVIOUS
<1> QED BY <1>2, <1>3, <1>4, <1>5


\* A list without repetitions is no longer than the set it is made of.
LEMMA InjectiveIsShort ==
    ASSUME NEW S, IsFiniteSet(S), NEW t \in Seq(S), IsInjective(t)
    PROVE  Len(t) <= Cardinality(S)
<1>1. t \in [1..Len(t) -> S] /\ Len(t) \in Nat
  OBVIOUS
<1>2. t \in Injection(1..Len(t), S)
  BY <1>1 DEF IsInjective, Injection
<1>3. Cardinality(1..Len(t)) <= Cardinality(S)
  BY <1>2, FS_Injection
<1>4. Cardinality(1..Len(t)) = IF 1 > Len(t) THEN 0 ELSE Len(t) - 1 + 1
  BY <1>1, FS_Interval
<1> QED BY <1>1, <1>3, <1>4

\* find returns the representative of the set that an element is listed in, and meets
\* only members of this set on its way.
LEMMA RootLemma ==
    ASSUME NEW s, SetsOK(s), NEW r \in DOMAIN s.members, NEW v \in ToSet(s.members[r])
    PROVE  root(s, v) = r /\ Path(s, v) \subseteq ToSet(s.members[r])
<1> DEFINE D == DOMAIN s.parent
           c == Cardinality(D)
           A(n) == Ancestor(s, v, n)
<1>1. PICK h : HeightOK(s, h)
  BY DEF SetsOK
<1>2. c \in Nat
  BY FS_CardinalityType DEF SetsOK, SetsTyped
<1>3. ToSet(s.members[r]) \subseteq D /\ Len(s.members[r]) <= c /\ Len(s.members[r]) \in Nat
  <2>1. s.members[r] \in Seq(D) /\ IsFiniteSet(D) /\ IsInjective(s.members[r])
    BY DEF SetsOK, SetsTyped, ListsOK
  <2> QED BY <2>1, InjectiveIsShort, ElementsIn
<1>4. \A x \in ToSet(s.members[r]) :
         /\ x \in D /\ h[x] \in Nat /\ h[x] < Len(s.members[r])
         /\ s.parent[x] \in ToSet(s.members[r])
         /\ IF x = r THEN s.parent[x] = r ELSE h[s.parent[x]] < h[x]
  <2> SUFFICES ASSUME NEW x \in ToSet(s.members[r])
               PROVE  /\ x \in D /\ h[x] \in Nat /\ h[x] < Len(s.members[r])
                      /\ s.parent[x] \in ToSet(s.members[r])
                      /\ IF x = r THEN s.parent[x] = r ELSE h[s.parent[x]] < h[x]
    OBVIOUS
  <2>1. x \in D /\ h[x] \in Nat /\ h[x] < Len(s.members[r])
    BY <1>1, <1>3 DEF HeightOK
  <2>2. s.parent[x] \in ToSet(s.members[r])
    BY DEF SetsOK, ListsOK
  <2>3. s.parent[x] = x => x = r
    BY <2>1 DEF SetsOK, SetsTyped, ListsOK
  <2>4. s.parent[r] = r
    BY DEF SetsOK, SetsTyped
  <2> QED BY <1>1, <2>1, <2>2, <2>3, <2>4 DEF HeightOK
<1> DEFINE Q == {n \in 0..c : A(n) \in ToSet(s.members[r]) /\ (A(n) = r \/ h[A(n)] + n <= h[v])}
<1>5. A(0) = v /\ \A n \in Nat : A(n + 1) = s.parent[A(n)]
  BY AncestorLemma, Zenon
<1> HIDE DEF A, D
<1>6. 0 \in Q
  BY <1>2, <1>4, <1>5
<1>7. ASSUME NEW n \in 0..c, n < c, n \in Q PROVE n + 1 \in Q
  <2>1. A(n + 1) = s.parent[A(n)] /\ A(n) \in ToSet(s.members[r]) /\ n + 1 \in 0..c
    BY <1>2, <1>5, <1>7
  <2>2. A(n + 1) \in ToSet(s.members[r])
    BY <1>4, <2>1
  <2>3. h[v] \in Nat /\ h[A(n)] \in Nat /\ h[A(n + 1)] \in Nat
    BY <1>4, <2>1, <2>2
  <2>4. A(n + 1) = r \/ h[A(n + 1)] + (n + 1) <= h[v]
    BY <1>4, <1>7, <2>1, <2>3
  <2> QED BY <2>1, <2>2, <2>4
<1> HIDE DEF Q
<1>8. 0..c \subseteq Q
  BY <1>2, <1>6, <1>7, UpTo
<1>9. \A n \in 0..c : A(n) \in ToSet(s.members[r]) /\ (A(n) = r \/ h[A(n)] + n <= h[v])
  BY <1>8 DEF Q
<1>10. A(c) = r
  <2>1. c \in 0..c
    BY <1>2
  <2>2. h[v] < c /\ h[v] \in Nat /\ h[A(c)] \in Nat
    BY <1>2, <1>3, <1>4, <1>9, <2>1
  <2> QED BY <1>2, <1>9, <2>1, <2>2
<1>11. root(s, v) = A(c)
  BY DEF root, A, D
<1>12. Path(s, v) = {A(n) : n \in 0..c}
  BY Zenon DEF Path, A, D
<1> QED BY <1>9, <1>10, <1>11, <1>12

\* The sets of a state, and where an element is in them.
PartsOf(s) == {ToSet(s.members[r]) : r \in DOMAIN s.members}

LEMMA PartsLemma ==
    ASSUME NEW s, SetsOK(s)
    PROVE  /\ UNION PartsOf(s) = DOMAIN s.parent
           /\ \A v \in DOMAIN s.parent :
                 /\ root(s, v) \in DOMAIN s.members /\ v \in ToSet(s.members[root(s, v)])
                 /\ Sets!PartOf(PartsOf(s), v) = ToSet(s.members[root(s, v)])
<1>1. \A r \in DOMAIN s.members : ToSet(s.members[r]) \subseteq DOMAIN s.parent
  <2> TAKE r \in DOMAIN s.members
  <2>1. s.members[r] \in Seq(DOMAIN s.parent)
    BY DEF SetsOK, SetsTyped
  <2> QED BY <2>1, ElementsIn
<1>2. ASSUME NEW v \in DOMAIN s.parent
      PROVE  /\ root(s, v) \in DOMAIN s.members /\ v \in ToSet(s.members[root(s, v)])
             /\ Sets!PartOf(PartsOf(s), v) = ToSet(s.members[root(s, v)])
  <2>1. PICK r \in DOMAIN s.members : v \in ToSet(s.members[r])
    BY DEF SetsOK, ListsOK
  <2>2. root(s, v) = r
    BY <2>1, RootLemma
  <2>3. \A p \in PartsOf(s) : v \in p => p = ToSet(s.members[r])
    BY <2>1 DEF SetsOK, ListsOK, PartsOf
  <2>4. ToSet(s.members[r]) \in PartsOf(s)
    BY DEF PartsOf
  <2>5. Sets!PartOf(PartsOf(s), v) = ToSet(s.members[r])
    BY <2>1, <2>3, <2>4 DEF Sets!PartOf
  <2> QED BY <2>1, <2>2, <2>5
<1>3. DOMAIN s.parent \subseteq UNION PartsOf(s)
  BY <1>2 DEF PartsOf
<1>4. UNION PartsOf(s) \subseteq DOMAIN s.parent
  BY <1>1 DEF PartsOf
<1> QED BY <1>2, <1>3, <1>4


\* A sequence over a set is one over a larger set.
LEMMA WiderSeq ==
    ASSUME NEW S, NEW T, S \subseteq T, NEW t \in Seq(S)
    PROVE  t \in Seq(T)
<1>1. Len(t) \in Nat /\ t \in [1..Len(t) -> S]
  OBVIOUS
<1>2. t \in [1..Len(t) -> T]
  BY <1>1
<1> QED BY <1>1, <1>2, FunctionIsSeq

\* find, of an element that was not seen before.
LEMMA NewLemma ==
    ASSUME NEW s, SetsOK(s), NEW v \in Elem \ DOMAIN s.parent
    PROVE  /\ SetsOK(find(s, v)) /\ DOMAIN find(s, v).parent = DOMAIN s.parent \cup {v}
           /\ PartsOf(find(s, v)) = PartsOf(s) \cup {{v}}
<1> DEFINE D == DOMAIN s.parent
           R == DOMAIN s.members
           p == [x \in D \cup {v} |-> IF x = v THEN v ELSE s.parent[x]]
           m == [x \in R \cup {v} |-> IF x = v THEN <<v>> ELSE s.members[x]]
           t == [parent |-> p, members |-> m]
<1>1. find(s, v) = t
  BY DEF find
<1>2. t.parent = p /\ t.members = m /\ t = [parent |-> t.parent, members |-> t.members]
  OBVIOUS
<1>3. DOMAIN p = D \cup {v} /\ DOMAIN m = R \cup {v} /\ p[v] = v /\ m[v] = <<v>>
      /\ (\A x \in D : p[x] = s.parent[x]) /\ (\A x \in R : m[x] = s.members[x])
  <2>1. R \subseteq D /\ v \notin D
    BY DEF SetsOK, SetsTyped
  <2> QED BY <2>1
<1>4. R = {x \in D : s.parent[x] = x} /\ s.parent \in [D -> D] /\ IsFiniteSet(D) /\ D \subseteq Elem
      /\ s.members \in [R -> Seq(D)] /\ v \notin D /\ R \subseteq D
  BY DEF SetsOK, SetsTyped
<1> HIDE DEF p, m, t
<1>5. \A r \in R : ToSet(s.members[r]) \subseteq D
  BY <1>4, ElementsIn
<1>6. ToSet(<<v>>) = {v} /\ Len(<<v>>) = 1 /\ IsInjective(<<v>>)
  BY DEF ToSet, IsInjective
<1> DEFINE D2 == D \cup {v}
           R2 == R \cup {v}
<1>7. SetsTyped(t)
  <2>1. IsFiniteSet(D2) /\ D2 \subseteq Elem
    BY <1>4, FS_AddElement
  <2>2. p \in [D2 -> D2]
    <3>1. \A x \in D2 : p[x] \in D2
      BY <1>3, <1>4
    <3>2. p = [x \in D2 |-> p[x]]
      BY <1>3 DEF p
    <3> QED BY <3>1, <3>2
  <2>3. m \in [R2 -> Seq(D2)]
    <3>1. \A x \in R2 : m[x] \in Seq(D2)
      <4>1. \A x \in R : m[x] \in Seq(D2)
        BY <1>3, <1>4, WiderSeq
      <4>2. m[v] \in Seq(D2)
        BY <1>3
      <4> QED BY <4>1, <4>2
    <3>2. m = [x \in R2 |-> m[x]]
      BY <1>3 DEF m
    <3> QED BY <3>1, <3>2
  <2>4. R2 = {x \in D2 : p[x] = x}
    BY <1>3, <1>4
  <2> QED BY <1>2, <1>3, <2>1, <2>2, <2>3, <2>4 DEF SetsTyped
<1>8. ListsOK(t)
  <2>1. \A r \in R2 : r \in ToSet(m[r]) /\ IsInjective(m[r])
    BY <1>3, <1>6 DEF SetsOK, ListsOK
  <2>2. \A x \in D2 : \E r \in R2 : x \in ToSet(m[r])
    <3>1. \A x \in D : \E r \in R : x \in ToSet(m[r])
      BY <1>3 DEF SetsOK, ListsOK
    <3> QED BY <1>3, <1>6, <3>1
  <2>3. \A r, q \in R2 : \A x \in ToSet(m[r]) : x \in ToSet(m[q]) => r = q
    <3>1. \A r, q \in R : \A x \in ToSet(m[r]) : x \in ToSet(m[q]) => r = q
      BY <1>3 DEF SetsOK, ListsOK
    <3>2. \A r \in R : v \notin ToSet(m[r])
      BY <1>3, <1>4, <1>5
    <3>3. ToSet(m[v]) = {v}
      BY <1>3, <1>6
    <3> QED BY <3>1, <3>2, <3>3
  <2>4. \A r \in R2 : \A x \in ToSet(m[r]) : p[x] \in ToSet(m[r])
    <3>1. \A r \in R : \A x \in ToSet(m[r]) : p[x] \in ToSet(m[r])
      BY <1>3, <1>5 DEF SetsOK, ListsOK
    <3> QED BY <1>3, <1>6, <3>1
  <2> QED BY <1>2, <1>3, <2>1, <2>2, <2>3, <2>4 DEF ListsOK
<1>9. \E h : HeightOK(t, h)
  <2>1. PICK h : HeightOK(s, h)
    BY DEF SetsOK
  <2> DEFINE g == [x \in D2 |-> IF x = v THEN 0 ELSE h[x]]
  <2>2. g \in [D2 -> Nat] /\ g[v] = 0 /\ \A x \in D : g[x] = h[x]
    BY <1>4, <2>1 DEF HeightOK
  <2> HIDE DEF g
  <2>3. \A x \in D2 : IF p[x] = x THEN g[x] = 0 ELSE g[p[x]] < g[x]
    <3>1. \A x \in D : p[x] = s.parent[x] /\ s.parent[x] \in D /\ x \in D2
      BY <1>3, <1>4
    <3> QED BY <1>3, <2>1, <2>2, <3>1 DEF HeightOK
  <2>4. \A r \in R2 : \A x \in ToSet(m[r]) : g[x] < Len(m[r])
    <3>1. \A r \in R : \A x \in ToSet(m[r]) : g[x] < Len(m[r])
      BY <1>3, <1>5, <2>1, <2>2 DEF HeightOK
    <3> QED BY <1>3, <1>6, <2>2, <3>1
  <2>5. HeightOK(t, g)
    BY <1>2, <1>3, <2>2, <2>3, <2>4 DEF HeightOK
  <2> QED BY <2>5
<1>10. PartsOf(t) = PartsOf(s) \cup {{v}}
  <2>1. PartsOf(t) = {ToSet(m[r]) : r \in R2} /\ PartsOf(s) = {ToSet(s.members[r]) : r \in R}
    BY <1>2, <1>3 DEF PartsOf
  <2> QED BY <1>3, <1>6, <2>1
<1> QED BY <1>1, <1>2, <1>3, <1>7, <1>8, <1>9, <1>10 DEF SetsOK

\* find, of an element that was seen: its way to the representative is shortened, and no
\* set changes.
LEMMA CompressLemma ==
    ASSUME NEW s, SetsOK(s), NEW v \in DOMAIN s.parent
    PROVE  /\ SetsOK(find(s, v)) /\ DOMAIN find(s, v).parent = DOMAIN s.parent
           /\ PartsOf(find(s, v)) = PartsOf(s)
<1> DEFINE D == DOMAIN s.parent
           R == DOMAIN s.members
           w == root(s, v)
           p == [x \in D |-> IF x \in Path(s, v) THEN w ELSE s.parent[x]]
           m == s.members
           t == [parent |-> p, members |-> m]
<1>1. find(s, v) = t
  <2>1. s = [parent |-> s.parent, members |-> s.members]
    BY DEF SetsOK, SetsTyped
  <2>2. find(s, v) = [s EXCEPT !.parent = p]
    BY DEF find
  <2> HIDE DEF p
  <2> QED BY <2>1, <2>2
<1>2. t.parent = p /\ t.members = m /\ t = [parent |-> t.parent, members |-> t.members]
  OBVIOUS
<1>3. /\ R = {x \in D : s.parent[x] = x} /\ s.parent \in [D -> D] /\ IsFiniteSet(D) /\ D \subseteq Elem
      /\ m \in [R -> Seq(D)] /\ R \subseteq D
  BY DEF SetsOK, SetsTyped
<1>4. w \in R /\ v \in ToSet(m[w]) /\ Path(s, v) \subseteq ToSet(m[w]) /\ ToSet(m[w]) \subseteq D
  BY <1>3, PartsLemma, RootLemma, ElementsIn
<1>5. \A x \in ToSet(m[w]) : s.parent[x] = x => x = w
  BY <1>3, <1>4 DEF SetsOK, ListsOK
<1>6. DOMAIN p = D /\ \A x \in D : p[x] = IF x \in Path(s, v) THEN w ELSE s.parent[x]
  OBVIOUS
<1> HIDE DEF p, m, t, w
<1>7. p[w] = w
  BY <1>3, <1>4, <1>6 DEF m
<1>8. SetsTyped(t)
  <2>1. p \in [D -> D]
    <3>1. \A x \in D : p[x] \in D
      BY <1>3, <1>4, <1>6
    <3>2. p = [x \in D |-> p[x]]
      BY <1>6 DEF p
    <3> QED BY <3>1, <3>2
  <2>2. R = {x \in D : p[x] = x}
    <3>1. ASSUME NEW x \in D PROVE p[x] = x <=> s.parent[x] = x
      <4>1. CASE x \in Path(s, v)
        BY <1>3, <1>4, <1>5, <1>6, <4>1
      <4>2. CASE x \notin Path(s, v)
        BY <1>6, <4>2
      <4> QED BY <4>1, <4>2
    <3> QED BY <1>3, <3>1
  <2>3. DOMAIN m = R
    BY DEF m
  <2> QED BY <1>2, <1>3, <1>6, <2>1, <2>2, <2>3 DEF SetsTyped
<1>9. ListsOK(t)
  <2>1. \A r \in R : \A x \in ToSet(m[r]) : p[x] \in ToSet(m[r])
    <3> SUFFICES ASSUME NEW r \in R, NEW x \in ToSet(m[r]) PROVE p[x] \in ToSet(m[r])
      OBVIOUS
    <3>1. x \in D
      BY <1>3, ElementsIn
    <3>2. CASE x \in Path(s, v)
      <4>1. r = w
        BY <1>4, <3>2 DEF SetsOK, ListsOK, m
      <4> QED BY <1>4, <1>6, <3>1, <3>2, <4>1 DEF SetsOK, ListsOK, m
    <3>3. CASE x \notin Path(s, v)
      BY <1>6, <3>1, <3>3 DEF SetsOK, ListsOK, m
    <3> QED BY <3>2, <3>3
  <2>2. /\ \A r \in R : r \in ToSet(m[r]) /\ IsInjective(m[r])
        /\ \A x \in D : \E r \in R : x \in ToSet(m[r])
        /\ \A r, q \in R : \A x \in ToSet(m[r]) : x \in ToSet(m[q]) => r = q
    BY DEF SetsOK, ListsOK, m
  <2>3. DOMAIN m = R
    BY DEF m
  <2> QED BY <1>2, <1>6, <2>1, <2>2, <2>3 DEF ListsOK
<1>10. \E h : HeightOK(t, h)
  <2>1. PICK h : HeightOK(s, h)
    BY DEF SetsOK
  <2>2. \A x \in D : IF p[x] = x THEN h[x] = 0 ELSE h[p[x]] < h[x]
    <3> SUFFICES ASSUME NEW x \in D PROVE IF p[x] = x THEN h[x] = 0 ELSE h[p[x]] < h[x]
      OBVIOUS
    <3>1. h[w] = 0 /\ h[x] \in Nat /\ h[s.parent[x]] \in Nat
      BY <1>3, <1>4, <2>1 DEF HeightOK
    <3>2. CASE x \in Path(s, v)
      <4>1. CASE x = w
        BY <1>7, <3>1, <4>1
      <4>2. CASE x # w
        <5>1. s.parent[x] # x
          BY <1>4, <1>5, <3>2, <4>2
        <5>2. h[s.parent[x]] < h[x]
          BY <2>1, <5>1 DEF HeightOK
        <5>3. p[x] = w
          BY <1>6, <3>2
        <5>4. h[w] < h[x]
          BY <3>1, <5>2
        <5> QED BY <4>2, <5>3, <5>4
      <4> QED BY <4>1, <4>2
    <3>3. CASE x \notin Path(s, v)
      BY <1>6, <2>1, <3>3 DEF HeightOK
    <3> QED BY <3>2, <3>3
  <2>3. HeightOK(t, h)
    BY <1>2, <1>6, <2>1, <2>2 DEF HeightOK, m
  <2> QED BY <2>3
<1>11. PartsOf(t) = PartsOf(s)
  BY <1>2 DEF PartsOf, m
<1> QED BY <1>1, <1>2, <1>6, <1>8, <1>9, <1>10, <1>11 DEF SetsOK


\* Two lists without repetitions and without a common element.
LEMMA ConcatInjective ==
    ASSUME NEW E, NEW t \in Seq(E), NEW u \in Seq(E), IsInjective(t), IsInjective(u),
           \A x \in ToSet(t) : x \notin ToSet(u)
    PROVE  IsInjective(t \o u)
<1>1. /\ t \o u \in Seq(E) /\ Len(t \o u) = Len(t) + Len(u) /\ Len(t) \in Nat /\ Len(u) \in Nat
      /\ \A i \in 1..(Len(t) + Len(u)) : (t \o u)[i] = IF i <= Len(t) THEN t[i] ELSE u[i - Len(t)]
  BY ConcatProperties
<1>2. DOMAIN (t \o u) = 1..(Len(t) + Len(u)) /\ DOMAIN t = 1..Len(t) /\ DOMAIN u = 1..Len(u)
  BY <1>1
<1> DEFINE c == t \o u
<1> HIDE DEF c
<1>3. ASSUME NEW i \in 1..(Len(t) + Len(u)), NEW j \in 1..(Len(t) + Len(u)), c[i] = c[j]
      PROVE  i = j
  <2>1. /\ i <= Len(t) => i \in 1..Len(t) /\ c[i] = t[i] /\ c[i] \in ToSet(t)
        /\ i > Len(t) => i - Len(t) \in 1..Len(u) /\ c[i] = u[i - Len(t)] /\ c[i] \in ToSet(u)
    BY <1>1, <1>2 DEF ToSet, c
  <2>2. /\ j <= Len(t) => j \in 1..Len(t) /\ c[j] = t[j] /\ c[j] \in ToSet(t)
        /\ j > Len(t) => j - Len(t) \in 1..Len(u) /\ c[j] = u[j - Len(t)] /\ c[j] \in ToSet(u)
    BY <1>1, <1>2 DEF ToSet, c
  <2>3. CASE i <= Len(t) /\ j <= Len(t)
    BY <1>2, <1>3, <2>1, <2>2, <2>3 DEF IsInjective
  <2>4. CASE i > Len(t) /\ j > Len(t)
    <3>1. i - Len(t) = j - Len(t)
      BY <1>2, <1>3, <2>1, <2>2, <2>4 DEF IsInjective
    <3> QED BY <1>1, <3>1
  <2>5. CASE i <= Len(t) /\ j > Len(t)
    BY <1>3, <2>1, <2>2, <2>5
  <2>6. CASE i > Len(t) /\ j <= Len(t)
    BY <1>3, <2>1, <2>2, <2>6
  <2> QED BY <1>1, <2>3, <2>4, <2>5, <2>6
<1> QED BY <1>2, <1>3 DEF IsInjective, c

\* The representative of one set becomes the parent of that of another.
Merged(s, big, small) ==
    [parent |-> [s.parent EXCEPT ![small] = big],
     members |-> [x \in DOMAIN s.members \ {small} |->
                     IF x = big THEN s.members[big] \o s.members[small] ELSE s.members[x]]]

LEMMA MergeLemma ==
    ASSUME NEW s, SetsOK(s), NEW big \in DOMAIN s.members, NEW small \in DOMAIN s.members, big # small
    PROVE  /\ SetsOK(Merged(s, big, small)) /\ DOMAIN Merged(s, big, small).parent = DOMAIN s.parent
           /\ PartsOf(Merged(s, big, small)) = (PartsOf(s) \ {ToSet(s.members[big]), ToSet(s.members[small])})
                           \cup {ToSet(s.members[big]) \cup ToSet(s.members[small])}
<1> DEFINE D == DOMAIN s.parent
           R == DOMAIN s.members
           R2 == R \ {small}
           B == s.members[big]
           S == s.members[small]
           p == [s.parent EXCEPT ![small] = big]
           m == [x \in R2 |-> IF x = big THEN B \o S ELSE s.members[x]]
           t == Merged(s, big, small)
<1>1. t.parent = p /\ t.members = m /\ t = [parent |-> t.parent, members |-> t.members]
  BY DEF Merged
<1>2. /\ R = {x \in D : s.parent[x] = x} /\ s.parent \in [D -> D] /\ IsFiniteSet(D) /\ D \subseteq Elem
      /\ s.members \in [R -> Seq(D)] /\ R \subseteq D
  BY DEF SetsOK, SetsTyped
<1>3. DOMAIN p = D /\ p[small] = big /\ (\A x \in D : x # small => p[x] = s.parent[x])
  BY <1>2
<1>4. DOMAIN m = R2 /\ big \in R2 /\ m[big] = B \o S /\ \A x \in R2 : x # big => m[x] = s.members[x]
  OBVIOUS
<1>5. B \in Seq(D) /\ S \in Seq(D)
  BY <1>2
<1>6. B \o S \in Seq(D) /\ ToSet(B \o S) = ToSet(B) \cup ToSet(S) /\ Len(B \o S) = Len(B) + Len(S)
  <2>1. B \o S \in Seq(D) /\ ToSet(B \o S) = ToSet(B) \cup ToSet(S)
    BY <1>5, ConcatElements
  <2>2. \A t1, t2 \in Seq(D) : Len(t1 \o t2) = Len(t1) + Len(t2)
    BY ConcatProperties
  <2> QED BY <1>5, <2>1, <2>2
<1>7. /\ \A r \in R : r \in ToSet(s.members[r]) /\ IsInjective(s.members[r])
      /\ \A v \in D : \E r \in R : v \in ToSet(s.members[r])
      /\ \A r, q \in R : \A v \in ToSet(s.members[r]) : v \in ToSet(s.members[q]) => r = q
      /\ \A r \in R : \A v \in ToSet(s.members[r]) : s.parent[v] \in ToSet(s.members[r])
  BY DEF SetsOK, ListsOK
<1>8. \A r \in R : ToSet(s.members[r]) \subseteq D
  BY <1>2, ElementsIn
<1> HIDE DEF p, m, t
<1>9. SetsTyped(t)
  <2>1. p \in [D -> D]
    BY <1>2 DEF p
  <2>2. m \in [R2 -> Seq(D)]
    <3>1. \A x \in R2 : m[x] \in Seq(D)
      BY <1>2, <1>4, <1>6
    <3>2. m = [x \in R2 |-> m[x]]
      BY <1>4 DEF m
    <3> QED BY <3>1, <3>2
  <2>3. R2 = {x \in D : p[x] = x}
    BY <1>2, <1>3
  <2> QED BY <1>1, <1>2, <1>3, <1>4, <2>1, <2>2, <2>3 DEF SetsTyped
<1>10. ToSet(m[big]) = ToSet(B) \cup ToSet(S) /\ \A x \in R2 : x # big => ToSet(m[x]) = ToSet(s.members[x])
  BY <1>4, <1>6
<1>11. ListsOK(t)
  <2>1. \A r \in R2 : r \in ToSet(m[r]) /\ IsInjective(m[r])
    <3>1. IsInjective(B \o S)
      BY <1>5, <1>7, ConcatInjective
    <3> QED BY <1>4, <1>7, <1>10, <3>1
  <2>2. \A x \in D : \E r \in R2 : x \in ToSet(m[r])
    <3> SUFFICES ASSUME NEW x \in D PROVE \E r \in R2 : x \in ToSet(m[r])
      OBVIOUS
    <3>1. PICK r \in R : x \in ToSet(s.members[r])
      BY <1>7
    <3>2. CASE r \in {big, small}
      BY <1>4, <1>10, <3>1, <3>2
    <3>3. CASE r \notin {big, small}
      BY <1>10, <3>1, <3>3
    <3> QED BY <3>2, <3>3
  <2>3. \A r, q \in R2 : \A x \in ToSet(m[r]) : x \in ToSet(m[q]) => r = q
    <3>1. \A q \in R2 : q # big => \A x \in ToSet(m[q]) : x \notin ToSet(m[big])
      BY <1>7, <1>10
    <3>2. \A r, q \in R2 : r # big /\ q # big => \A x \in ToSet(m[r]) : x \in ToSet(m[q]) => r = q
      BY <1>7, <1>10
    <3> QED BY <3>1, <3>2
  <2>4. \A r \in R2 : \A x \in ToSet(m[r]) : p[x] \in ToSet(m[r])
    <3> SUFFICES ASSUME NEW r \in R2, NEW x \in ToSet(m[r]) PROVE p[x] \in ToSet(m[r])
      OBVIOUS
    <3>1. CASE x = small
      <4>1. r = big
        BY <1>7, <1>10, <3>1
      <4> QED BY <1>3, <1>7, <1>10, <3>1, <4>1
    <3>2. CASE x # small /\ r = big
      <4>1. x \in D
        BY <1>8, <1>10, <3>2
      <4> QED BY <1>3, <1>7, <1>10, <3>2, <4>1
    <3>3. CASE x # small /\ r # big
      <4>1. x \in D
        BY <1>8, <1>10, <3>3
      <4> QED BY <1>3, <1>7, <1>10, <3>3, <4>1
    <3> QED BY <3>1, <3>2, <3>3
  <2> QED BY <1>1, <1>3, <1>4, <2>1, <2>2, <2>3, <2>4 DEF ListsOK
<1>12. \E h : HeightOK(t, h)
  <2>1. PICK h : HeightOK(s, h)
    BY DEF SetsOK
  <2> DEFINE g == [x \in D |-> IF x \in ToSet(S) THEN h[x] + 1 ELSE h[x]]
  <2>2. h \in [D -> Nat] /\ g \in [D -> Nat] /\ \A x \in D : g[x] = IF x \in ToSet(S) THEN h[x] + 1 ELSE h[x]
    BY <2>1 DEF HeightOK
  <2> HIDE DEF g
  <2>3. \A x \in D : IF p[x] = x THEN g[x] = 0 ELSE g[p[x]] < g[x]
    <3> SUFFICES ASSUME NEW x \in D PROVE IF p[x] = x THEN g[x] = 0 ELSE g[p[x]] < g[x]
      OBVIOUS
    <3>1. CASE x = small
      <4>1. small \in ToSet(S) /\ big \notin ToSet(S) /\ big \in D /\ small \in D
        BY <1>2, <1>7
      <4>2. h[small] = 0 /\ h[big] = 0
        BY <1>2, <2>1 DEF HeightOK
      <4> QED BY <1>3, <2>2, <3>1, <4>1, <4>2
    <3>2. CASE x # small
      <4>1. p[x] = s.parent[x] /\ s.parent[x] \in D
        BY <1>2, <1>3, <3>2
      <4>2. x \in ToSet(S) <=> s.parent[x] \in ToSet(S)
        <5>1. PICK r \in R : x \in ToSet(s.members[r])
          BY <1>7
        <5>2. s.parent[x] \in ToSet(s.members[r])
          BY <1>7, <5>1
        <5> QED BY <1>7, <5>1, <5>2
      <4>3. s.parent[x] = x => x \notin ToSet(S)
        BY <1>2, <1>7, <3>2
      <4>4. IF s.parent[x] = x THEN h[x] = 0 ELSE h[s.parent[x]] < h[x]
        BY <2>1 DEF HeightOK
      <4>5. h[x] \in Nat /\ h[s.parent[x]] \in Nat
        BY <2>2, <4>1
      <4>6. g[x] = (IF x \in ToSet(S) THEN h[x] + 1 ELSE h[x]) /\ g[s.parent[x]] = IF x \in ToSet(S) THEN h[s.parent[x]] + 1 ELSE h[s.parent[x]]
        BY <2>2, <4>1, <4>2
      <4> QED BY <4>1, <4>3, <4>4, <4>5, <4>6
    <3> QED BY <3>1, <3>2
  <2>4. \A r \in R2 : \A x \in ToSet(m[r]) : g[x] < Len(m[r])
    <3> SUFFICES ASSUME NEW r \in R2, NEW x \in ToSet(m[r]) PROVE g[x] < Len(m[r])
      OBVIOUS
    <3>1. CASE r # big
      <4>1. x \in ToSet(s.members[r]) /\ x \in D /\ x \notin ToSet(S)
        BY <1>7, <1>8, <1>10, <3>1
      <4> QED BY <1>4, <2>1, <2>2, <3>1, <4>1 DEF HeightOK
    <3>2. CASE r = big /\ x \in ToSet(S)
      <4>1. x \in D /\ h[x] \in Nat /\ h[x] < Len(S) /\ g[x] = h[x] + 1
        BY <1>8, <2>1, <2>2, <3>2 DEF HeightOK
      <4>2. big \in ToSet(B) /\ big \in D
        BY <1>2, <1>7
      <4>3. h[big] < Len(B) /\ h[big] \in Nat
        BY <2>1, <2>2, <4>2 DEF HeightOK
      <4>4. Len(B) \in Nat /\ Len(S) \in Nat /\ Len(m[r]) = Len(B) + Len(S)
        BY <1>4, <1>5, <1>6, LenProperties, <3>2
      <4>5. \A i, j, k, l \in Nat : i < j /\ k < l => i + 1 < l + j
        OBVIOUS
      <4>6. h[x] + 1 < Len(B) + Len(S)
        BY <4>1, <4>3, <4>4, <4>5, Zenon
      <4> QED BY <4>1, <4>4, <4>6, Zenon
    <3>3. CASE r = big /\ x \notin ToSet(S)
      <4>1. x \in ToSet(B)
        BY <1>10, <3>3
      <4>2. x \in D /\ h[x] \in Nat /\ h[x] < Len(B) /\ g[x] = h[x]
        BY <1>8, <2>1, <2>2, <3>3, <4>1 DEF HeightOK
      <4>3. Len(B) \in Nat /\ Len(S) \in Nat /\ Len(m[r]) = Len(B) + Len(S)
        BY <1>4, <1>5, <1>6, LenProperties, <3>3
      <4>4. \A i, j, l \in Nat : i < l => i < l + j
        OBVIOUS
      <4>5. h[x] < Len(B) + Len(S)
        BY <4>2, <4>3, <4>4, Zenon
      <4> QED BY <4>2, <4>3, <4>5, Zenon
    <3> QED BY <3>1, <3>2, <3>3
  <2>5. HeightOK(t, g)
    BY <1>1, <1>3, <1>4, <2>2, <2>3, <2>4 DEF HeightOK
  <2> QED BY <2>5
<1>13. PartsOf(t) = (PartsOf(s) \ {ToSet(B), ToSet(S)}) \cup {ToSet(B) \cup ToSet(S)}
  <2>1. PartsOf(t) = {ToSet(m[r]) : r \in R2} /\ PartsOf(s) = {ToSet(s.members[r]) : r \in R}
    BY <1>1, <1>4 DEF PartsOf
  <2>2. \A r \in R : ToSet(s.members[r]) \in {ToSet(B), ToSet(S)} => r \in {big, small}
    BY <1>7
  <2>3. \A r \in R2 \ {big} : ToSet(m[r]) \in PartsOf(s) \ {ToSet(B), ToSet(S)}
    BY <1>10, <2>1, <2>2
  <2>4. \A q \in PartsOf(s) \ {ToSet(B), ToSet(S)} : q \in PartsOf(t)
    <3> SUFFICES ASSUME NEW q \in PartsOf(s), q \notin {ToSet(B), ToSet(S)} PROVE q \in PartsOf(t)
      OBVIOUS
    <3>1. PICK r \in R : q = ToSet(s.members[r])
      BY <2>1
    <3>2. r \in R2 /\ r # big
      BY <3>1
    <3>3. q = ToSet(m[r])
      BY <1>10, <3>1, <3>2
    <3> QED BY <2>1, <3>2, <3>3
  <2>5. ToSet(B) \cup ToSet(S) \in PartsOf(t)
    BY <1>4, <1>10, <2>1
  <2> QED BY <1>10, <2>1, <2>3, <2>4, <2>5
<1>14. SetsOK(t) /\ DOMAIN t.parent = D
  BY <1>1, <1>3, <1>9, <1>11, <1>12 DEF SetsOK
<1> QED BY <1>13, <1>14 DEF t


\* find, of any element: one that was not seen before is a set of its own.
FirstMet(ps, new) == ps \cup {{v} : v \in new \ UNION ps}

LEMMA UnionFindLemma ==
    ASSUME NEW s, SetsOK(s), NEW v \in Elem
    PROVE  /\ SetsOK(find(s, v)) /\ DOMAIN find(s, v).parent = DOMAIN s.parent \cup {v}
           /\ PartsOf(find(s, v)) = FirstMet(PartsOf(s), {v})
<1>1. UNION PartsOf(s) = DOMAIN s.parent
  BY PartsLemma
<1>2. CASE v \in DOMAIN s.parent
  <2>1. FirstMet(PartsOf(s), {v}) = PartsOf(s) /\ DOMAIN s.parent \cup {v} = DOMAIN s.parent
    BY <1>1, <1>2 DEF FirstMet
  <2> QED BY <1>2, <2>1, CompressLemma
<1>3. CASE v \notin DOMAIN s.parent
  <2>1. FirstMet(PartsOf(s), {v}) = PartsOf(s) \cup {{v}}
    BY <1>1, <1>3 DEF FirstMet
  <2> QED BY <1>3, <2>1, NewLemma
<1> QED BY <1>2, <1>3

LEMMA TwoFindsLemma ==
    ASSUME NEW s, SetsOK(s), NEW a \in Elem, NEW b \in Elem
    PROVE  /\ SetsOK(find(find(s, a), b))
           /\ a \in DOMAIN find(find(s, a), b).parent /\ b \in DOMAIN find(find(s, a), b).parent
           /\ PartsOf(find(find(s, a), b)) = FirstMet(PartsOf(s), {a, b})
<1> DEFINE t == find(s, a)
<1>1. /\ SetsOK(t) /\ DOMAIN t.parent = DOMAIN s.parent \cup {a}
      /\ PartsOf(t) = FirstMet(PartsOf(s), {a})
  BY UnionFindLemma
<1> HIDE DEF t
<1>2. /\ SetsOK(find(t, b)) /\ DOMAIN find(t, b).parent = DOMAIN t.parent \cup {b}
      /\ PartsOf(find(t, b)) = FirstMet(PartsOf(t), {b})
  BY <1>1, UnionFindLemma
<1>3. UNION PartsOf(s) = DOMAIN s.parent /\ UNION PartsOf(t) = DOMAIN t.parent
  BY <1>1, PartsLemma
<1>4. FirstMet(FirstMet(PartsOf(s), {a}), {b}) = FirstMet(PartsOf(s), {a, b})
  <2>1. {{v} : v \in {a, b} \ DOMAIN s.parent} = {{v} : v \in {a} \ DOMAIN s.parent} \cup {{v} : v \in {b} \ (DOMAIN s.parent \cup {a})}
    OBVIOUS
  <2> QED BY <1>1, <1>3, <2>1 DEF FirstMet
<1>5. SetsOK(find(t, b)) /\ a \in DOMAIN find(t, b).parent /\ b \in DOMAIN find(t, b).parent
      /\ PartsOf(find(t, b)) = FirstMet(PartsOf(s), {a, b})
  BY <1>1, <1>2, <1>4
<1> QED BY <1>5 DEF t

LEMMA UnionLinkLemma ==
    ASSUME NEW s, SetsOK(s), NEW a \in DOMAIN s.parent, NEW b \in DOMAIN s.parent, root(s, a) # root(s, b)
    PROVE  /\ SetsOK(link(s, a, b))
           /\ LET pa == ToSet(s.members[root(s, a)])
                  pb == ToSet(s.members[root(s, b)])
              IN  PartsOf(link(s, a, b)) = (PartsOf(s) \ {pa, pb}) \cup {pa \cup pb}
<1> DEFINE ra == root(s, a)
           rb == root(s, b)
           pa == ToSet(s.members[ra])
           pb == ToSet(s.members[rb])
<1>1. ra \in DOMAIN s.members /\ rb \in DOMAIN s.members /\ ra # rb
  BY PartsLemma
<1>2. link(s, a, b) = Merged(s, ra, rb) \/ link(s, a, b) = Merged(s, rb, ra)
  <2>1. CASE Len(s.members[ra]) >= Len(s.members[rb])
    BY <2>1 DEF link, Merged
  <2>2. CASE ~ (Len(s.members[ra]) >= Len(s.members[rb]))
    BY <2>2 DEF link, Merged
  <2> QED BY <2>1, <2>2
<1> HIDE DEF ra, rb
<1>3. SetsOK(Merged(s, ra, rb)) /\ PartsOf(Merged(s, ra, rb)) = (PartsOf(s) \ {pa, pb}) \cup {pa \cup pb}
  BY <1>1, MergeLemma
<1>4. SetsOK(Merged(s, rb, ra)) /\ PartsOf(Merged(s, rb, ra)) = (PartsOf(s) \ {pb, pa}) \cup {pb \cup pa}
  BY <1>1, MergeLemma
<1>5. {pa, pb} = {pb, pa} /\ pa \cup pb = pb \cup pa
  OBVIOUS
<1>6. SetsOK(link(s, a, b)) /\ PartsOf(link(s, a, b)) = (PartsOf(s) \ {pa, pb}) \cup {pa \cup pb}
  BY <1>2, <1>3, <1>4, <1>5
<1> QED BY <1>6 DEF ra, rb

(***************************************************************************)
(* The forest and the lists implement a partition.                         *)
(***************************************************************************)
UnionFindInv == SetsOK(Now)

LEMMA PartsOfNow == Parts = PartsOf(Now) /\ \A new : Sets!Met(new) = FirstMet(Parts, new)
  BY DEF Parts, PartsOf, Now, Sets!Met, FirstMet

LEMMA BecomesLemma ==
    ASSUME NEW s, SetsOK(s), Becomes(s)
    PROVE  UnionFindInv' /\ Parts' = PartsOf(s)
<1>1. Now' = s
  BY DEF Now, Becomes, SetsOK, SetsTyped
<1>2. UnionFindInv'
  BY <1>1 DEF UnionFindInv
<1>3. Parts' = PartsOf(s)
  BY DEF Parts, PartsOf, Becomes
<1> QED BY <1>2, <1>3


LEMMA UnionFindInit == UFInit => UnionFindInv /\ Sets!Init
<1> SUFFICES ASSUME UFInit PROVE UnionFindInv /\ Sets!Init
  OBVIOUS
<1>1. DOMAIN parent = {} /\ DOMAIN members = {} /\ parent = <<>> /\ members = <<>>
  BY DEF UFInit
<1>2. Now.parent = parent /\ Now.members = members /\ Now = [parent |-> Now.parent, members |-> Now.members]
  BY DEF Now
<1>3. parent \in [{} -> {}] /\ members \in [{} -> Seq({})] /\ IsFiniteSet({})
  BY <1>1, FS_EmptySet
<1>4. SetsTyped(Now)
  BY <1>1, <1>2, <1>3 DEF SetsTyped
<1>5. ListsOK(Now)
  BY <1>1, <1>2 DEF ListsOK
<1>6. HeightOK(Now, [v \in {} |-> 0])
  BY <1>1, <1>2 DEF HeightOK
<1>7. Sets!Init
  BY <1>1 DEF UFInit, Sets!Init, Parts
<1> QED BY <1>4, <1>5, <1>6, <1>7 DEF UnionFindInv, SetsOK

LEMMA UnionStep ==
    ASSUME UnionFindInv, NEW a \in Elem, NEW b \in Elem, union(a, b)
    PROVE  UnionFindInv' /\ Sets!Union(a, b)
<1> DEFINE s == find(find(Now, a), b)
           ra == root(s, a)
           rb == root(s, b)
           pa == ToSet(s.members[ra])
           pb == ToSet(s.members[rb])
<1>1. /\ SetsOK(s) /\ a \in DOMAIN s.parent /\ b \in DOMAIN s.parent
      /\ PartsOf(s) = Sets!Met({a, b})
  BY TwoFindsLemma, PartsOfNow DEF UnionFindInv
<1>2. Becomes(IF ra = rb THEN s ELSE link(s, a, b)) /\ result' = result
  BY DEF union
<1> HIDE DEF s
<1>3. /\ pa = Sets!PartOf(PartsOf(s), a) /\ pb = Sets!PartOf(PartsOf(s), b)
      /\ pa \in PartsOf(s)
  BY <1>1, PartsLemma DEF PartsOf
<1>4. UnionFindInv' /\ Parts' = (PartsOf(s) \ {pa, pb}) \cup {pa \cup pb}
  <2>1. CASE ra = rb
    <3>1. UnionFindInv' /\ Parts' = PartsOf(s)
      BY <1>1, <1>2, <2>1, BecomesLemma
    <3>2. pa = pb
      BY <2>1
    <3> HIDE DEF ra, rb, pa, pb
    <3>3. (PartsOf(s) \ {pa, pb}) \cup {pa \cup pb} = PartsOf(s)
      BY <1>3, <3>2
    <3> QED BY <3>1, <3>3
  <2>2. CASE ra # rb
    <3>1. SetsOK(link(s, a, b)) /\ PartsOf(link(s, a, b)) = (PartsOf(s) \ {pa, pb}) \cup {pa \cup pb}
      BY <1>1, <2>2, UnionLinkLemma
    <3>2. Becomes(link(s, a, b))
      BY <1>2, <2>2
    <3> QED BY <3>1, <3>2, BecomesLemma
  <2> QED BY <2>1, <2>2
<1> HIDE DEF pa, pb
<1>5. Sets!Union(a, b)
  BY <1>1, <1>2, <1>3, <1>4 DEF Sets!Union
<1> QED BY <1>4, <1>5

LEMMA InSameSetStep ==
    ASSUME UnionFindInv, NEW a \in Elem, NEW b \in Elem, in_same_set(a, b)
    PROVE  UnionFindInv' /\ Sets!InSameSet(a, b)
<1> DEFINE s == find(find(Now, a), b)
           ra == root(s, a)
           rb == root(s, b)
<1>1. /\ SetsOK(s) /\ a \in DOMAIN s.parent /\ b \in DOMAIN s.parent
      /\ PartsOf(s) = Sets!Met({a, b})
  BY TwoFindsLemma, PartsOfNow DEF UnionFindInv
<1>2. Becomes(s) /\ result' = [same |-> ra = rb]
  BY DEF in_same_set
<1> HIDE DEF s
<1>3. UnionFindInv' /\ Parts' = PartsOf(s)
  BY <1>1, <1>2, BecomesLemma
<1>4. /\ Sets!PartOf(PartsOf(s), a) = ToSet(s.members[ra]) /\ Sets!PartOf(PartsOf(s), b) = ToSet(s.members[rb])
      /\ ra \in DOMAIN s.members /\ rb \in DOMAIN s.members /\ a \in ToSet(s.members[ra])
  BY <1>1, PartsLemma
<1> HIDE DEF ra, rb
<1>5. (Sets!PartOf(PartsOf(s), a) = Sets!PartOf(PartsOf(s), b)) <=> (ra = rb)
  BY <1>1, <1>4 DEF SetsOK, ListsOK
<1>6. (Sets!PartOf(PartsOf(s), a) = Sets!PartOf(PartsOf(s), b)) = (ra = rb)
  BY <1>5, Zenon
<1>7. result' = [same |-> Sets!PartOf(PartsOf(s), a) = Sets!PartOf(PartsOf(s), b)]
  BY <1>2, <1>6, Zenon
<1>8. Sets!InSameSet(a, b)
  <2>1. Parts' = Sets!Met({a, b})
    BY <1>1, <1>3
  <2>2. result' = [same |-> Sets!PartOf(Parts', a) = Sets!PartOf(Parts', b)]
    BY <1>3, <1>7, Zenon
  <2> QED BY <2>1, <2>2, Zenon DEF Sets!InSameSet
<1> QED BY <1>3, <1>8

LEMMA SetMembersStep ==
    ASSUME UnionFindInv, NEW v \in Elem, set_members(v)
    PROVE  UnionFindInv' /\ Sets!SetMembers(v)
<1> DEFINE s == find(Now, v)
<1>1. /\ SetsOK(s) /\ v \in DOMAIN s.parent /\ PartsOf(s) = Sets!Met({v})
  BY UnionFindLemma, PartsOfNow DEF UnionFindInv
<1>2. Becomes(s) /\ result' = [members |-> ToSet(s.members[root(s, v)])]
  BY DEF set_members
<1> HIDE DEF s
<1>3. UnionFindInv' /\ Parts' = PartsOf(s)
  BY <1>1, <1>2, BecomesLemma
<1>4. Sets!PartOf(Parts', v) = ToSet(s.members[root(s, v)])
  BY <1>1, <1>3, PartsLemma
<1>5. Sets!SetMembers(v)
  BY <1>1, <1>2, <1>3, <1>4 DEF Sets!SetMembers
<1> QED BY <1>3, <1>5

LEMMA UnionFindStep == UnionFindInv /\ [UFNext]_ufVars => UnionFindInv' /\ [Sets!Next]_<<Parts, result>>
<1> SUFFICES ASSUME UnionFindInv, [UFNext]_ufVars
             PROVE  UnionFindInv' /\ [Sets!Next]_<<Parts, result>>
  OBVIOUS
<1>1. CASE \E a, b \in Elem : union(a, b)
  BY <1>1, UnionStep DEF Sets!Next
<1>2. CASE \E a, b \in Elem : in_same_set(a, b)
  BY <1>2, InSameSetStep DEF Sets!Next
<1>3. CASE \E v \in Elem : set_members(v)
  BY <1>3, SetMembersStep DEF Sets!Next
<1>4. CASE UNCHANGED ufVars
  BY <1>4 DEF ufVars, UnionFindInv, Now, Parts
<1> QED BY <1>1, <1>2, <1>3, <1>4 DEF UFNext

\* Whatever is united and queried: the lists of members are the parts of a partition that
\* only merge, and the answers are right for it.
THEOREM UnionFindImplementsPartition == UFSpec => ImplementsPartition
<1>1. UFSpec => []UnionFindInv
  BY UnionFindInit, UnionFindStep, PTL DEF UFSpec
<1>2. UFInit => Sets!Init
  BY UnionFindInit
<1>3. UnionFindInv /\ [UFNext]_ufVars => [Sets!Next]_<<Parts, result>>
  BY UnionFindStep
<1> QED BY <1>1, <1>2, <1>3, PTL DEF UFSpec, ImplementsPartition, Sets!Spec

(***************************************************************************)
(* The names of a text that is parsed, for any identifiers, values, blocks *)
(* and uses, any nesting of regions, and any number of block arguments.    *)
(*                                                                         *)
(* A name means one thing in its scope: the region that scopes it is the   *)
(* owner of the name, and a name with its owner is a key.  The invariant   *)
(* (NTInv) is a map from the keys that occur in the text to what they mean *)
(* so far, the definition or a placeholder, of which the scopes of the     *)
(* open regions and the references of the uses are parts (ParserOK).       *)
(***************************************************************************)

Ring == [region : Nat, isolated : BOOLEAN]
Innermost(path) == SelectLastInSeq(path, LAMBDA n : n.isolated)
Owner(N, k, r) == IF k = "label" THEN r ELSE N[r][Innermost(N[r])].region
KeyFor(k, id, r) == [kind |-> k, id |-> id, region |-> r]
Key(N, x) == KeyFor(x.kind, x.id, Owner(N, x.kind, x.region))
KeysOf(N, S) == {Key(N, x) : x \in S}
Defined(N, S, K) == \E x \in S : x.what \in Entity /\ Key(N, x) = K
OpensScope(N, k, r) == k = "label" \/ N[r][Len(N[r])].isolated

ScopeSet == UNION {[D -> Entity] : D \in SUBSET Id}
TrackerSet ==
    [scopes : [Kinds -> Seq(ScopeSet)], forward : SUBSET Entity,
     refers : UNION {[D -> Entity] : D \in SUBSET UseSite},
     outcome : {"parsing", "parsed", "MultipleDefinitions", "UnresolvedReference", "TopLevelOpRegionNotIsolatedFromAbove"}]
NoteSet(N) == [what : Entity \cup UseSite, kind : Kinds, id : Id, region : DOMAIN N]

\* N are the paths of the regions: every region is the last on its path, and in an isolated one.
NestsOK(N) ==
    /\ N \in Seq(Seq(Ring))
    /\ \A r \in DOMAIN N :
          /\ Len(N[r]) # 0 /\ N[r][Len(N[r])].region = r
          /\ Innermost(N[r]) \in 1..Len(N[r]) /\ Owner(N, "ssa", r) \in 1..r
          /\ N[r][Len(N[r])].isolated => Owner(N, "ssa", r) = r

\* O are the open regions, and p says which scope of a kind is that of which of them.
StackOK(N, O, t, p) ==
    /\ O \in Seq(DOMAIN N) /\ p \in [Kinds -> [1..Len(O) -> Nat]]
    /\ \A k \in Kinds :
          /\ O = <<>> => t.scopes[k] = <<>>
          /\ O # <<>> => p[k][Len(O)] = Len(t.scopes[k]) /\ p[k][1] = 1 /\ OpensScope(N, k, O[1])
          /\ \A i \in 1..Len(O) : p[k][i] \in 1..Len(t.scopes[k])
          /\ \A i, j \in 1..Len(O) : p[k][i] = p[k][j] <=> Owner(N, k, O[i]) = Owner(N, k, O[j])
          /\ \A i, j \in 1..Len(O) : i <= j => p[k][i] <= p[k][j]
          /\ \A i \in 1..Len(O) : i > 1 =>
                p[k][i] = IF OpensScope(N, k, O[i]) THEN p[k][i - 1] + 1 ELSE p[k][i - 1]

\* The scope f has the names of kind k that r owns.
ScopeFor(N, S, E, k, r, f) ==
    /\ \A id \in Id : id \in DOMAIN f <=> KeyFor(k, id, r) \in KeysOf(N, S)
    /\ \A id \in DOMAIN f : f[id] = E[KeyFor(k, id, r)]
ScopesOK(N, O, S, t, E, p) ==
    \A k \in Kinds, i \in 1..Len(O) : ScopeFor(N, S, E, k, Owner(N, k, O[i]), t.scopes[k][p[k][i]])

\* What the keys mean: different things, the definition where there is one, and where there
\* is none a placeholder; this is what uses refer to.
MeaningsOK(N, S, t, E) ==
    /\ E \in [KeysOf(N, S) -> Entity]
    /\ \A K, L \in KeysOf(N, S) : E[K] = E[L] => K = L
    /\ \A x, y \in S : x.what = y.what => x = y
    /\ \A x \in S : x.what \in Entity => E[Key(N, x)] = x.what
    /\ \A x \in S : x.what \in UseSite => x.what \in DOMAIN t.refers /\ t.refers[x.what] = E[Key(N, x)]
    /\ \A e \in Entity : e \in t.forward <=> \E K \in KeysOf(N, S) : ~ Defined(N, S, K) /\ E[K] = e

\* A name without a definition has its owner around the place that is parsed.
PendingOK(N, O, S) ==
    \A K \in KeysOf(N, S) : ~ Defined(N, S, K) => \E i \in 1..Len(O) : Owner(N, K.kind, O[i]) = K.region

ParserOK(N, O, S, t, E, p) ==
    /\ t \in TrackerSet /\ NestsOK(N) /\ S \subseteq NoteSet(N)
    /\ StackOK(N, O, t, p) /\ ScopesOK(N, O, S, t, E, p) /\ MeaningsOK(N, S, t, E) /\ PendingOK(N, O, S)

LEMMA InnermostLemma ==
    ASSUME NEW s \in Seq(Ring), NEW x \in Ring
    PROVE  /\ x.isolated => Innermost(s \o <<x>>) = Len(s) + 1
           /\ ~ x.isolated => Innermost(s \o <<x>>) = Innermost(s)
<1> DEFINE w == s \o <<x>>
           I(q) == {i \in 1..Len(q) : q[i].isolated}
<1>1. /\ Len(s) \in Nat /\ Len(w) = Len(s) + 1 /\ w[Len(s) + 1] = x
      /\ \A i \in 1..Len(s) : w[i] = s[i]
  OBVIOUS
<1>2. \A q : Innermost(q) = IF I(q) # {} THEN Max(I(q)) ELSE 0
  BY DEF Innermost, SelectLastInSeq
<1> HIDE DEF w
<1>3. CASE x.isolated
  <2>1. Len(s) + 1 \in I(w) /\ \A i \in I(w) : i \in Nat /\ i <= Len(s) + 1
    BY <1>1, <1>3
  <2> HIDE DEF I
  <2>2. Max(I(w)) = CHOOSE m \in I(w) : \A i \in I(w) : m >= i
    BY DEF Max
  <2>3. \A m \in I(w) : (\A i \in I(w) : m >= i) => m = Len(s) + 1
    BY <1>1, <2>1
  <2>4. \E m \in I(w) : \A i \in I(w) : m >= i
    BY <1>1, <2>1
  <2>5. Max(I(w)) = Len(s) + 1
    BY <2>2, <2>3, <2>4
  <2> QED BY <1>2, <1>3, <2>1, <2>5 DEF w
<1>4. CASE ~ x.isolated
  <2>1. I(w) = I(s)
    BY <1>1, <1>4
  <2> HIDE DEF I
  <2> QED BY <1>2, <1>4, <2>1 DEF w
<1> QED BY <1>3, <1>4

\* A region is entered: it owns what is named in it, if it is isolated, and else its parent does.
EnteredNests(N, M, s, isolated) ==
    /\ NestsOK(M) /\ Len(M) = Len(N) + 1 /\ DOMAIN M = 1..(Len(N) + 1) /\ DOMAIN N = 1..Len(N)
    /\ \A r \in DOMAIN N, k \in Kinds : Owner(M, k, r) = Owner(N, k, r) /\ OpensScope(M, k, r) = OpensScope(N, k, r)
    /\ isolated => Owner(M, "ssa", Len(N) + 1) = Len(N) + 1
    /\ \A r \in DOMAIN N : ~ isolated /\ s = N[r] => Owner(M, "ssa", Len(N) + 1) = Owner(N, "ssa", r)
    /\ OpensScope(M, "ssa", Len(N) + 1) = isolated

LEMMA EnterNestsLemma ==
    ASSUME NEW N, NestsOK(N), NEW isolated \in BOOLEAN, NEW s \in Seq(Ring), NEW M,
           M = Append(N, s \o <<[region |-> Len(N) + 1, isolated |-> isolated]>>),
           ~ isolated => \E r \in DOMAIN N : s = N[r]
    PROVE  EnteredNests(N, M, s, isolated)
<1> DEFINE m == Len(N) + 1
           x == [region |-> m, isolated |-> isolated]
           w == s \o <<x>>
<1>1. N \in Seq(Seq(Ring)) /\ Len(N) \in Nat /\ DOMAIN N = 1..Len(N)
  BY DEF NestsOK
<1>2. x \in Ring /\ x.region = m /\ x.isolated = isolated
  BY <1>1 DEF Ring
<1> HIDE DEF x
<1>3. /\ w \in Seq(Ring) /\ Len(s) \in Nat /\ Len(w) = Len(s) + 1 /\ w[Len(s) + 1] = x
      /\ \A i \in 1..Len(s) : w[i] = s[i]
  BY <1>2
<1>4. M = Append(N, w)
  BY DEF x
<1>5. /\ isolated => Innermost(w) = Len(s) + 1
      /\ ~ isolated => Innermost(w) = Innermost(s)
  BY <1>2, InnermostLemma
<1> HIDE DEF w, m
<1>6. /\ M \in Seq(Seq(Ring)) /\ Len(M) = m /\ DOMAIN M = 1..m /\ M[m] = w /\ m \in Nat /\ m = Len(N) + 1
      /\ \A r \in DOMAIN N : M[r] = N[r] /\ r # m /\ r < m
  <2>1. m \in Nat /\ m = Len(N) + 1 /\ \A r \in DOMAIN N : r \in 1..Len(N) /\ r # m /\ r < m
    BY <1>1 DEF m
  <2>2. M \in Seq(Seq(Ring)) /\ Len(M) = Len(N) + 1 /\ M[Len(N) + 1] = w /\ \A r \in 1..Len(N) : M[r] = N[r]
    BY <1>1, <1>3, <1>4, AppendProperties
  <2>3. DOMAIN M = 1..Len(M)
    BY <2>2
  <2> QED BY <2>1, <2>2, <2>3
<1>7. \A r \in DOMAIN N, k \in Kinds : Owner(M, k, r) = Owner(N, k, r) /\ OpensScope(M, k, r) = OpensScope(N, k, r)
  BY <1>6 DEF Owner, OpensScope
<1>8. ASSUME isolated PROVE Owner(M, "ssa", m) = m /\ Innermost(w) \in 1..Len(w)
  <2>1. Innermost(w) = Len(w) /\ Innermost(w) \in 1..Len(w) /\ w[Innermost(w)] = x
    BY <1>3, <1>5, <1>8
  <2> QED BY <1>2, <1>6, <2>1 DEF Owner
<1>9. ASSUME NEW r \in DOMAIN N, ~ isolated, s = N[r]
      PROVE  Owner(M, "ssa", m) = Owner(N, "ssa", r) /\ Innermost(w) \in 1..Len(w) /\ Owner(M, "ssa", m) \in 1..m
  <2>1. Innermost(w) = Innermost(N[r]) /\ Innermost(N[r]) \in 1..Len(s)
    BY <1>5, <1>9 DEF NestsOK
  <2>2. w[Innermost(w)] = N[r][Innermost(N[r])]
    BY <1>3, <1>9, <2>1
  <2>3. Owner(M, "ssa", m) = Owner(N, "ssa", r)
    BY <1>6, <2>2 DEF Owner
  <2>4. Owner(N, "ssa", r) \in 1..r /\ r \in 1..Len(N)
    BY <1>1 DEF NestsOK
  <2> QED BY <1>1, <1>3, <1>6, <2>1, <2>3, <2>4
<1>10. OpensScope(M, "ssa", m) = isolated
  BY <1>2, <1>3, <1>6 DEF OpensScope
<1>11. NestsOK(M)
  <2> SUFFICES ASSUME NEW r \in DOMAIN M
               PROVE  /\ Len(M[r]) # 0 /\ M[r][Len(M[r])].region = r
                      /\ Innermost(M[r]) \in 1..Len(M[r]) /\ Owner(M, "ssa", r) \in 1..r
                      /\ M[r][Len(M[r])].isolated => Owner(M, "ssa", r) = r
    BY <1>6 DEF NestsOK
  <2>1. CASE r \in DOMAIN N
    <3>1. M[r] = N[r] /\ Owner(M, "ssa", r) = Owner(N, "ssa", r)
      BY <1>6, <1>7, <2>1 DEF Kinds
    <3> QED BY <2>1, <3>1 DEF NestsOK
  <2>2. CASE r \notin DOMAIN N
    <3>1. r = m
      BY <1>1, <1>6, <2>2
    <3>2. Len(w) # 0 /\ w[Len(w)] = x
      BY <1>3
    <3>3. Innermost(w) \in 1..Len(w) /\ Owner(M, "ssa", m) \in 1..m
      <4>1. CASE isolated
        <5>1. m \in 1..m
          BY <1>1, <1>6
        <5> QED BY <1>8, <4>1, <5>1
      <4>2. CASE ~ isolated
        BY <1>9, <4>2
      <4> QED BY <4>1, <4>2
    <3> QED BY <1>2, <1>6, <1>8, <3>1, <3>2, <3>3
  <2> QED BY <2>1, <2>2
<1> QED BY <1>1, <1>6, <1>7, <1>8, <1>9, <1>10, <1>11 DEF EnteredNests

LEMMA KeyLemma ==
    ASSUME NEW k, NEW id, NEW r, NEW j, NEW n, NEW q
    PROVE  /\ KeyFor(k, id, r) = KeyFor(j, n, q) <=> k = j /\ id = n /\ r = q
           /\ KeyFor(k, id, r).kind = k /\ KeyFor(k, id, r).region = r
  BY DEF KeyFor

\* A note is added to the text.
LEMMA NotedLemma ==
    ASSUME NEW N, NEW S, NEW x
    PROVE  /\ KeysOf(N, S \cup {x}) = KeysOf(N, S) \cup {Key(N, x)}
           /\ \A K : Defined(N, S \cup {x}, K) <=> Defined(N, S, K) \/ (x.what \in Entity /\ Key(N, x) = K)
           /\ \A y \in S : Key(N, y) \in KeysOf(N, S)
  BY DEF KeysOf, Defined

\* In the innermost scope of kind k, id means g now; the other scopes are as before.
Renamed(t, k, id, g, u) ==
    /\ u \in TrackerSet
    /\ \A j \in Kinds : Len(u.scopes[j]) = Len(t.scopes[j])
    /\ \A j \in Kinds : \A n \in 1..Len(t.scopes[j]) : ~ (j = k /\ n = Len(t.scopes[k])) => u.scopes[j][n] = t.scopes[j][n]
    /\ LET f == t.scopes[k][Len(t.scopes[k])]
           h == u.scopes[k][Len(t.scopes[k])]
       IN  DOMAIN h = DOMAIN f \cup {id} /\ h[id] = g /\ \A n \in DOMAIN f : n # id => h[n] = f[n]

LEMMA RenamedSame ==
    ASSUME NEW t, NEW k, NEW id, NEW g, NEW v, NEW u, Renamed(t, k, id, g, v), u \in TrackerSet, u.scopes = v.scopes
    PROVE  Renamed(t, k, id, g, u)
  BY DEF Renamed

LEMMA PutLemma ==
    ASSUME NEW t \in TrackerSet, NEW k \in Kinds, NEW id \in Id, NEW g \in Entity, Len(t.scopes[k]) # 0
    PROVE  /\ Renamed(t, k, id, g, Put(t, k, id, g))
           /\ Put(t, k, id, g).forward = t.forward /\ Put(t, k, id, g).refers = t.refers
           /\ Put(t, k, id, g).outcome = t.outcome
<1> DEFINE s == t.scopes[k]
           f == s[Len(s)]
           h == [n \in DOMAIN f \cup {id} |-> IF n = id THEN g ELSE f[n]]
           w == Append(Front(s), h)
           u == Put(t, k, id, g)
<1>1. s \in Seq(ScopeSet) /\ Len(s) \in Nat /\ Len(s) # 0 /\ f \in ScopeSet
  BY DEF TrackerSet
<1>2. h \in ScopeSet
  <2>1. PICK D \in SUBSET Id : f \in [D -> Entity]
    BY <1>1 DEF ScopeSet
  <2>2. h \in [D \cup {id} -> Entity]
    BY <2>1
  <2> QED BY <2>2 DEF ScopeSet
<1>3. DOMAIN h = DOMAIN f \cup {id} /\ h[id] = g /\ \A n \in DOMAIN f : n # id => h[n] = f[n]
  OBVIOUS
<1>4. u = [t EXCEPT !.scopes[k] = w]
  BY DEF Put, Scope, Last
<1> HIDE DEF h
<1>5. /\ Front(s) \in Seq(ScopeSet) /\ Len(Front(s)) = Len(s) - 1
      /\ \A i \in 1..(Len(s) - 1) : Front(s)[i] = s[i]
  BY <1>1, FrontLemma
<1>6. /\ w \in Seq(ScopeSet) /\ Len(w) = Len(s) /\ w[Len(s)] = h
      /\ \A i \in 1..Len(s) : i # Len(s) => w[i] = s[i]
  BY <1>1, <1>2, <1>5, AppendProperties
<1> HIDE DEF w, u
<1>7. u.scopes = [t.scopes EXCEPT ![k] = w] /\ u.forward = t.forward /\ u.refers = t.refers /\ u.outcome = t.outcome
  BY <1>4 DEF TrackerSet
<1>8. u \in TrackerSet
  <2>1. t.scopes \in [Kinds -> Seq(ScopeSet)]
    BY DEF TrackerSet
  <2>2. [t.scopes EXCEPT ![k] = w] \in [Kinds -> Seq(ScopeSet)]
    BY <1>6, <2>1
  <2> QED BY <1>4, <1>7, <2>2 DEF TrackerSet
<1>9. u.scopes[k] = w /\ \A j \in Kinds : j # k => u.scopes[j] = t.scopes[j]
  BY <1>7 DEF TrackerSet
<1>10. Renamed(t, k, id, g, u)
  BY <1>1, <1>3, <1>6, <1>8, <1>9 DEF Renamed
<1> QED BY <1>7, <1>10 DEF u

\* What the keys mean when x is noted, and its name means g.
Assigned(N, S, E, x, g) == [K \in KeysOf(N, S \cup {x}) |-> IF K = Key(N, x) THEN g ELSE E[K]]

LEMMA RenamedLemma ==
    ASSUME NEW N, NEW O, NEW S, NEW t, NEW E, NEW p, ParserOK(N, O, S, t, E, p), O # <<>>,
           NEW x \in NoteSet(N), x.region = O[Len(O)], NEW g \in Entity, NEW u, Renamed(t, x.kind, x.id, g, u)
    PROVE  StackOK(N, O, u, p) /\ ScopesOK(N, O, S \cup {x}, u, Assigned(N, S, E, x, g), p)
<1> DEFINE k == x.kind
           id == x.id
           r == Owner(N, k, x.region)
           T == S \cup {x}
           F == Assigned(N, S, E, x, g)
<1>1. k \in Kinds /\ id \in Id /\ Key(N, x) = KeyFor(k, id, r)
  BY DEF NoteSet, Key
<1>2. StackOK(N, O, t, p) /\ ScopesOK(N, O, S, t, E, p) /\ t \in TrackerSet /\ Len(O) \in Nat /\ Len(O) # 0
  BY DEF ParserOK, StackOK
<1>3. KeysOf(N, T) = KeysOf(N, S) \cup {KeyFor(k, id, r)}
  BY <1>1, NotedLemma
<1>4. F = [K \in KeysOf(N, T) |-> IF K = KeyFor(k, id, r) THEN g ELSE E[K]]
  BY <1>1 DEF Assigned
<1> HIDE DEF F, T
<1>5. StackOK(N, O, u, p)
  <2>1. \A j \in Kinds : Len(u.scopes[j]) = Len(t.scopes[j]) /\ u.scopes[j] \in Seq(ScopeSet) /\ t.scopes[j] \in Seq(ScopeSet)
    BY <1>2 DEF Renamed, TrackerSet
  <2>2. \A j \in Kinds : O = <<>> => u.scopes[j] = <<>>
    OBVIOUS
  <2> QED BY <1>2, <2>1, <2>2 DEF StackOK
<1>6. ASSUME NEW j \in Kinds, NEW i \in 1..Len(O)
      PROVE  ScopeFor(N, T, F, j, Owner(N, j, O[i]), u.scopes[j][p[j][i]])
  <2> DEFINE q == Owner(N, j, O[i])
             f == t.scopes[j][p[j][i]]
             h == u.scopes[j][p[j][i]]
  <2>1. /\ \A n \in Id : n \in DOMAIN f <=> KeyFor(j, n, q) \in KeysOf(N, S)
        /\ \A n \in DOMAIN f : f[n] = E[KeyFor(j, n, q)]
    BY <1>2 DEF ScopesOK, ScopeFor
  <2>2. p[j][i] \in 1..Len(t.scopes[j]) /\ Len(O) \in 1..Len(O) /\ p[k][Len(O)] = Len(t.scopes[k])
    BY <1>1, <1>2 DEF StackOK
  <2>3. DOMAIN f \subseteq Id
    <3>1. t.scopes[j] \in Seq(ScopeSet)
      BY <1>2 DEF TrackerSet
    <3>2. f \in ScopeSet
      BY <2>2, <3>1
    <3> QED BY <3>2 DEF ScopeSet
  <2> HIDE DEF q, f, h
  <2>4. CASE j = k /\ p[j][i] = Len(t.scopes[k])
    <3>1. q = r
      BY <1>2, <2>2, <2>4 DEF StackOK, q
    <3>2. DOMAIN h = DOMAIN f \cup {id} /\ h[id] = g /\ \A n \in DOMAIN f : n # id => h[n] = f[n]
      BY <2>4 DEF Renamed, f, h
    <3>3. \A n \in Id : n \in DOMAIN h <=> KeyFor(j, n, q) \in KeysOf(N, T)
      <4> SUFFICES ASSUME NEW n \in Id PROVE n \in DOMAIN h <=> KeyFor(j, n, q) \in KeysOf(N, T)
        OBVIOUS
      <4>1. KeyFor(j, n, q) = KeyFor(k, id, r) <=> n = id
        BY <2>4, <3>1, KeyLemma
      <4> QED BY <1>3, <2>1, <3>2, <4>1
    <3>4. \A n \in DOMAIN h : h[n] = F[KeyFor(j, n, q)]
      <4> SUFFICES ASSUME NEW n \in DOMAIN h PROVE h[n] = F[KeyFor(j, n, q)]
        OBVIOUS
      <4>1. KeyFor(j, n, q) = KeyFor(k, id, r) <=> n = id
        BY <2>4, <3>1, KeyLemma
      <4>2. n \in Id
        BY <1>1, <2>3, <3>2
      <4>3. F[KeyFor(j, n, q)] = IF n = id THEN g ELSE E[KeyFor(j, n, q)]
        BY <1>4, <3>3, <4>1, <4>2
      <4> QED BY <2>1, <3>2, <4>3
    <3> QED BY <3>3, <3>4 DEF ScopeFor, q, h
  <2>5. CASE ~ (j = k /\ p[j][i] = Len(t.scopes[k]))
    <3>1. h = f
      BY <2>2, <2>5 DEF Renamed, f, h
    <3>2. \A n : KeyFor(j, n, q) # KeyFor(k, id, r)
      <4>1. j = k => q # r
        BY <1>2, <2>2, <2>5 DEF StackOK, q
      <4> QED BY <4>1, KeyLemma
    <3>3. \A n \in DOMAIN f : F[KeyFor(j, n, q)] = E[KeyFor(j, n, q)]
      BY <1>3, <1>4, <2>1, <2>3, <3>2
    <3> QED BY <1>3, <2>1, <3>1, <3>2, <3>3 DEF ScopeFor, q, h
  <2> QED BY <2>4, <2>5
<1> QED BY <1>5, <1>6 DEF ScopesOK, T, F

\* A use: what its name means is not changed by it, and if it has meant nothing so far, it
\* means a new placeholder.
LEMMA UseLemma ==
    ASSUME NEW N, NEW O, NEW S, NEW t, NEW E, NEW p, ParserOK(N, O, S, t, E, p), O # <<>>,
           NEW x \in NoteSet(N), x.region = O[Len(O)], x.what \in UseSite, x.what \notin DOMAIN t.refers,
           NEW e \in Entity, e \notin t.forward, \A y \in S : y.what # e
    PROVE  \E F : ParserOK(N, O, S \cup {x}, use(t, x.kind, x.id, x.what, e), F, p)
<1> DEFINE k == x.kind
           id == x.id
           K == Key(N, x)
           T == S \cup {x}
           n == Len(t.scopes[k])
           f == t.scopes[k][n]
           known == id \in DOMAIN f
           g == IF known THEN f[id] ELSE e
           F == Assigned(N, S, E, x, g)
           u == use(t, k, id, x.what, e)
<1>1. /\ k \in Kinds /\ id \in Id /\ t \in TrackerSet /\ Len(O) \in 1..Len(O) /\ S \subseteq NoteSet(N)
      /\ K = KeyFor(k, id, Owner(N, k, O[Len(O)])) /\ x.what \notin Entity
  BY EntityAssumption DEF NoteSet, Key, ParserOK, StackOK
<1>2. n # 0 /\ p[k][Len(O)] = n /\ n \in Nat
  BY <1>1 DEF ParserOK, StackOK, TrackerSet
<1>3. /\ known <=> K \in KeysOf(N, S)
      /\ known => f[id] = E[K]
  <2>1. ScopeFor(N, S, E, k, Owner(N, k, O[Len(O)]), f)
    BY <1>1, <1>2 DEF ParserOK, ScopesOK
  <2> QED BY <1>1, <2>1 DEF ScopeFor
<1>4. /\ E \in [KeysOf(N, S) -> Entity]
      /\ \A L, M \in KeysOf(N, S) : E[L] = E[M] => L = M
      /\ \A y, z \in S : y.what = z.what => y = z
      /\ \A y \in S : y.what \in Entity => E[Key(N, y)] = y.what
      /\ \A y \in S : y.what \in UseSite => y.what \in DOMAIN t.refers /\ t.refers[y.what] = E[Key(N, y)]
      /\ \A c \in Entity : c \in t.forward <=> \E L \in KeysOf(N, S) : ~ Defined(N, S, L) /\ E[L] = c
  BY DEF ParserOK, MeaningsOK
<1>5. g \in Entity
  BY <1>3, <1>4
<1>6. \A L \in KeysOf(N, S) : E[L] # e
  <2>1. \A L \in KeysOf(N, S) : Defined(N, S, L) => \E y \in S : E[L] = y.what
    BY <1>4 DEF Defined
  <2>2. \A L \in KeysOf(N, S) : ~ Defined(N, S, L) => E[L] \in t.forward
    BY <1>4
  <2> QED BY <2>1, <2>2
<1>7. /\ KeysOf(N, T) = KeysOf(N, S) \cup {K}
      /\ \A L : Defined(N, T, L) <=> Defined(N, S, L)
      /\ \A y \in S : Key(N, y) \in KeysOf(N, S)
  BY <1>1, NotedLemma
<1>8. F = [L \in KeysOf(N, T) |-> IF L = K THEN g ELSE E[L]]
  BY DEF Assigned
<1>9. \A L \in KeysOf(N, S) : F[L] = E[L]
  BY <1>3, <1>7, <1>8
<1>10. F[K] = g
  BY <1>7, <1>8
<1> DEFINE there == IF known THEN t ELSE Put([t EXCEPT !.forward = @ \cup {e}], k, id, e)
           v == [t EXCEPT !.forward = @ \cup {e}]
<1>11. /\ Renamed(t, k, id, g, there)
       /\ there.forward = (IF known THEN t.forward ELSE t.forward \cup {e})
       /\ there.refers = t.refers /\ there.outcome = t.outcome /\ there \in TrackerSet
  <2>1. CASE known
    <3>1. there = t
      BY <2>1
    <3>2. DOMAIN f = DOMAIN f \cup {id} /\ f[id] = g /\ \A m \in DOMAIN f : m # id => f[m] = f[m]
      BY <2>1
    <3>3. Renamed(t, k, id, g, t)
      BY <1>1, <3>2 DEF Renamed
    <3> QED BY <1>1, <2>1, <3>1, <3>3
  <2>2. CASE ~ known
    <3>1. v \in TrackerSet /\ v.scopes = t.scopes /\ v.forward = t.forward \cup {e} /\ v.refers = t.refers /\ v.outcome = t.outcome
      BY <1>1 DEF TrackerSet
    <3>2. there = Put(v, k, id, g) /\ g = e
      BY <2>2
    <3> HIDE DEF v, there, g, f
    <3>3. Len(v.scopes[k]) # 0
      BY <1>2, <3>1
    <3>4. /\ Renamed(v, k, id, g, Put(v, k, id, g)) /\ Put(v, k, id, g).forward = v.forward
          /\ Put(v, k, id, g).refers = v.refers /\ Put(v, k, id, g).outcome = v.outcome
      BY <1>1, <1>5, <3>1, <3>3, PutLemma
    <3>5. Renamed(t, k, id, g, there)
      BY <3>1, <3>2, <3>4 DEF Renamed
    <3>6. there \in TrackerSet
      BY <3>5 DEF Renamed
    <3> QED BY <2>2, <3>1, <3>2, <3>4, <3>5, <3>6
  <2> QED BY <2>1, <2>2
<1>12. Last(there.scopes[k])[id] = g
  <2>1. Len(there.scopes[k]) = n /\ there.scopes[k][n][id] = g
    BY <1>1, <1>11 DEF Renamed
  <2> QED BY <2>1 DEF Last
<1>13. /\ u \in TrackerSet /\ u.scopes = there.scopes /\ u.forward = there.forward /\ u.outcome = t.outcome
       /\ u.refers = [w \in DOMAIN t.refers \cup {x.what} |-> IF w = x.what THEN g ELSE t.refers[w]]
  <2> DEFINE rf == [w \in DOMAIN there.refers \cup {x.what} |-> IF w = x.what THEN Scope(there, k)[id] ELSE there.refers[w]]
  <2> DEFINE at == IF id \in DOMAIN Scope(t, k) THEN t ELSE Put([t EXCEPT !.forward = @ \cup {e}], k, id, e)
  <2>3. at = there
    BY DEF Scope, Last
  <2>4. u = [at EXCEPT !.refers = [w \in DOMAIN @ \cup {x.what} |-> IF w = x.what THEN Scope(at, k)[id] ELSE @[w]]]
    BY DEF use
  <2> HIDE DEF at, there, u
  <2>5. u = [there EXCEPT !.refers = [w \in DOMAIN @ \cup {x.what} |-> IF w = x.what THEN Scope(there, k)[id] ELSE @[w]]]
    BY <2>3, <2>4
  <2>1. u = [there EXCEPT !.refers = rf]
    BY <2>5
  <2>2. rf = [w \in DOMAIN t.refers \cup {x.what} |-> IF w = x.what THEN g ELSE t.refers[w]]
    BY <1>11, <1>12 DEF Scope
  <2> HIDE DEF rf, u, there
  <2>6. rf \in UNION {[D -> Entity] : D \in SUBSET UseSite}
    <3>1. PICK D \in SUBSET UseSite : t.refers \in [D -> Entity]
      BY <1>1 DEF TrackerSet
    <3>2. rf \in [D \cup {x.what} -> Entity]
      BY <1>5, <2>2, <3>1
    <3> QED BY <3>1, <3>2
  <2> QED BY <1>11, <2>1, <2>2, <2>6 DEF TrackerSet
<1> HIDE DEF F, T, K, g, u, there, f, known
<1>14. Renamed(t, k, id, g, u)
  BY <1>11, <1>13, RenamedSame
<1>15. StackOK(N, O, u, p) /\ ScopesOK(N, O, T, u, F, p)
  BY <1>5, <1>14, RenamedLemma DEF T, F
<1>16. \A y \in T : y = x \/ y \in S
  BY DEF T
<1>17. MeaningsOK(N, T, u, F)
  <2>1. F \in [KeysOf(N, T) -> Entity]
    BY <1>4, <1>5, <1>7, <1>8
  <2>2. \A L, M \in KeysOf(N, T) : F[L] = F[M] => L = M
    <3>1. ~ known => g = e
      BY DEF g
    <3>2. \A L \in KeysOf(N, T) : L \in KeysOf(N, S) \/ (L = K /\ ~ known /\ F[L] = e)
      BY <1>3, <1>7, <1>10, <3>1
    <3> QED BY <1>4, <1>6, <1>9, <3>2
  <2>3. \A y, z \in T : y.what = z.what => y = z
    <3>1. \A y \in S : y.what # x.what
      BY <1>4
    <3> QED BY <1>4, <1>16, <3>1
  <2>4. \A y \in T : y.what \in Entity => F[Key(N, y)] = y.what
    BY <1>1, <1>4, <1>7, <1>9, <1>16
  <2>5. ASSUME NEW y \in T, y.what \in UseSite
        PROVE  y.what \in DOMAIN u.refers /\ u.refers[y.what] = F[Key(N, y)]
    <3>1. CASE y = x
      BY <1>10, <1>13, <3>1 DEF K
    <3>2. CASE y \in S
      <4>1. y.what \in DOMAIN t.refers /\ t.refers[y.what] = E[Key(N, y)] /\ y.what # x.what
        BY <1>4, <2>5, <3>2
      <4> QED BY <1>7, <1>9, <1>13, <3>2, <4>1
    <3> QED BY <1>16, <2>5, <3>1, <3>2
  <2>6. \A c \in Entity : c \in u.forward <=> \E L \in KeysOf(N, T) : ~ Defined(N, T, L) /\ F[L] = c
    <3> SUFFICES ASSUME NEW c \in Entity
                 PROVE  c \in u.forward <=> \E L \in KeysOf(N, T) : ~ Defined(N, T, L) /\ F[L] = c
      OBVIOUS
    <3>1. CASE known
      <4>1. KeysOf(N, T) = KeysOf(N, S) /\ u.forward = t.forward
        BY <1>3, <1>7, <1>11, <1>13, <3>1
      <4> QED BY <1>4, <1>7, <1>9, <4>1
    <3>2. CASE ~ known
      <4>1. u.forward = t.forward \cup {e} /\ F[K] = e /\ K \notin KeysOf(N, S)
        BY <1>3, <1>10, <1>11, <1>13, <3>2 DEF g
      <4>2. ~ Defined(N, S, K)
        BY <1>7, <4>1 DEF Defined
      <4>3. c \in u.forward => \E L \in KeysOf(N, T) : ~ Defined(N, T, L) /\ F[L] = c
        BY <1>4, <1>7, <1>9, <4>1, <4>2
      <4>4. ASSUME NEW L \in KeysOf(N, T), ~ Defined(N, T, L), F[L] = c PROVE c \in u.forward
        BY <1>4, <1>7, <1>9, <4>1, <4>4
      <4> QED BY <4>3, <4>4
    <3> QED BY <3>1, <3>2
  <2> QED BY <2>1, <2>2, <2>3, <2>4, <2>5, <2>6 DEF MeaningsOK
<1>18. PendingOK(N, O, T)
  <2> SUFFICES ASSUME NEW L \in KeysOf(N, T), ~ Defined(N, T, L)
               PROVE  \E i \in 1..Len(O) : Owner(N, L.kind, O[i]) = L.region
    BY DEF PendingOK
  <2>1. CASE L \in KeysOf(N, S)
    BY <1>7, <2>1 DEF ParserOK, PendingOK
  <2>2. CASE L = K
    <3>1. L.kind = k /\ L.region = Owner(N, k, O[Len(O)])
      BY <1>1, <2>2, KeyLemma
    <3> QED BY <1>1, <3>1
  <2> QED BY <1>7, <2>1, <2>2
<1>19. T \subseteq NoteSet(N) /\ NestsOK(N)
  BY <1>1 DEF T, ParserOK
<1>20. ParserOK(N, O, T, u, F, p)
  BY <1>13, <1>15, <1>17, <1>18, <1>19 DEF ParserOK
<1> QED BY <1>20 DEF T, u

\* A definition: what uses of its name refer to becomes the definition, if that is a
\* placeholder, and it is an error otherwise.
Twice(N, S) == \E x, y \in S : x.what \in Entity /\ y.what \in Entity /\ x # y /\ Key(N, x) = Key(N, y)
DefinedOK(N, O, S, t, u, p) ==
    /\ u \in TrackerSet /\ u.forward \subseteq t.forward
    /\ u.outcome \in {"parsing", "MultipleDefinitions"}
    /\ u.outcome = "parsing" => \E F : ParserOK(N, O, S, u, F, p)
    /\ u.outcome = "MultipleDefinitions" => Twice(N, S)

LEMMA DefineLemma ==
    ASSUME NEW N, NEW O, NEW S, NEW t, NEW E, NEW p, ParserOK(N, O, S, t, E, p), O # <<>>, t.outcome = "parsing",
           NEW x \in NoteSet(N), x.region = O[Len(O)], x.what \in Entity,
           x.what \notin t.forward, \A y \in S : y.what # x.what
    PROVE  DefinedOK(N, O, S \cup {x}, t, define(t, x.kind, x.id, x.what), p)
<1> DEFINE k == x.kind
           id == x.id
           e == x.what
           K == Key(N, x)
           T == S \cup {x}
           n == Len(t.scopes[k])
           f == t.scopes[k][n]
           known == id \in DOMAIN f
           old == IF known THEN f[id] ELSE e
           F == Assigned(N, S, E, x, e)
           u == define(t, k, id, e)
<1>1. /\ k \in Kinds /\ id \in Id /\ t \in TrackerSet /\ Len(O) \in 1..Len(O) /\ S \subseteq NoteSet(N)
      /\ K = KeyFor(k, id, Owner(N, k, O[Len(O)])) /\ x.what \notin UseSite
  BY EntityAssumption DEF NoteSet, Key, ParserOK, StackOK
<1>2. n # 0 /\ p[k][Len(O)] = n /\ n \in Nat
  BY <1>1 DEF ParserOK, StackOK, TrackerSet
<1>3. /\ known <=> K \in KeysOf(N, S)
      /\ known => f[id] = E[K]
  <2>1. ScopeFor(N, S, E, k, Owner(N, k, O[Len(O)]), f)
    BY <1>1, <1>2 DEF ParserOK, ScopesOK
  <2> QED BY <1>1, <2>1 DEF ScopeFor
<1>4. /\ E \in [KeysOf(N, S) -> Entity]
      /\ \A L, M \in KeysOf(N, S) : E[L] = E[M] => L = M
      /\ \A y, z \in S : y.what = z.what => y = z
      /\ \A y \in S : y.what \in Entity => E[Key(N, y)] = y.what
      /\ \A y \in S : y.what \in UseSite => y.what \in DOMAIN t.refers /\ t.refers[y.what] = E[Key(N, y)]
      /\ \A c \in Entity : c \in t.forward <=> \E L \in KeysOf(N, S) : ~ Defined(N, S, L) /\ E[L] = c
  BY DEF ParserOK, MeaningsOK
<1>5. \A L \in KeysOf(N, S) : E[L] # e
  <2>1. \A L \in KeysOf(N, S) : Defined(N, S, L) => \E y \in S : E[L] = y.what
    BY <1>4 DEF Defined
  <2>2. \A L \in KeysOf(N, S) : ~ Defined(N, S, L) => E[L] \in t.forward
    BY <1>4
  <2> QED BY <2>1, <2>2
<1>6. /\ KeysOf(N, T) = KeysOf(N, S) \cup {K}
      /\ \A L : Defined(N, T, L) <=> Defined(N, S, L) \/ L = K
      /\ \A y \in S : Key(N, y) \in KeysOf(N, S)
  BY NotedLemma
<1>7. \A y \in T : y = x \/ y \in S
  OBVIOUS
<1>8. u = IF known /\ old \notin t.forward THEN [t EXCEPT !.outcome = "MultipleDefinitions"]
          ELSE [Put(t, k, id, e) EXCEPT !.forward = @ \ {old},
                                        !.refers = [w \in DOMAIN @ |-> IF @[w] = old THEN e ELSE @[w]]]
  BY DEF define, Scope, Last
<1> HIDE DEF u, old, known, T, K
<1>9. CASE known /\ old \notin t.forward
  <2>1. u \in TrackerSet /\ u.forward = t.forward /\ u.outcome = "MultipleDefinitions"
    BY <1>1, <1>8, <1>9 DEF TrackerSet
  <2>2. Defined(N, S, K)
    <3>1. K \in KeysOf(N, S) /\ E[K] = old /\ old \in Entity
      BY <1>3, <1>4, <1>9 DEF old
    <3> QED BY <1>4, <1>9, <3>1
  <2>3. PICK y \in S : y.what \in Entity /\ Key(N, y) = K
    BY <2>2 DEF Defined
  <2>4. y # x /\ x \in T /\ y \in T /\ Key(N, x) = Key(N, y)
    BY <2>3 DEF K, T
  <2>5. Twice(N, T)
    BY <2>3, <2>4 DEF Twice
  <2> QED BY <2>1, <2>5 DEF DefinedOK, u, T
<1>10. CASE ~ (known /\ old \notin t.forward)
  <2>1. K \in KeysOf(N, S) => old = E[K] /\ old \in t.forward /\ ~ Defined(N, S, K)
    <3>1. K \in KeysOf(N, S) => old = E[K] /\ old \in t.forward
      BY <1>3, <1>10 DEF old
    <3>2. ASSUME K \in KeysOf(N, S) PROVE ~ Defined(N, S, K)
      <4>1. E[K] \in Entity /\ E[K] \in t.forward
        BY <1>4, <3>1, <3>2
      <4>2. PICK L \in KeysOf(N, S) : ~ Defined(N, S, L) /\ E[L] = E[K]
        BY <1>4, <4>1
      <4> QED BY <1>4, <3>2, <4>2
    <3> QED BY <3>1, <3>2
  <2>2. K \notin KeysOf(N, S) => old = e /\ ~ Defined(N, S, K)
    BY <1>3, <1>6 DEF old, Defined
  <2> DEFINE v == Put(t, k, id, e)
  <2>3. Renamed(t, k, id, e, v) /\ v.forward = t.forward /\ v.refers = t.refers /\ v.outcome = t.outcome /\ v \in TrackerSet
    <3>1. Renamed(t, k, id, e, v) /\ v.forward = t.forward /\ v.refers = t.refers /\ v.outcome = t.outcome
      BY <1>1, <1>2, PutLemma
    <3> HIDE DEF v
    <3> QED BY <3>1 DEF Renamed
  <2> HIDE DEF v
  <2> DEFINE rf == [w \in DOMAIN t.refers |-> IF t.refers[w] = old THEN e ELSE t.refers[w]]
  <2>4. u = [v EXCEPT !.forward = @ \ {old}, !.refers = rf]
    BY <1>8, <1>10, <2>3 DEF v
  <2>5. rf \in UNION {[D -> Entity] : D \in SUBSET UseSite}
    <3>1. PICK D \in SUBSET UseSite : t.refers \in [D -> Entity]
      BY <1>1 DEF TrackerSet
    <3>2. rf \in [D -> Entity]
      BY <3>1
    <3> QED BY <3>1, <3>2
  <2> HIDE DEF rf
  <2>6. /\ u \in TrackerSet /\ u.scopes = v.scopes /\ u.forward = t.forward \ {old} /\ u.outcome = "parsing" /\ u.refers = rf
    BY <2>3, <2>4, <2>5 DEF TrackerSet
  <2>7. Renamed(t, k, id, e, u)
    BY <2>3, <2>6, RenamedSame
  <2>8. StackOK(N, O, u, p) /\ ScopesOK(N, O, T, u, F, p)
    BY <2>7, RenamedLemma DEF T
  <2>9. F = [L \in KeysOf(N, T) |-> IF L = K THEN e ELSE E[L]]
    BY DEF Assigned, K, T
  <2> HIDE DEF F
  <2>10. F[K] = e /\ \A L \in KeysOf(N, S) : L # K => F[L] = E[L]
    BY <1>6, <2>9
  <2>11. MeaningsOK(N, T, u, F)
    <3>1. F \in [KeysOf(N, T) -> Entity]
      BY <1>4, <1>6, <2>9
    <3>2. \A L, M \in KeysOf(N, T) : F[L] = F[M] => L = M
      BY <1>4, <1>5, <1>6, <2>10
    <3>3. \A y, z \in T : y.what = z.what => y = z
      BY <1>4, <1>7
    <3>4. \A y \in T : y.what \in Entity => F[Key(N, y)] = y.what
      <4> SUFFICES ASSUME NEW y \in T, y.what \in Entity PROVE F[Key(N, y)] = y.what
        OBVIOUS
      <4>1. CASE y = x
        BY <2>10, <4>1 DEF K
      <4>2. CASE y \in S
        <5>1. Key(N, y) # K
          BY <2>1, <2>2, <4>2 DEF Defined
        <5> QED BY <1>4, <1>6, <2>10, <4>2, <5>1
      <4> QED BY <1>7, <4>1, <4>2
    <3>5. ASSUME NEW y \in T, y.what \in UseSite
          PROVE  y.what \in DOMAIN u.refers /\ u.refers[y.what] = F[Key(N, y)]
      <4>1. y \in S
        BY <1>1, <1>7, <3>5
      <4>2. y.what \in DOMAIN t.refers /\ t.refers[y.what] = E[Key(N, y)] /\ Key(N, y) \in KeysOf(N, S)
        BY <1>4, <1>6, <3>5, <4>1
      <4>3. u.refers[y.what] = (IF t.refers[y.what] = old THEN e ELSE t.refers[y.what]) /\ y.what \in DOMAIN u.refers
        BY <2>6, <4>2 DEF rf
      <4>4. CASE Key(N, y) = K
        BY <2>1, <2>10, <4>2, <4>3, <4>4
      <4>5. CASE Key(N, y) # K
        <5>1. E[Key(N, y)] # old
          BY <1>4, <1>5, <2>1, <2>2, <4>2, <4>5
        <5> QED BY <2>10, <4>2, <4>3, <4>5, <5>1
      <4> QED BY <4>4, <4>5
    <3>6. \A c \in Entity : c \in u.forward <=> \E L \in KeysOf(N, T) : ~ Defined(N, T, L) /\ F[L] = c
      <4> SUFFICES ASSUME NEW c \in Entity
                   PROVE  c \in u.forward <=> \E L \in KeysOf(N, T) : ~ Defined(N, T, L) /\ F[L] = c
        OBVIOUS
      <4>1. ASSUME c \in u.forward PROVE \E L \in KeysOf(N, T) : ~ Defined(N, T, L) /\ F[L] = c
        <5>1. c \in t.forward /\ c # old
          BY <2>6, <4>1
        <5>2. PICK L \in KeysOf(N, S) : ~ Defined(N, S, L) /\ E[L] = c
          BY <1>4, <5>1
        <5>3. L # K
          BY <2>1, <5>1, <5>2
        <5> QED BY <1>6, <2>10, <5>2, <5>3
      <4>2. ASSUME NEW L \in KeysOf(N, T), ~ Defined(N, T, L), F[L] = c PROVE c \in u.forward
        <5>1. L # K /\ L \in KeysOf(N, S) /\ ~ Defined(N, S, L) /\ E[L] = c
          BY <1>6, <2>10, <4>2
        <5>2. c \in t.forward
          BY <1>4, <5>1
        <5>3. c # old
          BY <1>4, <1>5, <2>1, <2>2, <5>1
        <5> QED BY <2>6, <5>2, <5>3
      <4> QED BY <4>1, <4>2
    <3> QED BY <3>1, <3>2, <3>3, <3>4, <3>5, <3>6 DEF MeaningsOK
  <2>12. PendingOK(N, O, T)
    BY <1>6 DEF ParserOK, PendingOK
  <2>13. T \subseteq NoteSet(N) /\ NestsOK(N)
    BY <1>1 DEF T, ParserOK
  <2>14. ParserOK(N, O, T, u, F, p)
    BY <2>6, <2>8, <2>11, <2>12, <2>13 DEF ParserOK
  <2>15. u.forward \subseteq t.forward
    BY <2>6
  <2>16. DefinedOK(N, O, T, t, u, p)
    BY <2>6, <2>14, <2>15 DEF DefinedOK
  <2> QED BY <2>16 DEF T, u
<1> QED BY <1>9, <1>10

\* The arguments of a block, one after another.
ArgumentNote(O, a) == [what |-> a[2], kind |-> "ssa", id |-> a[1], region |-> O[Len(O)]]
ArgumentNotes(O, args, n) == {ArgumentNote(O, args[i]) : i \in 1..n}
Defining(t, args, G) ==
    [i \in 0..Len(args) |->
        IF i = 0 THEN t
        ELSE IF G[i - 1].outcome = "parsing" THEN define(G[i - 1], "ssa", args[i][1], args[i][2]) ELSE G[i - 1]]
DefiningUpTo(t, args, n, G) ==
    [i \in 0..n |->
        IF i = 0 THEN t
        ELSE IF G[i - 1].outcome = "parsing" THEN define(G[i - 1], "ssa", args[i][1], args[i][2]) ELSE G[i - 1]]

LEMMA DefiningExists ==
    ASSUME NEW t, NEW args, Len(args) \in Nat
    PROVE  \E G : G = Defining(t, args, G)
<1> DEFINE Next1(u, i) == IF u.outcome = "parsing" THEN define(u, "ssa", args[i][1], args[i][2]) ELSE u
           len == Len(args)
           Ok(n) == \E G : G = DefiningUpTo(t, args, n, G)
           Q == {n \in 0..len : Ok(n)}
<1>1. 0 \in Q
  <2>1. [i \in 0..0 |-> t] = DefiningUpTo(t, args, 0, [i \in 0..0 |-> t])
    BY DEF DefiningUpTo
  <2> QED BY <2>1
<1>2. ASSUME NEW n \in 0..len, n < len, n \in Q PROVE n + 1 \in Q
  <2>1. PICK G : G = DefiningUpTo(t, args, n, G)
    BY <1>2
  <2> DEFINE H == [j \in 0..(n + 1) |-> IF j = n + 1 THEN Next1(G[n], n + 1) ELSE G[j]]
  <2>2. ASSUME NEW j \in 0..(n + 1)
        PROVE  H[j] = IF j = 0 THEN t ELSE Next1(H[j - 1], j)
    <3>1. H[j] = (IF j = n + 1 THEN Next1(G[n], n + 1) ELSE G[j]) /\ (j # 0 => H[j - 1] = G[j - 1])
      <4> HIDE DEF Next1
      <4>1. H[j] = (IF j = n + 1 THEN Next1(G[n], n + 1) ELSE G[j])
        OBVIOUS
      <4>2. j # 0 => j - 1 \in 0..(n + 1) /\ j - 1 # n + 1
        BY <1>2
      <4> QED BY <4>1, <4>2
    <3>2. j # n + 1 => G[j] = IF j = 0 THEN t ELSE Next1(G[j - 1], j)
      <4>1. j # n + 1 => j \in 0..n
        OBVIOUS
      <4>2. \A i \in 0..n : DefiningUpTo(t, args, n, G)[i] = IF i = 0 THEN t ELSE Next1(G[i - 1], i)
        BY DEF DefiningUpTo
      <4> HIDE DEF Next1
      <4> QED BY <2>1, <4>1, <4>2
    <3> HIDE DEF Next1, H
    <3>3. CASE j = n + 1
      BY <1>2, <3>1, <3>3
    <3>4. CASE j # n + 1
      BY <3>1, <3>2, <3>4
    <3> QED BY <3>3, <3>4
  <2>3. H = [j \in 0..(n + 1) |-> H[j]]
    OBVIOUS
  <2> HIDE DEF H
  <2>4. H = DefiningUpTo(t, args, n + 1, H)
    BY <2>2, <2>3 DEF DefiningUpTo
  <2>5. n + 1 \in 0..len
    BY <1>2
  <2> QED BY <2>4, <2>5
<1> HIDE DEF Q
<1>3. 0..len \subseteq Q
  BY <1>1, <1>2, UpTo
<1>4. len \in Q
  BY <1>3
<1> QED BY <1>4 DEF Q, Defining, DefiningUpTo

LEMMA ArgumentsLemma ==
    ASSUME NEW N, NEW O, NEW S, NEW t, NEW E, NEW p, ParserOK(N, O, S, t, E, p), O # <<>>, t.outcome = "parsing",
           NEW args, Len(args) \in Nat, \A i \in 1..Len(args) : args[i][1] \in Id /\ args[i][2] \in Entity,
           \A i \in 1..Len(args) : args[i][2] \notin t.forward /\ \A y \in S : y.what # args[i][2],
           \A i, j \in 1..Len(args) : args[i][2] = args[j][2] => i = j
    PROVE  DefinedOK(N, O, S \cup ArgumentNotes(O, args, Len(args)), t, Arguments(t, args), p)
<1> DEFINE C(H) == H = Defining(t, args, H)
           G == CHOOSE H : C(H)
           T(n) == S \cup ArgumentNotes(O, args, n)
           len == Len(args)
           Q == {n \in 0..len : DefinedOK(N, O, T(n), t, G[n], p)}
<1>1. Arguments(t, args) = G[len]
  BY Zenon DEF Arguments, Defining
<1>2. C(G)
  <2>1. \E H : C(H)
    BY DefiningExists
  <2> HIDE DEF C
  <2> QED BY <2>1
<1> HIDE DEF G
<1>3. /\ G[0] = t
      /\ \A n \in 0..len : n < len => G[n + 1] = IF G[n].outcome = "parsing" THEN define(G[n], "ssa", args[n + 1][1], args[n + 1][2]) ELSE G[n]
  BY <1>2 DEF Defining
<1>4. 0 \in Q
  <2>1. T(0) = S
    BY DEF ArgumentNotes
  <2>2. t \in TrackerSet
    BY DEF ParserOK
  <2>3. DefinedOK(N, O, S, t, t, p)
    BY <2>2 DEF DefinedOK
  <2> HIDE DEF T
  <2> QED BY <1>3, <2>1, <2>3
<1>5. ASSUME NEW n \in 0..len, n < len, n \in Q PROVE n + 1 \in Q
  <2> DEFINE x == ArgumentNote(O, args[n + 1])
             u == G[n]
  <2>1. n + 1 \in 1..len /\ n + 1 \in 0..len /\ DefinedOK(N, O, T(n), t, u, p)
    BY <1>5
  <2>2. T(n + 1) = T(n) \cup {x}
    <3>1. \A i : i \in 1..(n + 1) <=> i \in 1..n \/ i = n + 1
      BY <1>5
    <3> QED BY <3>1 DEF ArgumentNotes
  <2>3. x.what = args[n + 1][2] /\ x.kind = "ssa" /\ x.id = args[n + 1][1] /\ x.region = O[Len(O)]
    BY DEF ArgumentNote
  <2>4. \A y \in T(n) : y.what # x.what
    <3> SUFFICES ASSUME NEW i \in 1..n PROVE ArgumentNote(O, args[i]).what # x.what
      BY <2>1, <2>3 DEF ArgumentNotes
    <3>1. i \in 1..len /\ i # n + 1
      BY <1>5
    <3> QED BY <2>1, <2>3, <3>1 DEF ArgumentNote
  <2>5. x \in NoteSet(N)
    <3>1. O[Len(O)] \in DOMAIN N
      BY DEF ParserOK, StackOK
    <3> QED BY <2>1, <3>1 DEF NoteSet, ArgumentNote, Kinds
  <2>6. x.what \notin u.forward /\ x.what \in Entity
    BY <2>1, <2>3 DEF DefinedOK
  <2> HIDE DEF x, u, T
  <2>7. CASE u.outcome = "parsing"
    <3>1. PICK F : ParserOK(N, O, T(n), u, F, p)
      BY <2>1, <2>7 DEF DefinedOK
    <3>2. DefinedOK(N, O, T(n) \cup {x}, u, define(u, x.kind, x.id, x.what), p)
      BY <2>3, <2>4, <2>5, <2>6, <2>7, <3>1, DefineLemma
    <3>3. G[n + 1] = define(u, x.kind, x.id, x.what)
      BY <1>3, <1>5, <2>3, <2>7 DEF u
    <3>4. DefinedOK(N, O, T(n + 1), u, G[n + 1], p)
      BY <2>2, <3>2, <3>3
    <3>5. u.forward \subseteq t.forward
      BY <2>1 DEF DefinedOK
    <3>6. DefinedOK(N, O, T(n + 1), t, G[n + 1], p)
      BY <3>4, <3>5 DEF DefinedOK
    <3> QED BY <2>1, <3>6
  <2>8. CASE u.outcome # "parsing"
    <3>1. G[n + 1] = u
      BY <1>3, <1>5, <2>8 DEF u
    <3>2. Twice(N, T(n)) /\ u.outcome = "MultipleDefinitions"
      BY <2>1, <2>8 DEF DefinedOK
    <3>3. Twice(N, T(n + 1))
      BY <2>2, <3>2 DEF Twice
    <3>4. DefinedOK(N, O, T(n + 1), t, G[n + 1], p)
      BY <2>1, <2>8, <3>1, <3>2, <3>3 DEF DefinedOK
    <3> QED BY <2>1, <3>4
  <2> QED BY <2>7, <2>8
<1> HIDE DEF Q
<1>6. 0..len \subseteq Q
  BY <1>4, <1>5, UpTo
<1>7. len \in Q
  BY <1>6
<1> QED BY <1>1, <1>7 DEF Q

\* A region ends: the names it owns must have been defined.
ClosedScopes(N, O, t) ==
    [t EXCEPT !.scopes = [k \in Kinds |-> IF OpensScope(N, k, O[Len(O)]) THEN Front(t.scopes[k]) ELSE t.scopes[k]],
              !.outcome = IF \E k \in Kinds : OpensScope(N, k, O[Len(O)]) /\ Unresolved(t, k) THEN "UnresolvedReference" ELSE @]

LEMMA ExitLemma ==
    ASSUME NEW N, NEW O, NEW S, NEW t, NEW E, NEW p, ParserOK(N, O, S, t, E, p), O # <<>>, t.outcome = "parsing",
           NEW u, u = ClosedScopes(N, O, t)
    PROVE  /\ u \in TrackerSet /\ u.outcome \in {"parsing", "UnresolvedReference"}
           /\ u.outcome = "parsing" => \E q : ParserOK(N, Front(O), S, u, E, q)
           /\ u.outcome = "UnresolvedReference" => \E K \in KeysOf(N, S) : ~ Defined(N, S, K)
<1> DEFINE L == Len(O)
           last == O[L]
           P == Front(O)
           sc == [k \in Kinds |-> IF OpensScope(N, k, last) THEN Front(t.scopes[k]) ELSE t.scopes[k]]
           failed == \E k \in Kinds : OpensScope(N, k, last) /\ Unresolved(t, k)
           q == [k \in Kinds |-> [i \in 1..(L - 1) |-> p[k][i]]]
<1>1. /\ O \in Seq(DOMAIN N) /\ L \in Nat /\ L # 0 /\ L \in 1..L /\ t \in TrackerSet
      /\ StackOK(N, O, t, p) /\ ScopesOK(N, O, S, t, E, p) /\ MeaningsOK(N, S, t, E)
  BY DEF ParserOK, StackOK
<1>2. /\ P \in Seq(DOMAIN N) /\ Len(P) = L - 1 /\ \A i \in 1..(L - 1) : P[i] = O[i]
  BY <1>1, FrontLemma
<1>3. \A k \in Kinds : /\ t.scopes[k] \in Seq(ScopeSet) /\ Len(t.scopes[k]) \in Nat /\ Len(t.scopes[k]) # 0
                       /\ p[k][L] = Len(t.scopes[k])
  BY <1>1 DEF StackOK, TrackerSet
<1>4. \A k \in Kinds : OpensScope(N, k, last) =>
         /\ sc[k] \in Seq(ScopeSet) /\ Len(sc[k]) = Len(t.scopes[k]) - 1
         /\ \A i \in 1..(Len(t.scopes[k]) - 1) : sc[k][i] = t.scopes[k][i]
  BY <1>3, FrontLemma
<1>5. \A k \in Kinds : ~ OpensScope(N, k, last) => sc[k] = t.scopes[k]
  OBVIOUS
<1>6. sc \in [Kinds -> Seq(ScopeSet)]
  <2>1. \A k \in Kinds : sc[k] \in Seq(ScopeSet)
    BY <1>3, <1>4, <1>5
  <2> HIDE DEF last
  <2> QED BY <2>1
<1>7. u = [t EXCEPT !.scopes = sc, !.outcome = IF failed THEN "UnresolvedReference" ELSE @]
  BY DEF ClosedScopes
<1> HIDE DEF sc, P, failed
<1>8. /\ u \in TrackerSet /\ u.scopes = sc /\ u.forward = t.forward /\ u.refers = t.refers
      /\ u.outcome = IF failed THEN "UnresolvedReference" ELSE "parsing"
  BY <1>1, <1>6, <1>7 DEF TrackerSet
<1>9. \A k \in Kinds : LET f == t.scopes[k][Len(t.scopes[k])]
                       IN  f \in ScopeSet /\ ScopeFor(N, S, E, k, Owner(N, k, last), f)
  <2> SUFFICES ASSUME NEW k \in Kinds
               PROVE  /\ t.scopes[k][Len(t.scopes[k])] \in ScopeSet
                      /\ ScopeFor(N, S, E, k, Owner(N, k, last), t.scopes[k][Len(t.scopes[k])])
    OBVIOUS
  <2>1. Len(t.scopes[k]) \in 1..Len(t.scopes[k])
    BY <1>3
  <2>2. t.scopes[k][p[k][L]] = t.scopes[k][Len(t.scopes[k])]
    BY <1>3
  <2> QED BY <1>1, <1>3, <2>1, <2>2 DEF ScopesOK
<1>10. ASSUME failed PROVE \E K \in KeysOf(N, S) : ~ Defined(N, S, K)
  <2>1. PICK k \in Kinds : Unresolved(t, k)
    BY <1>10 DEF failed
  <2> DEFINE f == t.scopes[k][Len(t.scopes[k])]
  <2>2. PICK id \in DOMAIN f : f[id] \in t.forward
    BY <2>1 DEF Unresolved, Scope, Last
  <2>3. f[id] \in Entity
    BY <1>1, <2>2 DEF TrackerSet
  <2> QED BY <1>1, <2>2, <2>3 DEF MeaningsOK
<1>11. ASSUME ~ failed PROVE ParserOK(N, P, S, u, E, q)
  <2>1. StackOK(N, P, u, q)
    <3>1. q \in [Kinds -> [1..Len(P) -> Nat]]
      BY <1>1, <1>2 DEF StackOK
    <3>2. \A k \in Kinds, i \in 1..(L - 1) : q[k][i] = p[k][i] /\ P[i] = O[i] /\ i \in 1..L
      BY <1>1, <1>2
    <3> HIDE DEF q
    <3>3. ASSUME NEW k \in Kinds
          PROVE  /\ P = <<>> => u.scopes[k] = <<>>
                 /\ P # <<>> => q[k][Len(P)] = Len(u.scopes[k]) /\ q[k][1] = 1 /\ OpensScope(N, k, P[1])
                 /\ \A i \in 1..Len(P) : q[k][i] \in 1..Len(u.scopes[k])
                 /\ \A i, j \in 1..Len(P) : q[k][i] = q[k][j] <=> Owner(N, k, P[i]) = Owner(N, k, P[j])
                 /\ \A i, j \in 1..Len(P) : i <= j => q[k][i] <= q[k][j]
                 /\ \A i \in 1..Len(P) : i > 1 =>
                       q[k][i] = IF OpensScope(N, k, P[i]) THEN q[k][i - 1] + 1 ELSE q[k][i - 1]
      <4> DEFINE c == Len(t.scopes[k])
                 c1 == Len(u.scopes[k])
      <4>1. /\ p[k][L] = c /\ p[k][1] = 1 /\ OpensScope(N, k, O[1]) /\ c \in Nat
            /\ \A i \in 1..L : p[k][i] \in 1..c
            /\ \A i, j \in 1..L : p[k][i] = p[k][j] <=> Owner(N, k, O[i]) = Owner(N, k, O[j])
            /\ \A i, j \in 1..L : i <= j => p[k][i] <= p[k][j]
            /\ \A i \in 1..L : i > 1 => p[k][i] = IF OpensScope(N, k, O[i]) THEN p[k][i - 1] + 1 ELSE p[k][i - 1]
        BY <1>1, <1>3, <3>3 DEF StackOK
      <4>2. c1 = (IF OpensScope(N, k, last) THEN c - 1 ELSE c) /\ u.scopes[k] \in Seq(ScopeSet) /\ c1 \in Nat
        BY <1>3, <1>4, <1>5, <1>6, <1>8, <3>3
      <4>3. L > 1 => p[k][L - 1] = c1
        <5> HAVE L > 1
        <5>1. p[k][L] = IF OpensScope(N, k, last) THEN p[k][L - 1] + 1 ELSE p[k][L - 1]
          BY <1>1, <4>1
        <5>2. p[k][L - 1] \in Nat
          <6>1. L - 1 \in 1..L
            BY <1>1
          <6> QED BY <4>1, <6>1
        <5>3. p[k][L] = c /\ c \in Nat
          BY <4>1
        <5> HIDE DEF c, c1, last
        <5>4. CASE OpensScope(N, k, last)
          BY <4>2, <5>1, <5>2, <5>3, <5>4
        <5>5. CASE ~ OpensScope(N, k, last)
          BY <4>2, <5>1, <5>2, <5>3, <5>5
        <5> QED BY <5>4, <5>5
      <4>4. P = <<>> => L = 1
        <5>1. P = <<>> => Len(P) = 0
          OBVIOUS
        <5> QED BY <1>1, <1>2, <5>1
      <4>5. L = 1 => c1 = 0
        <5> HAVE L = 1
        <5>1. c = 1 /\ OpensScope(N, k, last)
          BY <4>1
        <5> HIDE DEF c, c1, last
        <5> QED BY <4>2, <5>1
      <4>6. P # <<>> => L > 1
        <5>1. Len(P) = 0 => P = <<>>
          BY <1>2
        <5> QED BY <1>1, <1>2, <5>1
      <4>7. P = <<>> => u.scopes[k] = <<>>
        <5>1. \A s \in Seq(ScopeSet) : Len(s) = 0 => s = <<>>
          OBVIOUS
        <5> QED BY <4>2, <4>4, <4>5, <5>1
      <4> HIDE DEF c, c1
      <4>8. \A i \in 1..(L - 1) : i <= L - 1 /\ L - 1 \in 1..L /\ i \in 1..L /\ L > 1
        BY <1>1
      <4>9. \A i \in 1..(L - 1) : p[k][i] \in 1..c1
        BY <4>1, <4>2, <4>3, <4>8
      <4>10. P # <<>> => q[k][Len(P)] = c1 /\ q[k][1] = 1 /\ OpensScope(N, k, P[1])
        <5> HAVE P # <<>>
        <5>1. L - 1 \in 1..(L - 1) /\ 1 \in 1..(L - 1)
          BY <1>1, <4>6
        <5> QED BY <1>2, <3>2, <3>3, <4>1, <4>3, <4>6, <5>1
      <4>11. \A i \in 1..(L - 1) : q[k][i] \in 1..c1
        BY <3>2, <3>3, <4>9
      <4>12. \A i, j \in 1..(L - 1) : q[k][i] = q[k][j] <=> Owner(N, k, P[i]) = Owner(N, k, P[j])
        BY <3>2, <3>3, <4>1
      <4>13. \A i, j \in 1..(L - 1) : i <= j => q[k][i] <= q[k][j]
        BY <3>2, <3>3, <4>1
      <4>14. \A i \in 1..(L - 1) : i > 1 => q[k][i] = IF OpensScope(N, k, P[i]) THEN q[k][i - 1] + 1 ELSE q[k][i - 1]
        <5>1. \A i \in 1..(L - 1) : i > 1 => i - 1 \in 1..(L - 1)
          BY <1>1
        <5> QED BY <3>2, <3>3, <4>1, <5>1
      <4> QED BY <1>2, <4>7, <4>10, <4>11, <4>12, <4>13, <4>14 DEF c1
    <3> QED BY <1>2, <3>1, <3>3 DEF StackOK
  <2>2. ScopesOK(N, P, S, u, E, q)
    <3> SUFFICES ASSUME NEW k \in Kinds, NEW i \in 1..Len(P)
                 PROVE  ScopeFor(N, S, E, k, Owner(N, k, P[i]), u.scopes[k][q[k][i]])
      BY DEF ScopesOK
    <3>1. i \in 1..(L - 1) /\ i \in 1..L /\ P[i] = O[i] /\ q[k][i] = p[k][i]
      BY <1>1, <1>2
    <3>2. q[k][i] \in 1..Len(u.scopes[k])
      BY <2>1 DEF StackOK
    <3> HIDE DEF q
    <3>3. u.scopes[k][q[k][i]] = t.scopes[k][p[k][i]]
      <4>1. CASE OpensScope(N, k, last)
        <5>1. p[k][i] \in 1..(Len(t.scopes[k]) - 1)
          BY <1>4, <1>8, <3>1, <3>2, <4>1
        <5> QED BY <1>4, <1>8, <3>1, <4>1, <5>1
      <4>2. CASE ~ OpensScope(N, k, last)
        BY <1>5, <1>8, <3>1, <4>2
      <4> QED BY <4>1, <4>2
    <3> QED BY <1>1, <3>1, <3>3 DEF ScopesOK
  <2>3. PendingOK(N, P, S)
    <3> SUFFICES ASSUME NEW K \in KeysOf(N, S), ~ Defined(N, S, K)
                 PROVE  \E i \in 1..Len(P) : Owner(N, K.kind, P[i]) = K.region
      BY DEF PendingOK
    <3>1. PICK i \in 1..L : Owner(N, K.kind, O[i]) = K.region
      BY DEF ParserOK, PendingOK
    <3>2. PICK x \in S : K = Key(N, x)
      BY DEF KeysOf
    <3>3. x \in NoteSet(N)
      BY DEF ParserOK
    <3> DEFINE k == x.kind
               id == x.id
               r == Owner(N, k, x.region)
    <3>4. k \in Kinds /\ id \in Id /\ K = KeyFor(k, id, r) /\ K.kind = k /\ K.region = r
      BY <3>2, <3>3, KeyLemma DEF NoteSet, Key
    <3>5. CASE i # L
      <4>1. i \in 1..Len(P) /\ P[i] = O[i]
        BY <1>1, <1>2, <3>5
      <4> QED BY <3>1, <4>1
    <3>6. CASE i = L /\ OpensScope(N, k, last)
      <4> DEFINE f == t.scopes[k][Len(t.scopes[k])]
      <4>1. ScopeFor(N, S, E, k, r, f)
        BY <1>9, <3>1, <3>4, <3>6
      <4>2. id \in DOMAIN f /\ f[id] = E[K]
        BY <3>4, <4>1 DEF ScopeFor
      <4>3. E[K] \in t.forward
        BY <1>1 DEF MeaningsOK
      <4>4. Unresolved(t, k)
        BY <4>2, <4>3 DEF Unresolved, Scope, Last
      <4> QED BY <1>11, <3>4, <3>6, <4>4 DEF failed
    <3>7. CASE i = L /\ ~ OpensScope(N, k, last)
      <4>1. OpensScope(N, k, O[1]) /\ (L > 1 => p[k][L] = p[k][L - 1])
        BY <1>1, <3>4, <3>7 DEF StackOK
      <4>2. L > 1 /\ L - 1 \in 1..L /\ L - 1 \in 1..Len(P)
        BY <1>1, <1>2, <3>7, <4>1
      <4>3. Owner(N, k, O[L - 1]) = Owner(N, k, O[L])
        BY <1>1, <3>4, <4>1, <4>2 DEF StackOK
      <4>4. P[L - 1] = O[L - 1]
        BY <1>2, <4>2
      <4> QED BY <3>1, <3>4, <3>7, <4>2, <4>3, <4>4
    <3> QED BY <3>5, <3>6, <3>7
  <2>4. MeaningsOK(N, S, u, E)
    BY <1>1, <1>8 DEF MeaningsOK
  <2> QED BY <1>8, <2>1, <2>2, <2>3, <2>4 DEF ParserOK
<1> HIDE DEF q
<1> QED BY <1>8, <1>10, <1>11 DEF P

\* A region begins: nothing has been named in it.
OpenedScopes(t, isolated) ==
    [t EXCEPT !.scopes["ssa"] = IF isolated THEN Append(@, <<>>) ELSE @, !.scopes["label"] = Append(@, <<>>)]

LEMMA OpenedLemma ==
    ASSUME NEW t \in TrackerSet, NEW isolated \in BOOLEAN, NEW u, u = OpenedScopes(t, isolated)
    PROVE  /\ u \in TrackerSet /\ u.forward = t.forward /\ u.refers = t.refers /\ u.outcome = t.outcome
           /\ \A k \in Kinds : u.scopes[k] = IF k = "label" \/ isolated THEN Append(t.scopes[k], <<>>) ELSE t.scopes[k]
<1>1. /\ t.scopes \in [Kinds -> Seq(ScopeSet)] /\ "ssa" \in Kinds /\ "label" \in Kinds /\ "ssa" # "label"
      /\ \A k \in Kinds : k = "ssa" \/ k = "label"
  BY DEF TrackerSet, Kinds
<1>2. <<>> \in ScopeSet
  <2>1. <<>> \in [{} -> Entity] /\ {} \in SUBSET Id
    OBVIOUS
  <2> QED BY <2>1 DEF ScopeSet
<1> DEFINE a == IF isolated THEN Append(t.scopes["ssa"], <<>>) ELSE t.scopes["ssa"]
           b == Append(t.scopes["label"], <<>>)
<1>3. a \in Seq(ScopeSet) /\ b \in Seq(ScopeSet)
  <2>1. t.scopes["ssa"] \in Seq(ScopeSet) /\ t.scopes["label"] \in Seq(ScopeSet)
    BY <1>1
  <2> QED BY <1>2, <2>1
<1>4. u = [t EXCEPT !.scopes = [t.scopes EXCEPT !["ssa"] = a, !["label"] = b]]
  BY <1>1 DEF OpenedScopes, TrackerSet
<1> DEFINE sc == [t.scopes EXCEPT !["ssa"] = a, !["label"] = b]
<1>5. sc \in [Kinds -> Seq(ScopeSet)] /\ sc["ssa"] = a /\ sc["label"] = b
  <2> HIDE DEF a, b
  <2> QED BY <1>1, <1>3
<1> HIDE DEF sc
<1>6. u \in TrackerSet /\ u.scopes = sc /\ u.forward = t.forward /\ u.refers = t.refers /\ u.outcome = t.outcome
  BY <1>4, <1>5 DEF TrackerSet, sc
<1> QED BY <1>1, <1>5, <1>6

\* A region on top of the n open ones, which have c scopes: q says which scope is whose, ow who owns
\* it, and op who opened it.
StackFor(n, c, q, ow, op) ==
    /\ n = 0 => c = 0
    /\ n # 0 => q[n] = c /\ q[1] = 1 /\ op[1]
    /\ \A i \in 1..n : q[i] \in 1..c
    /\ \A i, j \in 1..n : q[i] = q[j] <=> ow[i] = ow[j]
    /\ \A i, j \in 1..n : i <= j => q[i] <= q[j]
    /\ \A i \in 1..n : i > 1 => q[i] = IF op[i] THEN q[i - 1] + 1 ELSE q[i - 1]

LEMMA PushLemma ==
    ASSUME NEW n \in Nat, NEW c \in Nat, NEW q, NEW ow, NEW op \in [1..(n + 1) -> BOOLEAN],
           StackFor(n, c, q, ow, op), NEW d \in Nat, q[n + 1] = d,
           op[n + 1] => d = c + 1 /\ \A i \in 1..n : ow[i] # ow[n + 1],
           ~ op[n + 1] => d = c /\ n # 0 /\ ow[n] = ow[n + 1]
    PROVE  StackFor(n + 1, d, q, ow, op)
<1>1. /\ n = 0 => c = 0
      /\ n # 0 => q[n] = c /\ q[1] = 1 /\ op[1]
      /\ \A i \in 1..n : q[i] \in 1..c
      /\ \A i, j \in 1..n : q[i] = q[j] <=> ow[i] = ow[j]
      /\ \A i, j \in 1..n : i <= j => q[i] <= q[j]
      /\ \A i \in 1..n : i > 1 => q[i] = IF op[i] THEN q[i - 1] + 1 ELSE q[i - 1]
  BY DEF StackFor
<1>2. /\ n + 1 \in Nat /\ n + 1 # 0 /\ \A i \in 1..(n + 1) : i \in 1..n \/ i = n + 1
      /\ n # 0 => 1 \in 1..n /\ n \in 1..n
      /\ n + 1 - 1 = n
  OBVIOUS
<1>3. d >= 1 /\ d \in 1..d /\ d >= c
  <2>1. CASE op[n + 1]
    BY <2>1
  <2>2. CASE ~ op[n + 1]
    <3>1. q[n] \in 1..c /\ q[n] = c /\ d = c
      BY <1>1, <1>2, <2>2
    <3> QED BY <3>1
  <2> QED BY <2>1, <2>2
<1>4. q[1] = 1 /\ op[1]
  <2>1. CASE n = 0
    <3>1. op[n + 1]
      BY <2>1
    <3>2. d = 1
      BY <1>1, <2>1, <3>1
    <3> QED BY <2>1, <3>1, <3>2
  <2>2. CASE n # 0
    BY <1>1, <2>2
  <2> QED BY <2>1, <2>2
<1>5. \A i \in 1..n : q[i] \in 1..d /\ q[i] <= d
  BY <1>1, <1>3
<1>6. \A i \in 1..(n + 1) : q[i] \in 1..d /\ q[i] <= d
  BY <1>2, <1>3, <1>5
<1>7. ASSUME NEW i \in 1..n PROVE q[i] = d <=> ow[i] = ow[n + 1]
  <2>1. CASE op[n + 1]
    <3>1. q[i] \in 1..c /\ d = c + 1
      BY <1>1, <2>1
    <3>2. q[i] # d
      BY <3>1
    <3> QED BY <2>1, <3>2
  <2>2. CASE ~ op[n + 1]
    <3>1. n \in 1..n /\ q[n] = d /\ ow[n] = ow[n + 1]
      BY <1>1, <1>2, <2>2
    <3>2. q[i] = q[n] <=> ow[i] = ow[n]
      BY <1>1, <3>1
    <3> QED BY <3>1, <3>2
  <2> QED BY <2>1, <2>2
<1>8. \A i, j \in 1..(n + 1) : q[i] = q[j] <=> ow[i] = ow[j]
  <2> SUFFICES ASSUME NEW i \in 1..(n + 1), NEW j \in 1..(n + 1) PROVE q[i] = q[j] <=> ow[i] = ow[j]
    OBVIOUS
  <2>1. CASE i \in 1..n /\ j \in 1..n
    BY <1>1, <2>1
  <2>2. CASE i \in 1..n /\ j = n + 1
    BY <1>7, <2>2
  <2>3. CASE i = n + 1 /\ j \in 1..n
    <3>1. q[j] = d <=> ow[j] = ow[n + 1]
      BY <1>7, <2>3
    <3> QED BY <2>3, <3>1
  <2>4. CASE i = n + 1 /\ j = n + 1
    BY <2>4
  <2> QED BY <1>2, <2>1, <2>2, <2>3, <2>4
<1>9. \A i, j \in 1..(n + 1) : i <= j => q[i] <= q[j]
  <2> SUFFICES ASSUME NEW i \in 1..(n + 1), NEW j \in 1..(n + 1), i <= j PROVE q[i] <= q[j]
    OBVIOUS
  <2>1. CASE j = n + 1
    BY <1>6, <2>1
  <2>2. CASE j \in 1..n
    <3>1. i \in 1..n
      BY <2>2
    <3> QED BY <1>1, <2>2, <3>1
  <2> QED BY <1>2, <2>1, <2>2
<1>10. \A i \in 1..(n + 1) : i > 1 => q[i] = IF op[i] THEN q[i - 1] + 1 ELSE q[i - 1]
  <2> SUFFICES ASSUME NEW i \in 1..(n + 1), i > 1 PROVE q[i] = IF op[i] THEN q[i - 1] + 1 ELSE q[i - 1]
    OBVIOUS
  <2>1. CASE i \in 1..n
    BY <1>1, <2>1
  <2>2. CASE i = n + 1
    <3>1. i - 1 = n /\ n # 0 /\ q[i - 1] = c
      BY <1>1, <1>2, <2>2
    <3>2. CASE op[i]
      BY <2>2, <3>1, <3>2
    <3>3. CASE ~ op[i]
      BY <2>2, <3>1, <3>3
    <3> QED BY <3>2, <3>3
  <2> QED BY <1>2, <2>1, <2>2
<1> QED BY <1>2, <1>3, <1>4, <1>6, <1>8, <1>9, <1>10 DEF StackFor

LEMMA EnterLemma ==
    ASSUME NEW N, NEW O, NEW S, NEW t, NEW E, NEW p, ParserOK(N, O, S, t, E, p), NEW isolated \in BOOLEAN,
           O = <<>> => isolated, NEW u, u = OpenedScopes(t, isolated), NEW M,
           M = Append(N, (IF O = <<>> THEN <<>> ELSE N[O[Len(O)]]) \o <<[region |-> Len(N) + 1, isolated |-> isolated]>>)
    PROVE  /\ \E q : ParserOK(M, Append(O, Len(N) + 1), S, u, E, q)
           /\ Append(O, Len(N) + 1) \in Seq(DOMAIN M)
<1> DEFINE m == Len(N) + 1
           L == Len(O)
           P == Append(O, Len(N) + 1)
           s == IF O = <<>> THEN <<>> ELSE N[O[Len(O)]]
           q == [k \in Kinds |-> [i \in 1..(L + 1) |-> IF i <= L THEN p[k][i] ELSE Len(u.scopes[k])]]
<1>1. /\ O \in Seq(DOMAIN N) /\ L \in Nat /\ t \in TrackerSet /\ NestsOK(N) /\ S \subseteq NoteSet(N)
      /\ StackOK(N, O, t, p) /\ ScopesOK(N, O, S, t, E, p) /\ MeaningsOK(N, S, t, E) /\ PendingOK(N, O, S)
      /\ O # <<>> => L \in 1..L /\ L # 0
  <2>1. /\ O \in Seq(DOMAIN N) /\ t \in TrackerSet /\ NestsOK(N) /\ S \subseteq NoteSet(N)
        /\ StackOK(N, O, t, p) /\ ScopesOK(N, O, S, t, E, p) /\ MeaningsOK(N, S, t, E) /\ PendingOK(N, O, S)
    BY DEF ParserOK, StackOK
  <2>2. L \in Nat /\ (O # <<>> => L # 0)
    BY <2>1
  <2>3. L # 0 => L \in 1..L
    BY <2>2
  <2> QED BY <2>1, <2>2, <2>3
<1>2. N \in Seq(Seq(Ring)) /\ Len(N) \in Nat /\ DOMAIN N = 1..Len(N)
  BY <1>1 DEF NestsOK
<1>3. \A i \in 1..L : O[i] \in DOMAIN N
  BY <1>1
<1>4. s \in Seq(Ring) /\ (~ isolated => \E r \in DOMAIN N : s = N[r])
  <2>1. CASE O = <<>>
    BY <2>1
  <2>2. CASE O # <<>>
    BY <1>1, <1>2, <1>3, <2>2
  <2> QED BY <2>1, <2>2
<1>5. M = Append(N, s \o <<[region |-> Len(N) + 1, isolated |-> isolated]>>)
  OBVIOUS
<1> HIDE DEF s, P, q
<1>6. /\ NestsOK(M) /\ Len(M) = Len(N) + 1 /\ DOMAIN M = 1..(Len(N) + 1)
      /\ \A r \in DOMAIN N, k \in Kinds : Owner(M, k, r) = Owner(N, k, r) /\ OpensScope(M, k, r) = OpensScope(N, k, r)
      /\ isolated => Owner(M, "ssa", m) = m
      /\ \A r \in DOMAIN N : ~ isolated /\ s = N[r] => Owner(M, "ssa", m) = Owner(N, "ssa", r)
      /\ OpensScope(M, "ssa", m) = isolated
  <2> HIDE DEF m
  <2>1. NestsOK(N)
    BY <1>1
  <2>2. EnteredNests(N, M, s, isolated)
    BY <1>4, <1>5, <2>1, EnterNestsLemma
  <2> QED BY <2>2 DEF EnteredNests, m
<1>7. P \in Seq(DOMAIN M) /\ Len(P) = L + 1 /\ P[L + 1] = m /\ \A i \in 1..L : P[i] = O[i]
  <2>1. O \in Seq(DOMAIN M) /\ m \in DOMAIN M
    <3>1. \A i \in 1..L : O[i] \in DOMAIN M
      BY <1>2, <1>3, <1>6
    <3> QED BY <1>1, <1>2, <1>6, <3>1
  <2> QED BY <2>1, AppendProperties DEF P
<1>8. /\ u \in TrackerSet /\ u.forward = t.forward /\ u.refers = t.refers /\ u.outcome = t.outcome
      /\ \A k \in Kinds : u.scopes[k] = IF k = "label" \/ isolated THEN Append(t.scopes[k], <<>>) ELSE t.scopes[k]
  BY <1>1, OpenedLemma
<1>9. ASSUME NEW x \in S
      PROVE  Key(M, x) = Key(N, x) /\ x \in NoteSet(M) /\ x.kind \in Kinds /\ x.region \in DOMAIN N
  <2>1. x \in NoteSet(N)
    BY <1>1, <1>9
  <2>2. x.kind \in Kinds /\ x.region \in DOMAIN N
    BY <2>1 DEF NoteSet
  <2>3. DOMAIN N \subseteq DOMAIN M
    BY <1>2, <1>6
  <2>4. x \in NoteSet(M)
    BY <2>1, <2>3 DEF NoteSet
  <2>5. Owner(M, x.kind, x.region) = Owner(N, x.kind, x.region)
    BY <1>6, <2>2
  <2> QED BY <2>2, <2>4, <2>5 DEF Key
<1>10. KeysOf(M, S) = KeysOf(N, S) /\ \A K : Defined(M, S, K) <=> Defined(N, S, K)
  BY <1>9 DEF KeysOf, Defined
<1>11. \A K \in KeysOf(N, S) : K.kind \in Kinds /\ K.region \in 1..Len(N)
  <2> SUFFICES ASSUME NEW x \in S PROVE Key(N, x).kind \in Kinds /\ Key(N, x).region \in 1..Len(N)
    BY DEF KeysOf
  <2>1. x.kind \in Kinds /\ x.region \in 1..Len(N) /\ (x.kind = "label" \/ x.kind = "ssa")
    BY <1>2, <1>9 DEF Kinds
  <2>2. Owner(N, x.kind, x.region) \in 1..Len(N)
    <3>1. Owner(N, "ssa", x.region) \in 1..x.region
      BY <1>1, <1>2, <2>1 DEF NestsOK
    <3>2. Owner(N, "ssa", x.region) \in 1..Len(N)
      BY <1>2, <2>1, <3>1
    <3> QED BY <2>1, <3>2 DEF Owner
  <2> QED BY <2>1, <2>2, KeyLemma DEF Key
<1>12. MeaningsOK(M, S, u, E)
  BY <1>1, <1>8, <1>9, <1>10 DEF MeaningsOK
<1>13. PendingOK(M, P, S)
  <2> SUFFICES ASSUME NEW K \in KeysOf(N, S), ~ Defined(N, S, K)
               PROVE  \E i \in 1..Len(P) : Owner(M, K.kind, P[i]) = K.region
    BY <1>10 DEF PendingOK
  <2>1. PICK i \in 1..L : Owner(N, K.kind, O[i]) = K.region
    BY <1>1 DEF PendingOK
  <2>2. i \in 1..Len(P) /\ P[i] = O[i]
    BY <1>1, <1>7
  <2> QED BY <1>3, <1>6, <1>11, <2>1, <2>2
\* The region is the owner of a scope of its own, or shares that of its parent.
<1>14. ASSUME NEW k \in Kinds
       PROVE  \/ /\ OpensScope(M, k, m) /\ u.scopes[k] = Append(t.scopes[k], <<>>) /\ Owner(M, k, m) = m
              \/ /\ ~ OpensScope(M, k, m) /\ u.scopes[k] = t.scopes[k] /\ O # <<>>
                 /\ Owner(M, k, m) = Owner(N, k, O[L])
  <2>1. CASE k = "label"
    BY <1>8, <2>1 DEF OpensScope, Owner
  <2>2. CASE k = "ssa" /\ isolated
    BY <1>6, <1>8, <2>2
  <2>3. CASE k = "ssa" /\ ~ isolated
    <3>1. O # <<>> /\ s = N[O[L]] /\ O[L] \in DOMAIN N
      BY <1>1, <1>3, <2>3 DEF s
    <3> QED BY <1>6, <1>8, <2>3, <3>1
  <2> QED BY <2>1, <2>2, <2>3 DEF Kinds
<1>15. ASSUME NEW k \in Kinds
       PROVE  /\ t.scopes[k] \in Seq(ScopeSet) /\ u.scopes[k] \in Seq(ScopeSet)
              /\ Len(t.scopes[k]) \in Nat /\ Len(u.scopes[k]) \in Nat
              /\ Len(u.scopes[k]) = Len(t.scopes[k]) + (IF OpensScope(M, k, m) THEN 1 ELSE 0)
              /\ \A n \in 1..Len(t.scopes[k]) : n \in 1..Len(u.scopes[k]) /\ u.scopes[k][n] = t.scopes[k][n]
              /\ OpensScope(M, k, m) => u.scopes[k][Len(u.scopes[k])] = <<>>
  <2>1. t.scopes[k] \in Seq(ScopeSet) /\ u.scopes[k] \in Seq(ScopeSet)
    BY <1>1, <1>8 DEF TrackerSet
  <2>2. CASE OpensScope(M, k, m)
    <3>1. u.scopes[k] = Append(t.scopes[k], <<>>)
      BY <1>14, <2>2
    <3> DEFINE e == <<>>
               a == t.scopes[k]
    <3>2. \A b \in Seq(ScopeSet) : b = Append(a, e) =>
             Len(b) = Len(a) + 1 /\ b[Len(a) + 1] = e /\ \A n \in 1..Len(a) : n \in 1..Len(b) /\ b[n] = a[n]
      BY <2>1
    <3> HIDE DEF e
    <3> QED BY <2>1, <2>2, <3>1, <3>2 DEF e
  <2>3. CASE ~ OpensScope(M, k, m)
    BY <1>14, <2>1, <2>3
  <2> QED BY <2>2, <2>3
<1>16. /\ q \in [Kinds -> [1..Len(P) -> Nat]]
       /\ \A k \in Kinds : q[k][L + 1] = Len(u.scopes[k]) /\ \A i \in 1..L : q[k][i] = p[k][i]
  <2>1. \A k \in Kinds : [i \in 1..(L + 1) |-> IF i <= L THEN p[k][i] ELSE Len(u.scopes[k])] \in [1..(L + 1) -> Nat]
    <3> SUFFICES ASSUME NEW k \in Kinds, NEW i \in 1..(L + 1)
                 PROVE  (IF i <= L THEN p[k][i] ELSE Len(u.scopes[k])) \in Nat
      OBVIOUS
    <3>1. i <= L => i \in 1..L
      BY <1>1
    <3> QED BY <1>1, <1>15, <3>1 DEF StackOK
  <2>2. L + 1 \in 1..(L + 1) /\ ~ (L + 1 <= L) /\ \A i \in 1..L : i \in 1..(L + 1) /\ i <= L
    BY <1>1
  <2>3. q = [k \in Kinds |-> [i \in 1..(L + 1) |-> IF i <= L THEN p[k][i] ELSE Len(u.scopes[k])]]
    BY DEF q
  <2> QED BY <1>7, <2>1, <2>2, <2>3
<1>17. StackOK(M, P, u, q)
  <2>1. ASSUME NEW k \in Kinds
        PROVE  /\ P = <<>> => u.scopes[k] = <<>>
               /\ P # <<>> => q[k][Len(P)] = Len(u.scopes[k]) /\ q[k][1] = 1 /\ OpensScope(M, k, P[1])
               /\ \A i \in 1..Len(P) : q[k][i] \in 1..Len(u.scopes[k])
               /\ \A i, j \in 1..Len(P) : q[k][i] = q[k][j] <=> Owner(M, k, P[i]) = Owner(M, k, P[j])
               /\ \A i, j \in 1..Len(P) : i <= j => q[k][i] <= q[k][j]
               /\ \A i \in 1..Len(P) : i > 1 =>
                     q[k][i] = IF OpensScope(M, k, P[i]) THEN q[k][i - 1] + 1 ELSE q[k][i - 1]
    <3> DEFINE c == Len(t.scopes[k])
               d == Len(u.scopes[k])
               ow == [i \in 1..(L + 1) |-> Owner(M, k, P[i])]
               op == [i \in 1..(L + 1) |-> OpensScope(M, k, P[i])]
    <3>1. /\ O = <<>> => t.scopes[k] = <<>>
          /\ O # <<>> => p[k][L] = c /\ p[k][1] = 1 /\ OpensScope(N, k, O[1])
          /\ \A i \in 1..L : p[k][i] \in 1..c
          /\ \A i, j \in 1..L : p[k][i] = p[k][j] <=> Owner(N, k, O[i]) = Owner(N, k, O[j])
          /\ \A i, j \in 1..L : i <= j => p[k][i] <= p[k][j]
          /\ \A i \in 1..L : i > 1 => p[k][i] = IF OpensScope(N, k, O[i]) THEN p[k][i - 1] + 1 ELSE p[k][i - 1]
      BY <1>1, <2>1 DEF StackOK
    <3>2. /\ c \in Nat /\ d \in Nat
          /\ OpensScope(M, k, m) => d = c + 1
          /\ ~ OpensScope(M, k, m) => d = c
      <4>1. c \in Nat /\ d \in Nat /\ d = c + (IF OpensScope(M, k, m) THEN 1 ELSE 0)
        BY <1>15, <2>1
      <4> HIDE DEF c, d, m
      <4>2. CASE OpensScope(M, k, m)
        BY <4>1, <4>2
      <4>3. CASE ~ OpensScope(M, k, m)
        BY <4>1, <4>3
      <4> QED BY <4>1, <4>2, <4>3
    <3>3. (O = <<>> => c = 0 /\ L = 0) /\ (L = 0 => O = <<>>)
      BY <1>1, <3>1
    <3>4. /\ \A i \in 1..L : P[i] = O[i] /\ q[k][i] = p[k][i] /\ O[i] \in DOMAIN N
                          /\ Owner(M, k, P[i]) = Owner(N, k, O[i]) /\ OpensScope(M, k, P[i]) = OpensScope(N, k, O[i])
          /\ P[L + 1] = m /\ q[k][L + 1] = d
      BY <1>3, <1>6, <1>7, <1>16, <2>1
    <3>5. /\ \A i \in 1..L : i \in 1..(L + 1) /\ (i > 1 => i - 1 \in 1..L)
          /\ L + 1 \in 1..(L + 1) /\ (L # 0 => 1 \in 1..L /\ L \in 1..L)
      BY <1>1
    <3>6. OpensScope(M, k, P[L + 1]) \in BOOLEAN /\ \A i \in 1..(L + 1) : OpensScope(M, k, P[i]) \in BOOLEAN
      <4>1. ASSUME NEW r \in DOMAIN M PROVE OpensScope(M, k, r) \in BOOLEAN
        <5>1. M[r] \in Seq(Ring) /\ Len(M[r]) \in 1..Len(M[r])
          BY <1>6, <4>1 DEF NestsOK
        <5>2. M[r][Len(M[r])] \in Ring
          BY <5>1
        <5>3. M[r][Len(M[r])].isolated \in BOOLEAN
          BY <5>2 DEF Ring
        <5> QED BY <5>3 DEF OpensScope
      <4>2. \A i \in 1..(L + 1) : P[i] \in DOMAIN M
        BY <1>7
      <4> QED BY <3>5, <4>1, <4>2
    <3>7. op \in [1..(L + 1) -> BOOLEAN]
      BY <3>6
    <3>8. /\ \A i \in 1..L : ow[i] = Owner(N, k, O[i]) /\ op[i] = OpensScope(N, k, O[i])
          /\ ow[L + 1] = Owner(M, k, m) /\ op[L + 1] = OpensScope(M, k, m)
          /\ \A i \in 1..(L + 1) : ow[i] = Owner(M, k, P[i]) /\ op[i] = OpensScope(M, k, P[i])
      BY <3>4, <3>5
    <3> HIDE DEF ow, op, c, d
    <3>9. StackFor(L, c, q[k], ow, op)
      <4>1. L = 0 => c = 0
        BY <3>3
      <4>2. L # 0 => q[k][L] = c /\ q[k][1] = 1 /\ op[1]
        BY <1>1, <3>1, <3>3, <3>4, <3>5, <3>8
      <4>3. \A i \in 1..L : q[k][i] \in 1..c
        BY <3>1, <3>4
      <4>4. \A i, j \in 1..L : q[k][i] = q[k][j] <=> ow[i] = ow[j]
        BY <3>1, <3>4, <3>8
      <4>5. \A i, j \in 1..L : i <= j => q[k][i] <= q[k][j]
        BY <3>1, <3>4
      <4>6. \A i \in 1..L : i > 1 => q[k][i] = IF op[i] THEN q[k][i - 1] + 1 ELSE q[k][i - 1]
        <5> SUFFICES ASSUME NEW i \in 1..L, i > 1 PROVE q[k][i] = IF op[i] THEN q[k][i - 1] + 1 ELSE q[k][i - 1]
          OBVIOUS
        <5>1. q[k][i] = p[k][i] /\ q[k][i - 1] = p[k][i - 1] /\ op[i] = OpensScope(N, k, O[i])
          BY <3>4, <3>5, <3>8
        <5>2. p[k][i] = IF OpensScope(N, k, O[i]) THEN p[k][i - 1] + 1 ELSE p[k][i - 1]
          BY <3>1
        <5> QED BY <5>1, <5>2
      <4> QED BY <4>1, <4>2, <4>3, <4>4, <4>5, <4>6 DEF StackFor
    <3>10. op[L + 1] => d = c + 1 /\ \A i \in 1..L : ow[i] # ow[L + 1]
      <4> SUFFICES ASSUME op[L + 1], NEW i \in 1..L PROVE d = c + 1 /\ ow[i] # ow[L + 1]
        BY <3>2, <3>8
      <4>1. Owner(N, k, O[i]) \in 1..Len(N)
        <5>1. O[i] \in 1..Len(N) /\ Owner(N, "ssa", O[i]) \in 1..O[i]
          BY <1>1, <1>2, <3>4 DEF NestsOK
        <5>2. Owner(N, "ssa", O[i]) \in 1..Len(N)
          BY <1>2, <5>1
        <5> QED BY <2>1, <5>1, <5>2 DEF Owner, Kinds
      <4>2. Owner(N, k, O[i]) # m
        BY <1>2, <4>1
      <4>3. OpensScope(M, k, m)
        BY <3>8
      <4>4. Owner(M, k, m) = m
        BY <1>14, <2>1, <4>3
      <4> QED BY <3>2, <3>8, <4>2, <4>3, <4>4
    <3>11. ~ op[L + 1] => d = c /\ L # 0 /\ ow[L] = ow[L + 1]
      BY <1>14, <2>1, <3>2, <3>3, <3>5, <3>8
    <3>12. StackFor(L + 1, d, q[k], ow, op)
      <4>1. q[k][L + 1] = d
        BY <3>4
      <4> QED BY <1>1, <3>2, <3>7, <3>9, <3>10, <3>11, <4>1, PushLemma
    <3>13. L + 1 # 0 /\ P # <<>> /\ Len(P) = L + 1
      BY <1>1, <1>7
    <3>14. /\ q[k][L + 1] = d /\ q[k][1] = 1 /\ op[1]
           /\ \A i \in 1..(L + 1) : q[k][i] \in 1..d
           /\ \A i, j \in 1..(L + 1) : q[k][i] = q[k][j] <=> ow[i] = ow[j]
           /\ \A i, j \in 1..(L + 1) : i <= j => q[k][i] <= q[k][j]
           /\ \A i \in 1..(L + 1) : i > 1 => q[k][i] = IF op[i] THEN q[k][i - 1] + 1 ELSE q[k][i - 1]
      BY <3>12, <3>13 DEF StackFor
    <3>15. 1 \in 1..(L + 1)
      BY <1>1
    <3>16. /\ P # <<>> => q[k][Len(P)] = Len(u.scopes[k]) /\ q[k][1] = 1 /\ OpensScope(M, k, P[1])
           /\ \A i \in 1..Len(P) : q[k][i] \in 1..Len(u.scopes[k])
      BY <3>8, <3>13, <3>14, <3>15 DEF d
    <3>17. \A i, j \in 1..Len(P) : q[k][i] = q[k][j] <=> Owner(M, k, P[i]) = Owner(M, k, P[j])
      <4>1. \A i \in 1..(L + 1) : ow[i] = Owner(M, k, P[i])
        BY <3>8
      <4>2. \A i, j \in 1..(L + 1) : q[k][i] = q[k][j] <=> ow[i] = ow[j]
        BY <3>14
      <4>3. \A i, j \in 1..(L + 1) : q[k][i] = q[k][j] <=> Owner(M, k, P[i]) = Owner(M, k, P[j])
        <5> SUFFICES ASSUME NEW i \in 1..(L + 1), NEW j \in 1..(L + 1)
                     PROVE  q[k][i] = q[k][j] <=> Owner(M, k, P[i]) = Owner(M, k, P[j])
          OBVIOUS
        <5>1. ow[i] = Owner(M, k, P[i])
          BY <4>1
        <5>2. ow[j] = Owner(M, k, P[j])
          BY <4>1
        <5>3. q[k][i] = q[k][j] <=> ow[i] = ow[j]
          BY <4>2
        <5> QED BY <5>1, <5>2, <5>3
      <4> QED BY <3>13, <4>3
    <3>18. \A i, j \in 1..Len(P) : i <= j => q[k][i] <= q[k][j]
      BY <3>13, <3>14
    <3>19. \A i \in 1..Len(P) : i > 1 => q[k][i] = IF OpensScope(M, k, P[i]) THEN q[k][i - 1] + 1 ELSE q[k][i - 1]
      <4> SUFFICES ASSUME NEW i \in 1..(L + 1), i > 1
                   PROVE  q[k][i] = IF OpensScope(M, k, P[i]) THEN q[k][i - 1] + 1 ELSE q[k][i - 1]
        BY <3>13
      <4>1. q[k][i] = IF op[i] THEN q[k][i - 1] + 1 ELSE q[k][i - 1]
        BY <3>14
      <4>2. op[i] = OpensScope(M, k, P[i])
        BY <3>8
      <4> QED BY <4>1, <4>2
    <3> QED BY <3>13, <3>16, <3>17, <3>18, <3>19
  <2> QED BY <1>7, <1>16, <2>1 DEF StackOK
<1>18. ScopesOK(M, P, S, u, E, q)
  <2> SUFFICES ASSUME NEW k \in Kinds, NEW i \in 1..(L + 1)
               PROVE  ScopeFor(M, S, E, k, Owner(M, k, P[i]), u.scopes[k][q[k][i]])
    BY <1>7 DEF ScopesOK
  <2>1. ASSUME NEW j \in 1..L
        PROVE  ScopeFor(M, S, E, k, Owner(N, k, O[j]), u.scopes[k][p[k][j]])
    <3>1. ScopeFor(N, S, E, k, Owner(N, k, O[j]), t.scopes[k][p[k][j]])
      BY <1>1 DEF ScopesOK
    <3>2. p[k][j] \in 1..Len(t.scopes[k])
      BY <1>1 DEF StackOK
    <3>3. u.scopes[k][p[k][j]] = t.scopes[k][p[k][j]]
      BY <1>15, <3>2
    <3> QED BY <1>10, <3>1, <3>3 DEF ScopeFor
  <2>2. CASE i \in 1..L
    <3>1. P[i] = O[i] /\ q[k][i] = p[k][i] /\ Owner(M, k, P[i]) = Owner(N, k, O[i])
      BY <1>3, <1>6, <1>7, <1>16, <2>2
    <3> QED BY <2>1, <2>2, <3>1
  <2>3. CASE i = L + 1 /\ OpensScope(M, k, m)
    <3>1. u.scopes[k][q[k][i]] = <<>> /\ Owner(M, k, P[i]) = m
      BY <1>7, <1>14, <1>15, <1>16, <2>3
    <3>2. \A id \in Id : KeyFor(k, id, m) \notin KeysOf(M, S)
      <4>1. m \notin 1..Len(N)
        BY <1>2
      <4> QED BY <1>10, <1>11, <4>1, KeyLemma
    <3>3. DOMAIN <<>> = {}
      OBVIOUS
    <3> QED BY <3>1, <3>2, <3>3 DEF ScopeFor
  <2>4. CASE i = L + 1 /\ ~ OpensScope(M, k, m)
    <3>1. O # <<>> /\ L \in 1..L /\ Owner(M, k, P[i]) = Owner(N, k, O[L]) /\ u.scopes[k] = t.scopes[k]
      BY <1>1, <1>7, <1>14, <2>4
    <3>2. q[k][i] = Len(t.scopes[k]) /\ p[k][L] = Len(t.scopes[k])
      BY <1>1, <1>16, <2>4, <3>1 DEF StackOK
    <3> QED BY <2>1, <3>1, <3>2
  <2>5. i \in 1..L \/ i = L + 1
    BY <1>1
  <2> QED BY <2>2, <2>3, <2>4, <2>5
<1>19. ParserOK(M, P, S, u, E, q)
  <2>1. S \subseteq NoteSet(M)
    BY <1>9
  <2> QED BY <1>6, <1>8, <1>12, <1>13, <1>17, <1>18, <2>1 DEF ParserOK
<1> QED BY <1>7, <1>19 DEF P

\* While the text is parsed there is such a map; text that is rejected deserves it.
NTInv ==
    /\ tracker \in TrackerSet /\ NestsOK(nests) /\ seen \subseteq NoteSet(nests) /\ open \in Seq(DOMAIN nests)
    /\ tracker.outcome \in {"parsing", "parsed"} => \E E, p : ParserOK(nests, open, seen, tracker, E, p)
    /\ tracker.outcome = "parsed" => open = <<>>
    /\ tracker.outcome = "MultipleDefinitions" <=> Twice(nests, seen)
    /\ tracker.outcome = "UnresolvedReference" => \E K \in KeysOf(nests, seen) : ~ Defined(nests, seen, K)

LEMMA NotTwice ==
    ASSUME NEW N, NEW O, NEW S, NEW t, NEW E, NEW p, ParserOK(N, O, S, t, E, p)
    PROVE  ~ Twice(N, S)
<1>1. /\ \A x, y \in S : x.what = y.what => x = y
      /\ \A x \in S : x.what \in Entity => E[Key(N, x)] = x.what
  BY DEF ParserOK, MeaningsOK
<1> QED BY <1>1 DEF Twice

LEMMA NTTypes ==
    ASSUME NTInv PROVE tracker \in TrackerSet /\ NestsOK(nests) /\ seen \subseteq NoteSet(nests) /\ open \in Seq(DOMAIN nests)
  BY DEF NTInv

\* After a definition.
LEMMA DefinedInv ==
    ASSUME NTInv, UNCHANGED <<open, nests>>, seen' \subseteq NoteSet(nests), NEW p,
           DefinedOK(nests, open, seen', tracker, tracker', p)
    PROVE  NTInv'
<1>1. /\ tracker' \in TrackerSet /\ tracker'.outcome \in {"parsing", "MultipleDefinitions"}
      /\ tracker'.outcome = "parsing" => \E F : ParserOK(nests, open, seen', tracker', F, p)
      /\ tracker'.outcome = "MultipleDefinitions" => Twice(nests, seen')
  BY DEF DefinedOK
<1>2. tracker'.outcome = "parsing" => ~ Twice(nests, seen')
  BY <1>1, NotTwice
<1>3. NestsOK(nests)' /\ (seen \subseteq NoteSet(nests))' /\ (open \in Seq(DOMAIN nests))'
  BY NTTypes
<1>4. (tracker.outcome \in {"parsing", "parsed"} => \E E, q : ParserOK(nests, open, seen, tracker, E, q))'
  <2>1. tracker'.outcome \in {"parsing", "parsed"} => tracker'.outcome = "parsing"
    BY <1>1
  <2>2. tracker'.outcome = "parsing" => \E F : ParserOK(nests', open', seen', tracker', F, p)
    BY <1>1
  <2> QED BY <2>1, <2>2, Zenon
<1>5. (tracker.outcome = "MultipleDefinitions" <=> Twice(nests, seen))'
  <2>1. tracker'.outcome = "MultipleDefinitions" <=> Twice(nests, seen')
    BY <1>1, <1>2
  <2> QED BY <2>1
<1>6. (tracker.outcome = "parsed" => open = <<>>)' /\ tracker'.outcome # "UnresolvedReference"
  BY <1>1
<1> QED BY <1>1, <1>3, <1>4, <1>5, <1>6 DEF NTInv

\* After any other step that parses on.
LEMMA ParsingInv ==
    ASSUME NEW E, NEW p, ParserOK(nests, open, seen, tracker, E, p)',
           tracker'.outcome \in {"parsing", "parsed"}, tracker'.outcome = "parsed" => open' = <<>>
    PROVE  NTInv'
<1>1. ~ Twice(nests, seen)'
  BY NotTwice
<1>2. (tracker \in TrackerSet /\ NestsOK(nests) /\ seen \subseteq NoteSet(nests) /\ open \in Seq(DOMAIN nests))'
  BY DEF ParserOK, StackOK
<1>3. \E F, q : ParserOK(nests', open', seen', tracker', F, q)
  OBVIOUS
<1>4. ~ Twice(nests', seen') /\ tracker'.outcome # "MultipleDefinitions" /\ tracker'.outcome # "UnresolvedReference"
  BY <1>1
<1> QED BY <1>2, <1>3, <1>4 DEF NTInv

LEMMA NTInitInv == NTInit => NTInv
<1> SUFFICES ASSUME NTInit PROVE NTInv
  OBVIOUS
<1> DEFINE E == [K \in {} |-> 0]
           p == [k \in Kinds |-> [i \in 1..0 |-> 0]]
<1>1. /\ tracker = [scopes |-> [k \in Kinds |-> <<>>], forward |-> {}, refers |-> [u \in {} |-> 0], outcome |-> "parsing"]
      /\ open = <<>> /\ nests = <<>> /\ seen = {} /\ DOMAIN nests = {} /\ Len(open) = 0 /\ 1..0 = {}
  BY DEF NTInit
<1>2. tracker \in TrackerSet
  <2>1. [u \in {} |-> 0] \in UNION {[D -> Entity] : D \in SUBSET UseSite}
    <3>1. [u \in {} |-> 0] \in [{} -> Entity] /\ {} \in SUBSET UseSite
      OBVIOUS
    <3> QED BY <3>1
  <2>2. [k \in Kinds |-> <<>>] \in [Kinds -> Seq(ScopeSet)]
    OBVIOUS
  <2>3. {} \in SUBSET Entity
    OBVIOUS
  <2> QED BY <1>1, <2>1, <2>2, <2>3 DEF TrackerSet
<1>3. NestsOK(nests)
  BY <1>1 DEF NestsOK
<1>4. StackOK(nests, open, tracker, p)
  <2>1. open \in Seq(DOMAIN nests) /\ p \in [Kinds -> [1..Len(open) -> Nat]]
    BY <1>1
  <2>2. \A k \in Kinds : tracker.scopes[k] = <<>>
    BY <1>1
  <2> HIDE DEF p
  <2> QED BY <1>1, <2>1, <2>2 DEF StackOK
<1>5. KeysOf(nests, seen) = {}
  BY <1>1 DEF KeysOf
<1>6. ScopesOK(nests, open, seen, tracker, E, p)
  BY <1>1 DEF ScopesOK
<1>7. MeaningsOK(nests, seen, tracker, E)
  BY <1>1, <1>5 DEF MeaningsOK
<1>8. PendingOK(nests, open, seen)
  BY <1>5 DEF PendingOK
<1>9. seen \subseteq NoteSet(nests)
  BY <1>1
<1>10. ParserOK(nests, open, seen, tracker, E, p)
  BY <1>2, <1>3, <1>4, <1>6, <1>7, <1>8, <1>9 DEF ParserOK
<1>11. ~ Twice(nests, seen) /\ tracker.outcome = "parsing" /\ open \in Seq(DOMAIN nests)
  BY <1>1 DEF Twice
<1> HIDE DEF E, p
<1> QED BY <1>2, <1>3, <1>9, <1>10, <1>11 DEF NTInv

LEMMA enter_regionInv ==
    ASSUME NTInv, NEW isolated \in BOOLEAN, enter_region(isolated)
    PROVE  NTInv'
<1>1. PICK E, p : ParserOK(nests, open, seen, tracker, E, p)
  BY DEF NTInv, enter_region, Parsing
<1>2. tracker \in TrackerSet /\ tracker.outcome = "parsing" /\ seen' = seen
      /\ (open = <<>> => tracker.scopes["ssa"] = <<>>)
  BY <1>1 DEF enter_region, Parsing, ParserOK, StackOK, Kinds
<1>3. CASE ~ isolated /\ tracker.scopes["ssa"] = <<>>
  <2>1. tracker' = [tracker EXCEPT !.outcome = "TopLevelOpRegionNotIsolatedFromAbove"] /\ UNCHANGED <<open, nests>>
    BY <1>3 DEF enter_region
  <2>2. tracker' \in TrackerSet /\ tracker'.outcome = "TopLevelOpRegionNotIsolatedFromAbove"
    BY <1>2, <2>1 DEF TrackerSet
  <2>3. ~ Twice(nests, seen)
    BY <1>1, NotTwice
  <2>4. NestsOK(nests') /\ seen' \subseteq NoteSet(nests') /\ open' \in Seq(DOMAIN nests') /\ ~ Twice(nests', seen')
    BY <1>2, <2>1, <2>3, NTTypes
  <2> QED BY <2>2, <2>4 DEF NTInv
<1>4. CASE isolated \/ tracker.scopes["ssa"] # <<>>
  <2>1. /\ tracker' = OpenedScopes(tracker, isolated)
        /\ nests' = Append(nests, (IF open = <<>> THEN <<>> ELSE nests[Last(open)])
                                      \o <<[region |-> Len(nests) + 1, isolated |-> isolated]>>)
        /\ open' = Append(open, Len(nests) + 1)
    BY <1>4 DEF enter_region, OpenedScopes
  <2>2. nests' = Append(nests, (IF open = <<>> THEN <<>> ELSE nests[open[Len(open)]])
                                      \o <<[region |-> Len(nests) + 1, isolated |-> isolated]>>)
    BY <2>1 DEF Last
  <2>3. open = <<>> => isolated
    BY <1>2, <1>4
  <2>4. PICK q : ParserOK(nests', open', seen, tracker', E, q)
    BY <1>1, <2>1, <2>2, <2>3, EnterLemma
  <2>5. tracker'.outcome = "parsing"
    BY <1>2, <2>1, OpenedLemma
  <2>6. ParserOK(nests, open, seen, tracker, E, q)'
    BY <1>2, <2>4
  <2> QED BY <2>5, <2>6, ParsingInv
<1> QED BY <1>3, <1>4

LEMMA exit_regionInv ==
    ASSUME NTInv, exit_region
    PROVE  NTInv'
<1>1. PICK E, p : ParserOK(nests, open, seen, tracker, E, p)
  BY DEF NTInv, exit_region, Parsing
<1>2. /\ open # <<>> /\ tracker.outcome = "parsing" /\ tracker \in TrackerSet /\ nests' = nests /\ seen' = seen
      /\ open' = Front(open)
  BY NTTypes DEF exit_region, Parsing
<1> DEFINE last == open[Len(open)]
           kinds == IF Isolated(Last(open)) THEN Kinds ELSE {"label"}
<1>3. ASSUME NEW k \in Kinds PROVE k \in kinds <=> OpensScope(nests, k, last)
  BY DEF Kinds, OpensScope, Isolated, Last
<1>4. tracker' = [tracker EXCEPT
               !.scopes = [k \in Kinds |-> IF k \in kinds THEN Front(@[k]) ELSE @[k]],
               !.outcome = IF \E k \in kinds : Unresolved(tracker, k) THEN "UnresolvedReference" ELSE @]
  BY DEF exit_region
<1>5. kinds \subseteq Kinds
  BY DEF Kinds
<1> HIDE DEF kinds, last
<1>6. [k \in Kinds |-> IF k \in kinds THEN Front(tracker.scopes[k]) ELSE tracker.scopes[k]]
      = [k \in Kinds |-> IF OpensScope(nests, k, last) THEN Front(tracker.scopes[k]) ELSE tracker.scopes[k]]
  BY <1>3
<1>7. (\E k \in kinds : Unresolved(tracker, k)) <=> \E k \in Kinds : OpensScope(nests, k, last) /\ Unresolved(tracker, k)
  BY <1>3, <1>5
<1>8. tracker' = ClosedScopes(nests, open, tracker)
  <2>1. tracker' = [tracker EXCEPT
               !.scopes = [k \in Kinds |-> IF k \in kinds THEN Front(tracker.scopes[k]) ELSE tracker.scopes[k]],
               !.outcome = IF \E k \in kinds : Unresolved(tracker, k) THEN "UnresolvedReference" ELSE tracker.outcome]
    BY <1>2, <1>4 DEF TrackerSet
  <2>2. ClosedScopes(nests, open, tracker) = [tracker EXCEPT
               !.scopes = [k \in Kinds |-> IF OpensScope(nests, k, last) THEN Front(tracker.scopes[k]) ELSE tracker.scopes[k]],
               !.outcome = IF \E k \in Kinds : OpensScope(nests, k, last) /\ Unresolved(tracker, k)
                           THEN "UnresolvedReference" ELSE tracker.outcome]
    BY <1>2 DEF ClosedScopes, TrackerSet, last
  <2> QED BY <1>6, <1>7, <2>1, <2>2, Zenon
<1>9. /\ tracker' \in TrackerSet /\ tracker'.outcome \in {"parsing", "UnresolvedReference"}
      /\ tracker'.outcome = "parsing" => \E q : ParserOK(nests, Front(open), seen, tracker', E, q)
      /\ tracker'.outcome = "UnresolvedReference" => \E K \in KeysOf(nests, seen) : ~ Defined(nests, seen, K)
  BY <1>1, <1>2, <1>8, ExitLemma
<1>10. CASE tracker'.outcome = "parsing"
  <2>1. PICK q : ParserOK(nests, Front(open), seen, tracker', E, q)
    BY <1>9, <1>10
  <2>2. ParserOK(nests, open, seen, tracker, E, q)'
    BY <1>2, <2>1
  <2> QED BY <1>10, <2>2, ParsingInv
<1>11. CASE tracker'.outcome = "UnresolvedReference"
  <2>1. ~ Twice(nests', seen')
    BY <1>1, <1>2, NotTwice
  <2>2. open' \in Seq(DOMAIN nests')
    BY <1>2, NTTypes, FrontLemma
  <2>3. NestsOK(nests') /\ seen' \subseteq NoteSet(nests')
    BY <1>2, NTTypes
  <2>4. \E K \in KeysOf(nests', seen') : ~ Defined(nests', seen', K)
    BY <1>2, <1>9, <1>11
  <2> QED BY <1>9, <1>11, <2>1, <2>2, <2>3, <2>4 DEF NTInv
<1> QED BY <1>9, <1>10, <1>11

LEMMA NewIsMember == ASSUME NEW W, NEW w \in New(W) PROVE w \in W
  BY DEF New

\* What is not allocated has not been noted, and is no placeholder.
LEMMA FreshLemma ==
    ASSUME NEW e, e \notin Allocated
    PROVE  e \notin tracker.forward /\ \A y \in seen : y.what # e
  BY DEF Allocated

LEMMA NoteLemma ==
    ASSUME open \in Seq(DOMAIN nests), open # <<>>, NEW what \in Entity \cup UseSite, NEW k \in Kinds, NEW id \in Id
    PROVE  /\ Note(what, k, id) \in NoteSet(nests) /\ Note(what, k, id).region = open[Len(open)]
           /\ Note(what, k, id).what = what /\ Note(what, k, id).kind = k /\ Note(what, k, id).id = id
<1>1. Last(open) = open[Len(open)] /\ open[Len(open)] \in DOMAIN nests
  BY DEF Last
<1> QED BY <1>1 DEF Note, NoteSet

LEMMA useOutcome ==
    ASSUME NEW t \in TrackerSet, NEW k, NEW id, NEW u, NEW e
    PROVE  use(t, k, id, u, e).outcome = t.outcome
  BY DEF use, Put, TrackerSet

LEMMA parse_useInv ==
    ASSUME NTInv, NEW k \in Kinds, NEW id \in Id, NEW u \in UseSite, NEW e \in Entity, parse_use(k, id, u, e)
    PROVE  NTInv'
<1> DEFINE x == Note(u, k, id)
<1>1. PICK E, p : ParserOK(nests, open, seen, tracker, E, p)
  BY DEF NTInv, parse_use, Parsing
<1>2. /\ open # <<>> /\ tracker.outcome = "parsing" /\ tracker \in TrackerSet /\ nests' = nests /\ open' = open
      /\ tracker' = use(tracker, k, id, u, e) /\ seen' = seen \cup {x}
      /\ u \notin DOMAIN tracker.refers /\ e \notin Allocated
  BY NTTypes DEF parse_use, Parsing, InBlock, Used
<1>3. /\ x \in NoteSet(nests) /\ x.region = open[Len(open)] /\ x.what = u /\ x.kind = k /\ x.id = id
  BY <1>2, NTTypes, NoteLemma
<1>4. e \notin tracker.forward /\ \A y \in seen : y.what # e
  BY <1>2, FreshLemma
<1> HIDE DEF x
<1>5. \E F : ParserOK(nests, open, seen \cup {x}, use(tracker, x.kind, x.id, x.what, e), F, p)
  BY <1>1, <1>2, <1>3, <1>4, UseLemma
<1>6. PICK F : ParserOK(nests, open, seen', tracker', F, p)
  BY <1>2, <1>3, <1>5
<1>7. ParserOK(nests, open, seen, tracker, F, p)'
  BY <1>2, <1>6
<1>8. tracker'.outcome = "parsing"
  BY <1>2, useOutcome
<1> QED BY <1>7, <1>8, ParsingInv

LEMMA parse_resultInv ==
    ASSUME NTInv, NEW id \in Id, NEW e \in Entity, parse_result(id, e)
    PROVE  NTInv'
<1> DEFINE x == Note(e, "ssa", id)
<1>1. PICK E, p : ParserOK(nests, open, seen, tracker, E, p)
  BY DEF NTInv, parse_result, Parsing
<1>2. /\ open # <<>> /\ tracker.outcome = "parsing" /\ tracker \in TrackerSet /\ nests' = nests /\ open' = open
      /\ tracker' = define(tracker, "ssa", id, e) /\ seen' = seen \cup {x} /\ e \notin Allocated
  BY NTTypes DEF parse_result, Parsing, InBlock
<1>3. /\ x \in NoteSet(nests) /\ x.region = open[Len(open)] /\ x.what = e /\ x.kind = "ssa" /\ x.id = id
  <2>1. "ssa" \in Kinds /\ e \in Entity \cup UseSite
    BY DEF Kinds
  <2> QED BY <1>2, <2>1, NTTypes, NoteLemma
<1>4. e \notin tracker.forward /\ \A y \in seen : y.what # e
  BY <1>2, FreshLemma
<1> HIDE DEF x
<1>5. DefinedOK(nests, open, seen \cup {x}, tracker, define(tracker, x.kind, x.id, x.what), p)
  BY <1>1, <1>2, <1>3, <1>4, DefineLemma
<1>6. DefinedOK(nests, open, seen', tracker, tracker', p)
  BY <1>2, <1>3, <1>5
<1>7. seen' \subseteq NoteSet(nests)
  BY <1>2, <1>3, NTTypes
<1> QED BY <1>2, <1>6, <1>7, DefinedInv

LEMMA FinishInv ==
    ASSUME NTInv, Finish
    PROVE  NTInv'
<1>1. PICK E, p : ParserOK(nests, open, seen, tracker, E, p)
  BY DEF NTInv, Finish, Parsing
<1>2. /\ open = <<>> /\ nests' = nests /\ open' = open /\ seen' = seen
      /\ tracker' = [tracker EXCEPT !.outcome = "parsed"] /\ tracker \in TrackerSet
  BY NTTypes DEF Finish
<1>3. /\ tracker' \in TrackerSet /\ tracker'.outcome = "parsed" /\ tracker'.scopes = tracker.scopes
      /\ tracker'.forward = tracker.forward /\ tracker'.refers = tracker.refers
  BY <1>2 DEF TrackerSet
<1>4. StackOK(nests, open, tracker', p) /\ ScopesOK(nests, open, seen, tracker', E, p) /\ MeaningsOK(nests, seen, tracker', E)
  BY <1>1, <1>3 DEF ParserOK, StackOK, ScopesOK, MeaningsOK
<1>5. ParserOK(nests, open, seen, tracker', E, p)
  BY <1>1, <1>3, <1>4 DEF ParserOK
<1>6. ParserOK(nests, open, seen, tracker, E, p)'
  BY <1>2, <1>5
<1> QED BY <1>2, <1>3, <1>6, ParsingInv

LEMMA parse_blockInv ==
    ASSUME NTInv, NEW label \in Id, NEW block \in Entity, NEW args \in Seq(Id \X Entity), parse_block(label, block, args)
    PROVE  NTInv'
<1> DEFINE x == Note(block, "label", label)
           first == Arguments(tracker, args)
           notes == ArgumentNotes(open, args, Len(args))
           arguments == {Note(args[i][2], "ssa", args[i][1]) : i \in DOMAIN args}
<1>1. PICK E, p : ParserOK(nests, open, seen, tracker, E, p)
  BY DEF NTInv, parse_block, Parsing
<1>2. /\ Len(args) \in Nat /\ DOMAIN args = 1..Len(args)
      /\ \A i \in 1..Len(args) : args[i][1] \in Id /\ args[i][2] \in Entity
  OBVIOUS
<1>3. /\ open # <<>> /\ tracker.outcome = "parsing" /\ nests' = nests /\ open' = open /\ block \notin Allocated
      /\ \A i \in 1..Len(args) : args[i][2] \notin Allocated \cup {block}
      /\ \A i, j \in 1..Len(args) : args[i][2] = args[j][2] => i = j
      /\ IF first.outcome = "parsing"
         THEN tracker' = define(first, "label", label, block) /\ seen' = seen \cup arguments \cup {x}
         ELSE tracker' = first /\ seen' = seen \cup arguments
  BY <1>2 DEF parse_block, Parsing
<1>4. arguments = notes
  BY <1>2 DEF ArgumentNotes, ArgumentNote, Note, Last
<1>5. \A y \in notes : \E i \in 1..Len(args) : y = Note(args[i][2], "ssa", args[i][1])
  BY <1>2, <1>4
<1>6. /\ \A i \in 1..Len(args) : Note(args[i][2], "ssa", args[i][1]) \in NoteSet(nests)
                                 /\ Note(args[i][2], "ssa", args[i][1]).what = args[i][2]
      /\ x \in NoteSet(nests) /\ x.region = open[Len(open)] /\ x.what = block /\ x.kind = "label" /\ x.id = label
  <2>1. "ssa" \in Kinds /\ "label" \in Kinds /\ open \in Seq(DOMAIN nests)
    BY NTTypes DEF Kinds
  <2>2. block \in Entity \cup UseSite /\ \A i \in 1..Len(args) : args[i][1] \in Id /\ args[i][2] \in Entity \cup UseSite
    BY <1>2
  <2> HIDE DEF x
  <2>3. x \in NoteSet(nests) /\ x.region = open[Len(open)] /\ x.what = block /\ x.kind = "label" /\ x.id = label
    BY <1>3, <2>1, <2>2, NoteLemma DEF x
  <2>4. ASSUME NEW i \in 1..Len(args)
        PROVE  Note(args[i][2], "ssa", args[i][1]) \in NoteSet(nests) /\ Note(args[i][2], "ssa", args[i][1]).what = args[i][2]
    <3>1. args[i][1] \in Id /\ args[i][2] \in Entity \cup UseSite
      BY <2>2
    <3> QED BY <1>3, <2>1, <3>1, NoteLemma
  <2> QED BY <2>3, <2>4
<1> HIDE DEF x, first, arguments, notes
<1>7. seen \cup notes \subseteq NoteSet(nests) /\ \A y \in notes : y.what # block
  <2>1. \A y \in notes : y \in NoteSet(nests) /\ y.what # block
    BY <1>3, <1>5, <1>6
  <2> QED BY <2>1, NTTypes
<1>8. DefinedOK(nests, open, seen \cup notes, tracker, first, p)
  <2>1. \A i \in 1..Len(args) : args[i][2] \notin tracker.forward /\ \A y \in seen : y.what # args[i][2]
    BY <1>3, FreshLemma
  <2> QED BY <1>1, <1>2, <1>3, <2>1, ArgumentsLemma DEF first, notes
<1>9. CASE first.outcome # "parsing"
  <2>1. tracker' = first /\ seen' = seen \cup notes
    BY <1>3, <1>4, <1>9
  <2>2. DefinedOK(nests, open, seen', tracker, tracker', p)
    BY <1>8, <2>1
  <2>3. seen' \subseteq NoteSet(nests)
    BY <1>7, <2>1
  <2> QED BY <1>3, <2>2, <2>3, DefinedInv
<1>10. CASE first.outcome = "parsing"
  <2>1. tracker' = define(first, "label", label, block) /\ seen' = (seen \cup notes) \cup {x}
    BY <1>3, <1>4, <1>10
  <2>2. first.forward \subseteq tracker.forward
    BY <1>8 DEF DefinedOK
  <2>3. PICK F : ParserOK(nests, open, seen \cup notes, first, F, p)
    BY <1>8, <1>10 DEF DefinedOK
  <2>4. block \notin first.forward /\ \A y \in seen \cup notes : y.what # block
    BY <1>3, <1>7, <2>2, FreshLemma
  <2>5. DefinedOK(nests, open, (seen \cup notes) \cup {x}, first, define(first, x.kind, x.id, x.what), p)
    BY <1>3, <1>6, <1>10, <2>3, <2>4, DefineLemma
  <2>6. DefinedOK(nests, open, seen', first, tracker', p)
    BY <1>6, <2>1, <2>5
  <2>7. DefinedOK(nests, open, seen', tracker, tracker', p)
    BY <2>2, <2>6 DEF DefinedOK
  <2>8. seen' \subseteq NoteSet(nests)
    BY <1>6, <1>7, <2>1
  <2> QED BY <1>3, <2>7, <2>8, DefinedInv
<1> QED BY <1>9, <1>10

LEMMA NTStep == NTInv /\ [NTNext]_ntVars => NTInv'
<1> SUFFICES ASSUME NTInv, [NTNext]_ntVars PROVE NTInv'
  OBVIOUS
<1>1. CASE UNCHANGED ntVars
  BY <1>1 DEF NTInv, ntVars
<1>2. ASSUME NEW isolated \in BOOLEAN, enter_region(isolated) PROVE NTInv'
  BY <1>2, enter_regionInv
<1>3. CASE exit_region
  BY <1>3, exit_regionInv
<1>4. ASSUME NEW id \in Id, NEW e \in NewEntity,
             NEW args \in {<<>>} \cup {<<a>> : a \in Id \X New(Entity \ (Allocated \cup {e}))}, parse_block(id, e, args)
      PROVE  NTInv'
  <2>1. e \in Entity
    BY NewIsMember DEF NewEntity
  <2>2. New(Entity \ (Allocated \cup {e})) \subseteq Entity
    BY NewIsMember
  <2>3. args \in Seq(Id \X Entity)
    <3>1. CASE args = <<>>
      BY <3>1
    <3>2. CASE args # <<>>
      <4>1. PICK a \in Id \X Entity : args = <<a>>
        BY <2>2, <3>2
      <4> QED BY <4>1
    <3> QED BY <3>1, <3>2
  <2> QED BY <1>4, <2>1, <2>3, parse_blockInv
<1>5. ASSUME NEW id \in Id, NEW e \in NewEntity, NEW k \in Kinds, NEW u \in New(UseSite \ Used), parse_use(k, id, u, e)
      PROVE  NTInv'
  <2>1. e \in Entity /\ u \in UseSite
    BY NewIsMember DEF NewEntity
  <2> QED BY <1>5, <2>1, parse_useInv
<1>6. ASSUME NEW id \in Id, NEW e \in NewEntity, parse_result(id, e) PROVE NTInv'
  <2>1. e \in Entity
    BY NewIsMember DEF NewEntity
  <2> QED BY <1>6, <2>1, parse_resultInv
<1>7. CASE Finish
  BY <1>7, FinishInv
<1> QED BY <1>1, <1>2, <1>3, <1>4, <1>5, <1>6, <1>7 DEF NTNext

LEMMA SameNameKey ==
    ASSUME seen \subseteq NoteSet(nests), NEW x \in seen, NEW y \in seen
    PROVE  SameName(x, y) <=> Key(nests, x) = Key(nests, y)
<1>1. x.kind \in {"ssa", "label"} /\ y.kind \in {"ssa", "label"}
  BY DEF NoteSet, Kinds
<1>2. Key(nests, x) = Key(nests, y) <=>
        x.kind = y.kind /\ x.id = y.id /\ Owner(nests, x.kind, x.region) = Owner(nests, y.kind, y.region)
  BY KeyLemma DEF Key
<1>3. CASE x.kind = "label"
  BY <1>2, <1>3 DEF SameName, Owner
<1>4. CASE x.kind # "label"
  <2>1. SsaRegion(x) = Owner(nests, x.kind, x.region)
    BY <1>4 DEF SsaRegion, ScopeOf, Owner, Innermost
  <2>2. y.kind # "label" => SsaRegion(y) = Owner(nests, y.kind, y.region)
    BY DEF SsaRegion, ScopeOf, Owner, Innermost
  <2> QED BY <1>2, <1>4, <2>1, <2>2 DEF SameName
<1> QED BY <1>3, <1>4

LEMMA NTResolves == NTInv => NamesResolve
<1> SUFFICES ASSUME NTInv PROVE NamesResolve
  OBVIOUS
<1>1. seen \subseteq NoteSet(nests) /\ tracker \in TrackerSet
  BY NTTypes
<1>2. \A x, y \in seen : SameName(x, y) <=> Key(nests, x) = Key(nests, y)
  BY <1>1, SameNameKey
<1>3. /\ \A x : x \in Uses <=> x \in seen /\ x.what \in UseSite
      /\ \A x : x \in Definitions <=> x \in seen /\ x.what \in Entity
      /\ \A x \in seen : (x.what \in UseSite /\ x.what \notin Entity) \/ (x.what \in Entity /\ x.what \notin UseSite)
  BY <1>1, EntityAssumption DEF Uses, Definitions, NoteSet
<1>4. ASSUME NEW x \in seen
      PROVE  \A e : e \in Meant(x) <=> \E y \in seen : y.what \in Entity /\ Key(nests, y) = Key(nests, x) /\ e = y.what
  BY <1>2, <1>3 DEF Meant
<1>5. \A x \in seen : Meant(x) = {} <=> ~ Defined(nests, seen, Key(nests, x))
  BY <1>4 DEF Defined
<1>6. ASSUME tracker.outcome \in {"parsing", "parsed"}, NEW x \in Uses
      PROVE  /\ Meant(x) # {} => Meant(x) = {tracker.refers[x.what]}
             /\ Meant(x) = {} => /\ tracker.refers[x.what] \in tracker.forward
                                 /\ \A y \in Uses : tracker.refers[x.what] = tracker.refers[y.what] <=> SameName(x, y)
  <2>1. PICK E, p : ParserOK(nests, open, seen, tracker, E, p)
    BY <1>6 DEF NTInv
  <2>2. /\ E \in [KeysOf(nests, seen) -> Entity]
        /\ \A K, L \in KeysOf(nests, seen) : E[K] = E[L] => K = L
        /\ \A y \in seen : y.what \in Entity => E[Key(nests, y)] = y.what
        /\ \A y \in seen : y.what \in UseSite => tracker.refers[y.what] = E[Key(nests, y)]
        /\ \A e \in Entity : e \in tracker.forward <=> \E K \in KeysOf(nests, seen) : ~ Defined(nests, seen, K) /\ E[K] = e
    BY <2>1 DEF ParserOK, MeaningsOK
  <2>3. \A y \in seen : Key(nests, y) \in KeysOf(nests, seen)
    BY DEF KeysOf
  <2>4. x \in seen /\ tracker.refers[x.what] = E[Key(nests, x)]
    BY <1>3, <2>2
  <2>5. ASSUME Meant(x) # {} PROVE Meant(x) = {tracker.refers[x.what]}
    <3>1. \A e \in Meant(x) : e = E[Key(nests, x)]
      BY <1>4, <2>2, <2>4
    <3> QED BY <2>4, <2>5, <3>1
  <2>6. ASSUME Meant(x) = {}
        PROVE  /\ tracker.refers[x.what] \in tracker.forward
               /\ \A y \in Uses : tracker.refers[x.what] = tracker.refers[y.what] <=> SameName(x, y)
    <3>1. ~ Defined(nests, seen, Key(nests, x))
      BY <1>5, <2>4, <2>6
    <3>2. E[Key(nests, x)] \in Entity
      BY <2>2, <2>3, <2>4
    <3>3. E[Key(nests, x)] \in tracker.forward
      BY <2>2, <2>3, <2>4, <3>1, <3>2
    <3>4. ASSUME NEW y \in Uses PROVE tracker.refers[x.what] = tracker.refers[y.what] <=> SameName(x, y)
      <4>1. y \in seen /\ tracker.refers[y.what] = E[Key(nests, y)]
        BY <1>3, <2>2
      <4>2. E[Key(nests, x)] = E[Key(nests, y)] <=> Key(nests, x) = Key(nests, y)
        BY <2>2, <2>3, <2>4, <4>1
      <4>3. SameName(x, y) <=> Key(nests, x) = Key(nests, y)
        BY <1>2, <2>4, <4>1
      <4> QED BY <2>4, <4>1, <4>2, <4>3
    <3> QED BY <2>4, <3>3, <3>4
  <2> QED BY <2>5, <2>6
<1>7. (\E x, y \in Definitions : x # y /\ SameName(x, y)) <=> tracker.outcome = "MultipleDefinitions"
  BY <1>2, <1>3 DEF NTInv, Twice
<1>8. tracker.outcome = "UnresolvedReference" => \E x \in Uses : Meant(x) = {}
  <2> SUFFICES ASSUME tracker.outcome = "UnresolvedReference" PROVE \E x \in Uses : Meant(x) = {}
    OBVIOUS
  <2>1. PICK x \in seen : ~ Defined(nests, seen, Key(nests, x))
    BY DEF NTInv, KeysOf
  <2>2. x.what \notin Entity
    BY <2>1 DEF Defined
  <2> QED BY <1>3, <1>5, <2>1, <2>2
<1>9. tracker.outcome = "parsed" => tracker.forward = {}
  <2> SUFFICES ASSUME tracker.outcome = "parsed" PROVE tracker.forward = {}
    OBVIOUS
  <2>1. PICK E, p : ParserOK(nests, open, seen, tracker, E, p)
    BY DEF NTInv
  <2>2. open = <<>> /\ Len(open) = 0 /\ 1..0 = {}
    BY DEF NTInv
  <2>3. \A K \in KeysOf(nests, seen) : Defined(nests, seen, K)
    BY <2>1, <2>2 DEF ParserOK, PendingOK
  <2>4. tracker.forward \subseteq Entity
    BY <1>1 DEF TrackerSet
  <2> QED BY <2>1, <2>3, <2>4 DEF ParserOK, MeaningsOK
<1> QED BY <1>6, <1>7, <1>8, <1>9 DEF NamesResolve

\* parsable.rs: wherever a name is used, the use ends up at its definition, and text is
\* rejected only for a name that is defined twice or not at all.
THEOREM NamesAlwaysResolve == NTSpec => []NamesResolve
<1>1. NTSpec => []NTInv
  BY NTInitInv, NTStep, PTL DEF NTSpec
<1> QED BY <1>1, NTResolves, PTL
=============================================================================
