---------------------------- MODULE DefUseProofs ----------------------------
(***************************************************************************)
(* Proofs about DefUse, for any operations, blocks, values and uids: the   *)
(* two directions of the chains agree, nothing live refers to what is      *)
(* gone, and a handle that was invalidated stays so.                       *)
(***************************************************************************)
EXTENDS DefUse, SeqLemmas

(***************************************************************************)
(* The inductive invariant.  Uids in use were handed out by the counters,  *)
(* and what is not allocated holds nothing; without these a new uid, or a  *)
(* new object, could coincide with one in use.                             *)
(***************************************************************************)
ValuesOK ==
    /\ \A e, f \in Entity : \A i \in 1..Len(vals[e]), j \in 1..Len(vals[f]) :
          vals[e][i] = vals[f][j] => e = f /\ i = j
    /\ \A e \in Entity : \A i \in 1..Len(vals[e]) : e \in live /\ vals[e][i] \in value_uids

SlotsOK ==
    /\ \A o, p \in Op, k, l \in Kind : \A i \in 1..Len(slots[o][k]), j \in 1..Len(slots[p][l]) :
          slots[o][k][i].uid = slots[p][l][j].uid => o = p /\ k = l /\ i = j
    /\ \A o \in Op, k \in Kind : \A i \in 1..Len(slots[o][k]) :
          o \in live /\ slots[o][k][i].uid \in use_uids

UsesOK ==
    \A d \in Def, o \in Op, u \in Uid :
       <<o, u>> \in uses[d] <=>
          \E k \in Kind : \E i \in 1..Len(slots[o][k]) : slots[o][k][i] = [def |-> d, uid |-> u]

RefsOK == \A o \in Op, k \in Kind : \A i \in 1..Len(slots[o][k]) : slots[o][k][i].def \in DefsOf(k)

IInv == TypeOK /\ ValuesOK /\ SlotsOK /\ UsesOK /\ RefsOK

\* What every leaf needs to know of the types.
LEMMA TypesLemma ==
    ASSUME TypeOK
    PROVE  /\ \A e \in Entity : vals[e] \in Seq(Val) /\ Len(vals[e]) \in Nat
           /\ \A e \in Entity : \A i \in 1..Len(vals[e]) : vals[e][i] \in Val
           /\ \A o \in Op, k \in Kind : slots[o][k] \in Seq(Slot) /\ Len(slots[o][k]) \in Nat
           /\ \A o \in Op, k \in Kind : \A i \in 1..Len(slots[o][k]) :
                 /\ slots[o][k][i] \in Slot
                 /\ slots[o][k][i].def \in Def /\ slots[o][k][i].uid \in Uid
                 /\ slots[o][k][i] = [def |-> slots[o][k][i].def, uid |-> slots[o][k][i].uid]
           /\ DefinedVals \subseteq Val
<1>1. \A e \in Entity : vals[e] \in Seq(Val) /\ Len(vals[e]) \in Nat
  BY DEF TypeOK
<1>2. \A e \in Entity : \A i \in 1..Len(vals[e]) : vals[e][i] \in Val
  BY <1>1
<1>3. \A o \in Op, k \in Kind : slots[o][k] \in Seq(Slot) /\ Len(slots[o][k]) \in Nat
  BY DEF TypeOK
<1>4. \A o \in Op, k \in Kind : \A i \in 1..Len(slots[o][k]) : slots[o][k][i] \in Slot
  BY <1>3
<1>5. \A s \in Slot : s.def \in Def /\ s.uid \in Uid /\ s = [def |-> s.def, uid |-> s.uid]
  BY DEF Slot
<1>6. DefinedVals \subseteq Val
  BY <1>2 DEF DefinedVals, ValuesOf, TypeOK
<1> QED BY <1>1, <1>2, <1>3, <1>4, <1>5, <1>6

LEMMA InitLemma == Init => IInv
<1> SUFFICES ASSUME Init PROVE IInv
  OBVIOUS
<1>1. /\ \A e \in Entity : vals[e] = <<>>
      /\ \A o \in Op, k \in Kind : slots[o][k] = <<>>
      /\ \A d \in Def : uses[d] = {}
  BY DEF Init
<1>2. TypeOK
  BY DEF Init, TypeOK
<1>3. ValuesOK /\ SlotsOK /\ UsesOK /\ RefsOK
  BY <1>1 DEF ValuesOK, SlotsOK, UsesOK, RefsOK
<1> QED BY <1>2, <1>3 DEF IInv

(***************************************************************************)
(* What invariants follow from the inductive one.                          *)
(***************************************************************************)
LEMMA ConsequenceLemma == IInv => ChainsAgree /\ NothingDangles
<1> SUFFICES ASSUME IInv PROVE ChainsAgree /\ NothingDangles
  OBVIOUS
<1>1. UidsUnique
  BY DEF IInv, ValuesOK, SlotsOK, UidsUnique, SlotAt
<1>2. ChainsAgree
  BY <1>1 DEF IInv, UsesOK, ChainsAgree, SlotAt
<1>3. ASSUME NEW d \in Def, NEW use \in uses[d]
      PROVE  use[1] \in live
  <2>1. PICK o \in Op, u \in Uid : use = <<o, u>>
    BY <1>3 DEF IInv, TypeOK, Use
  <2>2. PICK k \in Kind : \E i \in 1..Len(slots[o][k]) : slots[o][k][i] = [def |-> d, uid |-> u]
    BY <1>3, <2>1 DEF IInv, UsesOK
  <2> QED BY <2>1, <2>2 DEF IInv, SlotsOK
<1>4. NothingDangles
  BY <1>3 DEF IInv, SlotsOK, RefsOK, NothingDangles, SlotAt
<1> QED BY <1>2, <1>4

(***************************************************************************)
(* Results and arguments.  Values that are added are new, and those that   *)
(* are removed have no use, so no operand loses its definition.            *)
(***************************************************************************)

\* A step that leaves slots and uses alone keeps them right if no definition in use goes.
LEMMA ValuesOnlyLemma ==
    ASSUME IInv, slots' = slots, uses' = uses, use_uids' = use_uids, live \subseteq live',
           \A x \in DefinedVals : uses[x] # {} => x \in DefinedVals'
    PROVE  SlotsOK' /\ UsesOK' /\ RefsOK'
<1>1. SlotsOK' /\ UsesOK'
  BY DEF IInv, SlotsOK, UsesOK
<1>2. ASSUME NEW o \in Op, NEW k \in Kind, NEW i \in 1..Len(slots[o][k])
      PROVE  slots[o][k][i].def \in DefsOf(k)'
  <2>1. slots[o][k][i].def \in DefsOf(k)
    BY DEF IInv, RefsOK
  <2>2. CASE k # "operand"
    BY <2>1, <2>2 DEF DefsOf
  <2>3. CASE k = "operand"
    <3> DEFINE s == slots[o][k][i]
    <3>1. s.def \in DefinedVals
      BY <2>1, <2>3 DEF DefsOf
    <3>2. s.def \in Def /\ s.uid \in Uid /\ s = [def |-> s.def, uid |-> s.uid]
      BY TypesLemma DEF IInv
    <3>3. <<o, s.uid>> \in uses[s.def]
      BY <3>2 DEF IInv, UsesOK
    <3> QED BY <3>1, <3>3, <2>3 DEF DefsOf
  <2> QED BY <2>2, <2>3
<1>3. RefsOK'
  BY <1>2 DEF RefsOK
<1> QED BY <1>1, <1>3

\* One entity's values change, to values it had or that are new.
LEMMA ValuesStepLemma ==
    ASSUME IInv, NEW e \in Entity, NEW t \in Seq(Val), vals' = [vals EXCEPT ![e] = t],
           \A f \in live : f # e => f \in live',
           value_uids \subseteq value_uids',
           \A j, k \in 1..Len(t) : t[j] = t[k] => j = k,
           \A j \in 1..Len(t) : e \in live' /\ t[j] \in value_uids',
           \A j \in 1..Len(t) : t[j] \in value_uids => \E a \in 1..Len(vals[e]) : t[j] = vals[e][a]
    PROVE  ValuesOK'
<1>1. vals'[e] = t /\ \A f \in Entity : f # e => vals'[f] = vals[f]
  BY DEF IInv, TypeOK
<1>2. ASSUME NEW g \in Entity, g # e, NEW k \in 1..Len(vals[g]), NEW j \in 1..Len(t)
      PROVE  vals[g][k] # t[j]
  BY <1>2 DEF IInv, ValuesOK
<1>3. ASSUME NEW f \in Entity, NEW j \in 1..Len(vals'[f])
      PROVE  f \in live' /\ vals'[f][j] \in value_uids'
  BY <1>1 DEF IInv, ValuesOK
<1>4. ASSUME NEW f \in Entity, NEW g \in Entity, NEW j \in 1..Len(vals'[f]), NEW k \in 1..Len(vals'[g]),
             vals'[f][j] = vals'[g][k]
      PROVE  f = g /\ j = k
  <2>1. CASE f = e /\ g = e
    BY <2>1, <1>4, <1>1
  <2>2. CASE f # e /\ g # e
    BY <2>2, <1>4, <1>1 DEF IInv, ValuesOK
  <2>3. CASE f = e /\ g # e
    BY <2>3, <1>4, <1>2, <1>1
  <2>4. CASE f # e /\ g = e
    BY <2>4, <1>4, <1>2, <1>1
  <2> QED BY <2>1, <2>2, <2>3, <2>4
<1> QED BY <1>3, <1>4 DEF ValuesOK

LEMMA InsertValueLemma ==
    ASSUME IInv, NEW e \in Entity, NEW v \in Val, NEW i \in 1..(Len(vals[e]) + 1), insert_value(e, i, v)
    PROVE  IInv'
<1>1. /\ e \in live /\ v \notin value_uids
      /\ vals' = [vals EXCEPT ![e] = InsertAt(vals[e], i, v)] /\ value_uids' = value_uids \cup {v}
      /\ live' = live /\ erased' = erased /\ slots' = slots /\ use_uids' = use_uids /\ uses' = uses
  BY DEF insert_value
<1>2. vals[e] \in Seq(Val)
  BY TypesLemma DEF IInv
<1>3. PICK t \in Seq(Val) : t = InsertAt(vals[e], i, v) /\ Inserted(vals[e], i, v, t)
  BY <1>2, InsertAtLemma
<1>4. vals' = [vals EXCEPT ![e] = t] /\ vals'[e] = t /\ \A f \in Entity : f # e => vals'[f] = vals[f]
  BY <1>1, <1>3 DEF IInv, TypeOK
<1>5. PICK s \in Seq(Val) : s = vals[e]
  BY <1>2
<1>6. i \in 1..(Len(s) + 1) /\ Inserted(s, i, v, t)
  BY <1>3, <1>5
<1>7. /\ i \in 1..Len(t) /\ t[i] = v
      /\ \A j \in 1..Len(s) : \E k \in 1..Len(t) : t[k] = s[j]
      /\ \A k \in 1..Len(t) : k # i => \E a \in 1..Len(s) : t[k] = s[a]
      /\ \A j, k \in 1..Len(t) : j # i /\ k # i =>
            \E a, b \in 1..Len(s) : t[j] = s[a] /\ t[k] = s[b] /\ (a = b => j = k)
  BY <1>6, InsertedElements DEF ElementsInserted
<1>8. TypeOK'
  BY <1>1, <1>4 DEF IInv, TypeOK
<1>9. /\ \A a, b \in 1..Len(s) : s[a] = s[b] => a = b
      /\ \A a \in 1..Len(s) : s[a] \in value_uids /\ s[a] # v
  BY <1>1, <1>5 DEF IInv, ValuesOK
<1>10. ASSUME NEW j \in 1..Len(t)
       PROVE  /\ e \in live' /\ t[j] \in value_uids'
              /\ t[j] \in value_uids => \E a \in 1..Len(vals[e]) : t[j] = vals[e][a]
  BY <1>1, <1>5, <1>7, <1>9
<1>11. \A j, k \in 1..Len(t) : t[j] = t[k] => j = k
  <2> SUFFICES ASSUME NEW j \in 1..Len(t), NEW k \in 1..Len(t), t[j] = t[k] PROVE j = k
    OBVIOUS
  <2>1. \A a \in 1..Len(t) : a # i => t[a] # v
    BY <1>7, <1>9
  <2>2. CASE j = i \/ k = i
    BY <2>1, <2>2, <1>7
  <2>3. CASE j # i /\ k # i
    <3>1. PICK a, b \in 1..Len(s) : t[j] = s[a] /\ t[k] = s[b] /\ (a = b => j = k)
      BY <2>3, <1>7
    <3> QED BY <3>1, <1>9
  <2> QED BY <2>2, <2>3
<1>12. ValuesOK'
  <2>1. (\A f \in live : f # e => f \in live') /\ value_uids \subseteq value_uids'
    BY <1>1
  <2> QED BY <1>4, <1>10, <1>11, <2>1, ValuesStepLemma
<1>13. DefinedVals \subseteq DefinedVals'
  <2> SUFFICES ASSUME NEW f \in live, NEW j \in 1..Len(vals[f])
               PROVE  \E k \in 1..Len(vals'[f]) : vals'[f][k] = vals[f][j]
    BY <1>1 DEF DefinedVals, ValuesOf
  <2>1. f \in Entity
    BY DEF IInv, TypeOK
  <2>2. CASE f # e
    BY <2>1, <2>2, <1>4
  <2>3. CASE f = e
    <3>1. vals'[f] = t /\ vals[f] = s
      BY <2>3, <1>4, <1>5
    <3> QED BY <3>1, <1>7
  <2> QED BY <2>2, <2>3
<1> QED BY <1>1, <1>8, <1>12, <1>13, ValuesOnlyLemma DEF IInv

LEMMA RemoveValueLemma ==
    ASSUME IInv, NEW e \in Entity, NEW i \in 1..Len(vals[e]), remove_value(e, i)
    PROVE  IInv'
<1>1. /\ e \in live /\ uses[vals[e][i]] = {}
      /\ vals' = [vals EXCEPT ![e] = RemoveAt(vals[e], i)] /\ value_uids' = value_uids
      /\ live' = live /\ erased' = erased /\ slots' = slots /\ use_uids' = use_uids /\ uses' = uses
  BY DEF remove_value
<1>2. vals[e] \in Seq(Val)
  BY TypesLemma DEF IInv
<1>3. PICK t \in Seq(Val) : t = RemoveAt(vals[e], i) /\ RemovedAt(vals[e], i, t)
  BY <1>2, RemoveAtLemma
<1>4. vals' = [vals EXCEPT ![e] = t] /\ vals'[e] = t /\ \A f \in Entity : f # e => vals'[f] = vals[f]
  BY <1>1, <1>3 DEF IInv, TypeOK
<1>5. PICK s \in Seq(Val) : s = vals[e]
  BY <1>2
<1>6. i \in 1..Len(s) /\ RemovedAt(s, i, t)
  BY <1>3, <1>5
<1>7. /\ \A j \in 1..Len(s) : j # i => \E k \in 1..Len(t) : t[k] = s[j]
      /\ \A k \in 1..Len(t) : \E a \in 1..Len(s) : a # i /\ t[k] = s[a]
      /\ \A j, k \in 1..Len(t) :
            \E a, b \in 1..Len(s) : a # i /\ b # i /\ t[j] = s[a] /\ t[k] = s[b] /\ (a = b => j = k)
  BY <1>6, RemovedElements DEF ElementsRemoved
<1>8. TypeOK'
  BY <1>1, <1>4 DEF IInv, TypeOK
<1>9. /\ \A a, b \in 1..Len(s) : s[a] = s[b] => a = b
      /\ \A a \in 1..Len(s) : s[a] \in value_uids
  BY <1>5 DEF IInv, ValuesOK
<1>10. ASSUME NEW j \in 1..Len(t)
       PROVE  /\ e \in live' /\ t[j] \in value_uids'
              /\ t[j] \in value_uids => \E a \in 1..Len(vals[e]) : t[j] = vals[e][a]
  BY <1>1, <1>5, <1>7, <1>9
<1>11. \A j, k \in 1..Len(t) : t[j] = t[k] => j = k
  <2> SUFFICES ASSUME NEW j \in 1..Len(t), NEW k \in 1..Len(t), t[j] = t[k] PROVE j = k
    OBVIOUS
  <2>1. PICK a, b \in 1..Len(s) : t[j] = s[a] /\ t[k] = s[b] /\ (a = b => j = k)
    BY <1>7
  <2> QED BY <2>1, <1>9
<1>12. ValuesOK'
  <2>1. (\A f \in live : f # e => f \in live') /\ value_uids \subseteq value_uids'
    BY <1>1
  <2> QED BY <1>4, <1>10, <1>11, <2>1, ValuesStepLemma
<1>13. \A x \in DefinedVals : uses[x] # {} => x \in DefinedVals'
  <2> SUFFICES ASSUME NEW x \in DefinedVals, uses[x] # {} PROVE x \in DefinedVals'
    OBVIOUS
  <2>0. PICK f \in live : \E j \in 1..Len(vals[f]) : x = vals[f][j]
    BY DEF DefinedVals, ValuesOf
  <2> SUFFICES \E k \in 1..Len(vals'[f]) : vals'[f][k] = x
    BY <1>1 DEF DefinedVals, ValuesOf
  <2>1. f \in Entity
    BY DEF IInv, TypeOK
  <2>2. CASE f # e
    BY <2>0, <2>1, <2>2, <1>4
  <2>3. CASE f = e
    <3>1. \E j \in 1..Len(s) : j # i /\ x = s[j]
      BY <2>0, <2>3, <1>1, <1>5
    <3>2. vals'[f] = t
      BY <2>3, <1>4
    <3> QED BY <3>1, <3>2, <1>7
  <2> QED BY <2>2, <2>3
<1> QED BY <1>1, <1>8, <1>12, <1>13, ValuesOnlyLemma DEF IInv

(***************************************************************************)
(* Operands and successors.                                                *)
(***************************************************************************)

\* Operation o has an operand or successor that is the use u of d.
Holds(o, d, u) == \E k \in Kind : \E i \in 1..Len(slots[o][k]) : slots[o][k][i] = [def |-> d, uid |-> u]

\* The operands and successors of one operation change, to uses that it had or that are new.
LEMMA SlotsStepLemma ==
    ASSUME IInv, NEW o \in Op, \A p \in Op : p # o => slots'[p] = slots[p],
           \A p \in live : p # o => p \in live',
           use_uids \subseteq use_uids',
           \A k, l \in Kind : \A i \in 1..Len(slots'[o][k]), j \in 1..Len(slots'[o][l]) :
              slots'[o][k][i].uid = slots'[o][l][j].uid => k = l /\ i = j,
           \A k \in Kind : \A i \in 1..Len(slots'[o][k]) : o \in live' /\ slots'[o][k][i].uid \in use_uids',
           \A k \in Kind : \A i \in 1..Len(slots'[o][k]) : slots'[o][k][i].uid \in use_uids =>
              \E l \in Kind : \E j \in 1..Len(slots[o][l]) : slots'[o][k][i].uid = slots[o][l][j].uid
    PROVE  SlotsOK'
<1>1. ASSUME NEW p \in Op, p # o, NEW k \in Kind, NEW l \in Kind,
             NEW i \in 1..Len(slots'[o][k]), NEW j \in 1..Len(slots[p][l])
      PROVE  slots'[o][k][i].uid # slots[p][l][j].uid
  <2>1. slots[p][l][j].uid \in use_uids
    BY DEF IInv, SlotsOK
  <2> SUFFICES ASSUME slots'[o][k][i].uid \in use_uids PROVE slots'[o][k][i].uid # slots[p][l][j].uid
    BY <2>1
  <2>2. PICK m \in Kind : \E a \in 1..Len(slots[o][m]) : slots'[o][k][i].uid = slots[o][m][a].uid
    OBVIOUS
  <2> QED BY <2>2, <1>1 DEF IInv, SlotsOK
<1>2. ASSUME NEW p \in Op, NEW k \in Kind, NEW i \in 1..Len(slots'[p][k])
      PROVE  p \in live' /\ slots'[p][k][i].uid \in use_uids'
  <2>1. CASE p = o
    BY <2>1
  <2>2. CASE p # o
    BY <2>2 DEF IInv, SlotsOK
  <2> QED BY <2>1, <2>2
<1>3. ASSUME NEW p \in Op, NEW q \in Op, NEW k \in Kind, NEW l \in Kind,
             NEW i \in 1..Len(slots'[p][k]), NEW j \in 1..Len(slots'[q][l]),
             slots'[p][k][i].uid = slots'[q][l][j].uid
      PROVE  p = q /\ k = l /\ i = j
  <2>1. CASE p = o /\ q = o
    <3>1. i \in 1..Len(slots'[o][k]) /\ j \in 1..Len(slots'[o][l]) /\ slots'[o][k][i].uid = slots'[o][l][j].uid
      BY <2>1, <1>3
    <3> QED BY <3>1, <2>1
  <2>2. CASE p # o /\ q # o
    <3>1. /\ i \in 1..Len(slots[p][k]) /\ j \in 1..Len(slots[q][l])
          /\ slots[p][k][i].uid = slots[q][l][j].uid
      BY <2>2, <1>3
    <3> QED BY <3>1 DEF IInv, SlotsOK
  <2>3. CASE p = o /\ q # o
    <3>1. i \in 1..Len(slots'[o][k]) /\ j \in 1..Len(slots[q][l]) /\ slots'[o][k][i].uid = slots[q][l][j].uid
      BY <2>3, <1>3
    <3> QED BY <3>1, <2>3, <1>1
  <2>4. CASE p # o /\ q = o
    <3>1. i \in 1..Len(slots[p][k]) /\ j \in 1..Len(slots'[o][l]) /\ slots'[o][l][j].uid = slots[p][k][i].uid
      BY <2>4, <1>3
    <3> QED BY <3>1, <2>4, <1>1
  <2> QED BY <2>1, <2>2, <2>3, <2>4
<1> QED BY <1>2, <1>3 DEF SlotsOK

\* The uses recorded are those held.
LEMMA UsesLemma ==
    ASSUME IInv, NEW d \in Def, NEW o \in Op, NEW u \in Uid
    PROVE  <<o, u>> \in uses[d] <=> Holds(o, d, u)
<1>1. UsesOK
  BY DEF IInv
<1> QED BY <1>1 DEF UsesOK, Holds

\* A use of an operation is in one of its lists only.
LEMMA HoldsLemma ==
    ASSUME IInv, NEW o \in Op, NEW k \in Kind,
           \A l \in Kind : l # k => slots'[o][l] = slots[o][l],
           NEW d \in Def, NEW u \in Uid
    PROVE  Holds(o, d, u)' <=>
              \/ \E i \in 1..Len(slots'[o][k]) : slots'[o][k][i] = [def |-> d, uid |-> u]
              \/ Holds(o, d, u) /\ \A i \in 1..Len(slots[o][k]) : slots[o][k][i] # [def |-> d, uid |-> u]
<1> DEFINE r == [def |-> d, uid |-> u]
           In(s) == \E i \in 1..Len(s) : s[i] = r
<1>1. /\ Holds(o, d, u)' <=> \E l \in Kind : In(slots'[o][l])
      /\ Holds(o, d, u) <=> \E l \in Kind : In(slots[o][l])
  BY DEF Holds
<1>2. \A l \in Kind : l # k /\ In(slots[o][l]) => ~In(slots[o][k])
  <2> SUFFICES ASSUME NEW l \in Kind, l # k, NEW i \in 1..Len(slots[o][l]), NEW j \in 1..Len(slots[o][k]),
                      slots[o][l][i] = r, slots[o][k][j] = r
               PROVE  FALSE
    OBVIOUS
  <2>1. slots[o][l][i].uid = slots[o][k][j].uid
    OBVIOUS
  <2>2. SlotsOK
    BY DEF IInv
  <2> QED BY <2>1, <2>2 DEF SlotsOK
<1>3. In(slots'[o][k]) <=> \E i \in 1..Len(slots'[o][k]) : slots'[o][k][i] = [def |-> d, uid |-> u]
  OBVIOUS
<1>4. In(slots[o][k]) <=> ~ \A i \in 1..Len(slots[o][k]) : slots[o][k][i] # [def |-> d, uid |-> u]
  OBVIOUS
<1> HIDE DEF In
<1> QED BY <1>1, <1>2, <1>3, <1>4

\* One list of operands or successors of a live operation becomes t: what t
\* holds was there or is new and may be used, and the uses change with it.
BecomesList(o, k, t) ==
    /\ slots' = [slots EXCEPT ![o][k] = t]
    /\ live' = live /\ erased' = erased /\ vals' = vals /\ value_uids' = value_uids
    /\ use_uids \subseteq use_uids' /\ use_uids' \subseteq Uid /\ uses' \in [Def -> SUBSET Use]
    /\ \A i, j \in 1..Len(t) : t[i].uid = t[j].uid => i = j
    /\ \A i \in 1..Len(t) : t[i].uid \in use_uids' /\ t[i].def \in DefsOf(k)
    /\ \A i \in 1..Len(t) : t[i].uid \in use_uids =>
          \E j \in 1..Len(slots[o][k]) : t[i].uid = slots[o][k][j].uid
    /\ \A d \in Def, p \in Op, u \in Uid : p # o => (<<p, u>> \in uses'[d] <=> <<p, u>> \in uses[d])
    /\ \A d \in Def, u \in Uid : <<o, u>> \in uses'[d] <=>
          \/ \E i \in 1..Len(t) : t[i] = [def |-> d, uid |-> u]
          \/ /\ <<o, u>> \in uses[d]
             /\ \A i \in 1..Len(slots[o][k]) : slots[o][k][i] # [def |-> d, uid |-> u]

LEMMA OneListLemma ==
    ASSUME IInv, NEW o \in Op, NEW k \in Kind, NEW t \in Seq(Slot), o \in live, BecomesList(o, k, t)
    PROVE  IInv'
<1> USE DEF BecomesList
<1>2. /\ slots' \in [Op -> [Kind -> Seq(Slot)]]
      /\ \A p \in Op : p # o => slots'[p] = slots[p]
      /\ slots'[o][k] = t /\ \A l \in Kind : l # k => slots'[o][l] = slots[o][l]
  BY DEF IInv, TypeOK
<1>3. TypeOK'
  BY <1>2 DEF IInv, TypeOK
<1>4. SlotsOK'
  <2>1. \A l \in Kind : \A i \in 1..Len(slots[o][l]) : slots[o][l][i].uid \in use_uids
    BY DEF IInv, SlotsOK
  <2>2. ASSUME NEW l \in Kind, NEW i \in 1..Len(slots'[o][l])
        PROVE  o \in live' /\ slots'[o][l][i].uid \in use_uids'
    <3>1. CASE l = k
      BY <3>1, <1>2
    <3>2. CASE l # k
      BY <3>2, <1>2, <2>1
    <3> QED BY <3>1, <3>2
  <2>6. ASSUME NEW l \in Kind, NEW i \in 1..Len(slots'[o][l]), slots'[o][l][i].uid \in use_uids
        PROVE  \E m \in Kind : \E j \in 1..Len(slots[o][m]) : slots'[o][l][i].uid = slots[o][m][j].uid
    <3>1. CASE l = k
      BY <3>1, <2>6, <1>2
    <3>2. CASE l # k
      BY <3>2, <1>2
    <3> QED BY <3>1, <3>2
  <2>3. ASSUME NEW l \in Kind, l # k, NEW i \in 1..Len(t), NEW j \in 1..Len(slots[o][l])
        PROVE  t[i].uid # slots[o][l][j].uid
    <3> SUFFICES ASSUME t[i].uid \in use_uids PROVE t[i].uid # slots[o][l][j].uid
      BY <2>1
    <3>1. PICK a \in 1..Len(slots[o][k]) : t[i].uid = slots[o][k][a].uid
      OBVIOUS
    <3> QED BY <3>1, <2>3 DEF IInv, SlotsOK
  <2>4. ASSUME NEW l \in Kind, NEW m \in Kind, NEW i \in 1..Len(slots'[o][l]), NEW j \in 1..Len(slots'[o][m]),
               slots'[o][l][i].uid = slots'[o][m][j].uid
        PROVE  l = m /\ i = j
    <3>1. CASE l = k /\ m = k
      BY <3>1, <2>4, <1>2
    <3>2. CASE l = k /\ m # k
      BY <3>2, <2>4, <2>3, <1>2
    <3>3. CASE l # k /\ m = k
      BY <3>3, <2>4, <2>3, <1>2
    <3>4. CASE l # k /\ m # k
      <4>1. i \in 1..Len(slots[o][l]) /\ j \in 1..Len(slots[o][m]) /\ slots[o][l][i].uid = slots[o][m][j].uid
        BY <3>4, <2>4, <1>2
      <4> QED BY <4>1 DEF IInv, SlotsOK
    <3> QED BY <3>1, <3>2, <3>3, <3>4
  <2>5. (\A p \in live : p # o => p \in live') /\ use_uids \subseteq use_uids'
    OBVIOUS
  <2> QED BY <1>2, <2>2, <2>4, <2>5, <2>6, SlotsStepLemma
<1>5. ASSUME NEW d \in Def, NEW p \in Op, NEW u \in Uid
      PROVE  <<p, u>> \in uses'[d] <=> Holds(p, d, u)'
  <2>1. CASE p # o
    <3>1. Holds(p, d, u)' <=> Holds(p, d, u)
      BY <2>1, <1>2 DEF Holds
    <3>2. <<p, u>> \in uses'[d] <=> <<p, u>> \in uses[d]
      BY <2>1
    <3> QED BY <3>1, <3>2, UsesLemma
  <2>2. CASE p = o
    <3>1. <<o, u>> \in uses[d] <=> Holds(o, d, u)
      BY UsesLemma
    <3>2. Holds(o, d, u)' <=>
            \/ \E i \in 1..Len(slots'[o][k]) : slots'[o][k][i] = [def |-> d, uid |-> u]
            \/ Holds(o, d, u) /\ \A i \in 1..Len(slots[o][k]) : slots[o][k][i] # [def |-> d, uid |-> u]
      <4>1. \A l \in Kind : l # k => slots'[o][l] = slots[o][l]
        BY <1>2
      <4> QED BY <4>1, HoldsLemma
    <3>3. <<o, u>> \in uses'[d] <=>
            \/ \E i \in 1..Len(t) : t[i] = [def |-> d, uid |-> u]
            \/ /\ <<o, u>> \in uses[d]
               /\ \A i \in 1..Len(slots[o][k]) : slots[o][k][i] # [def |-> d, uid |-> u]
      OBVIOUS
    <3>4. <<o, u>> \in uses'[d] <=> Holds(o, d, u)'
      BY <1>2, <3>1, <3>2, <3>3
    <3> QED BY <3>4, <2>2
  <2> QED BY <2>1, <2>2
<1>6. UsesOK'
  BY <1>5 DEF UsesOK, Holds
<1>7. ValuesOK'
  BY DEF IInv, ValuesOK
<1>8. RefsOK'
  <2>1. \A l \in Kind : DefsOf(l)' = DefsOf(l)
    BY DEF DefsOf, DefinedVals, ValuesOf
  <2>2. ASSUME NEW p \in Op, NEW l \in Kind, NEW i \in 1..Len(slots'[p][l])
        PROVE  slots'[p][l][i].def \in DefsOf(l)
    <3>1. CASE p = o /\ l = k
      BY <3>1, <1>2
    <3>2. CASE p # o \/ l # k
      <4>1. slots'[p][l] = slots[p][l]
        <5>1. CASE p # o
          BY <5>1, <1>2
        <5>2. CASE p = o /\ l # k
          BY <5>2, <1>2
        <5> QED BY <5>1, <5>2, <3>2
      <4> QED BY <4>1 DEF IInv, RefsOK
    <3> QED BY <3>1, <3>2
  <2> QED BY <2>1, <2>2 DEF RefsOK
<1> QED BY <1>3, <1>4, <1>6, <1>7, <1>8 DEF IInv

\* The definitions that may be used are definitions, and a use made of one is well formed.
LEMMA NewSlotLemma ==
    ASSUME IInv, NEW k \in Kind, NEW d \in DefsOf(k), NEW u \in Uid
    PROVE  d \in Def /\ [def |-> d, uid |-> u] \in Slot
<1>1. DefsOf(k) \subseteq Def
  BY TypesLemma DEF IInv, TypeOK, DefsOf, Def
<1> QED BY <1>1 DEF Slot

LEMMA InsertSlotLemma ==
    ASSUME IInv, NEW o \in Op, NEW k \in Kind, NEW d \in Def, NEW u \in Uid,
           NEW i \in 1..(Len(slots[o][k]) + 1), insert_slot(o, k, i, d, u)
    PROVE  IInv'
<1>1. /\ o \in live /\ d \in DefsOf(k) /\ u \notin use_uids
      /\ slots' = [slots EXCEPT ![o][k] = InsertAt(slots[o][k], i, [def |-> d, uid |-> u])]
      /\ use_uids' = use_uids \cup {u} /\ uses' = add_use(uses, d, <<o, u>>)
      /\ live' = live /\ erased' = erased /\ vals' = vals /\ value_uids' = value_uids
  BY DEF insert_slot, IInv, TypeOK
<1>2. PICK s \in Seq(Slot) : s = slots[o][k]
  BY TypesLemma DEF IInv
<1>3. PICK r \in Slot : r = [def |-> d, uid |-> u] /\ r.uid = u /\ r.def = d
  BY <1>1, NewSlotLemma
<1>4. i \in 1..(Len(s) + 1)
  BY <1>2
<1>5. PICK t \in Seq(Slot) : t = InsertAt(s, i, r) /\ Inserted(s, i, r, t)
  BY <1>3, <1>4, InsertAtLemma
<1>6. /\ i \in 1..Len(t) /\ t[i] = r
      /\ \A j \in 1..Len(s) : \E a \in 1..Len(t) : t[a] = s[j]
      /\ \A j \in 1..Len(t) : j # i => \E a \in 1..Len(s) : t[j] = s[a]
      /\ \A j, l \in 1..Len(t) : j # i /\ l # i =>
            \E a, b \in 1..Len(s) : t[j] = s[a] /\ t[l] = s[b] /\ (a = b => j = l)
  <2>1. ElementsInserted(s, i, r, t)
    BY <1>4, <1>5, InsertedElements
  <2> QED BY <2>1 DEF ElementsInserted
<1>7. /\ \A a, b \in 1..Len(s) : s[a].uid = s[b].uid => a = b
      /\ \A a \in 1..Len(s) : s[a].uid \in use_uids /\ s[a].def \in DefsOf(k)
  BY <1>2 DEF IInv, SlotsOK, RefsOK
<1>8. slots' = [slots EXCEPT ![o][k] = t]
  BY <1>1, <1>2, <1>3, <1>5
<1>9. use_uids \subseteq use_uids' /\ use_uids' \subseteq Uid /\ uses' \in [Def -> SUBSET Use]
  BY <1>1 DEF IInv, TypeOK, add_use, Use
<1>10. ASSUME NEW j \in 1..Len(t), NEW l \in 1..Len(t), t[j].uid = t[l].uid
       PROVE  j = l
  <2>1. \A a \in 1..Len(t) : a # i => t[a].uid # u
    <3> SUFFICES ASSUME NEW a \in 1..Len(t), a # i PROVE t[a].uid # u
      OBVIOUS
    <3>1. PICK b \in 1..Len(s) : t[a] = s[b]
      BY <1>6
    <3> QED BY <3>1, <1>1, <1>7
  <2>2. CASE j = i \/ l = i
    BY <2>1, <2>2, <1>3, <1>6, <1>10
  <2>3. CASE j # i /\ l # i
    <3>1. PICK a, b \in 1..Len(s) : t[j] = s[a] /\ t[l] = s[b] /\ (a = b => j = l)
      BY <2>3, <1>6
    <3> QED BY <3>1, <1>7, <1>10
  <2> QED BY <2>2, <2>3
<1>11. ASSUME NEW j \in 1..Len(t)
       PROVE  t[j].uid \in use_uids' /\ t[j].def \in DefsOf(k)
  <2>1. CASE j = i
    BY <2>1, <1>1, <1>3, <1>6
  <2>2. CASE j # i
    <3>1. PICK a \in 1..Len(s) : t[j] = s[a]
      BY <2>2, <1>6
    <3> QED BY <3>1, <1>2, <1>7, <1>9
  <2> QED BY <2>1, <2>2
<1>12. ASSUME NEW j \in 1..Len(t), t[j].uid \in use_uids
       PROVE  \E a \in 1..Len(slots[o][k]) : t[j].uid = slots[o][k][a].uid
  <2>1. j # i
    BY <1>1, <1>3, <1>6, <1>12
  <2>2. PICK a \in 1..Len(s) : t[j] = s[a]
    BY <2>1, <1>6
  <2> QED BY <2>2, <1>2
<1>13. ASSUME NEW c \in Def, NEW p \in Op, NEW x \in Uid
       PROVE  <<p, x>> \in uses'[c] <=> <<p, x>> \in uses[c] \/ (c = d /\ p = o /\ x = u)
  BY <1>1 DEF IInv, TypeOK, add_use
<1>14. ASSUME NEW c \in Def, NEW x \in Uid
       PROVE  <<o, x>> \in uses'[c] <=>
                 \/ \E j \in 1..Len(t) : t[j] = [def |-> c, uid |-> x]
                 \/ /\ <<o, x>> \in uses[c]
                    /\ \A j \in 1..Len(slots[o][k]) : slots[o][k][j] # [def |-> c, uid |-> x]
  <2>1. (\E j \in 1..Len(t) : t[j] = [def |-> c, uid |-> x]) <=>
           (c = d /\ x = u) \/ \E j \in 1..Len(s) : s[j] = [def |-> c, uid |-> x]
    <3>1. ASSUME NEW j \in 1..Len(t), t[j] = [def |-> c, uid |-> x]
          PROVE  (c = d /\ x = u) \/ \E a \in 1..Len(s) : s[a] = [def |-> c, uid |-> x]
      <4>1. CASE j = i
        BY <4>1, <3>1, <1>3, <1>6
      <4>2. CASE j # i
        <5>1. PICK a \in 1..Len(s) : t[j] = s[a]
          BY <4>2, <1>6
        <5> QED BY <5>1, <3>1
      <4> QED BY <4>1, <4>2
    <3>2. ASSUME c = d, x = u PROVE \E j \in 1..Len(t) : t[j] = [def |-> c, uid |-> x]
      BY <3>2, <1>3, <1>6
    <3>3. ASSUME NEW a \in 1..Len(s), s[a] = [def |-> c, uid |-> x]
          PROVE  \E j \in 1..Len(t) : t[j] = [def |-> c, uid |-> x]
      <4>1. PICK j \in 1..Len(t) : t[j] = s[a]
        BY <1>6
      <4> QED BY <4>1, <3>3
    <3> QED BY <3>1, <3>2, <3>3
  <2>2. (\E j \in 1..Len(s) : s[j] = [def |-> c, uid |-> x]) => <<o, x>> \in uses[c]
    BY <1>2, UsesLemma DEF Holds
  <2> QED BY <2>1, <2>2, <1>2, <1>13
<1>15. \A c \in Def, p \in Op, x \in Uid : p # o => (<<p, x>> \in uses'[c] <=> <<p, x>> \in uses[c])
  BY <1>13
<1>16. BecomesList(o, k, t)
  BY <1>1, <1>8, <1>9, <1>10, <1>11, <1>12, <1>14, <1>15 DEF BecomesList
<1> QED BY <1>1, <1>16, OneListLemma

LEMMA ReplaceSlotLemma ==
    ASSUME IInv, NEW o \in Op, NEW k \in Kind, NEW d \in Def, NEW u \in Uid,
           NEW i \in 1..Len(slots[o][k]), replace_slot(o, k, i, d, u)
    PROVE  IInv'
<1>2. PICK s \in Seq(Slot) : s = slots[o][k]
  BY TypesLemma DEF IInv
<1>0. i \in 1..Len(s) /\ s[i] \in Slot /\ s[i].def \in Def /\ s[i].uid \in Uid
      /\ s[i] = [def |-> s[i].def, uid |-> s[i].uid]
  BY <1>2, TypesLemma DEF IInv
<1>1. /\ o \in live /\ d \in DefsOf(k) /\ u \notin use_uids
      /\ slots' = [slots EXCEPT ![o][k] = [s EXCEPT ![i] = [def |-> d, uid |-> u]]]
      /\ use_uids' = use_uids \cup {u}
      /\ uses' = remove_use(add_use(uses, d, <<o, u>>), s[i].def, <<o, s[i].uid>>)
      /\ live' = live /\ erased' = erased /\ vals' = vals /\ value_uids' = value_uids
  BY <1>2 DEF replace_slot, IInv, TypeOK
<1>3. PICK r \in Slot : r = [def |-> d, uid |-> u] /\ r.uid = u /\ r.def = d
  BY <1>1, NewSlotLemma
<1>4. PICK t \in Seq(Slot) : t = [s EXCEPT ![i] = r]
  <2>1. [s EXCEPT ![i] = r] \in Seq(Slot)
    BY <1>0, ExceptSeq
  <2> QED BY <2>1
<1>5. Len(t) = Len(s) /\ t[i] = r /\ \A j \in 1..Len(t) : j # i => t[j] = s[j]
  BY <1>0, <1>4
<1>6. slots' = [slots EXCEPT ![o][k] = t]
  BY <1>1, <1>3, <1>4
<1>7. /\ \A a, b \in 1..Len(s) : s[a].uid = s[b].uid => a = b
      /\ \A a \in 1..Len(s) : s[a].uid \in use_uids /\ s[a].def \in DefsOf(k)
  BY <1>2 DEF IInv, SlotsOK, RefsOK
<1>8. use_uids \subseteq use_uids' /\ use_uids' \subseteq Uid /\ uses' \in [Def -> SUBSET Use]
  <2>1. <<o, u>> \in Use /\ <<o, s[i].uid>> \in Use
    BY <1>0 DEF Use
  <2>2. add_use(uses, d, <<o, u>>) \in [Def -> SUBSET Use]
    BY <2>1 DEF IInv, TypeOK, add_use
  <2>3. uses' \in [Def -> SUBSET Use]
    BY <2>1, <2>2, <1>1 DEF remove_use
  <2> QED BY <2>3, <1>1 DEF IInv, TypeOK
<1>9. \A j, l \in 1..Len(t) : t[j].uid = t[l].uid => j = l
  BY <1>0, <1>1, <1>3, <1>5, <1>7
<1>10. \A j \in 1..Len(t) : t[j].uid \in use_uids' /\ t[j].def \in DefsOf(k)
  BY <1>1, <1>3, <1>5, <1>7, <1>8
<1>11. \A j \in 1..Len(t) : t[j].uid \in use_uids =>
          \E a \in 1..Len(slots[o][k]) : t[j].uid = slots[o][k][a].uid
  BY <1>1, <1>2, <1>3, <1>5
<1>12. ASSUME NEW c \in Def, NEW p \in Op, NEW x \in Uid
       PROVE  <<p, x>> \in uses'[c] <=>
                 /\ <<p, x>> \in uses[c] \/ (c = d /\ p = o /\ x = u)
                 /\ ~(c = s[i].def /\ p = o /\ x = s[i].uid)
  BY <1>0, <1>1 DEF IInv, TypeOK, add_use, remove_use
<1>13. ASSUME NEW c \in Def, NEW x \in Uid
       PROVE  <<o, x>> \in uses'[c] <=>
                 \/ \E j \in 1..Len(t) : t[j] = [def |-> c, uid |-> x]
                 \/ /\ <<o, x>> \in uses[c]
                    /\ \A j \in 1..Len(slots[o][k]) : slots[o][k][j] # [def |-> c, uid |-> x]
  <2> DEFINE q == [def |-> c, uid |-> x]
  <2>0. q.def = c /\ q.uid = x /\ (s[i] = q <=> c = s[i].def /\ x = s[i].uid) /\ (r = q <=> c = d /\ x = u)
    BY <1>0, <1>3
  <2> HIDE DEF q
  <2>1. (\E j \in 1..Len(t) : t[j] = q) <=> r = q \/ \E j \in 1..Len(s) : j # i /\ s[j] = q
    BY <1>0, <1>5
  <2>2. (\E j \in 1..Len(s) : s[j] = q) => <<o, x>> \in uses[c]
    BY <1>2, UsesLemma DEF Holds, q
  <2>3. (\E j \in 1..Len(s) : j # i /\ s[j] = q) => s[i] # q
    BY <1>0, <1>7
  <2>4. r = q => s[i] # q
    BY <1>0, <1>1, <1>3, <1>7
  <2>5. <<o, x>> \in uses'[c] <=> (<<o, x>> \in uses[c] \/ r = q) /\ s[i] # q
    BY <2>0, <1>12
  <2>6. (\A j \in 1..Len(s) : s[j] # q) <=> s[i] # q /\ ~ \E j \in 1..Len(s) : j # i /\ s[j] = q
    BY <1>0
  <2>7. <<o, x>> \in uses'[c] <=> \/ \E j \in 1..Len(t) : t[j] = q
                                  \/ <<o, x>> \in uses[c] /\ \A j \in 1..Len(s) : s[j] # q
    BY <2>1, <2>2, <2>3, <2>4, <2>5, <2>6
  <2> QED BY <2>7, <1>2 DEF q
<1>14. \A c \in Def, p \in Op, x \in Uid : p # o => (<<p, x>> \in uses'[c] <=> <<p, x>> \in uses[c])
  BY <1>12
<1>15. BecomesList(o, k, t)
  BY <1>1, <1>6, <1>8, <1>9, <1>10, <1>11, <1>13, <1>14 DEF BecomesList
<1> QED BY <1>1, <1>15, OneListLemma

LEMMA RemoveSlotLemma ==
    ASSUME IInv, NEW o \in Op, NEW k \in Kind, NEW i \in 1..Len(slots[o][k]), remove_slot(o, k, i)
    PROVE  IInv'
<1>2. PICK s \in Seq(Slot) : s = slots[o][k]
  BY TypesLemma DEF IInv
<1>0. i \in 1..Len(s) /\ s[i] \in Slot /\ s[i].def \in Def /\ s[i].uid \in Uid
      /\ s[i] = [def |-> s[i].def, uid |-> s[i].uid]
  BY <1>2, TypesLemma DEF IInv
<1>1. /\ o \in live
      /\ slots' = [slots EXCEPT ![o][k] = RemoveAt(s, i)]
      /\ use_uids' = use_uids /\ uses' = remove_use(uses, s[i].def, <<o, s[i].uid>>)
      /\ live' = live /\ erased' = erased /\ vals' = vals /\ value_uids' = value_uids
  BY <1>2 DEF remove_slot, IInv, TypeOK
<1>4. PICK t \in Seq(Slot) : t = RemoveAt(s, i) /\ RemovedAt(s, i, t)
  BY <1>0, RemoveAtLemma
<1>5. /\ \A j \in 1..Len(s) : j # i => \E a \in 1..Len(t) : t[a] = s[j]
      /\ \A j \in 1..Len(t) : \E a \in 1..Len(s) : a # i /\ t[j] = s[a]
      /\ \A j, l \in 1..Len(t) :
            \E a, b \in 1..Len(s) : a # i /\ b # i /\ t[j] = s[a] /\ t[l] = s[b] /\ (a = b => j = l)
  <2>1. ElementsRemoved(s, i, t)
    BY <1>0, <1>4, RemovedElements
  <2> QED BY <2>1 DEF ElementsRemoved
<1>6. slots' = [slots EXCEPT ![o][k] = t]
  BY <1>1, <1>4
<1>7. /\ \A a, b \in 1..Len(s) : s[a].uid = s[b].uid => a = b
      /\ \A a \in 1..Len(s) : s[a].uid \in use_uids /\ s[a].def \in DefsOf(k)
  BY <1>2 DEF IInv, SlotsOK, RefsOK
<1>8. use_uids \subseteq use_uids' /\ use_uids' \subseteq Uid /\ uses' \in [Def -> SUBSET Use]
  BY <1>0, <1>1 DEF IInv, TypeOK, remove_use
<1>9. ASSUME NEW j \in 1..Len(t), NEW l \in 1..Len(t), t[j].uid = t[l].uid
      PROVE  j = l
  <2>1. PICK a, b \in 1..Len(s) : t[j] = s[a] /\ t[l] = s[b] /\ (a = b => j = l)
    BY <1>5
  <2> QED BY <2>1, <1>7, <1>9
<1>10. ASSUME NEW j \in 1..Len(t)
       PROVE  /\ t[j].uid \in use_uids' /\ t[j].def \in DefsOf(k)
              /\ t[j].uid \in use_uids => \E a \in 1..Len(slots[o][k]) : t[j].uid = slots[o][k][a].uid
  <2>1. PICK a \in 1..Len(s) : t[j] = s[a]
    BY <1>5
  <2> QED BY <2>1, <1>2, <1>7, <1>8
<1>12. ASSUME NEW c \in Def, NEW p \in Op, NEW x \in Uid
       PROVE  <<p, x>> \in uses'[c] <=>
                 <<p, x>> \in uses[c] /\ ~(c = s[i].def /\ p = o /\ x = s[i].uid)
  BY <1>0, <1>1 DEF IInv, TypeOK, remove_use
<1>13. ASSUME NEW c \in Def, NEW x \in Uid
       PROVE  <<o, x>> \in uses'[c] <=>
                 \/ \E j \in 1..Len(t) : t[j] = [def |-> c, uid |-> x]
                 \/ /\ <<o, x>> \in uses[c]
                    /\ \A j \in 1..Len(slots[o][k]) : slots[o][k][j] # [def |-> c, uid |-> x]
  <2> DEFINE q == [def |-> c, uid |-> x]
  <2>0. q.def = c /\ q.uid = x /\ (s[i] = q <=> c = s[i].def /\ x = s[i].uid)
    BY <1>0
  <2> HIDE DEF q
  <2>1. (\E j \in 1..Len(t) : t[j] = q) <=> \E j \in 1..Len(s) : j # i /\ s[j] = q
    <3>1. ASSUME NEW j \in 1..Len(t), t[j] = q PROVE \E a \in 1..Len(s) : a # i /\ s[a] = q
      BY <3>1, <1>5
    <3>2. ASSUME NEW j \in 1..Len(s), j # i, s[j] = q PROVE \E a \in 1..Len(t) : t[a] = q
      BY <3>2, <1>5
    <3> QED BY <3>1, <3>2
  <2>2. (\E j \in 1..Len(s) : s[j] = q) => <<o, x>> \in uses[c]
    BY <1>2, UsesLemma DEF Holds, q
  <2>3. (\E j \in 1..Len(s) : j # i /\ s[j] = q) => s[i] # q
    BY <1>0, <1>7
  <2>5. <<o, x>> \in uses'[c] <=> <<o, x>> \in uses[c] /\ s[i] # q
    BY <2>0, <1>12
  <2>6. (\A j \in 1..Len(s) : s[j] # q) <=> s[i] # q /\ ~ \E j \in 1..Len(s) : j # i /\ s[j] = q
    BY <1>0
  <2>7. <<o, x>> \in uses'[c] <=> \/ \E j \in 1..Len(t) : t[j] = q
                                  \/ <<o, x>> \in uses[c] /\ \A j \in 1..Len(s) : s[j] # q
    BY <2>1, <2>2, <2>3, <2>5, <2>6
  <2> QED BY <2>7, <1>2 DEF q
<1>14. \A c \in Def, p \in Op, x \in Uid : p # o => (<<p, x>> \in uses'[c] <=> <<p, x>> \in uses[c])
  BY <1>12
<1>15. BecomesList(o, k, t)
  BY <1>1, <1>6, <1>8, <1>9, <1>10, <1>13, <1>14 DEF BecomesList
<1> QED BY <1>1, <1>15, OneListLemma

(***************************************************************************)
(* Creation.                                                               *)
(***************************************************************************)

\* Sequences of distinct new uids.
LEMMA NewUidsLemma ==
    ASSUME NEW S, NEW n \in Nat, NEW s \in NewUids(S, n)
    PROVE  /\ s \in Seq(S) /\ Len(s) = n
           /\ \A i \in 1..Len(s) : s[i] \in S
           /\ \A i, j \in 1..Len(s) : s[i] = s[j] => i = j
<1>1. s \in [1..n -> S] /\ \A i, j \in 1..n : s[i] = s[j] => i = j
  BY DEF NewUids
<1>2. s \in Seq(S) /\ Len(s) = n
  BY <1>1
<1> QED BY <1>1, <1>2

\* What is not live has no values and no slots.
LEMMA NotLiveLemma ==
    ASSUME IInv, NEW e \in Entity, e \notin live
    PROVE  Len(vals[e]) = 0 /\ (e \in Op => \A k \in Kind : Len(slots[e][k]) = 0)
<1>1. Len(vals[e]) \in Nat /\ (e \in Op => \A k \in Kind : Len(slots[e][k]) \in Nat)
  BY TypesLemma DEF IInv
<1>2. ~(1 \in 1..Len(vals[e])) /\ (e \in Op => \A k \in Kind : ~(1 \in 1..Len(slots[e][k])))
  BY DEF IInv, ValuesOK, SlotsOK
<1> QED BY <1>1, <1>2

\* The values of a new operation or block are new, and the rest stay.
LEMMA NewValuesLemma ==
    ASSUME IInv, NEW e \in Entity, e \notin live, NEW n \in Nat, NEW vs \in NewUids(Val \ value_uids, n),
           live' = live \cup {e}, vals' = [vals EXCEPT ![e] = vs],
           value_uids' = value_uids \cup {vs[i] : i \in 1..Len(vs)}
    PROVE  /\ vals' \in [Entity -> Seq(Val)] /\ value_uids' \subseteq Val
           /\ ValuesOK' /\ DefinedVals \subseteq DefinedVals'
<1>1. /\ vs \in Seq(Val) /\ \A i \in 1..Len(vs) : vs[i] \in Val \ value_uids
      /\ \A i, j \in 1..Len(vs) : vs[i] = vs[j] => i = j
  <2>1. vs \in Seq(Val \ value_uids) /\ \A i \in 1..Len(vs) : vs[i] \in Val \ value_uids
    BY NewUidsLemma
  <2>2. vs \in Seq(Val)
    BY <2>1
  <2> QED BY <2>1, <2>2, NewUidsLemma
<1>2. vals' \in [Entity -> Seq(Val)] /\ value_uids' \subseteq Val
  BY <1>1 DEF IInv, TypeOK
<1>3. ValuesOK'
  <2>1. (\A f \in live : f # e => f \in live') /\ value_uids \subseteq value_uids'
    OBVIOUS
  <2>2. \A j \in 1..Len(vs) : e \in live' /\ vs[j] \in value_uids'
    OBVIOUS
  <2>3. \A j \in 1..Len(vs) : vs[j] \in value_uids => \E a \in 1..Len(vals[e]) : vs[j] = vals[e][a]
    BY <1>1
  <2> QED BY <1>1, <2>1, <2>2, <2>3, ValuesStepLemma
<1>4. \A f \in live : f \in Entity /\ vals'[f] = vals[f]
  BY DEF IInv, TypeOK
<1>5. DefinedVals \subseteq DefinedVals'
  BY <1>4 DEF DefinedVals, ValuesOf
<1> QED BY <1>2, <1>3, <1>5

LEMMA BasicBlockNewLemma ==
    ASSUME IInv, NEW b \in Block, NEW n \in Nat, NEW vs \in NewUids(Val \ value_uids, n), BasicBlock_new(b, vs)
    PROVE  IInv'
<1>1. /\ b \notin live /\ b \notin erased /\ live' = live \cup {b} /\ vals' = [vals EXCEPT ![b] = vs]
      /\ value_uids' = value_uids \cup {vs[i] : i \in 1..Len(vs)}
      /\ erased' = erased /\ slots' = slots /\ use_uids' = use_uids /\ uses' = uses
  BY DEF BasicBlock_new
<1>2. b \in Entity
  BY DEF Entity
<1>3. vals' \in [Entity -> Seq(Val)] /\ value_uids' \subseteq Val /\ ValuesOK' /\ DefinedVals \subseteq DefinedVals'
  BY <1>1, <1>2, NewValuesLemma
<1>4. TypeOK'
  BY <1>1, <1>2, <1>3 DEF IInv, TypeOK
<1>5. SlotsOK' /\ UsesOK' /\ RefsOK'
  BY <1>1, <1>3, ValuesOnlyLemma
<1> QED BY <1>3, <1>4, <1>5 DEF IInv

\* The operands and successors of a new operation are new uses, of what may be used.
NewSlots(o, p, q, ds, ss, us) ==
    /\ slots' \in [Op -> [Kind -> Seq(Slot)]]
    /\ \A r \in Op : r # o => slots'[r] = slots[r]
    /\ Len(slots'[o]["operand"]) = p /\ Len(slots'[o]["successor"]) = q
    /\ \A i \in 1..p : slots'[o]["operand"][i] = [def |-> ds[i], uid |-> us[i]]
    /\ \A i \in 1..q : slots'[o]["successor"][i] = [def |-> ss[i], uid |-> us[p + i]]

LEMMA NewSlotsLemma ==
    ASSUME IInv, NEW o \in Op, NEW p \in Nat, NEW q \in Nat,
           NEW ds \in [1..p -> DefinedVals], NEW ss \in [1..q -> live \cap Block],
           NEW us \in Seq(Uid), Len(us) = p + q,
           slots' = [slots EXCEPT ![o] = [k \in Kind |->
                       IF k = "operand" THEN [i \in 1..p |-> [def |-> ds[i], uid |-> us[i]]]
                                        ELSE [i \in 1..q |-> [def |-> ss[i], uid |-> us[p + i]]]]]
    PROVE  NewSlots(o, p, q, ds, ss, us)
<1> DEFINE A == [i \in 1..p |-> [def |-> ds[i], uid |-> us[i]]]
           B == [i \in 1..q |-> [def |-> ss[i], uid |-> us[p + i]]]
<1>1. \A i \in 1..p : [def |-> ds[i], uid |-> us[i]] \in Slot
  BY TypesLemma DEF IInv, Slot, Def
<1>2. \A i \in 1..q : [def |-> ss[i], uid |-> us[p + i]] \in Slot
  <2>1. \A i \in 1..q : p + i \in 1..Len(us)
    OBVIOUS
  <2> QED BY <2>1 DEF Slot, Def
<1>3. A \in Seq(Slot) /\ Len(A) = p /\ B \in Seq(Slot) /\ Len(B) = q
  <2>1. A \in [1..p -> Slot] /\ B \in [1..q -> Slot]
    BY <1>1, <1>2
  <2> HIDE DEF A, B
  <2>2. A \in Seq(Slot) /\ Len(A) = p
    BY <2>1
  <2>3. B \in Seq(Slot) /\ Len(B) = q
    BY <2>1
  <2> QED BY <2>2, <2>3
<1>4. /\ \A i \in 1..p : A[i] = [def |-> ds[i], uid |-> us[i]]
      /\ \A i \in 1..q : B[i] = [def |-> ss[i], uid |-> us[p + i]]
  OBVIOUS
<1>5. slots' = [slots EXCEPT ![o] = [k \in Kind |-> IF k = "operand" THEN A ELSE B]]
  OBVIOUS
<1> HIDE DEF A, B
<1>6. slots'[o]["operand"] = A /\ slots'[o]["successor"] = B /\ slots' \in [Op -> [Kind -> Seq(Slot)]]
  BY <1>3, <1>5 DEF IInv, TypeOK, Kind
<1>7. \A r \in Op : r # o => slots'[r] = slots[r]
  BY <1>5 DEF IInv, TypeOK
<1> QED BY <1>3, <1>4, <1>6, <1>7 DEF NewSlots

LEMMA OperationNewLemma ==
    ASSUME IInv, NEW o \in Op, NEW n \in Nat, NEW p \in Nat, NEW q \in Nat,
           NEW vs \in NewUids(Val \ value_uids, n),
           NEW ds \in [1..p -> DefinedVals], NEW ss \in [1..q -> live \cap Block],
           NEW us \in NewUids(Uid \ use_uids, p + q), Operation_new(o, vs, ds, ss, us)
    PROVE  IInv'
<1>1. /\ us \in Seq(Uid) /\ Len(us) = p + q
      /\ \A i \in 1..(p + q) : us[i] \in Uid \ use_uids
      /\ \A i, j \in 1..(p + q) : us[i] = us[j] => i = j
  <2>1. us \in Seq(Uid \ use_uids)
    BY NewUidsLemma
  <2>2. us \in Seq(Uid)
    BY <2>1
  <2> QED BY <2>2, NewUidsLemma
<1>2. Len(ds) = p /\ Len(ss) = q
  OBVIOUS
<1>3. /\ o \notin live /\ o \notin erased /\ live' = live \cup {o} /\ erased' = erased
      /\ vals' = [vals EXCEPT ![o] = vs] /\ value_uids' = value_uids \cup {vs[i] : i \in 1..Len(vs)}
      /\ use_uids' = use_uids \cup {us[i] : i \in 1..(p + q)}
  BY <1>1 DEF Operation_new
<1>4. slots' = [slots EXCEPT ![o] = [k \in Kind |->
                  IF k = "operand" THEN [i \in 1..p |-> [def |-> ds[i], uid |-> us[i]]]
                                   ELSE [i \in 1..q |-> [def |-> ss[i], uid |-> us[p + i]]]]]
  BY <1>2 DEF Operation_new
<1>5. uses' = [d \in Def |-> uses[d] \cup {<<o, us[i]>> : i \in {j \in 1..p : ds[j] = d}}
                                     \cup {<<o, us[p + i]>> : i \in {j \in 1..q : ss[j] = d}}]
  BY <1>2 DEF Operation_new
<1>6. o \in Entity
  BY DEF Entity
<1>7. vals' \in [Entity -> Seq(Val)] /\ value_uids' \subseteq Val /\ ValuesOK' /\ DefinedVals \subseteq DefinedVals'
  BY <1>3, <1>6, NewValuesLemma
<1>8. /\ slots' \in [Op -> [Kind -> Seq(Slot)]]
      /\ \A r \in Op : r # o => slots'[r] = slots[r]
      /\ Len(slots'[o]["operand"]) = p /\ Len(slots'[o]["successor"]) = q
      /\ \A i \in 1..p : slots'[o]["operand"][i] = [def |-> ds[i], uid |-> us[i]]
      /\ \A i \in 1..q : slots'[o]["successor"][i] = [def |-> ss[i], uid |-> us[p + i]]
  <2>1. NewSlots(o, p, q, ds, ss, us)
    BY <1>1, <1>4, NewSlotsLemma
  <2> QED BY <2>1 DEF NewSlots
<1> DEFINE at(k, i) == IF k = "operand" THEN i ELSE p + i
<1>9. \A k \in Kind : \A i \in 1..Len(slots'[o][k]) :
         at(k, i) \in 1..(p + q) /\ slots'[o][k][i].uid = us[at(k, i)]
  <2> SUFFICES ASSUME NEW k \in Kind, NEW i \in 1..Len(slots'[o][k])
               PROVE  at(k, i) \in 1..(p + q) /\ slots'[o][k][i].uid = us[at(k, i)]
    OBVIOUS
  <2>1. CASE k = "operand"
    <3>1. i \in 1..p /\ slots'[o][k][i] = [def |-> ds[i], uid |-> us[i]] /\ at(k, i) = i
      BY <2>1, <1>8
    <3> HIDE DEF at
    <3> QED BY <3>1
  <2>2. CASE k = "successor"
    <3>1. i \in 1..q /\ slots'[o][k][i] = [def |-> ss[i], uid |-> us[p + i]] /\ at(k, i) = p + i
      BY <2>2, <1>8
    <3> HIDE DEF at
    <3> QED BY <3>1
  <2> QED BY <2>1, <2>2 DEF Kind
<1>10. \A k, l \in Kind : \A i \in 1..Len(slots'[o][k]), j \in 1..Len(slots'[o][l]) :
          at(k, i) = at(l, j) => k = l /\ i = j
  BY <1>8 DEF Kind
<1> HIDE DEF at
<1>11. uses' \in [Def -> SUBSET Use]
  <2>1. \A i \in 1..(p + q) : <<o, us[i]>> \in Use
    BY <1>1 DEF Use
  <2>2. \A i \in 1..p : i \in 1..(p + q)
    OBVIOUS
  <2>3. \A i \in 1..q : p + i \in 1..(p + q)
    OBVIOUS
  <2>4. \A d \in Def : uses[d] \subseteq Use
    BY DEF IInv, TypeOK
  <2> QED BY <2>1, <2>2, <2>3, <2>4, <1>5
<1>12. TypeOK'
  <2>1. use_uids' \subseteq Uid
    BY <1>1, <1>3 DEF IInv, TypeOK
  <2> QED BY <2>1, <1>3, <1>6, <1>7, <1>8, <1>11 DEF IInv, TypeOK
<1>13. SlotsOK'
  <2>1. \A k \in Kind : \A i \in 1..Len(slots'[o][k]) :
           /\ o \in live' /\ slots'[o][k][i].uid \in use_uids'
           /\ slots'[o][k][i].uid \notin use_uids
    BY <1>1, <1>3, <1>9
  <2>2. \A k, l \in Kind : \A i \in 1..Len(slots'[o][k]), j \in 1..Len(slots'[o][l]) :
           slots'[o][k][i].uid = slots'[o][l][j].uid => k = l /\ i = j
    BY <1>1, <1>9, <1>10
  <2>3. (\A r \in live : r # o => r \in live') /\ use_uids \subseteq use_uids'
    BY <1>3
  <2>4. \A k \in Kind : \A i \in 1..Len(slots'[o][k]) : slots'[o][k][i].uid \in use_uids =>
           \E l \in Kind : \E j \in 1..Len(slots[o][l]) : slots'[o][k][i].uid = slots[o][l][j].uid
    BY <2>1
  <2> QED BY <1>8, <2>1, <2>2, <2>3, <2>4, SlotsStepLemma
<1>14. ASSUME NEW d \in Def, NEW r \in Op, NEW u \in Uid
       PROVE  <<r, u>> \in uses'[d] <=> Holds(r, d, u)'
  <2>1. <<r, u>> \in uses[d] <=> Holds(r, d, u)
    BY UsesLemma
  <2>2. <<r, u>> \in uses'[d] <=> \/ <<r, u>> \in uses[d]
                                  \/ r = o /\ \E i \in 1..p : ds[i] = d /\ us[i] = u
                                  \/ r = o /\ \E i \in 1..q : ss[i] = d /\ us[p + i] = u
    BY <1>5
  <2>3. CASE r # o
    <3>1. Holds(r, d, u)' <=> Holds(r, d, u)
      BY <2>3, <1>8 DEF Holds
    <3> QED BY <3>1, <2>1, <2>2, <2>3
  <2>4. CASE r = o
    <3>1. ~Holds(o, d, u)
      BY <1>3, <1>6, NotLiveLemma DEF Holds
    <3>2. Holds(o, d, u)' <=> \/ \E i \in 1..p : [def |-> ds[i], uid |-> us[i]] = [def |-> d, uid |-> u]
                              \/ \E i \in 1..q : [def |-> ss[i], uid |-> us[p + i]] = [def |-> d, uid |-> u]
      <4> DEFINE r0 == [def |-> d, uid |-> u]
      <4> HIDE DEF r0
      <4>1. Holds(o, d, u)' <=> \E k \in Kind : \E i \in 1..Len(slots'[o][k]) : slots'[o][k][i] = r0
        BY DEF Holds, r0
      <4>2. Holds(o, d, u)' <=> \/ \E i \in 1..p : slots'[o]["operand"][i] = r0
                                \/ \E i \in 1..q : slots'[o]["successor"][i] = r0
        BY <4>1, <1>8 DEF Kind
      <4>3. /\ \A i \in 1..p : slots'[o]["operand"][i] = r0 <=> [def |-> ds[i], uid |-> us[i]] = r0
            /\ \A i \in 1..q : slots'[o]["successor"][i] = r0 <=> [def |-> ss[i], uid |-> us[p + i]] = r0
        BY <1>8
      <4>4. Holds(o, d, u)' <=> \/ \E i \in 1..p : [def |-> ds[i], uid |-> us[i]] = r0
                                \/ \E i \in 1..q : [def |-> ss[i], uid |-> us[p + i]] = r0
        BY <4>2, <4>3
      <4> QED BY <4>4 DEF r0
    <3> QED BY <3>1, <3>2, <2>1, <2>2, <2>4
  <2> QED BY <2>3, <2>4
<1>15. UsesOK'
  BY <1>14 DEF UsesOK, Holds
<1>16. ASSUME NEW r \in Op, NEW k \in Kind, NEW i \in 1..Len(slots'[r][k])
       PROVE  slots'[r][k][i].def \in DefsOf(k)'
  <2>1. DefsOf(k) \subseteq DefsOf(k)'
    BY <1>3, <1>7 DEF DefsOf
  <2>2. CASE r # o
    BY <2>1, <2>2, <1>8 DEF IInv, RefsOK
  <2>3. CASE r = o
    <3>1. CASE k = "operand"
      <4>1. i \in 1..p /\ slots'[r][k][i] = [def |-> ds[i], uid |-> us[i]]
        BY <2>3, <3>1, <1>8
      <4>2. ds[i] \in DefsOf(k)
        BY <3>1, <4>1 DEF DefsOf
      <4> QED BY <2>1, <4>1, <4>2
    <3>2. CASE k = "successor"
      <4>1. i \in 1..q /\ slots'[r][k][i] = [def |-> ss[i], uid |-> us[p + i]]
        BY <2>3, <3>2, <1>8
      <4>2. ss[i] \in DefsOf(k)
        BY <3>2, <4>1 DEF DefsOf
      <4> QED BY <2>1, <4>1, <4>2
    <3> QED BY <3>1, <3>2 DEF Kind
  <2> QED BY <2>2, <2>3
<1>17. RefsOK'
  BY <1>16 DEF RefsOK
<1> QED BY <1>7, <1>12, <1>13, <1>15, <1>17 DEF IInv

(***************************************************************************)
(* Replacing uses.  The uses that move are held in lists of the kind that  *)
(* is rewritten, since a value is not a block, so each of them is found.   *)
(***************************************************************************)
LEMMA ReplaceUsesLemma ==
    ASSUME IInv, NEW k \in Kind, NEW d \in Def, NEW other \in Def, NEW touched \in SUBSET uses[d],
           replace_some_uses_with(k, d, touched, other)
    PROVE  IInv'
<1>1. /\ d \in DefsOf(k) /\ other \in DefsOf(k) /\ d # other
      /\ live' = live /\ erased' = erased /\ vals' = vals /\ value_uids' = value_uids /\ use_uids' = use_uids
      /\ uses' = [uses EXCEPT ![d] = uses[d] \ touched, ![other] = uses[other] \cup touched]
  BY DEF replace_some_uses_with, IInv, TypeOK
<1> DEFINE moved(o, s) == [i \in 1..Len(s) |-> IF <<o, s[i].uid>> \in touched
                                                 THEN [s[i] EXCEPT !.def = other] ELSE s[i]]
<1>2. slots' = [o \in Op |-> [slots[o] EXCEPT ![k] = moved(o, slots[o][k])]]
  BY DEF replace_some_uses_with, IInv, TypeOK
<1>3. ASSUME NEW o \in Op
      PROVE  /\ moved(o, slots[o][k]) \in Seq(Slot) /\ Len(moved(o, slots[o][k])) = Len(slots[o][k])
             /\ \A i \in 1..Len(slots[o][k]) :
                  moved(o, slots[o][k])[i] =
                     [def |-> IF <<o, slots[o][k][i].uid>> \in touched THEN other ELSE slots[o][k][i].def,
                      uid |-> slots[o][k][i].uid]
  <2>1. PICK s \in Seq(Slot) : s = slots[o][k]
    BY TypesLemma DEF IInv
  <2>2. Len(s) \in Nat /\ \A i \in 1..Len(s) : s[i] \in Slot
    OBVIOUS
  <2>3. \A x \in Slot : /\ x = [def |-> x.def, uid |-> x.uid]
                        /\ [x EXCEPT !.def = other] = [def |-> other, uid |-> x.uid]
                        /\ [x EXCEPT !.def = other] \in Slot
    BY DEF Slot
  <2>4. \A i \in 1..Len(s) :
           (IF <<o, s[i].uid>> \in touched THEN [s[i] EXCEPT !.def = other] ELSE s[i]) \in Slot
    BY <2>2, <2>3
  <2>5. moved(o, s) \in Seq(Slot) /\ Len(moved(o, s)) = Len(s)
    BY <2>2, <2>4
  <2>6. \A i \in 1..Len(s) : moved(o, s)[i] =
           [def |-> IF <<o, s[i].uid>> \in touched THEN other ELSE s[i].def, uid |-> s[i].uid]
    BY <2>2, <2>3
  <2> QED BY <2>1, <2>5, <2>6
<1> HIDE DEF moved
<1>4. /\ slots' \in [Op -> [Kind -> Seq(Slot)]]
      /\ \A o \in Op, l \in Kind : Len(slots'[o][l]) = Len(slots[o][l])
      /\ \A o \in Op, l \in Kind : l # k => slots'[o][l] = slots[o][l]
      /\ \A o \in Op : \A i \in 1..Len(slots[o][k]) : slots'[o][k][i] =
            [def |-> IF <<o, slots[o][k][i].uid>> \in touched THEN other ELSE slots[o][k][i].def,
             uid |-> slots[o][k][i].uid]
  <2>1. \A o \in Op : slots[o] \in [Kind -> Seq(Slot)]
    BY DEF IInv, TypeOK
  <2>2. \A o \in Op : slots'[o] \in [Kind -> Seq(Slot)] /\ slots'[o][k] = moved(o, slots[o][k])
                      /\ \A l \in Kind : l # k => slots'[o][l] = slots[o][l]
    BY <1>2, <1>3, <2>1
  <2>3. slots' \in [Op -> [Kind -> Seq(Slot)]]
    BY <1>2, <2>2
  <2>4. ASSUME NEW o \in Op, NEW l \in Kind PROVE Len(slots'[o][l]) = Len(slots[o][l])
    <3>1. CASE l = k
      BY <3>1, <1>3, <2>2
    <3>2. CASE l # k
      BY <3>2, <2>2
    <3> QED BY <3>1, <3>2
  <2> QED BY <1>3, <2>2, <2>3, <2>4
<1>5. \A o \in Op, l \in Kind : \A i \in 1..Len(slots[o][l]) :
         <<o, slots[o][l][i].uid>> \in touched => l = k /\ slots[o][l][i].def = d
  <2> SUFFICES ASSUME NEW o \in Op, NEW l \in Kind, NEW i \in 1..Len(slots[o][l]),
                      <<o, slots[o][l][i].uid>> \in touched
               PROVE  l = k /\ slots[o][l][i].def = d
    OBVIOUS
  <2>1. slots[o][l][i].uid \in Uid /\ slots[o][l][i].def \in DefsOf(l)
    BY TypesLemma DEF IInv, RefsOK
  <2>2. PICK m \in Kind : \E j \in 1..Len(slots[o][m]) : slots[o][m][j] = [def |-> d, uid |-> slots[o][l][i].uid]
    BY <2>1, UsesLemma DEF Holds
  <2>3. PICK j \in 1..Len(slots[o][m]) : slots[o][m][j] = [def |-> d, uid |-> slots[o][l][i].uid]
    BY <2>2
  <2>4. slots[o][m][j].uid = slots[o][l][i].uid /\ slots[o][m][j].def = d
    BY <2>3
  <2>5. m = l /\ j = i
    BY <2>4 DEF IInv, SlotsOK
  <2>6. d \in DefsOf(l)
    BY <2>1, <2>4, <2>5
  <2>7. l = k
    <3>1. DefinedVals \cap Block = {}
      BY TypesLemma, DistinctAssumption DEF IInv
    <3> QED BY <3>1, <2>6, <1>1 DEF DefsOf, Kind
  <2> QED BY <2>4, <2>5, <2>7
<1>6. \A o \in Op, l \in Kind : \A i \in 1..Len(slots[o][l]) :
         slots'[o][l][i] =
            [def |-> IF <<o, slots[o][l][i].uid>> \in touched THEN other ELSE slots[o][l][i].def,
             uid |-> slots[o][l][i].uid]
  <2> SUFFICES ASSUME NEW o \in Op, NEW l \in Kind, NEW i \in 1..Len(slots[o][l])
               PROVE  slots'[o][l][i] =
                        [def |-> IF <<o, slots[o][l][i].uid>> \in touched THEN other ELSE slots[o][l][i].def,
                         uid |-> slots[o][l][i].uid]
    OBVIOUS
  <2>1. CASE l = k
    BY <2>1, <1>4
  <2>2. CASE l # k
    <3>1. <<o, slots[o][l][i].uid>> \notin touched /\ slots'[o][l][i] = slots[o][l][i]
      BY <2>2, <1>4, <1>5
    <3>2. slots[o][l][i] = [def |-> slots[o][l][i].def, uid |-> slots[o][l][i].uid]
      BY TypesLemma DEF IInv
    <3> QED BY <3>1, <3>2
  <2> QED BY <2>1, <2>2
<1>13. ASSUME NEW o \in Op, NEW l \in Kind, NEW i \in 1..Len(slots[o][l])
       PROVE  /\ slots'[o][l][i].uid = slots[o][l][i].uid
              /\ slots'[o][l][i].def = IF <<o, slots[o][l][i].uid>> \in touched THEN other ELSE slots[o][l][i].def
              /\ slots'[o][l][i] = [def |-> slots'[o][l][i].def, uid |-> slots[o][l][i].uid]
  <2>1. PICK x : x = IF <<o, slots[o][l][i].uid>> \in touched THEN other ELSE slots[o][l][i].def
    OBVIOUS
  <2>2. slots'[o][l][i] = [def |-> x, uid |-> slots[o][l][i].uid]
    BY <2>1, <1>6
  <2> QED BY <2>1, <2>2
<1>7. TypeOK'
  <2>1. uses' \in [Def -> SUBSET Use]
    BY <1>1 DEF IInv, TypeOK
  <2> QED BY <2>1, <1>1, <1>4 DEF IInv, TypeOK
<1>8. SlotsOK'
  <2>1. \A o \in Op, l \in Kind : \A i \in 1..Len(slots[o][l]) : slots'[o][l][i].uid = slots[o][l][i].uid
    BY <1>13
  <2>2. /\ live' = live /\ use_uids' = use_uids
        /\ \A o \in Op, l \in Kind : Len(slots'[o][l]) = Len(slots[o][l])
    BY <1>1, <1>4
  <2>3. SlotsOK
    BY DEF IInv
  <2>4. \A o \in Op, l \in Kind : \A i \in 1..Len(slots'[o][l]) :
           o \in live' /\ slots'[o][l][i].uid \in use_uids'
    BY <2>1, <2>2, <2>3 DEF SlotsOK
  <2>5. ASSUME NEW o \in Op, NEW r \in Op, NEW l \in Kind, NEW m \in Kind,
               NEW i \in 1..Len(slots'[o][l]), NEW j \in 1..Len(slots'[r][m]),
               slots'[o][l][i].uid = slots'[r][m][j].uid
        PROVE  o = r /\ l = m /\ i = j
    <3>1. /\ i \in 1..Len(slots[o][l]) /\ j \in 1..Len(slots[r][m])
          /\ slots[o][l][i].uid = slots[r][m][j].uid
      BY <2>1, <2>2, <2>5
    <3> QED BY <3>1, <2>3 DEF SlotsOK
  <2> QED BY <2>4, <2>5 DEF SlotsOK
<1>9. ASSUME NEW c \in Def, NEW o \in Op, NEW u \in Uid
      PROVE  <<o, u>> \in uses'[c] <=> Holds(o, c, u)'
  <2>1. <<o, u>> \in uses'[c] <=> \/ c = d /\ <<o, u>> \in uses[c] /\ <<o, u>> \notin touched
                                  \/ c = other /\ (<<o, u>> \in uses[c] \/ <<o, u>> \in touched)
                                  \/ c # d /\ c # other /\ <<o, u>> \in uses[c]
    BY <1>1 DEF IInv, TypeOK
  <2>2. /\ <<o, u>> \in uses[c] <=> Holds(o, c, u)
        /\ <<o, u>> \in uses[d] <=> Holds(o, d, u)
    BY UsesLemma
  <2>3. Holds(o, c, u)' <=> \E l \in Kind : \E i \in 1..Len(slots[o][l]) :
           /\ slots[o][l][i].uid = u
           /\ (IF <<o, u>> \in touched THEN other ELSE slots[o][l][i].def) = c
    <3>1. Holds(o, c, u)' <=>
             \E l \in Kind : \E i \in 1..Len(slots[o][l]) : slots'[o][l][i] = [def |-> c, uid |-> u]
      BY <1>4 DEF Holds
    <3>2. \A l \in Kind : \A i \in 1..Len(slots[o][l]) : slots'[o][l][i] = [def |-> c, uid |-> u] <=>
             /\ slots[o][l][i].uid = u
             /\ (IF <<o, u>> \in touched THEN other ELSE slots[o][l][i].def) = c
      <4> SUFFICES ASSUME NEW l \in Kind, NEW i \in 1..Len(slots[o][l])
                   PROVE  slots'[o][l][i] = [def |-> c, uid |-> u] <=>
                             /\ slots[o][l][i].uid = u
                             /\ (IF <<o, u>> \in touched THEN other ELSE slots[o][l][i].def) = c
        OBVIOUS
      <4>0. \A x, y, a, b : [def |-> x, uid |-> a] = [def |-> y, uid |-> b] <=> x = y /\ a = b
        OBVIOUS
      <4>1. slots'[o][l][i] = [def |-> c, uid |-> u] <=> slots'[o][l][i].def = c /\ slots[o][l][i].uid = u
        <5>1. PICK x, y : x = slots'[o][l][i].def /\ y = slots[o][l][i].uid
          OBVIOUS
        <5>2. slots'[o][l][i] = [def |-> x, uid |-> y]
          BY <5>1, <1>13
        <5> QED BY <5>1, <5>2, <4>0
      <4> QED BY <4>1, <1>13
    <3> QED BY <3>1, <3>2
  <2>4. \A e \in Def : Holds(o, e, u) <=> \E l \in Kind : \E i \in 1..Len(slots[o][l]) :
                                             slots[o][l][i].uid = u /\ slots[o][l][i].def = e
    <3>1. \A l \in Kind : \A i \in 1..Len(slots[o][l]) :
             slots[o][l][i] = [def |-> slots[o][l][i].def, uid |-> slots[o][l][i].uid]
      BY TypesLemma DEF IInv
    <3> QED BY <3>1 DEF Holds
  <2>5. CASE <<o, u>> \in touched
    <3>1. <<o, u>> \in uses[d]
      BY <2>5
    <3>2. \E l \in Kind : \E i \in 1..Len(slots[o][l]) : slots[o][l][i].uid = u
      BY <3>1, <2>2, <2>4
    <3>3. Holds(o, c, u)' <=> c = other
      BY <3>2, <2>3, <2>5
    <3>4. c # d => ~Holds(o, c, u)
      BY <1>5, <2>4, <2>5
    <3> QED BY <3>3, <3>4, <2>1, <2>2, <2>5, <1>1
  <2>6. CASE <<o, u>> \notin touched
    <3>1. Holds(o, c, u)' <=> Holds(o, c, u)
      BY <2>3, <2>4, <2>6
    <3> QED BY <3>1, <2>1, <2>2, <2>6
  <2> QED BY <2>5, <2>6
<1>10. UsesOK'
  BY <1>9 DEF UsesOK, Holds
<1>11. ValuesOK'
  BY <1>1 DEF IInv, ValuesOK
<1>12. RefsOK'
  <2>1. \A l \in Kind : DefsOf(l)' = DefsOf(l)
    BY <1>1 DEF DefsOf, DefinedVals, ValuesOf
  <2>2. ASSUME NEW o \in Op, NEW l \in Kind, NEW i \in 1..Len(slots'[o][l])
        PROVE  slots'[o][l][i].def \in DefsOf(l)
    <3>1. i \in 1..Len(slots[o][l])
      BY <1>4
    <3>2. slots[o][l][i].def \in DefsOf(l)
      BY <3>1 DEF IInv, RefsOK
    <3>3. slots'[o][l][i].def = IF <<o, slots[o][l][i].uid>> \in touched THEN other ELSE slots[o][l][i].def
      BY <3>1, <1>13
    <3> QED BY <3>1, <3>2, <3>3, <1>1, <1>5
  <2> QED BY <2>1, <2>2 DEF RefsOK
<1> QED BY <1>7, <1>8, <1>10, <1>11, <1>12 DEF IInv

(***************************************************************************)
(* Erasure.                                                                *)
(***************************************************************************)

\* What is erased takes only its own definitions away.
LEMMA ErasedDefsLemma ==
    ASSUME IInv, NEW e \in live, live' = live \ {e}, vals' = [vals EXCEPT ![e] = <<>>],
           NEW k \in Kind, NEW d \in DefsOf(k), d \notin Defines(e)
    PROVE  d \in DefsOf(k)'
<1>1. \A f \in live : f # e => f \in live' /\ vals'[f] = vals[f]
  BY DEF IInv, TypeOK
<1>2. CASE k = "operand"
  <2>1. PICK f \in live : \E i \in 1..Len(vals[f]) : d = vals[f][i]
    BY <1>2 DEF DefsOf, DefinedVals, ValuesOf
  <2>2. f # e
    BY <2>1 DEF Defines, ValuesOf
  <2> QED BY <2>1, <2>2, <1>1, <1>2 DEF DefsOf, DefinedVals, ValuesOf
<1>3. CASE k # "operand"
  BY <1>3 DEF DefsOf, Defines
<1> QED BY <1>2, <1>3

\* Values of what is erased are gone, the others stay.
LEMMA ErasedValuesLemma ==
    ASSUME IInv, NEW e \in live, live' = live \ {e}, vals' = [vals EXCEPT ![e] = <<>>], value_uids' = value_uids
    PROVE  ValuesOK' /\ vals' \in [Entity -> Seq(Val)]
<1>1. e \in Entity /\ vals' \in [Entity -> Seq(Val)]
  BY DEF IInv, TypeOK
<1>2. /\ \A f \in live : f # e => f \in live'
      /\ value_uids \subseteq value_uids'
      /\ Len(<<>>) = 0 /\ <<>> \in Seq(Val)
  OBVIOUS
<1>3. vals'[e] = <<>> /\ \A f \in Entity : f # e => vals'[f] = vals[f]
  BY <1>1 DEF IInv, TypeOK
<1>4. \A f \in Entity : \A i \in 1..Len(vals'[f]) : f # e /\ i \in 1..Len(vals[f]) /\ vals'[f][i] = vals[f][i]
  BY <1>2, <1>3
<1> QED BY <1>1, <1>2, <1>4 DEF IInv, ValuesOK

LEMMA BasicBlockEraseLemma ==
    ASSUME IInv, NEW b \in Block, BasicBlock_erase(b)
    PROVE  IInv'
<1>1. /\ b \in live /\ \A d \in Defines(b) : uses[d] = {}
      /\ live' = live \ {b} /\ erased' = erased \cup {b} /\ vals' = [vals EXCEPT ![b] = <<>>]
      /\ value_uids' = value_uids /\ slots' = slots /\ use_uids' = use_uids /\ uses' = uses
  BY DEF BasicBlock_erase
<1>2. ValuesOK' /\ vals' \in [Entity -> Seq(Val)]
  BY <1>1, ErasedValuesLemma
<1>3. TypeOK'
  BY <1>1, <1>2 DEF IInv, TypeOK
<1>4. SlotsOK'
  BY <1>1, DistinctAssumption DEF IInv, SlotsOK
<1>5. UsesOK'
  <2>1. ASSUME NEW d \in Def, NEW o \in Op, NEW u \in Uid
        PROVE  <<o, u>> \in uses'[d] <=> Holds(o, d, u)'
    <3>1. Holds(o, d, u)' <=> Holds(o, d, u)
      BY <1>1 DEF Holds
    <3> QED BY <3>1, <1>1, UsesLemma
  <2> QED BY <2>1 DEF UsesOK, Holds
<1>6. ASSUME NEW o \in Op, NEW k \in Kind, NEW i \in 1..Len(slots[o][k])
      PROVE  slots[o][k][i].def \in DefsOf(k)'
  <2>1. slots[o][k][i].def \in DefsOf(k)
    BY DEF IInv, RefsOK
  <2>2. /\ slots[o][k][i].def \in Def /\ slots[o][k][i].uid \in Uid
        /\ slots[o][k][i] = [def |-> slots[o][k][i].def, uid |-> slots[o][k][i].uid]
    BY TypesLemma DEF IInv
  <2>3. <<o, slots[o][k][i].uid>> \in uses[slots[o][k][i].def]
    BY <2>2, UsesLemma DEF Holds
  <2>4. slots[o][k][i].def \notin Defines(b)
    BY <2>3, <1>1
  <2> QED BY <2>1, <2>4, <1>1, ErasedDefsLemma
<1>7. RefsOK'
  BY <1>1, <1>6 DEF RefsOK
<1> QED BY <1>2, <1>3, <1>4, <1>5, <1>7 DEF IInv

LEMMA OperationEraseLemma ==
    ASSUME IInv, NEW o \in Op, Operation_erase(o)
    PROVE  IInv'
<1>1. /\ o \in live /\ uses' = drop_uses_of(o) /\ slots' = [slots EXCEPT ![o] = [k \in Kind |-> <<>>]]
      /\ \A d \in Defines(o) : uses'[d] = {}
      /\ live' = live \ {o} /\ erased' = erased \cup {o} /\ vals' = [vals EXCEPT ![o] = <<>>]
      /\ value_uids' = value_uids /\ use_uids' = use_uids
  BY DEF Operation_erase
<1>2. ValuesOK' /\ vals' \in [Entity -> Seq(Val)]
  BY <1>1, ErasedValuesLemma
<1>3. /\ slots' \in [Op -> [Kind -> Seq(Slot)]]
      /\ \A p \in Op : p # o => slots'[p] = slots[p]
      /\ \A k \in Kind : Len(slots'[o][k]) = 0
  <2>1. <<>> \in Seq(Slot) /\ Len(<<>>) = 0
    OBVIOUS
  <2> QED BY <2>1, <1>1 DEF IInv, TypeOK
<1>4. TypeOK'
  <2>1. uses' \in [Def -> SUBSET Use]
    BY <1>1 DEF IInv, TypeOK, drop_uses_of
  <2> QED BY <1>1, <1>2, <1>3, <2>1 DEF IInv, TypeOK
<1>5. ASSUME NEW p \in Op, NEW k \in Kind, NEW i \in 1..Len(slots'[p][k])
      PROVE  p # o /\ slots'[p][k] = slots[p][k]
  BY <1>3
<1>6. SlotsOK'
  <2>1. \A p \in Op, k \in Kind : \A i \in 1..Len(slots'[p][k]) :
           p \in live' /\ slots'[p][k][i].uid \in use_uids'
    BY <1>1, <1>5 DEF IInv, SlotsOK
  <2>2. ASSUME NEW p \in Op, NEW q \in Op, NEW k \in Kind, NEW l \in Kind,
               NEW i \in 1..Len(slots'[p][k]), NEW j \in 1..Len(slots'[q][l]),
               slots'[p][k][i].uid = slots'[q][l][j].uid
        PROVE  p = q /\ k = l /\ i = j
    <3>1. slots'[p][k] = slots[p][k] /\ slots'[q][l] = slots[q][l]
      BY <1>5
    <3> QED BY <3>1, <2>2 DEF IInv, SlotsOK
  <2> QED BY <2>1, <2>2 DEF SlotsOK
<1>7. ASSUME NEW d \in Def, NEW p \in Op, NEW u \in Uid
      PROVE  <<p, u>> \in uses'[d] <=> <<p, u>> \in uses[d] /\ p # o
  <2>1. <<p, u>> \in uses'[d] <=>
           /\ <<p, u>> \in uses[d]
           /\ ~ \E k \in Kind : \E i \in 1..Len(slots[o][k]) :
                   slots[o][k][i].def = d /\ <<p, u>> = <<o, slots[o][k][i].uid>>
    BY <1>1 DEF drop_uses_of
  <2>2. <<p, u>> \in uses[d] <=> Holds(p, d, u)
    BY UsesLemma
  <2>3. CASE p # o
    BY <2>1, <2>3
  <2>4. CASE p = o
    <3>1. Holds(o, d, u) => \E k \in Kind : \E i \in 1..Len(slots[o][k]) :
                               slots[o][k][i].def = d /\ slots[o][k][i].uid = u
      BY DEF Holds
    <3> QED BY <3>1, <2>1, <2>2, <2>4
  <2> QED BY <2>3, <2>4
<1>8. ASSUME NEW d \in Def, NEW p \in Op, NEW u \in Uid
      PROVE  <<p, u>> \in uses'[d] <=> Holds(p, d, u)'
  <2>1. CASE p # o
    <3>1. Holds(p, d, u)' <=> Holds(p, d, u)
      BY <2>1, <1>3 DEF Holds
    <3> QED BY <3>1, <2>1, <1>7, UsesLemma
  <2>2. CASE p = o
    <3>1. ~Holds(p, d, u)'
      BY <2>2, <1>3 DEF Holds
    <3> QED BY <3>1, <2>2, <1>7
  <2> QED BY <2>1, <2>2
<1>9. UsesOK'
  BY <1>8 DEF UsesOK, Holds
<1>10. ASSUME NEW p \in Op, NEW k \in Kind, NEW i \in 1..Len(slots'[p][k])
       PROVE  slots'[p][k][i].def \in DefsOf(k)'
  <2>1. p # o /\ i \in 1..Len(slots[p][k]) /\ slots'[p][k][i] = slots[p][k][i]
    BY <1>5
  <2>2. slots[p][k][i].def \in DefsOf(k)
    BY <2>1 DEF IInv, RefsOK
  <2>3. /\ slots[p][k][i].def \in Def /\ slots[p][k][i].uid \in Uid
        /\ slots[p][k][i] = [def |-> slots[p][k][i].def, uid |-> slots[p][k][i].uid]
    BY <2>1, TypesLemma DEF IInv
  <2>4. <<p, slots[p][k][i].uid>> \in uses[slots[p][k][i].def]
    BY <2>1, <2>3, UsesLemma DEF Holds
  <2>5. <<p, slots[p][k][i].uid>> \in uses'[slots[p][k][i].def]
    BY <2>1, <2>3, <2>4, <1>7
  <2>6. slots[p][k][i].def \notin Defines(o)
    BY <2>5, <1>1
  <2>7. slots[p][k][i].def \in DefsOf(k)'
    BY <2>2, <2>6, <1>1, ErasedDefsLemma
  <2> QED BY <2>1, <2>7
<1>11. RefsOK'
  BY <1>10 DEF RefsOK
<1> QED BY <1>2, <1>4, <1>6, <1>9, <1>11 DEF IInv

(***************************************************************************)
(* The invariant holds.                                                    *)
(***************************************************************************)
LEMMA NextLemma == IInv /\ [Next]_duVars => IInv'
<1> SUFFICES ASSUME IInv, [Next]_duVars PROVE IInv'
  OBVIOUS
<1>1. ASSUME NEW o \in Op, NEW n \in 0..1, NEW p \in 0..MaxSlots, NEW q \in 0..MaxSlots,
             NEW vs \in NewUids(Val \ value_uids, n), NEW ds \in [1..p -> DefinedVals],
             NEW ss \in [1..q -> live \cap Block], NEW us \in NewUids(Uid \ use_uids, p + q),
             Operation_new(o, vs, ds, ss, us)
      PROVE  IInv'
  <2>1. n \in Nat /\ p \in Nat /\ q \in Nat
    BY MaxSlotsAssumption
  <2> QED BY <2>1, <1>1, OperationNewLemma
<1>2. ASSUME NEW b \in Block, NEW n \in 0..1, NEW vs \in NewUids(Val \ value_uids, n), BasicBlock_new(b, vs)
      PROVE  IInv'
  <2>1. n \in Nat
    OBVIOUS
  <2> QED BY <2>1, <1>2, BasicBlockNewLemma
<1>3. ASSUME NEW e \in Entity, NEW v \in Val, NEW i \in 1..(Len(vals[e]) + 1), insert_value(e, i, v)
      PROVE  IInv'
  BY <1>3, InsertValueLemma
<1>4. ASSUME NEW e \in Entity, NEW i \in 1..Len(vals[e]), remove_value(e, i)
      PROVE  IInv'
  BY <1>4, RemoveValueLemma
<1>5. ASSUME NEW o \in Op, NEW k \in Kind, NEW d \in Def, NEW u \in Uid,
             NEW i \in 1..(Len(slots[o][k]) + 1), insert_slot(o, k, i, d, u)
      PROVE  IInv'
  BY <1>5, InsertSlotLemma
<1>6. ASSUME NEW o \in Op, NEW k \in Kind, NEW d \in Def, NEW u \in Uid,
             NEW i \in 1..Len(slots[o][k]), replace_slot(o, k, i, d, u)
      PROVE  IInv'
  BY <1>6, ReplaceSlotLemma
<1>7. ASSUME NEW o \in Op, NEW k \in Kind, NEW i \in 1..Len(slots[o][k]), remove_slot(o, k, i)
      PROVE  IInv'
  BY <1>7, RemoveSlotLemma
<1>8. ASSUME NEW k \in Kind, NEW d \in Def, NEW other \in Def, NEW touched \in SUBSET uses[d],
             replace_some_uses_with(k, d, touched, other)
      PROVE  IInv'
  BY <1>8, ReplaceUsesLemma
<1>9. ASSUME NEW o \in Op, Operation_erase(o) PROVE IInv'
  BY <1>9, OperationEraseLemma
<1>10. ASSUME NEW b \in Block, BasicBlock_erase(b) PROVE IInv'
  BY <1>10, BasicBlockEraseLemma
<1>11. CASE UNCHANGED duVars
  <2>1. /\ live' = live /\ erased' = erased /\ vals' = vals /\ value_uids' = value_uids
        /\ slots' = slots /\ use_uids' = use_uids /\ uses' = uses
    BY <1>11 DEF duVars
  <2>2. TypeOK' /\ ValuesOK'
    BY <2>1 DEF IInv, TypeOK, ValuesOK
  <2>3. live \subseteq live' /\ \A x \in DefinedVals : x \in DefinedVals'
    BY <2>1 DEF DefinedVals, ValuesOf
  <2>4. SlotsOK' /\ UsesOK' /\ RefsOK'
    BY <2>1, <2>3, ValuesOnlyLemma
  <2> QED BY <2>2, <2>4 DEF IInv
<1> QED BY <1>1, <1>2, <1>3, <1>4, <1>5, <1>6, <1>7, <1>8, <1>9, <1>10, <1>11 DEF Next

\* The inductive invariant is one.
THEOREM InductiveInvariant == Spec => []IInv
<1> QED BY InitLemma, NextLemma, PTL DEF Spec

\* Def-use and use-def chains agree, and each uid names one operand or value
\* (Operand::verify and Value::verify never fail), for any number of
\* operations, blocks, operands and values.
THEOREM ChainsCorrect == Spec => []ChainsAgree
<1>1. IInv => ChainsAgree
  BY ConsequenceLemma
<1> QED BY <1>1, InductiveInvariant, PTL

\* No live operation refers to a value or block that is gone (get_defnode
\* never panics), whatever is erased, removed and retargeted.
THEOREM ReferencesCorrect == Spec => []NothingDangles
<1>1. IInv => NothingDangles
  BY ConsequenceLemma
<1> QED BY <1>1, InductiveInvariant, PTL

(***************************************************************************)
(* What was invalidated stays so: a step only makes uses and values whose  *)
(* uids the counters had not handed out.                                   *)
(***************************************************************************)
UsesFresh == \A d \in Def : \A use \in uses'[d] : use[2] \notin use_uids \/ \E c \in Def : use \in uses[c]
ValuesFresh == \A v \in DefinedVals' : v \in DefinedVals \/ v \notin value_uids

\* The step's part of InvalidatedForGood.
StaysInvalid ==
    /\ \A use \in Use : use[2] \in use_uids /\ (\A d \in Def : use \notin uses[d])
                          => \A d \in Def : use \notin uses'[d]
    /\ \A v \in value_uids \ DefinedVals : v \notin DefinedVals'

LEMMA FreshLemma == UsesFresh /\ ValuesFresh => StaysInvalid
<1> QED BY DEF UsesFresh, ValuesFresh, StaysInvalid

LEMMA UsesFewerLemma ==
    ASSUME \A d \in Def : uses'[d] \subseteq uses[d]
    PROVE  UsesFresh
<1> QED BY DEF UsesFresh

LEMMA ValuesSameLemma ==
    ASSUME live' = live, vals' = vals
    PROVE  ValuesFresh
<1> QED BY DEF ValuesFresh, DefinedVals, ValuesOf

\* One entity's values change to some it had or that are new.
LEMMA ValuesFreshLemma ==
    ASSUME IInv, NEW e \in Entity, NEW t \in Seq(Val), vals' = [vals EXCEPT ![e] = t], live' \subseteq live \cup {e},
           \A j \in 1..Len(t) : t[j] \notin value_uids \/ \E a \in 1..Len(vals[e]) : t[j] = vals[e][a]
    PROVE  ValuesFresh
<1> SUFFICES ASSUME NEW v \in DefinedVals' PROVE v \in DefinedVals \/ v \notin value_uids
  BY DEF ValuesFresh
<1>1. PICK f \in live' : \E j \in 1..Len(vals'[f]) : v = vals'[f][j]
  BY DEF DefinedVals, ValuesOf
<1>2. f \in Entity /\ (f # e => f \in live /\ vals'[f] = vals[f]) /\ vals'[e] = t
  BY DEF IInv, TypeOK
<1>3. CASE f # e
  BY <1>1, <1>2, <1>3 DEF DefinedVals, ValuesOf
<1>4. CASE f = e
  <2>1. PICK j \in 1..Len(t) : v = t[j]
    BY <1>1, <1>2, <1>4
  <2>2. CASE t[j] \notin value_uids
    BY <2>1, <2>2
  <2>3. CASE \E a \in 1..Len(vals[e]) : t[j] = vals[e][a]
    <3>1. PICK a \in 1..Len(vals[e]) : v = vals[e][a]
      BY <2>1, <2>3
    <3>2. e \in live
      BY <3>1 DEF IInv, ValuesOK
    <3> QED BY <3>1, <3>2 DEF DefinedVals, ValuesOf
  <2> QED BY <2>2, <2>3
<1> QED BY <1>3, <1>4

\* A use that is added has a new uid.
LEMMA AddUseLemma ==
    ASSUME IInv, NEW d \in Def, NEW o \in Op, NEW u \in Uid, u \notin use_uids,
           \A c \in Def : uses'[c] \subseteq add_use(uses, d, <<o, u>>)[c]
    PROVE  UsesFresh
<1>1. \A c \in Def : add_use(uses, d, <<o, u>>)[c] \subseteq uses[c] \cup {<<o, u>>}
  BY DEF IInv, TypeOK, add_use
<1> QED BY <1>1 DEF UsesFresh

LEMMA StaysInvalidLemma == IInv /\ Next => StaysInvalid
<1> SUFFICES ASSUME IInv, Next PROVE UsesFresh /\ ValuesFresh
  BY FreshLemma
<1>0. uses \in [Def -> SUBSET Use] /\ \A e \in Entity : vals[e] \in Seq(Val)
  BY TypesLemma DEF IInv, TypeOK
<1>1. ASSUME NEW o \in Op, NEW n \in 0..1, NEW p \in 0..MaxSlots, NEW q \in 0..MaxSlots,
             NEW vs \in NewUids(Val \ value_uids, n), NEW ds \in [1..p -> DefinedVals],
             NEW ss \in [1..q -> live \cap Block], NEW us \in NewUids(Uid \ use_uids, p + q),
             Operation_new(o, vs, ds, ss, us)
      PROVE  UsesFresh /\ ValuesFresh
  <2>1. n \in Nat /\ p \in Nat /\ q \in Nat /\ p + q \in Nat
    BY MaxSlotsAssumption
  <2>2. Len(ds) = p /\ Len(ss) = q /\ \A i \in 1..(p + q) : us[i] \notin use_uids
    <3>1. Len(us) = p + q /\ \A i \in 1..Len(us) : us[i] \in Uid \ use_uids
      BY <2>1, NewUidsLemma
    <3> QED BY <2>1, <3>1
  <2>3. uses' = [d \in Def |-> uses[d] \cup {<<o, us[i]>> : i \in {j \in 1..p : ds[j] = d}}
                                       \cup {<<o, us[p + i]>> : i \in {j \in 1..q : ss[j] = d}}]
    BY <1>1, <2>2 DEF Operation_new
  <2>4. UsesFresh
    <3>1. \A i \in 1..p : i \in 1..(p + q)
      BY <2>1
    <3>2. \A i \in 1..q : p + i \in 1..(p + q)
      BY <2>1
    <3> SUFFICES ASSUME NEW d \in Def, NEW use \in uses'[d] PROVE use \in uses[d] \/ use[2] \notin use_uids
      BY DEF UsesFresh
    <3>3. \/ use \in uses[d]
          \/ \E i \in 1..p : use = <<o, us[i]>>
          \/ \E i \in 1..q : use = <<o, us[p + i]>>
      BY <2>3
    <3> QED BY <3>1, <3>2, <3>3, <2>2
  <2>5. vs \in Seq(Val) /\ \A i \in 1..Len(vs) : vs[i] \notin value_uids
    <3>1. vs \in Seq(Val \ value_uids) /\ \A i \in 1..Len(vs) : vs[i] \in Val \ value_uids
      BY <2>1, NewUidsLemma
    <3> QED BY <3>1
  <2>6. o \in Entity /\ vals' = [vals EXCEPT ![o] = vs] /\ live' \subseteq live \cup {o}
    BY <1>1 DEF Operation_new, Entity
  <2>7. ValuesFresh
    BY <2>5, <2>6, ValuesFreshLemma
  <2> QED BY <2>4, <2>7
<1>2. ASSUME NEW b \in Block, NEW n \in 0..1, NEW vs \in NewUids(Val \ value_uids, n), BasicBlock_new(b, vs)
      PROVE  UsesFresh /\ ValuesFresh
  <2>1. vs \in Seq(Val) /\ \A i \in 1..Len(vs) : vs[i] \notin value_uids
    <3>1. n \in Nat
      OBVIOUS
    <3>2. vs \in Seq(Val \ value_uids) /\ \A i \in 1..Len(vs) : vs[i] \in Val \ value_uids
      BY <3>1, NewUidsLemma
    <3> QED BY <3>2
  <2>2. b \in Entity /\ vals' = [vals EXCEPT ![b] = vs] /\ live' \subseteq live \cup {b} /\ uses' = uses
    BY <1>2 DEF BasicBlock_new, Entity
  <2>3. ValuesFresh
    BY <2>1, <2>2, ValuesFreshLemma
  <2> QED BY <2>2, <2>3, UsesFewerLemma
<1>3. ASSUME NEW e \in Entity, NEW v \in Val, NEW i \in 1..(Len(vals[e]) + 1), insert_value(e, i, v)
      PROVE  UsesFresh /\ ValuesFresh
  <2>1. /\ e \in live /\ v \notin value_uids /\ vals' = [vals EXCEPT ![e] = InsertAt(vals[e], i, v)]
        /\ live' = live /\ uses' = uses
    BY <1>3 DEF insert_value
  <2>2. PICK s \in Seq(Val) : s = vals[e]
    BY <1>0
  <2>3. PICK t \in Seq(Val) : t = InsertAt(s, i, v) /\ Inserted(s, i, v, t)
    BY <2>2, InsertAtLemma
  <2>4. \A j \in 1..Len(t) : t[j] = v \/ \E a \in 1..Len(s) : t[j] = s[a]
    <3>1. ElementsInserted(s, i, v, t)
      BY <2>2, <2>3, InsertedElements
    <3> QED BY <3>1 DEF ElementsInserted
  <2>5. ValuesFresh
    <3>1. \A j \in 1..Len(t) : t[j] \notin value_uids \/ \E a \in 1..Len(vals[e]) : t[j] = vals[e][a]
      BY <2>1, <2>2, <2>4
    <3>2. vals' = [vals EXCEPT ![e] = t] /\ live' \subseteq live \cup {e}
      BY <2>1, <2>2, <2>3
    <3> QED BY <3>1, <3>2, ValuesFreshLemma
  <2> QED BY <2>1, <2>5, UsesFewerLemma
<1>4. ASSUME NEW e \in Entity, NEW i \in 1..Len(vals[e]), remove_value(e, i)
      PROVE  UsesFresh /\ ValuesFresh
  <2>1. vals' = [vals EXCEPT ![e] = RemoveAt(vals[e], i)] /\ live' = live /\ uses' = uses
    BY <1>4 DEF remove_value
  <2>2. PICK s \in Seq(Val) : s = vals[e]
    BY <1>0
  <2>3. PICK t \in Seq(Val) : t = RemoveAt(s, i) /\ RemovedAt(s, i, t)
    BY <2>2, RemoveAtLemma
  <2>4. \A j \in 1..Len(t) : \E a \in 1..Len(s) : t[j] = s[a]
    <3>1. ElementsRemoved(s, i, t)
      BY <2>2, <2>3, RemovedElements
    <3> QED BY <3>1 DEF ElementsRemoved
  <2>5. ValuesFresh
    <3>1. \A j \in 1..Len(t) : t[j] \notin value_uids \/ \E a \in 1..Len(vals[e]) : t[j] = vals[e][a]
      BY <2>2, <2>4
    <3>2. vals' = [vals EXCEPT ![e] = t] /\ live' \subseteq live \cup {e}
      BY <2>1, <2>2, <2>3
    <3> QED BY <3>1, <3>2, ValuesFreshLemma
  <2> QED BY <2>1, <2>5, UsesFewerLemma
<1>5. ASSUME NEW o \in Op, NEW k \in Kind, NEW d \in Def, NEW u \in Uid, NEW i \in Nat, insert_slot(o, k, i, d, u)
      PROVE  UsesFresh /\ ValuesFresh
  <2>1. u \notin use_uids /\ uses' = add_use(uses, d, <<o, u>>) /\ live' = live /\ vals' = vals
    BY <1>5 DEF insert_slot
  <2>2. \A c \in Def : uses'[c] \subseteq add_use(uses, d, <<o, u>>)[c]
    BY <2>1
  <2> QED BY <2>1, <2>2, AddUseLemma, ValuesSameLemma
<1>6. ASSUME NEW o \in Op, NEW k \in Kind, NEW d \in Def, NEW u \in Uid,
             NEW i \in 1..Len(slots[o][k]), replace_slot(o, k, i, d, u)
      PROVE  UsesFresh /\ ValuesFresh
  <2>1. /\ u \notin use_uids /\ live' = live /\ vals' = vals
        /\ uses' = remove_use(add_use(uses, d, <<o, u>>), slots[o][k][i].def, <<o, slots[o][k][i].uid>>)
    BY <1>6 DEF replace_slot
  <2>2. slots[o][k][i].def \in Def
    BY TypesLemma DEF IInv
  <2>3. PICK us \in [Def -> SUBSET (Op \X Uid)] : us = add_use(uses, d, <<o, u>>)
    <3>1. <<o, u>> \in Op \X Uid
      OBVIOUS
    <3> QED BY <3>1, <1>0 DEF add_use, Use
  <2>4. \A c \in Def : uses'[c] \subseteq add_use(uses, d, <<o, u>>)[c]
    BY <2>1, <2>2, <2>3 DEF remove_use
  <2> QED BY <2>1, <2>4, AddUseLemma, ValuesSameLemma
<1>7. ASSUME NEW o \in Op, NEW k \in Kind, NEW i \in 1..Len(slots[o][k]), remove_slot(o, k, i)
      PROVE  UsesFresh /\ ValuesFresh
  <2>1. /\ live' = live /\ vals' = vals
        /\ uses' = remove_use(uses, slots[o][k][i].def, <<o, slots[o][k][i].uid>>)
    BY <1>7 DEF remove_slot
  <2>2. \A c \in Def : uses'[c] \subseteq uses[c]
    BY <2>1, <1>0 DEF remove_use
  <2> QED BY <2>1, <2>2, UsesFewerLemma, ValuesSameLemma
<1>8. ASSUME NEW k \in Kind, NEW d \in Def, NEW other \in Def, NEW touched \in SUBSET uses[d],
             replace_some_uses_with(k, d, touched, other)
      PROVE  UsesFresh /\ ValuesFresh
  <2>1. /\ live' = live /\ vals' = vals
        /\ uses' = [uses EXCEPT ![d] = @ \ touched, ![other] = @ \cup touched]
    BY <1>8 DEF replace_some_uses_with
  <2>2. \A c \in Def : uses'[c] \subseteq uses[c] \cup uses[d]
    BY <2>1, <1>0
  <2>3. UsesFresh
    BY <2>2 DEF UsesFresh
  <2> QED BY <2>1, <2>3, ValuesSameLemma
<1>9. ASSUME NEW o \in Op, Operation_erase(o)
      PROVE  UsesFresh /\ ValuesFresh
  <2>1. uses' = drop_uses_of(o) /\ live' = live \ {o} /\ vals' = [vals EXCEPT ![o] = <<>>]
    BY <1>9 DEF Operation_erase
  <2>2. \A c \in Def : uses'[c] \subseteq uses[c]
    BY <2>1 DEF drop_uses_of
  <2>3. o \in Entity /\ live' \subseteq live \cup {o}
    BY <2>1 DEF Entity
  <2>5. PICK t \in Seq(Val) : t = <<>> /\ Len(t) = 0
    <3>1. <<>> \in Seq(Val) /\ Len(<<>>) = 0
      OBVIOUS
    <3> QED BY <3>1
  <2>4. ValuesFresh
    <3>1. \A j \in 1..Len(t) : t[j] \notin value_uids \/ \E a \in 1..Len(vals[o]) : t[j] = vals[o][a]
      BY <2>5
    <3>2. vals' = [vals EXCEPT ![o] = t]
      BY <2>1, <2>5
    <3> QED BY <3>1, <3>2, <2>3, ValuesFreshLemma
  <2> QED BY <2>2, <2>4, UsesFewerLemma
<1>10. ASSUME NEW b \in Block, BasicBlock_erase(b)
       PROVE  UsesFresh /\ ValuesFresh
  <2>1. uses' = uses /\ live' = live \ {b} /\ vals' = [vals EXCEPT ![b] = <<>>]
    BY <1>10 DEF BasicBlock_erase
  <2>3. b \in Entity /\ live' \subseteq live \cup {b}
    BY <2>1 DEF Entity
  <2>5. PICK t \in Seq(Val) : t = <<>> /\ Len(t) = 0
    <3>1. <<>> \in Seq(Val) /\ Len(<<>>) = 0
      OBVIOUS
    <3> QED BY <3>1
  <2>4. ValuesFresh
    <3>1. \A j \in 1..Len(t) : t[j] \notin value_uids \/ \E a \in 1..Len(vals[b]) : t[j] = vals[b][a]
      BY <2>5
    <3>2. vals' = [vals EXCEPT ![b] = t]
      BY <2>1, <2>5
    <3> QED BY <3>1, <3>2, <2>3, ValuesFreshLemma
  <2> QED BY <2>1, <2>4, UsesFewerLemma
<1>11. \A o \in Op, k \in Kind : Len(slots[o][k]) \in Nat
  BY TypesLemma DEF IInv
<1>12. \A o \in Op, k \in Kind : \A i \in 1..(Len(slots[o][k]) + 1) : i \in Nat
  BY <1>11
<1> QED BY <1>1, <1>2, <1>3, <1>4, <1>5, <1>6, <1>7, <1>8, <1>9, <1>10, <1>12 DEF Next

\* A Use or Value a client kept after it was invalidated never comes to name
\* another operand, result or argument: no uid is handed out twice.
THEOREM HandlesStayInvalid == Spec => InvalidatedForGood
<1>1. IInv /\ [Next]_duVars => [StaysInvalid]_duVars
  BY StaysInvalidLemma
<1>2. Spec => [][StaysInvalid]_duVars
  BY <1>1, InductiveInvariant, PTL DEF Spec
<1> QED BY <1>2, PTL DEF InvalidatedForGood, StaysInvalid
=============================================================================
