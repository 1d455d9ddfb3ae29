------------------------- MODULE MatchingScanProofs -------------------------
(***************************************************************************)
(* The walk over the fetched rows reaches the decision that Matching takes *)
(* from the set of pending rows: for any rows, in whatever order the query *)
(* returns them.                                                           *)
(***************************************************************************)
EXTENDS MatchingScan, MatchingProofs, FiniteSetTheorems, FunctionTheorems,
        SequenceTheorems

-----------------------------------------------------------------------------
(***************************************************************************)
(* The inductive invariant.                                                *)
(***************************************************************************)
\* What min picks, and what makes it the first.
IsFirstMin(c, list, i) ==
    /\ i \in DOMAIN list
    /\ \A j \in DOMAIN list : ~LexLess(_sort_key(c, list[j]), _sort_key(c, list[i]))
    /\ \A j \in 1..(i - 1) : LexLess(_sort_key(c, list[i]), _sort_key(c, list[j]))

Has(list, o) == \E i \in DOMAIN list : list[i] = o

\* A counterparty is waiting to be walked or is in the list, and the list has a minimum.
WalkIsSound ==
    /\ \A o \in Viable(candidate, pending) : Has(fetched, o) \/ Has(viable, o)
    /\ \A i \in DOMAIN fetched : fetched[i] \in pending
    /\ \A i \in DOMAIN viable : viable[i] \in Viable(candidate, pending)
    /\ viable # <<>> => \E i \in DOMAIN viable : IsFirstMin(candidate, viable, i)

IInv ==
    /\ TypeOK
    /\ pc = "query" => viable = <<>>
    /\ pc = "walk" => WalkIsSound
    /\ SameConclusion

-----------------------------------------------------------------------------
(***************************************************************************)
(* The order of the keys.                                                  *)
(***************************************************************************)
IsKey(k) == \A i \in 1..4 : k[i] \in Nat

LEMMA KeyType ==
    ASSUME NEW c \in TxnFacts, NEW o \in TxnFacts
    PROVE  IsKey(_sort_key(c, o))
<1>1. \A i \in 1..4 : i = 1 \/ i = 2 \/ i = 3 \/ i = 4
  OBVIOUS
<1> QED
  BY <1>1, SortKeyType DEF IsKey

LEMMA LexCases ==
    ASSUME NEW k, NEW l, IsKey(k), IsKey(l)
    PROVE  LexLess(k, l) <=>
             \/ k[1] < l[1]
             \/ k[1] = l[1] /\ k[2] < l[2]
             \/ k[1] = l[1] /\ k[2] = l[2] /\ k[3] < l[3]
             \/ k[1] = l[1] /\ k[2] = l[2] /\ k[3] = l[3] /\ k[4] < l[4]
<1>1. \A i \in 1..4 : i = 1 \/ i = 2 \/ i = 3 \/ i = 4
  OBVIOUS
<1>2. /\ \A j : ~(j \in 1..(1 - 1))
      /\ \A j : j \in 1..(2 - 1) <=> j = 1
      /\ \A j : j \in 1..(3 - 1) <=> j = 1 \/ j = 2
      /\ \A j : j \in 1..(4 - 1) <=> j = 1 \/ j = 2 \/ j = 3
  OBVIOUS
<1>3. 1 \in 1..4 /\ 2 \in 1..4 /\ 3 \in 1..4 /\ 4 \in 1..4
  OBVIOUS
<1>4. ASSUME LexLess(k, l)
      PROVE  \/ k[1] < l[1]
             \/ k[1] = l[1] /\ k[2] < l[2]
             \/ k[1] = l[1] /\ k[2] = l[2] /\ k[3] < l[3]
             \/ k[1] = l[1] /\ k[2] = l[2] /\ k[3] = l[3] /\ k[4] < l[4]
  <2>1. PICK i \in 1..4 : k[i] < l[i] /\ \A j \in 1..(i - 1) : k[j] = l[j]
    BY <1>4 DEF LexLess
  <2> QED
    BY <1>1, <1>2, <2>1
<1>5. k[1] < l[1] => LexLess(k, l)
  BY <1>2, <1>3 DEF LexLess
<1>6. k[1] = l[1] /\ k[2] < l[2] => LexLess(k, l)
  BY <1>2, <1>3 DEF LexLess
<1>7. k[1] = l[1] /\ k[2] = l[2] /\ k[3] < l[3] => LexLess(k, l)
  BY <1>2, <1>3 DEF LexLess
<1>8. k[1] = l[1] /\ k[2] = l[2] /\ k[3] = l[3] /\ k[4] < l[4] => LexLess(k, l)
  BY <1>2, <1>3 DEF LexLess
<1> QED
  BY <1>4, <1>5, <1>6, <1>7, <1>8

\* It is a strict weak order.
LEMMA LexAsymmetric ==
    ASSUME NEW k, NEW l, IsKey(k), IsKey(l), LexLess(k, l)
    PROVE  ~LexLess(l, k)
<1>1. k[1] \in Nat /\ k[2] \in Nat /\ k[3] \in Nat /\ k[4] \in Nat
  BY DEF IsKey
<1>2. l[1] \in Nat /\ l[2] \in Nat /\ l[3] \in Nat /\ l[4] \in Nat
  BY DEF IsKey
<1> QED
  BY <1>1, <1>2, LexCases

LEMMA LexBelow ==
    ASSUME NEW k, NEW l, NEW m, IsKey(k), IsKey(l), IsKey(m), LexLess(k, l), ~LexLess(m, l)
    PROVE  LexLess(k, m)
<1>1. k[1] \in Nat /\ k[2] \in Nat /\ k[3] \in Nat /\ k[4] \in Nat
  BY DEF IsKey
<1>2. l[1] \in Nat /\ l[2] \in Nat /\ l[3] \in Nat /\ l[4] \in Nat
  BY DEF IsKey
<1>3. m[1] \in Nat /\ m[2] \in Nat /\ m[3] \in Nat /\ m[4] \in Nat
  BY DEF IsKey
<1> QED
  BY <1>1, <1>2, <1>3, LexCases

-----------------------------------------------------------------------------
(***************************************************************************)
(* The list of viable counterparties.                                      *)
(***************************************************************************)
\* The new last element is the first minimum, or the old one stays it.
LEMMA AppendKeepsMin ==
    ASSUME NEW c \in TxnFacts, NEW list \in Seq(TxnFacts), NEW o \in TxnFacts,
           list # <<>> => \E i \in DOMAIN list : IsFirstMin(c, list, i)
    PROVE  \E i \in DOMAIN Append(list, o) : IsFirstMin(c, Append(list, o), i)
<1>1. PICK n \in Nat : n = Len(list)
  BY LenProperties
<1>2. PICK new : new = Append(list, o)
  OBVIOUS
<1>3. /\ DOMAIN list = 1..n /\ DOMAIN new = 1..(n + 1)
      /\ \A i \in 1..n : new[i] = list[i]
      /\ new[n + 1] = o
      /\ \A i \in 1..n : list[i] \in TxnFacts
  BY <1>1, <1>2, LenProperties, AppendProperties, ElementOfSeq
<1>4. \A i \in 1..(n + 1) : i \in 1..n \/ i = n + 1
  OBVIOUS
<1>5. \A i \in 1..n : IsKey(_sort_key(c, list[i]))
  BY <1>3, KeyType
<1>6. IsKey(_sort_key(c, o)) /\ ~LexLess(_sort_key(c, o), _sort_key(c, o))
  BY KeyType, LexAsymmetric
<1>7. CASE list = <<>>
  <2>1. n = 0
    BY <1>1, <1>7, EmptySeq
  <2>2. IsFirstMin(c, new, n + 1)
    <3>1. n + 1 \in 1..(n + 1) /\ \A j : ~(j \in 1..(n + 1 - 1)) /\ (j \in 1..(n + 1) => j = n + 1)
      BY <2>1
    <3> QED
      BY <1>3, <1>6, <3>1 DEF IsFirstMin
  <2> QED
    BY <1>2, <2>2 DEF IsFirstMin
<1>8. CASE list # <<>>
  <2>1. PICK m \in 1..n : IsFirstMin(c, list, m)
    BY <1>3, <1>8
  <2>2. CASE LexLess(_sort_key(c, o), _sort_key(c, list[m]))
    <3>1. \A j \in 1..n : LexLess(_sort_key(c, o), _sort_key(c, list[j]))
      BY <1>3, <1>5, <1>6, <2>1, <2>2, LexBelow DEF IsFirstMin
    <3>2. \A j \in 1..n : ~LexLess(_sort_key(c, list[j]), _sort_key(c, o))
      BY <1>5, <1>6, <3>1, LexAsymmetric
    <3>3. n + 1 \in 1..(n + 1) /\ \A j : j \in 1..(n + 1 - 1) <=> j \in 1..n
      OBVIOUS
    <3>4. IsFirstMin(c, new, n + 1)
      BY <1>3, <1>4, <1>6, <3>1, <3>2, <3>3 DEF IsFirstMin
    <3> QED
      BY <1>2, <3>4 DEF IsFirstMin
  <2>3. CASE ~LexLess(_sort_key(c, o), _sort_key(c, list[m]))
    <3>1. m \in 1..(n + 1) /\ \A j \in 1..(m - 1) : j \in 1..n
      OBVIOUS
    <3>2. IsFirstMin(c, new, m)
      BY <1>3, <1>4, <2>1, <2>3, <3>1 DEF IsFirstMin
    <3> QED
      BY <1>2, <3>2 DEF IsFirstMin
  <2> QED
    BY <2>2, <2>3
<1> QED
  BY <1>7, <1>8

\* A first minimum of all viable rows is the best of them.
LEMMA FirstMinIsBest ==
    ASSUME NEW c \in Row, NEW P \in SUBSET Row, NEW list,
           \A o \in Viable(c, P) : Has(list, o),
           \A i \in DOMAIN list : list[i] \in Viable(c, P),
           NEW i, IsFirstMin(c, list, i)
    PROVE  decide(c, P) = {PairDecision(c, list[i])}
<1>1. list[i] \in Best(c, Viable(c, P))
  BY DEF IsFirstMin, Best, Has
<1>2. Viable(c, P) \in SUBSET Row /\ Row \in SUBSET TxnFacts
  BY RowAssumption DEF Viable
<1>3. \A o \in Viable(c, P) : o.side \in Side /\ o.side # c.side /\ c.side \in Side
  <2>1. \A o \in Viable(c, P) : Comparable(c, o)
    BY <1>2, VerdictFacts DEF Viable
  <2> QED
    BY <1>2, <2>1, FactsFields DEF Comparable
<1>4. \A p, q \in Viable(c, P) : p.row_id = q.row_id => p = q
  BY <1>2, <1>3, RowAssumption DEF Side
<1>5. \A o \in Best(c, Viable(c, P)) : o = list[i]
  BY <1>1, <1>2, <1>4, BestIsUnique
<1>6. Best(c, Viable(c, P)) = {list[i]}
  BY <1>1, <1>5
<1> QED
  BY <1>6 DEF decide

LEMMA NothingViable ==
    ASSUME NEW c, NEW P, Viable(c, P) = {}
    PROVE  decide(c, P) = {}
BY DEF decide, Best

-----------------------------------------------------------------------------
(***************************************************************************)
(* The steps.                                                              *)
(***************************************************************************)
\* Whatever the order of the fetched rows, each of them is there.
LEMMA SeqsHaveAll ==
    ASSUME NEW S, IsFiniteSet(S), NEW f \in SetToSeqs(S)
    PROVE  f \in Seq(S) /\ \A o \in S : Has(f, o)
<1>1. PICK n \in Nat : n = Cardinality(S)
  BY FS_CardinalityType
<1>2. f \in [1..n -> S] /\ \A i, j \in 1..n : i # j => f[i] # f[j]
  BY <1>1 DEF SetToSeqs
<1>3. f \in Seq(S)
  BY <1>2, SeqDef
<1>4. f \in Injection(1..n, S)
  BY <1>2, Fun_IsInj
<1>5. Cardinality(1..n) = n
  BY FS_Interval
<1>6. f \in Surjection(1..n, S)
  BY <1>1, <1>4, <1>5, FS_Injection
<1>7. \A o \in S : \E i \in 1..n : f[i] = o
  BY <1>6 DEF Surjection
<1> QED
  BY <1>2, <1>3, <1>7 DEF Has

LEMMA DecisionType ==
    ASSUME NEW c \in Row, NEW o \in Row, classify_pair(c, o) # "none"
    PROVE  PairDecision(c, o) \in Decision
<1>1. c \in TxnFacts /\ o \in TxnFacts
  BY RowAssumption
<1>2. classify_pair(c, o) \in {"exact", "time_drift", "amount_drift"}
  BY <1>1, VerdictFacts
<1> QED
  BY <1>1, <1>2 DEF PairDecision, Decision, PairStatus, ReconStatus, MatchLayer, _gateway, _ledger

LEMMA InitInv == Init => IInv
<1> SUFFICES ASSUME Init PROVE IInv
  OBVIOUS
<1>1. TypeOK
  BY EmptySeq DEF Init, TypeOK
<1> QED
  BY <1>1 DEF Init, IInv, SameConclusion

LEMMA FetchInv ==
    ASSUME IInv, Fetch
    PROVE  IInv'
<1>1. PICK Q : Q = {o \in pending : InQueryWindow(candidate, o)}
  OBVIOUS
<1>2. Q \in SUBSET Row /\ Q \subseteq pending /\ candidate \in TxnFacts /\ pending \in SUBSET TxnFacts
  BY <1>1, RowAssumption DEF IInv, TypeOK
<1>3. IsFiniteSet(Q)
  BY <1>2, RowAssumption, FS_Subset
<1>4. fetched' \in Seq(Q) /\ \A o \in Q : Has(fetched', o)
  BY <1>1, <1>3, SeqsHaveAll DEF Fetch
<1>5. \A i \in DOMAIN fetched' : fetched'[i] \in Q
  BY <1>4, LenProperties, ElementOfSeq
<1>6. TypeOK'
  <2>1. fetched' \in Seq(Row)
    BY <1>2, <1>4, SeqMonotonic
  <2> QED
    BY <2>1 DEF Fetch, IInv, TypeOK
<1>7. \A o \in Viable(candidate, pending) : o \in Q
  BY <1>1, <1>2, QueryIsComplete DEF Viable
<1>8. WalkIsSound'
  <2>1. viable' = <<>> /\ candidate' = candidate /\ pending' = pending
    BY DEF Fetch, IInv
  <2>2. \A i : i \notin DOMAIN viable'
    BY <2>1
  <2>3. \A o \in Viable(candidate', pending') : Has(fetched', o)
    BY <1>4, <1>7, <2>1, Zenon
  <2>4. \A i \in DOMAIN fetched' : fetched'[i] \in pending'
    BY <1>2, <1>5, <2>1
  <2> QED
    BY <2>1, <2>2, <2>3, <2>4 DEF WalkIsSound
<1> QED
  BY <1>6, <1>8 DEF Fetch, IInv, SameConclusion

LEMMA ConsiderInv ==
    ASSUME IInv, Consider
    PROVE  IInv'
<1>1. /\ candidate \in Row /\ pending \in SUBSET Row /\ fetched \in Seq(Row) /\ viable \in Seq(Row)
      /\ fetched # <<>> /\ WalkIsSound /\ Row \subseteq TxnFacts
      /\ candidate' = candidate /\ pending' = pending /\ outcome' = outcome /\ pc' = "walk"
  BY RowAssumption DEF IInv, TypeOK, Consider
<1>2. PICK o : o = Head(fetched)
  OBVIOUS
<1>3. PICK n \in Nat \ {0} : n = Len(fetched)
  BY <1>1, EmptySeq
<1>4. /\ fetched' = Tail(fetched) /\ fetched' \in Seq(Row)
      /\ DOMAIN fetched = 1..n /\ DOMAIN fetched' = 1..(n - 1)
      /\ fetched[1] = o /\ \A i \in 1..(n - 1) : fetched'[i] = fetched[i + 1]
  BY <1>1, <1>2, <1>3, HeadTailProperties, LenProperties DEF Consider
<1>5. o \in pending /\ o \in Row
  BY <1>1, <1>3, <1>4 DEF WalkIsSound
<1>6. \A i \in 1..n : i = 1 \/ (i - 1 \in 1..(n - 1) /\ (i - 1) + 1 = i)
  OBVIOUS
<1>7. ASSUME NEW x, Has(fetched, x) PROVE x = o \/ Has(fetched', x)
  <2>1. PICK i \in 1..n : fetched[i] = x
    BY <1>4, <1>7 DEF Has
  <2>2. CASE i = 1
    BY <1>4, <2>1, <2>2
  <2>3. CASE i - 1 \in 1..(n - 1) /\ (i - 1) + 1 = i
    <3>1. fetched'[i - 1] = fetched[(i - 1) + 1]
      BY <1>4, <2>3
    <3> QED
      BY <1>4, <2>1, <2>3, <3>1 DEF Has
  <2> QED
    BY <1>6, <2>2, <2>3
<1>8. \A i \in DOMAIN fetched' : fetched'[i] \in pending
  <2>1. \A i \in 1..(n - 1) : i + 1 \in 1..n
    OBVIOUS
  <2> QED
    BY <1>1, <1>4, <2>1 DEF WalkIsSound
<1>9. CASE classify_pair(candidate, o) = "none"
  <2>1. viable' = viable
    BY <1>2, <1>9 DEF Consider
  <2>2. o \notin Viable(candidate, pending)
    BY <1>9 DEF Viable
  <2>3. \A x \in Viable(candidate', pending') : Has(fetched', x) \/ Has(viable', x)
    BY <1>1, <1>7, <2>1, <2>2 DEF WalkIsSound
  <2>4. WalkIsSound'
    BY <1>1, <1>8, <2>1, <2>3 DEF WalkIsSound
  <2> QED
    BY <1>1, <1>4, <2>1, <2>4 DEF IInv, TypeOK, SameConclusion
<1>10. CASE classify_pair(candidate, o) # "none"
  <2>1. viable' = Append(viable, o)
    BY <1>2, <1>10 DEF Consider
  <2>2. PICK m \in Nat : m = Len(viable)
    BY <1>1, LenProperties
  <2>3. /\ viable' \in Seq(Row) /\ DOMAIN viable = 1..m /\ DOMAIN viable' = 1..(m + 1)
        /\ \A i \in 1..m : viable'[i] = viable[i]
        /\ viable'[m + 1] = o
    BY <1>1, <1>5, <2>1, <2>2, AppendProperties, LenProperties
  <2>4. /\ \A i \in 1..(m + 1) : i \in 1..m \/ i = m + 1
        /\ m + 1 \in 1..(m + 1) /\ \A i \in 1..m : i \in 1..(m + 1)
    OBVIOUS
  <2>5. \A x : Has(viable, x) \/ x = o => Has(viable', x)
    BY <2>3, <2>4 DEF Has
  <2>6. \A x \in Viable(candidate', pending') : Has(fetched', x) \/ Has(viable', x)
    BY <1>1, <1>7, <2>5 DEF WalkIsSound
  <2>7. \A i \in DOMAIN viable' : viable'[i] \in Viable(candidate, pending)
    <3>1. o \in Viable(candidate, pending)
      BY <1>5, <1>10 DEF Viable
    <3> QED
      BY <1>1, <2>3, <2>4, <3>1 DEF WalkIsSound
  <2>8. \E i \in DOMAIN viable' : IsFirstMin(candidate, viable', i)
    <3>1. candidate \in TxnFacts /\ viable \in Seq(TxnFacts) /\ o \in TxnFacts
      BY <1>1, <1>5, SeqMonotonic
    <3>2. viable # <<>> => \E i \in DOMAIN viable : IsFirstMin(candidate, viable, i)
      BY <1>1 DEF WalkIsSound
    <3> QED
      BY <2>1, <3>1, <3>2, AppendKeepsMin
  <2>9. WalkIsSound'
    BY <1>1, <1>8, <2>6, <2>7, <2>8 DEF WalkIsSound
  <2> QED
    BY <1>1, <1>4, <2>3, <2>9 DEF IInv, TypeOK, SameConclusion
<1> QED
  BY <1>9, <1>10

LEMMA ChooseInv ==
    ASSUME IInv, Choose
    PROVE  IInv'
<1>1. /\ candidate \in Row /\ pending \in SUBSET Row /\ fetched = <<>> /\ WalkIsSound
      /\ UNCHANGED <<candidate, pending, fetched, viable>> /\ pc' = "done"
  BY DEF IInv, TypeOK, Choose
<1>2. \A o \in Viable(candidate, pending) : Has(viable, o)
  BY <1>1 DEF WalkIsSound, Has
<1>3. CASE viable = <<>>
  <2>1. outcome' = {}
    BY <1>3 DEF Choose
  <2>2. Viable(candidate, pending) = {}
    BY <1>2, <1>3 DEF Has
  <2>3. decide(candidate, pending) = {}
    BY <2>2, NothingViable
  <2> QED
    BY <1>1, <2>1, <2>3 DEF IInv, TypeOK, SameConclusion
<1>4. CASE viable # <<>>
  <2>1. PICK i : i = FirstMin(candidate, viable)
    OBVIOUS
  <2>2. IsFirstMin(candidate, viable, i)
    <3>1. \E j \in DOMAIN viable : IsFirstMin(candidate, viable, j)
      BY <1>1, <1>4 DEF WalkIsSound
    <3> QED
      BY <2>1, <3>1 DEF FirstMin, IsFirstMin
  <2>3. outcome' = {PairDecision(candidate, viable[i])}
    BY <1>4, <2>1 DEF Choose
  <2>4. \A j \in DOMAIN viable : viable[j] \in Viable(candidate, pending)
    BY <1>1 DEF WalkIsSound
  <2>5. decide(candidate, pending) = {PairDecision(candidate, viable[i])}
    BY <1>1, <1>2, <2>2, <2>4, FirstMinIsBest
  <2>6. PairDecision(candidate, viable[i]) \in Decision
    BY <1>1, <2>2, <2>4, DecisionType DEF IsFirstMin, Viable
  <2> QED
    BY <1>1, <2>3, <2>5, <2>6 DEF IInv, TypeOK, SameConclusion
<1> QED
  BY <1>3, <1>4

\* The invariant holds in every state.
THEOREM Invariance == Spec => []IInv
<1>1. IInv /\ UNCHANGED vars => IInv'
  BY DEF IInv, TypeOK, WalkIsSound, SameConclusion, vars
<1>2. IInv /\ [Next]_vars => IInv'
  BY <1>1, FetchInv, ConsiderInv, ChooseInv DEF Next
<1> QED
  BY <1>2, InitInv, PTL DEF Spec

-----------------------------------------------------------------------------
(***************************************************************************)
(* The properties of the run.                                              *)
(***************************************************************************)
\* The lists hold rows, and what decide returns is a decision.
THEOREM TypeCorrect == Spec => []TypeOK
<1>1. IInv => TypeOK
  BY DEF IInv
<1> QED
  BY <1>1, Invariance, PTL

\* Whatever order the query returns its rows in, min over the walked list is the best
\* of all pending rows.
THEOREM SameConclusionHolds == Spec => []SameConclusion
<1>1. IInv => SameConclusion
  BY DEF IInv
<1> QED
  BY <1>1, Invariance, PTL

\* A worker with the ledger message and one with the gateway message classify a pair
\* alike.
THEOREM SameVerdictFromBothSidesHolds == Spec => []SameVerdictFromBothSides
<1>1. IInv => SameVerdictFromBothSides
  BY RowAssumption, ClassifyPairSymmetric DEF IInv, TypeOK, SameVerdictFromBothSides
<1> QED
  BY <1>1, Invariance, PTL
=============================================================================
