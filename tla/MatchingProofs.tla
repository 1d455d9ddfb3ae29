--------------------------- MODULE MatchingProofs ---------------------------
(***************************************************************************)
(* Facts about the pure matching layer, for every configuration and every  *)
(* pair of rows.                                                           *)
(***************************************************************************)
EXTENDS Matching, TLAPS

LEMMA AbsType == ASSUME NEW n \in Int PROVE Abs(n) \in Nat
  BY DEF Abs

LEMMA AbsSym == ASSUME NEW m \in Int, NEW n \in Int PROVE Abs(m - n) = Abs(n - m)
  BY DEF Abs

LEMMA AbsBound ==
    ASSUME NEW m \in Int, NEW n \in Int, NEW k \in Nat
    PROVE  Abs(m - n) <= k <=> n >= m - k /\ n <= m + k
  BY DEF Abs

LEMMA FactsFields ==
    ASSUME NEW a \in TxnFacts
    PROVE  /\ a.side \in Side
           /\ a.tenant_id \in Tenant
           /\ a.row_id \in Nat
           /\ a.amount \in Int
           /\ a.occurred_at \in Int
  BY DEF TxnFacts

LEMMA TimeDeltaFacts ==
    ASSUME NEW a \in TxnFacts, NEW b \in TxnFacts
    PROVE  /\ time_delta(a, b) \in Nat
           /\ time_delta(a, b) = time_delta(b, a)
<1>1. a.occurred_at \in Int /\ b.occurred_at \in Int
  BY FactsFields
<1>2. a.occurred_at - b.occurred_at \in Int
  BY <1>1
<1> QED
  BY <1>1, <1>2, AbsType, AbsSym DEF time_delta

(***************************************************************************)
(* classify_pair gives a pair one verdict, whichever of the two rows is    *)
(* the candidate: the tolerance is taken on the gateway amount.            *)
(***************************************************************************)
THEOREM ClassifyPairSymmetric ==
    ASSUME NEW a \in TxnFacts, NEW b \in TxnFacts
    PROVE  classify_pair(a, b) = classify_pair(b, a)
<1>1. time_delta(a, b) = time_delta(b, a)
  BY TimeDeltaFacts
<1>2. Comparable(a, b) <=> Comparable(b, a)
  BY DEF Comparable
<1>3. Comparable(a, b) => WithinTolerance(a, b) = WithinTolerance(b, a)
  BY FactsFields DEF Comparable, WithinTolerance, _gateway, _ledger, Side
<1> QED
  BY <1>1, <1>2, <1>3 DEF classify_pair

(***************************************************************************)
(* The query of find_counterparties loses nothing: every row that pairs    *)
(* with the candidate satisfies its WHERE clause.  Needs exact_window_s <= *)
(* drift_window_s, which the settings do not enforce.                      *)
(***************************************************************************)
THEOREM QueryIsComplete ==
    ASSUME NEW c \in TxnFacts, NEW o \in TxnFacts, classify_pair(c, o) # "none"
    PROVE  InQueryWindow(c, o)
<1>1. Comparable(c, o) /\ time_delta(c, o) <= DriftWindow
  BY WindowsAssumption, WindowOrder, TimeDeltaFacts DEF classify_pair
<1>2. c.occurred_at \in Int /\ o.occurred_at \in Int /\ c.side \in Side /\ o.side \in Side
  BY FactsFields
<1>3. Abs(c.occurred_at - o.occurred_at) <= DriftWindow
  BY <1>1 DEF time_delta
<1>4. o.occurred_at >= c.occurred_at - DriftWindow /\ o.occurred_at <= c.occurred_at + DriftWindow
  BY <1>2, <1>3, AbsBound, WindowsAssumption
<1> QED
  BY <1>1, <1>2, <1>4 DEF InQueryWindow, Comparable, Other, Side

(***************************************************************************)
(* What a verdict means.                                                   *)
(***************************************************************************)
LEMMA VerdictFacts ==
    ASSUME NEW a \in TxnFacts, NEW b \in TxnFacts, classify_pair(a, b) # "none"
    PROVE  /\ Comparable(a, b)
           /\ time_delta(a, b) <= DriftWindow
           /\ classify_pair(a, b) \in {"exact", "time_drift", "amount_drift"}
           /\ a.amount = b.amount <=> classify_pair(a, b) \in {"exact", "time_drift"}
           /\ a.amount # b.amount => WithinTolerance(a, b)
  BY WindowsAssumption, WindowOrder, TimeDeltaFacts DEF classify_pair

(***************************************************************************)
(* decide's choice is unique: two rows of one table that are both best for *)
(* a candidate are the same row, because _sort_key ends in row_id.         *)
(***************************************************************************)
LEMMA SortKeyType ==
    ASSUME NEW c \in TxnFacts, NEW o \in TxnFacts
    PROVE  /\ _sort_key(c, o)[1] \in Nat
           /\ _sort_key(c, o)[2] \in Nat
           /\ _sort_key(c, o)[3] \in Nat
           /\ _sort_key(c, o)[4] = o.row_id
           /\ _sort_key(c, o)[4] \in Nat
<1>1. _LAYER_RANK(classify_pair(c, o)) \in Nat
  BY DEF _LAYER_RANK
<1>2. time_delta(c, o) \in Nat
  BY TimeDeltaFacts
<1>3. c.amount - o.amount \in Int /\ o.row_id \in Nat
  BY FactsFields
<1>4. Abs(c.amount - o.amount) \in Nat
  BY <1>3, AbsType
<1> QED
  BY <1>1, <1>2, <1>3, <1>4 DEF _sort_key

LEMMA LexTotal ==
    ASSUME NEW k, NEW l,
           \A i \in 1..4 : k[i] \in Nat /\ l[i] \in Nat,
           ~LexLess(k, l), ~LexLess(l, k)
    PROVE  k[4] = l[4]
<1>1. \A i \in 1..4 : (\A j \in 1..(i - 1) : k[j] = l[j]) => k[i] = l[i]
  BY DEF LexLess
<1>2. k[1] = l[1]
  BY <1>1
<1>3. k[2] = l[2]
  BY <1>1, <1>2
<1>4. k[3] = l[3]
  BY <1>1, <1>2, <1>3
<1> QED
  BY <1>1, <1>2, <1>3, <1>4

THEOREM BestIsUnique ==
    ASSUME NEW c \in TxnFacts, NEW V \in SUBSET TxnFacts,
           \A p, q \in V : p.row_id = q.row_id => p = q,
           NEW p \in Best(c, V), NEW q \in Best(c, V)
    PROVE  p = q
<1>1. p \in V /\ q \in V
  BY DEF Best
<1>2. ~LexLess(_sort_key(c, p), _sort_key(c, q)) /\ ~LexLess(_sort_key(c, q), _sort_key(c, p))
  BY <1>1 DEF Best
<1>3. \A i \in 1..4 : _sort_key(c, p)[i] \in Nat /\ _sort_key(c, q)[i] \in Nat
  <2>1. \A i \in 1..4 : i = 1 \/ i = 2 \/ i = 3 \/ i = 4
    OBVIOUS
  <2> QED
    BY <1>1, <2>1, SortKeyType
<1>4. _sort_key(c, p)[4] = _sort_key(c, q)[4]
  BY <1>2, <1>3, LexTotal
<1>5. p.row_id = q.row_id
  BY <1>1, <1>4, SortKeyType
<1> QED
  BY <1>1, <1>5
=============================================================================
