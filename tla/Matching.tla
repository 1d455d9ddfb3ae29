------------------------------ MODULE Matching ------------------------------
(***************************************************************************)
(* The pure matching layer: ledgerloop/matching/core.py, and the predicate *)
(* of the query that feeds it (worker/persist.py, find_counterparties).    *)
(*                                                                         *)
(* Amounts are integers in minor units and the percentage is the rational  *)
(* PctNum / PctScale, so the comparison with the tolerance is made after   *)
(* multiplying both sides by PctScale: exact, as Decimal's is.  Instants   *)
(* are integers.  Python's Optional[Decision] is a set here: {} is None    *)
(* ("defer") and a singleton is the decision.                              *)
(***************************************************************************)
EXTENDS Integers

CONSTANTS
    Tenant, TxnId, Currency,     \* what a row belongs to and is about
    ExactWindow, DriftWindow,    \* settings.exact_window_s, drift_window_s
    PctNum, PctScale, AbsTol,    \* amount_drift_pct = PctNum / PctScale; amount_drift_abs
    NoRow                        \* a NULL gateway_txn_id or ledger_entry_id

ASSUME WindowsAssumption == ExactWindow \in Nat /\ DriftWindow \in Nat

\* True of the defaults (2 s and 60 s); the settings do not enforce it.
ASSUME WindowOrder == ExactWindow <= DriftWindow

ASSUME ToleranceAssumption ==
    /\ PctNum \in Nat
    /\ PctScale \in Nat \ {0}
    /\ AbsTol \in Nat

Side == {"gateway", "ledger"}

Other(side) == IF side = "gateway" THEN "ledger" ELSE "gateway"

\* A raw row, as far as matching and ingestion depend on it (received_at only
\* feeds the latency figure, and here the sweeper's notion of age).
TxnFacts ==
    [side : Side, tenant_id : Tenant, row_id : Nat, txn_id : TxnId,
     amount : Int, currency : Currency, occurred_at : Int, key : Nat]

ASSUME NoRowAssumption == NoRow \notin TxnFacts

MatchLayer == {"exact", "time_drift", "amount_drift", "duplicate", "unmatched_sweep"}

ReconStatus ==
    {"matched", "amount_drift", "duplicate", "time_drift",   \* time_drift is reserved
     "unmatched_gateway_only", "unmatched_ledger_only"}

Abs(n) == IF n < 0 THEN -n ELSE n

(***************************************************************************)
(* Layers 1-3 against one counterparty.                                    *)
(***************************************************************************)
time_delta(a, b) == Abs(a.occurred_at - b.occurred_at)

\* PctScale times the tolerance, which keeps it an integer.
amount_tolerance(reference) ==
    IF Abs(reference) * PctNum >= AbsTol * PctScale
    THEN Abs(reference) * PctNum
    ELSE AbsTol * PctScale

\* Defect variant: the candidate is assumed to be the gateway row.
_gateway_is_candidate(a, b) == a

_gateway(a, b) == IF a.side = "gateway" THEN a ELSE b
_ledger(a, b)  == IF a.side = "gateway" THEN b ELSE a

Comparable(a, b) ==
    /\ a.tenant_id = b.tenant_id
    /\ a.side # b.side
    /\ a.txn_id = b.txn_id
    /\ a.currency = b.currency

\* Defect variant: the tolerance of whichever row is being processed.
WithinTolerance_of_candidate(a, b) ==
    Abs(a.amount - b.amount) * PctScale <= amount_tolerance(a.amount)

\* The tolerance is taken on the gateway's amount, whichever side is looking.
WithinTolerance(a, b) ==
    Abs(_gateway(a, b).amount - _ledger(a, b).amount) * PctScale
        <= amount_tolerance(_gateway(a, b).amount)

\* The layer at which the two rows pair, or "none".
classify_pair(candidate, other) ==
    LET dt          == time_delta(candidate, other)
        same_amount == candidate.amount = other.amount
    IN  IF ~Comparable(candidate, other)            THEN "none"
        ELSE IF same_amount /\ dt <= ExactWindow    THEN "exact"
        ELSE IF same_amount /\ dt <= DriftWindow    THEN "time_drift"
        ELSE IF /\ ~same_amount
                /\ dt <= DriftWindow
                /\ WithinTolerance(candidate, other) THEN "amount_drift"
        ELSE "none"

\* Defect variant: the layer's name is used as the status.
PairStatus_of_name(layer) == layer

PairStatus(layer) == IF layer = "amount_drift" THEN "amount_drift" ELSE "matched"

(***************************************************************************)
(* Choosing among counterparties.                                          *)
(***************************************************************************)
_LAYER_RANK(layer) ==
    CASE layer = "exact"      -> 0
      [] layer = "time_drift" -> 1
      [] OTHER                -> 2

_sort_key(candidate, other) ==
    << _LAYER_RANK(classify_pair(candidate, other)),
       time_delta(candidate, other),
       Abs(candidate.amount - other.amount),
       other.row_id >>

\* Python's order on tuples of the same length.
LexLess(k, l) ==
    \E i \in 1..4 : k[i] < l[i] /\ \A j \in 1..(i - 1) : k[j] = l[j]

Viable(candidate, counterparties) ==
    {o \in counterparties : classify_pair(candidate, o) # "none"}

Best(candidate, viable) ==
    {o \in viable :
        \A p \in viable : ~LexLess(_sort_key(candidate, p), _sort_key(candidate, o))}

Decision ==
    [status : ReconStatus, layer : MatchLayer,
     gateway : TxnFacts \cup {NoRow}, ledger : TxnFacts \cup {NoRow}]

PairDecision(candidate, other) ==
    [status  |-> PairStatus(classify_pair(candidate, other)),
     layer   |-> classify_pair(candidate, other),
     gateway |-> _gateway(candidate, other),
     ledger  |-> _ledger(candidate, other)]

decide(candidate, counterparties) ==
    {PairDecision(candidate, o) : o \in Best(candidate, Viable(candidate, counterparties))}

OneSided(candidate, status, layer) ==
    [status  |-> status,
     layer   |-> layer,
     gateway |-> IF candidate.side = "gateway" THEN candidate ELSE NoRow,
     ledger  |-> IF candidate.side = "ledger"  THEN candidate ELSE NoRow]

decide_duplicate(candidate) == OneSided(candidate, "duplicate", "duplicate")

decide_unmatched(candidate) ==
    OneSided(candidate,
             IF candidate.side = "gateway" THEN "unmatched_gateway_only"
                                           ELSE "unmatched_ledger_only",
             "unmatched_sweep")

\* Defect variant: a drifted amount is not escalated.
opens_exception_unmatched(status) ==
    status \in {"unmatched_gateway_only", "unmatched_ledger_only"}

opens_exception(status) ==
    status \in {"amount_drift", "unmatched_gateway_only", "unmatched_ledger_only"}

(***************************************************************************)
(* The WHERE clause of find_counterparties, except reconciled_at IS NULL.  *)
(***************************************************************************)

\* Defect variant: an exclusive upper bound.
InQueryWindow_exclusive(candidate, other) ==
    /\ other.side = Other(candidate.side)
    /\ other.tenant_id = candidate.tenant_id
    /\ other.txn_id = candidate.txn_id
    /\ other.occurred_at >= candidate.occurred_at - DriftWindow
    /\ other.occurred_at < candidate.occurred_at + DriftWindow

InQueryWindow(candidate, other) ==
    /\ other.side = Other(candidate.side)
    /\ other.tenant_id = candidate.tenant_id
    /\ other.txn_id = candidate.txn_id
    /\ other.occurred_at >= candidate.occurred_at - DriftWindow
    /\ other.occurred_at <= candidate.occurred_at + DriftWindow
=============================================================================
