-------------------------- MODULE MCReconciliation --------------------------
(***************************************************************************)
(* Small instances of Reconciliation.                                      *)
(***************************************************************************)
EXTENDS Reconciliation, TLC

mc_Tenant   == {"acme", "demo"}
mc_Demo     == {"demo"}
mc_TxnId    == {"x"}
mc_Currency == {"usd"}

Facts(side, tenant, id, amount, key) ==
    [side |-> side, tenant_id |-> tenant, row_id |-> id, txn_id |-> "x",
     amount |-> amount, currency |-> "usd", occurred_at |-> 0, key |-> key]

\* Two payments and one ledger entry of the same transaction, one payment drifted
\* but within tolerance: the payments contend for the entry.
Contended ==
    {Facts("gateway", "demo", 1, 30, 1), Facts("gateway", "demo", 2, 31, 2),
     Facts("ledger", "demo", 1, 30, 1)}

\* Which rows' keys a client submits once more.
RetryPayment == [r \in Row |-> IF r.side = "gateway" /\ r.row_id = 1 THEN 1 ELSE 0]
RetryEntry   == [r \in Row |-> IF r.side = "ledger" /\ r.row_id = 1 THEN 1 ELSE 0]
NoRetry      == [r \in Row |-> 0]

WorkerSymmetry == Permutations(Worker)
=============================================================================
