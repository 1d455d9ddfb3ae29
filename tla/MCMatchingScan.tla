--------------------------- MODULE MCMatchingScan ---------------------------
(***************************************************************************)
(* A gateway and a ledger pool around every boundary of the layers: equal  *)
(* and tolerated and excessive amounts, instants on and past both windows, *)
(* rows that differ only in row_id, another tenant's row, another currency.*)
(***************************************************************************)
EXTENDS MatchingScan

mc_Tenant   == {"t1", "t2"}
mc_TxnId    == {"x"}
mc_Currency == {"usd", "eur"}

Facts(side, tenant, id, amount, currency, at) ==
    [side |-> side, tenant_id |-> tenant, row_id |-> id, txn_id |-> "x",
     amount |-> amount, currency |-> currency, occurred_at |-> at, key |-> id]

\* PctNum/PctScale = 1/10, AbsTol = 2, ExactWindow = 1, DriftWindow = 3: the
\* tolerance on 30 is 3 (33 is just within it), on 36 it is 3.6 and on 40 it is 4
\* (40 is within 36's only if the ledger's amount is taken as the reference).
mc_Row ==
    {Facts("gateway", "t1", 1, 30, "usd", 5), Facts("gateway", "t1", 2, 36, "usd", 6),
     Facts("gateway", "t1", 3, 5, "usd", 5),
     Facts("ledger", "t1", 1, 30, "usd", 6), Facts("ledger", "t1", 2, 30, "usd", 6),
     Facts("ledger", "t1", 3, 30, "usd", 8), Facts("ledger", "t1", 4, 33, "usd", 5),
     Facts("ledger", "t1", 5, 30, "usd", 9), Facts("ledger", "t2", 6, 30, "usd", 5),
     Facts("ledger", "t1", 7, 30, "eur", 5), Facts("ledger", "t1", 8, 7, "usd", 2),
     Facts("ledger", "t1", 9, 40, "usd", 6)}

=============================================================================
