------------------------------ MODULE MCReadPath -----------------------------
(***************************************************************************)
(* A demo account with two breaks, a match through the time layer and a    *)
(* duplicate marker; a second account with one break.                      *)
(***************************************************************************)
EXTENDS ReadPath, TLC

Result(tenant, status, layer) == [tenant |-> tenant, status |-> status, layer |-> layer]

MCRow == <<Result("demo", "amount_drift", "amount_drift"),
           Result("demo", "matched", "time_drift"),
           Result("demo", "unmatched_gateway_only", "unmatched_sweep"),
           Result("demo", "duplicate", "duplicate"),
           Result("acme", "unmatched_ledger_only", "unmatched_sweep")>>

MCTenantOf == [a \in Reader \cup Operator |-> "demo"]
==============================================================================
