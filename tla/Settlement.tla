----------------------------- MODULE Settlement -----------------------------
(***************************************************************************)
(* What the engine promises, with no workers, messages, sweeper or indexes *)
(* in it: a transaction arrives once, waits, and settles exactly once,     *)
(* either with one counterparty that really pairs with it, both sides in   *)
(* the same instant, or alone as a break.  Nothing settled is ever touched *)
(* again, except that a demo account can be forgotten as a whole.          *)
(***************************************************************************)
EXTENDS Matching

CONSTANTS Row, DemoTenant

VARIABLES
    pending,    \* rows that arrived and wait
    book,       \* settled: records [gateway, ledger], NoRow for the side a break lacks
    forgotten   \* demo accounts that were deleted

avars == <<pending, book, forgotten>>

Settled(r) == \E e \in book : r \in {e.gateway, e.ledger}

SInit ==
    /\ pending = {}
    /\ book = {}
    /\ forgotten = {}

Arrive(S) ==
    /\ \A r \in S : r \notin pending /\ ~Settled(r) /\ r.tenant_id \notin forgotten
    /\ pending' = pending \cup S
    /\ UNCHANGED <<book, forgotten>>

SettlePair(g, l) ==
    /\ g \in pending /\ l \in pending
    /\ g.side = "gateway" /\ l.side = "ledger"
    /\ classify_pair(g, l) # "none"
    /\ pending' = pending \ {g, l}
    /\ book' = book \cup {[gateway |-> g, ledger |-> l]}
    /\ UNCHANGED forgotten

SettleAlone(r) ==
    /\ r \in pending
    /\ pending' = pending \ {r}
    /\ book' = book \cup {[gateway |-> IF r.side = "gateway" THEN r ELSE NoRow,
                           ledger  |-> IF r.side = "ledger"  THEN r ELSE NoRow]}
    /\ UNCHANGED forgotten

Forget(t) ==
    /\ forgotten' = forgotten \cup {t}
    /\ pending' = {r \in pending : r.tenant_id # t}
    /\ book' = {e \in book : \A r \in {e.gateway, e.ledger} \ {NoRow} : r.tenant_id # t}

SNext ==
    \/ \E S \in SUBSET Row : Arrive(S)
    \/ \E g, l \in Row : SettlePair(g, l)
    \/ \E r \in Row : SettleAlone(r)
    \/ \E t \in DemoTenant : Forget(t)

SSpec == SInit /\ [][SNext]_avars
=============================================================================
