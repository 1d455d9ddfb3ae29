---------------------------- MODULE MatchingScan ----------------------------
(***************************************************************************)
(* One matching attempt as the code runs it: find_counterparties fetches   *)
(* rows in whatever order PostgreSQL returns them (no ORDER BY), decide    *)
(* walks the list once, and Python's min keeps the first smallest key.     *)
(* The rest of the project uses Matching!decide on the whole set of        *)
(* pending rows; this module is where the two are compared.                *)
(***************************************************************************)
EXTENDS Matching, Sequences, FiniteSets, SequencesExt

CONSTANTS
    Row,          \* the raw rows that may be in the tables
    MaxPending    \* bound: rows pending at once

ASSUME RowAssumption ==
    /\ Row \subseteq TxnFacts /\ IsFiniteSet(Row)
    /\ \A r, s \in Row : r.side = s.side /\ r.row_id = s.row_id => r = s

VARIABLES
    candidate,   \* the row being decided
    pending,     \* every stored row with reconciled_at IS NULL
    fetched,     \* counterparties: what the query returned and decide has not walked yet
    viable,      \* decide's list of viable counterparties
    outcome,     \* {} or {decision}
    pc

vars == <<candidate, pending, fetched, viable, outcome, pc>>

Init ==
    /\ candidate \in Row
    /\ pending \in {P \in SUBSET (Row \ {candidate}) : Cardinality(P) <= MaxPending}
    /\ fetched = <<>>
    /\ viable = <<>>
    /\ outcome = {}
    /\ pc = "query"

Fetch ==
    /\ pc = "query"
    /\ fetched' \in SetToSeqs({o \in pending : InQueryWindow(candidate, o)})
    /\ pc' = "walk"
    /\ UNCHANGED <<candidate, pending, viable, outcome>>

Consider ==
    /\ pc = "walk"
    /\ fetched # <<>>
    /\ viable' = IF classify_pair(candidate, Head(fetched)) = "none"
                 THEN viable
                 ELSE Append(viable, Head(fetched))
    /\ fetched' = Tail(fetched)
    /\ UNCHANGED <<candidate, pending, outcome, pc>>

\* min(viable, key=...): the first of the elements with the smallest key.
FirstMin(c, list) ==
    CHOOSE i \in DOMAIN list :
        /\ \A j \in DOMAIN list : ~LexLess(_sort_key(c, list[j]), _sort_key(c, list[i]))
        /\ \A j \in 1..(i - 1) : LexLess(_sort_key(c, list[i]), _sort_key(c, list[j]))

Choose ==
    /\ pc = "walk"
    /\ fetched = <<>>
    /\ outcome' = IF viable = <<>>
                  THEN {}
                  ELSE {PairDecision(candidate, viable[FirstMin(candidate, viable)])}
    /\ pc' = "done"
    /\ UNCHANGED <<candidate, pending, fetched, viable>>

Next == Fetch \/ Consider \/ Choose

Spec == Init /\ [][Next]_vars

-----------------------------------------------------------------------------
(***************************************************************************)
(* Type invariant.                                                         *)
(***************************************************************************)
TypeOK ==
    /\ candidate \in Row
    /\ pending \subseteq Row
    /\ fetched \in Seq(Row)
    /\ viable \in Seq(Row)
    /\ outcome \subseteq Decision
    /\ pc \in {"query", "walk", "done"}

(***************************************************************************)
(* What decide answers depends only on which rows are pending: not on the  *)
(* order the rows came back in, and nothing is lost to the drift-window    *)
(* predicate of the query.  This is what lets "two workers racing the same *)
(* transaction reach the same conclusion" (core.py, _sort_key).            *)
(***************************************************************************)
SameConclusion == pc = "done" => outcome = decide(candidate, pending)

(***************************************************************************)
(* A pair gets the same verdict from whichever side looks: classify_pair   *)
(* takes the tolerance on the gateway amount, so a worker handling the     *)
(* ledger message and one handling the gateway message write the same      *)
(* result for the pair.                                                    *)
(***************************************************************************)
SameVerdictFromBothSides ==
    \A o \in pending : classify_pair(candidate, o) = classify_pair(o, candidate)
=============================================================================
