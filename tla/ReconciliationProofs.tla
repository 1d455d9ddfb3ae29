------------------------ MODULE ReconciliationProofs ------------------------
(***************************************************************************)
(* The safety of the data layer for every set of rows, workers, sweepers   *)
(* and accounts: IInv is inductive.  Two results build on it: a sweeper    *)
(* that gives up on a row has missed only counterparties that arrived      *)
(* after it looked, and the data layer implements Settlement.              *)
(***************************************************************************)
EXTENDS Reconciliation, MatchingProofs, FiniteSetTheorems

(***************************************************************************)
(* Rows and decisions.                                                     *)
(***************************************************************************)
LEMMA RowFacts ==
    ASSUME NEW r \in Row
    PROVE  /\ r \in TxnFacts
           /\ r # NoRow
           /\ r.side \in Side
           /\ r.tenant_id \in Tenant
  BY RowAssumption, NoRowAssumption, FactsFields

LEMMA OneSidedFacts ==
    ASSUME NEW r \in Row, NEW status, NEW layer
    PROVE  LET d == OneSided(r, status, layer) IN
           /\ d.status = status
           /\ d.layer = layer
           /\ d.gateway \in {r, NoRow} /\ (d.gateway # NoRow => r.side = "gateway")
           /\ d.ledger \in {r, NoRow} /\ (d.ledger # NoRow => r.side = "ledger")
           /\ SidesOf(d) = {r}
  BY RowFacts DEF OneSided, SidesOf, Side

LEMMA PairFacts ==
    ASSUME NEW r \in Row, NEW o \in Row, classify_pair(r, o) # "none"
    PROVE  LET d == PairDecision(r, o) IN
           /\ d.layer = classify_pair(r, o)
           /\ d.status = PairStatus(classify_pair(r, o))
           /\ d.gateway \in Row /\ d.gateway.side = "gateway"
           /\ d.ledger \in Row /\ d.ledger.side = "ledger"
           /\ SidesOf(d) = {r, o}
           /\ {d.gateway, d.ledger} = {r, o}
           /\ d.gateway.tenant_id = r.tenant_id
           /\ d.ledger.tenant_id = r.tenant_id
<1>1. Comparable(r, o)
  BY RowFacts, VerdictFacts
<1> QED
  BY <1>1, RowFacts DEF PairDecision, _gateway, _ledger, SidesOf, Comparable, Side

\* What a justified decision looks like.
LEMMA DecisionFacts ==
    ASSUME NEW r \in Row, NEW d, DecisionFor(r, d)
    PROVE  /\ d \in Decision
           /\ d.gateway \in Row \cup {NoRow}
           /\ d.ledger \in Row \cup {NoRow}
           /\ r \in SidesOf(d)
           /\ d.gateway # NoRow => d.gateway.side = "gateway" /\ d.gateway.tenant_id = r.tenant_id
           /\ d.ledger # NoRow => d.ledger.side = "ledger" /\ d.ledger.tenant_id = r.tenant_id
           /\ d.layer \in {"amount_drift", "unmatched_sweep"} <=> opens_exception(d.status)
<1>1. CASE d = decide_duplicate(r)
  <2>1. d = OneSided(r, "duplicate", "duplicate")
    BY <1>1 DEF decide_duplicate
  <2>2. d \in Decision
    BY <2>1, RowFacts DEF OneSided, Decision, ReconStatus, MatchLayer
  <2> QED
    BY <2>1, <2>2, OneSidedFacts, RowFacts DEF opens_exception
<1>2. CASE d = decide_unmatched(r)
  <2>1. PICK st \in {"unmatched_gateway_only", "unmatched_ledger_only"} :
            d = OneSided(r, st, "unmatched_sweep")
    BY <1>2 DEF decide_unmatched
  <2>2. d \in Decision
    BY <2>1, RowFacts DEF OneSided, Decision, ReconStatus, MatchLayer
  <2> QED
    BY <2>1, <2>2, OneSidedFacts, RowFacts DEF opens_exception
<1>3. ASSUME NEW o \in Row, classify_pair(r, o) # "none", d = PairDecision(r, o)
      PROVE  /\ d \in Decision
             /\ d.gateway \in Row \cup {NoRow}
             /\ d.ledger \in Row \cup {NoRow}
             /\ r \in SidesOf(d)
             /\ d.gateway # NoRow => d.gateway.side = "gateway" /\ d.gateway.tenant_id = r.tenant_id
             /\ d.ledger # NoRow => d.ledger.side = "ledger" /\ d.ledger.tenant_id = r.tenant_id
             /\ d.layer \in {"amount_drift", "unmatched_sweep"} <=> opens_exception(d.status)
  <2>1. classify_pair(r, o) \in {"exact", "time_drift", "amount_drift"}
    BY <1>3, RowFacts, VerdictFacts
  <2>2. d.layer = classify_pair(r, o) /\ d.status = PairStatus(classify_pair(r, o))
    BY <1>3, PairFacts
  <2>3. d \in Decision
    BY <1>3, <2>1, RowFacts
       DEF PairDecision, Decision, PairStatus, ReconStatus, MatchLayer, _gateway, _ledger
  <2> QED
    BY <1>3, <2>1, <2>2, <2>3, PairFacts DEF opens_exception, PairStatus
<1> QED
  BY <1>1, <1>2, <1>3 DEF DecisionFor

(***************************************************************************)
(* The part of the invariant that is about results.  A step that writes    *)
(* no result and removes no row keeps it: new rows have no result yet.     *)
(***************************************************************************)
ResultInv ==
    /\ ResultsAreWellFormed
    /\ IdsAreFresh
    /\ EffectivelyOnce
    /\ PendingIffUndecided
    /\ PairsAreSound
    /\ BreaksOpenExceptions
    /\ NothingOutlivesItsAccount

LEMMA QuietStep ==
    ASSUME TypeOK, ResultInv, UNCHANGED <<resultVars, accounts>>,
           stored \subseteq stored', \A r \in stored' \ stored : r.tenant_id \in accounts
    PROVE  ResultInv'
<1> USE DEF resultVars
<1>1. ResultsAreWellFormed' /\ IdsAreFresh' /\ EffectivelyOnce' /\ PairsAreSound'
        /\ BreaksOpenExceptions'
  BY DEF ResultInv, ResultsAreWellFormed, IdsAreFresh, EffectivelyOnce, PairsAreSound,
         BreaksOpenExceptions
<1>2. PendingIffUndecided'
  <2>1. \A r \in stored' \ stored : r \notin reconciled
    BY DEF TypeOK
  <2>2. \A r \in stored' \ stored, x \in results : r \notin SidesOf(x)
    BY DEF ResultInv, NothingOutlivesItsAccount
  <2> QED
    BY <2>1, <2>2 DEF ResultInv, PendingIffUndecided
<1>3. NothingOutlivesItsAccount'
  BY DEF ResultInv, NothingOutlivesItsAccount
<1> QED
  BY <1>1, <1>2, <1>3 DEF ResultInv

(***************************************************************************)
(* Writing a decision.                                                     *)
(***************************************************************************)
LEMMA JobFacts ==
    ASSUME TypeOK, JobsAreJustified, NEW a \in Agent, job[a] # NoJob
    PROVE  /\ job[a] \in Job
           /\ job[a].row \in Row
           /\ DecisionFor(job[a].row, job[a].decision)
  BY DEF TypeOK, JobsAreJustified, Job

LEMMA WrittenResultInv ==
    ASSUME TypeOK, JobsAreJustified, ResultInv, NEW a \in Agent, apply_decision_written(a)
    PROVE  ResultInv'
<1> DEFINE d == job[a].decision
           t == job[a].row.tenant_id
           new == [id |-> next_id, tenant_id |-> t, status |-> d.status,
                   layer |-> d.layer, gateway |-> d.gateway, ledger |-> d.ledger]
<1>1. /\ job[a].row \in Row
      /\ DecisionFor(job[a].row, d)
      /\ next_id \in Nat
  BY JobFacts DEF apply_decision_written, TypeOK
<1>2. /\ results' = results \cup {new}
      /\ next_id' = next_id + 1
      /\ reconciled' = reconciled \cup Consumed(d)
      /\ stored' = stored /\ accounts' = accounts
      /\ ~Conflicts(d)
      /\ SidesOf(d) \subseteq stored
  BY DEF apply_decision_written, ReferencesHold, rowVars, accountVars
<1>3. exceptions' = IF opens_exception(d.status)
                    THEN exceptions \cup {[result |-> next_id, tenant_id |-> t]}
                    ELSE exceptions
  BY DEF apply_decision_written
<1>4. SidesOf(new) = SidesOf(d) /\ (IsActive(new) <=> IsActive(d))
  BY DEF SidesOf, IsActive
<1>5. /\ job[a].row \in SidesOf(d)
      /\ d.gateway # NoRow => d.gateway.side = "gateway" /\ d.gateway.tenant_id = t
      /\ d.ledger # NoRow => d.ledger.side = "ledger" /\ d.ledger.tenant_id = t
      /\ d.layer \in {"amount_drift", "unmatched_sweep"} <=> opens_exception(d.status)
  BY <1>1, DecisionFacts
<1> HIDE DEF d, t
<1>6. ResultsAreWellFormed'
  <2>1. WellFormed(new)
    BY <1>4, <1>5 DEF WellFormed
  <2> QED
    BY <1>2, <2>1 DEF ResultInv, ResultsAreWellFormed
<1>7. IdsAreFresh'
  <2>1. \A x \in results : x.id \in Nat /\ x.id < next_id
    BY DEF TypeOK, Result, ResultInv, IdsAreFresh
  <2>2. \A e \in exceptions : e.result \in Nat /\ e.result < next_id
    BY DEF TypeOK, Exception_, ResultInv, IdsAreFresh
  <2>3. \A e \in exceptions' : e.result < next_id'
    BY <1>1, <1>2, <1>3, <2>2
  <2> QED
    BY <1>1, <1>2, <2>1, <2>3 DEF ResultInv, IdsAreFresh
<1>8. EffectivelyOnce'
  <2>1. ASSUME NEW x \in results, SidesOf(x) \cap SidesOf(new) # {}, (IsActive(x) <=> IsActive(new))
        PROVE  FALSE
    <3>1. PICK r \in SidesOf(x) : r \in SidesOf(d)
      BY <1>4, <2>1
    <3>2. r \in stored
      BY <1>2, <3>1
    <3>3. WellFormed(x)
      BY <2>1 DEF ResultInv, ResultsAreWellFormed
    <3>4. r # NoRow /\ r.side \in Side
      BY <3>2, RowFacts DEF TypeOK
    <3>5. IsActive(x) <=> IsActive(d)
      BY <1>4, <2>1
    <3>6. \/ x.gateway = d.gateway /\ d.gateway # NoRow
          \/ x.ledger = d.ledger /\ d.ledger # NoRow
      BY <3>1, <3>3, <3>4, <1>5 DEF SidesOf, WellFormed, Side
    <3>7. IndexConflict(x, d)
      BY <3>5, <3>6 DEF IndexConflict, IsActive
    <3> QED
      BY <3>7, <1>2, <2>1 DEF Conflicts
  <2> QED
    BY <1>2, <2>1 DEF ResultInv, EffectivelyOnce
<1>9. PendingIffUndecided'
  <2> SUFFICES ASSUME NEW r \in stored
               PROVE  r \in reconciled' <=> \E x \in results' : IsActive(x) /\ r \in SidesOf(x)
    BY <1>2 DEF PendingIffUndecided
  <2>1. r \in reconciled <=> \E x \in results : IsActive(x) /\ r \in SidesOf(x)
    BY DEF ResultInv, PendingIffUndecided
  <2>2. r \in Consumed(d) <=> IsActive(new) /\ r \in SidesOf(new)
    BY <1>4 DEF Consumed, IsActive
  <2> QED
    BY <1>2, <2>1, <2>2
<1>10. PairsAreSound'
  <2>1. ASSUME new.gateway # NoRow, new.ledger # NoRow
        PROVE  /\ new.gateway.side = "gateway"
               /\ new.ledger.side = "ledger"
               /\ new.gateway.tenant_id = new.tenant_id
               /\ new.ledger.tenant_id = new.tenant_id
               /\ new.gateway.txn_id = new.ledger.txn_id
               /\ new.gateway.currency = new.ledger.currency
               /\ time_delta(new.gateway, new.ledger) <= DriftWindow
               /\ IF new.gateway.amount = new.ledger.amount
                  THEN new.status = "matched" /\ new.layer \in {"exact", "time_drift"}
                  ELSE new.status = "amount_drift" /\ WithinTolerance(new.gateway, new.ledger)
    <3>1. PICK o \in Row : classify_pair(job[a].row, o) # "none" /\ d = PairDecision(job[a].row, o)
      <4>1. d # decide_duplicate(job[a].row) /\ d # decide_unmatched(job[a].row)
        BY <1>1, <2>1, RowFacts DEF decide_duplicate, decide_unmatched, OneSided
      <4> QED
        BY <1>1, <4>1 DEF DecisionFor
    <3>2. /\ {d.gateway, d.ledger} = {job[a].row, o}
          /\ d.gateway \in Row /\ d.ledger \in Row
          /\ d.gateway.side = "gateway" /\ d.ledger.side = "ledger"
          /\ d.layer = classify_pair(job[a].row, o)
          /\ d.status = PairStatus(classify_pair(job[a].row, o))
      BY <1>1, <3>1, PairFacts
    <3>3. \/ job[a].row = d.gateway /\ o = d.ledger
          \/ job[a].row = d.ledger /\ o = d.gateway
      BY <3>2
    <3>4. d.layer = classify_pair(d.gateway, d.ledger)
      BY <3>2, <3>3, RowFacts, ClassifyPairSymmetric
    <3>5. /\ Comparable(d.gateway, d.ledger)
          /\ time_delta(d.gateway, d.ledger) <= DriftWindow
          /\ d.gateway.amount = d.ledger.amount <=> d.layer \in {"exact", "time_drift"}
          /\ d.gateway.amount # d.ledger.amount => WithinTolerance(d.gateway, d.ledger)
          /\ d.layer \in {"exact", "time_drift", "amount_drift"}
      BY <3>1, <3>2, <3>4, RowFacts, VerdictFacts
    <3> QED
      BY <1>5, <2>1, <3>2, <3>5 DEF Comparable, PairStatus
  <2> QED
    BY <1>2, <2>1 DEF ResultInv, PairsAreSound
<1>11. BreaksOpenExceptions'
  <2>1. \A x \in results : x.id \in Nat /\ x.id < next_id
    BY DEF TypeOK, Result, ResultInv, IdsAreFresh
  <2>2. \A e \in exceptions : e.result \in Nat /\ e.result < next_id
    BY DEF TypeOK, Exception_, ResultInv, IdsAreFresh
  <2>3. /\ \A x \in results : x.id # next_id
        /\ \A e \in exceptions : e.result # next_id
    BY <1>1, <2>1, <2>2
  <2>4. CASE opens_exception(d.status)
    <3> DEFINE case == [result |-> next_id, tenant_id |-> t]
    <3>1. exceptions' = exceptions \cup {case}
      BY <1>3, <2>4
    <3>2. case.result = next_id /\ case.tenant_id = t /\ new.id = next_id /\ new.tenant_id = t
      OBVIOUS
    <3>3. new.layer \in {"amount_drift", "unmatched_sweep"}
      BY <1>5, <2>4
    <3> HIDE DEF case, new
    <3>4. BreaksOpenExceptions
      BY DEF ResultInv
    <3>5. \A x \in results' :
            x.layer \in {"amount_drift", "unmatched_sweep"}
                <=> \E e \in exceptions' : e.result = x.id /\ e.tenant_id = x.tenant_id
      <4>1. \A x \in results :
              x.layer \in {"amount_drift", "unmatched_sweep"}
                <=> \E e \in exceptions' : e.result = x.id /\ e.tenant_id = x.tenant_id
        BY <2>3, <3>1, <3>2, <3>4 DEF BreaksOpenExceptions
      <4>2. \E e \in exceptions' : e.result = new.id /\ e.tenant_id = new.tenant_id
        BY <3>1, <3>2
      <4> QED
        BY <1>2, <3>3, <4>1, <4>2
    <3>6. \A e \in exceptions' : \E x \in results' : x.id = e.result /\ x.tenant_id = e.tenant_id
      BY <1>2, <3>1, <3>2, <3>4 DEF BreaksOpenExceptions
    <3>7. \A e, f \in exceptions' : e.result = f.result => e = f
      BY <2>3, <3>1, <3>2, <3>4 DEF BreaksOpenExceptions
    <3> QED
      BY <3>5, <3>6, <3>7 DEF BreaksOpenExceptions
  <2>5. CASE ~opens_exception(d.status)
    <3>1. exceptions' = exceptions
      BY <1>3, <2>5
    <3>2. new.id = next_id /\ new.layer \notin {"amount_drift", "unmatched_sweep"}
      BY <1>5, <2>5
    <3> HIDE DEF new
    <3> QED
      BY <1>2, <2>3, <3>1, <3>2 DEF ResultInv, BreaksOpenExceptions
  <2> QED
    BY <2>4, <2>5
<1>12. NothingOutlivesItsAccount'
  <2>1. t \in accounts
    BY <1>2, <1>5 DEF t, ResultInv, NothingOutlivesItsAccount
  <2>2. SidesOf(new) \subseteq stored
    BY <1>2, <1>4
  <2>3. \A e \in exceptions' : e.tenant_id \in accounts
    BY <1>3, <2>1 DEF ResultInv, NothingOutlivesItsAccount
  <2> QED
    BY <1>2, <2>1, <2>2, <2>3 DEF ResultInv, NothingOutlivesItsAccount
<1> QED
  BY <1>6, <1>7, <1>8, <1>9, <1>10, <1>11, <1>12 DEF ResultInv

(***************************************************************************)
(* Forgetting an account.                                                  *)
(***************************************************************************)
LEMMA SidesShareTenant ==
    ASSUME TypeOK, ResultInv, NEW x \in results, NEW r \in SidesOf(x)
    PROVE  r.tenant_id = x.tenant_id
  BY DEF ResultInv, ResultsAreWellFormed, WellFormed, SidesOf

LEMMA ForgetResultInv ==
    ASSUME TypeOK, ResultInv, NEW s \in Sweeper, NEW t \in Tenant, sweep_demo_account(s, t)
    PROVE  ResultInv'
<1>1. /\ exceptions' = {e \in exceptions : e.tenant_id # t}
      /\ results' = {x \in results : x.tenant_id # t}
      /\ stored' = {r \in stored : r.tenant_id # t}
      /\ reconciled' = {r \in reconciled : r.tenant_id # t}
      /\ accounts' = accounts \ {t}
      /\ next_id' = next_id
  BY DEF sweep_demo_account
<1>2. ResultsAreWellFormed' /\ IdsAreFresh' /\ EffectivelyOnce' /\ PairsAreSound'
  BY <1>1 DEF ResultInv, ResultsAreWellFormed, IdsAreFresh, EffectivelyOnce, PairsAreSound
<1>3. PendingIffUndecided'
  <2> SUFFICES ASSUME NEW r \in stored, r.tenant_id # t
               PROVE  r \in reconciled' <=> \E x \in results' : IsActive(x) /\ r \in SidesOf(x)
    BY <1>1 DEF PendingIffUndecided
  <2>1. r \in reconciled <=> \E x \in results : IsActive(x) /\ r \in SidesOf(x)
    BY DEF ResultInv, PendingIffUndecided
  <2>2. \A x \in results : r \in SidesOf(x) => x \in results'
    BY <1>1, SidesShareTenant
  <2> QED
    BY <1>1, <2>1, <2>2
<1>4. BreaksOpenExceptions'
  <2>1. BreaksOpenExceptions
    BY DEF ResultInv
  <2>2. \A x \in results' :
          x.layer \in {"amount_drift", "unmatched_sweep"}
              <=> \E e \in exceptions' : e.result = x.id /\ e.tenant_id = x.tenant_id
    BY <1>1, <2>1 DEF BreaksOpenExceptions
  <2>3. \A e \in exceptions' : \E x \in results' : x.id = e.result /\ x.tenant_id = e.tenant_id
    BY <1>1, <2>1 DEF BreaksOpenExceptions
  <2>4. \A e, f \in exceptions' : e.result = f.result => e = f
    BY <1>1, <2>1 DEF BreaksOpenExceptions
  <2> QED
    BY <2>2, <2>3, <2>4 DEF BreaksOpenExceptions
<1>5. NothingOutlivesItsAccount'
  <2>1. \A x \in results' : SidesOf(x) \subseteq stored'
    BY <1>1, SidesShareTenant DEF ResultInv, NothingOutlivesItsAccount
  <2> QED
    BY <1>1, <2>1 DEF ResultInv, NothingOutlivesItsAccount
<1> QED
  BY <1>2, <1>3, <1>4, <1>5 DEF ResultInv

(***************************************************************************)
(* Ingestion: the counters of a batch are natural numbers.                 *)
(***************************************************************************)
LEMMA BatchFacts ==
    ASSUME NEW entries \in Batches
    PROVE  /\ \A i \in DOMAIN entries : entries[i] \in Row
           /\ IsFiniteSet(DOMAIN entries)
           /\ first_by_key(entries) \subseteq Row
<1>1. PICK n \in 1..MaxBatch : entries \in [1..n -> {r \in Row : r.side = "ledger"}]
  BY DEF Batches
<1>2. DOMAIN entries = 1..n
  BY <1>1
<1>3. IsFiniteSet(1..n)
  BY FS_Interval, BoundsAssumption
<1> QED
  BY <1>1, <1>2, <1>3 DEF first_by_key

LEMMA IncrementsType ==
    ASSUME NEW entries \in Batches, NEW r \in first_by_key(entries)
    PROVE  increments(entries, r) \in Nat
<1> DEFINE same == {i \in DOMAIN entries : SameKey(entries[i], r)}
<1>1. PICK i \in DOMAIN entries : r = entries[i]
  BY DEF first_by_key
<1>2. i \in same
  BY <1>1 DEF SameKey
<1>3. IsFiniteSet(same)
  BY BatchFacts, FS_Subset
<1>4. Cardinality(same) \in Nat /\ Cardinality(same) # 0
  BY <1>2, <1>3, FS_CardinalityType, FS_EmptySet
<1> QED
  BY <1>4 DEF increments, submissions_per_key

(***************************************************************************)
(* Types and justified decisions, action by action.                        *)
(***************************************************************************)
LEMMA HolderFacts ==
    ASSUME TypeOK, NEW r \in Row
    PROVE  /\ Holder(r) \subseteq stored
           /\ Holder(r) \subseteq Row
           /\ RowFor(r) \in Row
  BY DEF TypeOK, Holder, RowFor

LEMMA MessageType ==
    ASSUME NEW r \in Row, NEW b \in BOOLEAN
    PROVE  [row |-> r, is_duplicate |-> b] \in IngestMessage
  BY Zenon DEF IngestMessage

LEMMA IngestGatewayType ==
    ASSUME TypeOK, NEW r \in Row, ingest_gateway(r)
    PROVE  TypeOK'
<1> USE DEF rowVars, resultVars, accountVars
<1>1. CASE Holder(r) = {} /\ stored' = stored \cup {r} /\ UNCHANGED duplicate_count
                /\ _enqueue({[row |-> r, is_duplicate |-> FALSE]})
  <2>1. events' \subseteq IngestMessage
    BY <1>1, MessageType DEF TypeOK, _enqueue
  <2> QED
    BY <1>1, <2>1 DEF TypeOK, ingest_gateway
<1>2. ASSUME NEW h \in Holder(r), UNCHANGED stored,
             duplicate_count' = [duplicate_count EXCEPT ![h] = @ + 1],
             _enqueue({[row |-> h, is_duplicate |-> TRUE]})
      PROVE  TypeOK'
  <2>1. h \in Row
    BY HolderFacts
  <2>2. events' \subseteq IngestMessage
    BY <1>2, <2>1, MessageType DEF TypeOK, _enqueue
  <2> QED
    BY <1>2, <2>1, <2>2 DEF TypeOK, ingest_gateway
<1> QED
  BY <1>1, <1>2 DEF ingest_gateway

LEMMA IngestLedgerType ==
    ASSUME TypeOK, NEW entries \in Batches, ingest_ledger_batch(entries)
    PROVE  TypeOK'
<1> DEFINE firsts   == first_by_key(entries)
           inserted == {r \in firsts : Holder(r) = {}}
           extra(h) == LET of == {r \in firsts : SameKey(r, h)}
                       IN  IF of = {} THEN 0 ELSE increments(entries, CHOOSE r \in of : TRUE)
<1>1. firsts \subseteq Row
  BY BatchFacts
<1>2. \A h : extra(h) \in Nat
  BY IncrementsType
<1>3. stored' = stored \cup inserted
  BY DEF ingest_ledger_batch
<1>4. duplicate_count' = [h \in Row |-> IF h \in stored \cup inserted
                                        THEN duplicate_count[h] + extra(h)
                                        ELSE duplicate_count[h]]
  BY DEF ingest_ledger_batch
<1>5. events' = events \cup {[row |-> RowFor(r), is_duplicate |-> increments(entries, r) > 0] : r \in firsts}
  BY DEF ingest_ledger_batch, _enqueue
<1>6. UNCHANGED <<accountVars, aged, resultVars, job, sweep, failures>>
  BY DEF ingest_ledger_batch
<1>7. duplicate_count' \in [Row -> Nat]
  <2> HIDE DEF extra, inserted
  <2> QED
    BY <1>2, <1>4 DEF TypeOK
<1>8. events' \subseteq IngestMessage
  <2>1. \A r \in firsts : [row |-> RowFor(r), is_duplicate |-> increments(entries, r) > 0] \in IngestMessage
    <3> TAKE r \in firsts
    <3>1. RowFor(r) \in Row
      BY <1>1, HolderFacts
    <3>2. (increments(entries, r) > 0) \in BOOLEAN
      BY IncrementsType
    <3> QED
      BY <3>1, <3>2, MessageType
  <2> QED
    BY <1>5, <2>1 DEF TypeOK
<1>9. stored' \subseteq Row /\ stored \subseteq stored'
  BY <1>1, <1>3 DEF TypeOK
<1> QED
  BY <1>6, <1>7, <1>8, <1>9 DEF TypeOK, accountVars, resultVars

\* Opening a job with a justified decision.
LEMMA OpenFacts ==
    ASSUME TypeOK, JobsAreJustified, NEW a \in Agent, NEW r \in Row, NEW d,
           DecisionFor(r, d), Open(a, r, d),
           UNCHANGED <<accountVars, rowVars, resultVars, events, sweep, failures>>
    PROVE  TypeOK' /\ JobsAreJustified'
<1> DEFINE new == [row |-> r, decision |-> d,
                   seen |-> IF d.layer = "unmatched_sweep" THEN stored ELSE {}]
<1>1. d \in Decision
  BY DecisionFacts
<1>2. new \in Job
  BY <1>1 DEF Job, TypeOK
<1>3. job' = [job EXCEPT ![a] = new]
  BY DEF Open
<1>4. job' \in [Agent -> Job \cup {NoJob}]
  BY <1>2, <1>3 DEF TypeOK
<1>5. TypeOK'
  BY <1>4 DEF TypeOK, accountVars, rowVars, resultVars
<1>6. JobsAreJustified'
  <2>1. new.row = r /\ new.decision = d
    OBVIOUS
  <2> HIDE DEF new
  <2> QED
    BY <1>3, <2>1 DEF JobsAreJustified, TypeOK
<1> QED
  BY <1>5, <1>6

LEMMA DecideFacts ==
    ASSUME TypeOK, NEW r \in Row, NEW d \in decide(r, find_counterparties(r))
    PROVE  DecisionFor(r, d)
  BY DEF decide, find_counterparties, Best, Viable, DecisionFor, Pending, TypeOK

LEMMA ProcessInv ==
    ASSUME TypeOK, JobsAreJustified, NEW w \in Worker, NEW m \in events, process(w, m)
    PROVE  TypeOK' /\ JobsAreJustified'
<1>1. m.row \in Row /\ w \in Agent
  BY DEF TypeOK, process, Agent
<1>2. PICK d : Open(w, m.row, d) /\ DecisionFor(m.row, d)
  <2>1. CASE m.is_duplicate /\ Open(w, m.row, decide_duplicate(m.row))
    BY <2>1 DEF DecisionFor
  <2>2. ASSUME NEW d \in decide(m.row, find_counterparties(m.row)), Open(w, m.row, d)
        PROVE  \E e : Open(w, m.row, e) /\ DecisionFor(m.row, e)
    BY <1>1, <2>2, DecideFacts
  <2> QED
    BY <2>1, <2>2 DEF process
<1> QED
  BY <1>1, <1>2, OpenFacts DEF process

LEMMA SweepLookInv ==
    ASSUME TypeOK, JobsAreJustified, NEW s \in Sweeper, NEW r \in Row, SweepLook(s, r)
    PROVE  TypeOK' /\ JobsAreJustified'
<1>1. PICK d \in SweepDecisions(r) : Open(s, r, d)
  BY DEF SweepLook
<1>2. DecisionFor(r, d)
  BY <1>1, DecideFacts DEF SweepDecisions, DecisionFor
<1> QED
  BY <1>1, <1>2, OpenFacts DEF SweepLook, Agent

\* Closing a job, with a sweeper's pass advanced or abandoned.
LEMMA CloseFacts ==
    ASSUME TypeOK, JobsAreJustified, NEW a \in Agent, Close(a)
    PROVE  job' \in [Agent -> Job \cup {NoJob}] /\ JobsAreJustified'
  BY DEF TypeOK, JobsAreJustified, Close

LEMMA PassFacts ==
    ASSUME TypeOK, NEW a \in Agent,
           \/ Advance(a)
           \/ sweep' = IF a \in Sweeper THEN [sweep EXCEPT ![a] = Waiting] ELSE sweep
    PROVE  sweep' \in [Sweeper -> Pass]
<1>1. CASE Advance(a)
  BY <1>1 DEF Advance, TypeOK, Pass
<1>2. CASE sweep' = IF a \in Sweeper THEN [sweep EXCEPT ![a] = Waiting] ELSE sweep
  <2>1. Waiting \in Pass
    BY DEF Waiting, Pass
  <2> QED
    BY <1>2, <2>1 DEF TypeOK
<1> QED
  BY <1>1, <1>2

LEMMA WrittenType ==
    ASSUME TypeOK, JobsAreJustified, NEW a \in Agent, apply_decision_written(a)
    PROVE  TypeOK' /\ JobsAreJustified'
<1> DEFINE d == job[a].decision
           new == [id |-> next_id, tenant_id |-> job[a].row.tenant_id, status |-> d.status,
                   layer |-> d.layer, gateway |-> d.gateway, ledger |-> d.ledger]
           case == [result |-> next_id, tenant_id |-> job[a].row.tenant_id]
<1>1. job[a].row \in Row /\ DecisionFor(job[a].row, d)
  BY JobFacts DEF apply_decision_written
<1>2. /\ d \in Decision
      /\ d.gateway \in Row \cup {NoRow}
      /\ d.ledger \in Row \cup {NoRow}
  BY <1>1, DecisionFacts
<1>3. job[a].row.tenant_id \in Tenant /\ next_id \in Nat
  BY <1>1, RowFacts DEF TypeOK
<1>4. d.status \in ReconStatus /\ d.layer \in MatchLayer
  BY <1>2 DEF Decision
<1>5. new \in Result /\ case \in Exception_
  BY <1>2, <1>3, <1>4 DEF Result, Exception_
<1>6. results' = results \cup {new} /\ next_id' = next_id + 1
  BY DEF apply_decision_written
<1>7. exceptions' \subseteq exceptions \cup {case}
  BY DEF apply_decision_written
<1>8. reconciled' \subseteq stored
  BY DEF apply_decision_written, ReferencesHold, Consumed, TypeOK
<1>9. job' \in [Agent -> Job \cup {NoJob}] /\ JobsAreJustified' /\ sweep' \in [Sweeper -> Pass]
  BY CloseFacts, PassFacts DEF apply_decision_written
<1>10. UNCHANGED <<accountVars, rowVars, events, failures>>
  BY DEF apply_decision_written
<1> HIDE DEF new, case, d
<1> QED
  BY <1>3, <1>5, <1>6, <1>7, <1>8, <1>9, <1>10 DEF TypeOK, accountVars, rowVars

LEMMA UnwrittenType ==
    ASSUME TypeOK, JobsAreJustified, NEW a \in Agent,
           apply_decision_conflict(a) \/ apply_decision_fk_error(a) \/ Fail(a)
    PROVE  TypeOK' /\ JobsAreJustified'
<1>1. job' \in [Agent -> Job \cup {NoJob}] /\ JobsAreJustified' /\ sweep' \in [Sweeper -> Pass]
  BY CloseFacts, PassFacts
     DEF apply_decision_conflict, apply_decision_fk_error, Fail, Abandon
<1>2. UNCHANGED <<accountVars, rowVars, resultVars, events>> /\ failures' \in 0..MaxFailures
  BY BoundsAssumption DEF apply_decision_conflict, apply_decision_fk_error, Fail, TypeOK
<1> QED
  BY <1>1, <1>2 DEF TypeOK, accountVars, rowVars, resultVars

LEMMA EnterType ==
    ASSUME TypeOK, NEW s \in Sweeper,
           NEW phase \in {"wait", "gateway", "ledger", "retention"},
           NEW B \in SUBSET Row, NEW D \in SUBSET DemoTenant, Enter(s, phase, B, D)
    PROVE  sweep' \in [Sweeper -> Pass]
  BY DEF Enter, TypeOK, Pass

LEMMA ScanType ==
    ASSUME TypeOK, JobsAreJustified, NEW s \in Sweeper,
           SweepGateway(s) \/ SweepLedger(s) \/ SweepRetention(s)
    PROVE  TypeOK' /\ JobsAreJustified'
<1>1. \A side \in Side : \A B \in find_stale_pending(side) : B \in SUBSET Row
  BY DEF find_stale_pending, Limited, Pending, TypeOK
<1>2. \A D \in Limited(idle) : D \in SUBSET DemoTenant
  BY DEF Limited, TypeOK
<1>3. sweep' \in [Sweeper -> Pass]
  <2>1. CASE SweepGateway(s)
    BY <1>1, <2>1, EnterType DEF SweepGateway, Scan, Side
  <2>2. CASE SweepLedger(s)
    BY <1>1, <2>2, EnterType DEF SweepLedger, Scan, Side
  <2>3. CASE SweepRetention(s)
    BY <1>2, <2>3, EnterType DEF SweepRetention
  <2> QED
    BY <2>1, <2>2, <2>3
<1>4. UNCHANGED <<accountVars, rowVars, resultVars, events, job, failures>>
  BY DEF SweepGateway, SweepLedger, SweepRetention, Scan
<1> QED
  BY <1>3, <1>4 DEF TypeOK, JobsAreJustified, accountVars, rowVars, resultVars

LEMMA ForgetType ==
    ASSUME TypeOK, JobsAreJustified, NEW s \in Sweeper, NEW t \in Tenant, sweep_demo_account(s, t)
    PROVE  TypeOK' /\ JobsAreJustified'
<1>1. sweep[s].doomed \in SUBSET DemoTenant
  BY DEF TypeOK, Pass
<1>2. sweep' \in [Sweeper -> Pass]
  <2> DEFINE left == sweep[s].doomed \ {t}
  <2>1. left \in SUBSET DemoTenant
    BY <1>1
  <2>2. Enter(s, IF left = {} THEN "wait" ELSE "retention", {}, left)
    BY DEF sweep_demo_account
  <2> HIDE DEF left
  <2> QED
    BY <2>1, <2>2, EnterType
<1> QED
  BY <1>2 DEF sweep_demo_account, TypeOK, JobsAreJustified

LEMMA EnvironmentType ==
    ASSUME TypeOK, JobsAreJustified, Environment
    PROVE  TypeOK' /\ JobsAreJustified'
  BY DEF Environment, Age, GoIdle, touch_account, TypeOK, JobsAreJustified,
         accountVars, rowVars, resultVars

(***************************************************************************)
(* The inductive invariant.                                                *)
(***************************************************************************)
LEMMA IInvSplit == IInv <=> TypeOK /\ JobsAreJustified /\ ResultInv
  BY DEF IInv, ResultInv

LEMMA InitIInv == Init => IInv
<1> SUFFICES ASSUME Init PROVE IInv
  OBVIOUS
<1>1. Waiting \in Pass
  BY DEF Waiting, Pass
<1>2. TypeOK
  BY <1>1, BoundsAssumption DEF Init, TypeOK
<1>3. JobsAreJustified
  BY DEF Init, JobsAreJustified
<1>4. ResultInv
  BY DEF Init, ResultInv, ResultsAreWellFormed, IdsAreFresh, EffectivelyOnce,
         PendingIffUndecided, PairsAreSound, BreaksOpenExceptions, NothingOutlivesItsAccount
<1> QED
  BY <1>2, <1>3, <1>4, IInvSplit

\* Which rows a batch adds, and whose they are.
LEMMA LedgerArrivals ==
    ASSUME TypeOK, NEW entries \in Batches, ingest_ledger_batch(entries)
    PROVE  /\ stored \subseteq stored'
           /\ \A r \in stored' \ stored : r \in Row /\ r.tenant_id \in accounts
<1> DEFINE inserted == {r \in first_by_key(entries) : Holder(r) = {}}
<1>1. stored' = stored \cup inserted
  BY DEF ingest_ledger_batch
<1>2. \A i \in DOMAIN entries : entries[i].tenant_id \in accounts
  BY DEF ingest_ledger_batch
<1>3. \A r \in inserted : r \in Row /\ r.tenant_id \in accounts
  BY <1>2, BatchFacts DEF first_by_key
<1> QED
  BY <1>1, <1>3

LEMMA NextIInv == IInv /\ [Next]_vars => IInv'
<1> SUFFICES ASSUME IInv, [Next]_vars PROVE IInv'
  OBVIOUS
<1>0. TypeOK /\ JobsAreJustified /\ ResultInv
  BY IInvSplit
<1> SUFFICES TypeOK' /\ JobsAreJustified' /\ ResultInv'
  BY DEF IInv, ResultInv
<1> USE DEF accountVars, rowVars, resultVars
<1>1. ASSUME NEW r \in Row, ingest_gateway(r)
      PROVE  TypeOK' /\ JobsAreJustified' /\ ResultInv'
  <2>1. TypeOK'
    BY <1>0, <1>1, IngestGatewayType
  <2>2. JobsAreJustified'
    BY <1>0, <1>1 DEF ingest_gateway, JobsAreJustified
  <2>3. ResultInv'
    BY <1>0, <1>1, QuietStep DEF ingest_gateway
  <2> QED
    BY <2>1, <2>2, <2>3
<1>2. ASSUME NEW entries \in Batches, ingest_ledger_batch(entries)
      PROVE  TypeOK' /\ JobsAreJustified' /\ ResultInv'
  <2>1. TypeOK'
    BY <1>0, <1>2, IngestLedgerType
  <2>2. UNCHANGED <<resultVars, accounts, job>>
    BY <1>2 DEF ingest_ledger_batch
  <2>3. JobsAreJustified'
    BY <1>0, <2>2 DEF JobsAreJustified
  <2>4. ResultInv'
    BY <1>0, <1>2, <2>2, LedgerArrivals, QuietStep
  <2> QED
    BY <2>1, <2>3, <2>4
<1>3. ASSUME NEW w \in Worker, NEW m \in events, process(w, m)
      PROVE  TypeOK' /\ JobsAreJustified' /\ ResultInv'
  BY <1>0, <1>3, ProcessInv, QuietStep DEF process
<1>4. ASSUME NEW a \in Agent, Apply(a)
      PROVE  TypeOK' /\ JobsAreJustified' /\ ResultInv'
  <2>1. CASE apply_decision_written(a)
    BY <1>0, <2>1, WrittenType, WrittenResultInv
  <2>2. CASE apply_decision_conflict(a) \/ apply_decision_fk_error(a)
    <3>1. UNCHANGED <<accountVars, rowVars, resultVars>>
      BY <2>2 DEF apply_decision_conflict, apply_decision_fk_error
    <3> QED
      BY <1>0, <2>2, <3>1, UnwrittenType, QuietStep
  <2> QED
    BY <1>4, <2>1, <2>2 DEF Apply
<1>5. ASSUME NEW s \in Sweeper, SweepGateway(s) \/ SweepLedger(s) \/ SweepRetention(s)
      PROVE  TypeOK' /\ JobsAreJustified' /\ ResultInv'
  <2>1. UNCHANGED <<accountVars, rowVars, resultVars>>
    BY <1>5 DEF SweepGateway, SweepLedger, SweepRetention, Scan
  <2> QED
    BY <1>0, <1>5, <2>1, ScanType, QuietStep
<1>6. ASSUME NEW s \in Sweeper, NEW r \in Row, SweepLook(s, r)
      PROVE  TypeOK' /\ JobsAreJustified' /\ ResultInv'
  BY <1>0, <1>6, SweepLookInv, QuietStep DEF SweepLook
<1>7. ASSUME NEW s \in Sweeper, NEW t \in Tenant, sweep_demo_account(s, t)
      PROVE  TypeOK' /\ JobsAreJustified' /\ ResultInv'
  BY <1>0, <1>7, ForgetType, ForgetResultInv
<1>8. ASSUME NEW a \in Agent, Fail(a)
      PROVE  TypeOK' /\ JobsAreJustified' /\ ResultInv'
  BY <1>0, <1>8, UnwrittenType, QuietStep DEF Fail
<1>9. CASE Environment
  <2>1. UNCHANGED <<accounts, stored, resultVars>>
    BY <1>9 DEF Environment, Age, GoIdle, touch_account
  <2> QED
    BY <1>0, <1>9, <2>1, EnvironmentType, QuietStep
<1>10. CASE UNCHANGED vars
  <2>1. TypeOK' /\ JobsAreJustified'
    BY <1>0, <1>10 DEF vars, TypeOK, JobsAreJustified
  <2> QED
    BY <1>0, <1>10, <2>1, QuietStep DEF vars
<1> QED
  BY <1>1, <1>2, <1>3, <1>4, <1>5, <1>6, <1>7, <1>8, <1>9, <1>10
     DEF Next, Ingest, Matcher, SweepStep, Agent

(***************************************************************************)
(* The inductive invariant holds in every reachable state of every         *)
(* instance: any rows, any number of workers and sweepers, any retries.    *)
(***************************************************************************)
THEOREM Invariance == Spec => []IInv
<1>1. Init => IInv
  BY InitIInv
<1>2. IInv /\ [Next]_vars => IInv'
  BY NextIInv
<1> QED
  BY <1>1, <1>2, PTL DEF Spec

(***************************************************************************)
(* Type correctness of the data layer.                                     *)
(***************************************************************************)
THEOREM TypeCorrect == Spec => []TypeOK
<1>1. IInv => TypeOK
  BY DEF IInv
<1> QED
  BY <1>1, Invariance, PTL

(***************************************************************************)
(* At most one active result and one duplicate marker per row, whatever    *)
(* workers and sweepers race over it (the unique indexes suffice).         *)
(***************************************************************************)
THEOREM EffectivelyOnceHolds == Spec => []EffectivelyOnce
<1>1. IInv => EffectivelyOnce
  BY DEF IInv
<1> QED
  BY <1>1, Invariance, PTL

(***************************************************************************)
(* reconciled_at is set exactly on the rows with an active result.         *)
(***************************************************************************)
THEOREM PendingIffUndecidedHolds == Spec => []PendingIffUndecided
<1>1. IInv => PendingIffUndecided
  BY DEF IInv
<1> QED
  BY <1>1, Invariance, PTL

(***************************************************************************)
(* Pairs are of one account, one transaction and one currency, and as      *)
(* close in time and amount as their status says.                          *)
(***************************************************************************)
THEOREM PairsAreSoundHolds == Spec => []PairsAreSound
<1>1. IInv => PairsAreSound
  BY DEF IInv
<1> QED
  BY <1>1, Invariance, PTL

(***************************************************************************)
(* Breaks and exceptions correspond one to one.                            *)
(***************************************************************************)
THEOREM BreaksOpenExceptionsHolds == Spec => []BreaksOpenExceptions
<1>1. IInv => BreaksOpenExceptions
  BY DEF IInv
<1> QED
  BY <1>1, Invariance, PTL

(***************************************************************************)
(* Nothing of a deleted account remains or comes back.                     *)
(***************************************************************************)
THEOREM NothingOutlivesItsAccountHolds == Spec => []NothingOutlivesItsAccount
<1>1. IInv => NothingOutlivesItsAccount
  BY DEF IInv
<1> QED
  BY <1>1, Invariance, PTL

-----------------------------------------------------------------------------
(***************************************************************************)
(* What a sweeper that gives up has missed.                                *)
(***************************************************************************)

\* A row that a sweeper saw is still stored, or its account is gone.
SeenIsStored ==
    \A a \in Agent : job[a] # NoJob /\ job[a].decision.layer = "unmatched_sweep" =>
        \A o \in job[a].seen : o \in stored \/ o.tenant_id \notin accounts

LateInv == SeenIsStored /\ MissesOnlyLateArrivals

\* Steps that open no job: rows of surviving accounts stay, new rows belong to
\* accounts that exist, and nothing already stored becomes pending again.
LEMMA LateQuiet ==
    ASSUME TypeOK, LateInv,
           \A a \in Agent : job'[a] = job[a] \/ job'[a] = NoJob,
           accounts' \subseteq accounts,
           \A o \in stored : o \in stored' \/ o.tenant_id \notin accounts',
           \A o \in Pending' : o \in Pending \/ (o \notin stored /\ o.tenant_id \in accounts)
    PROVE  LateInv'
<1>1. SeenIsStored'
  BY DEF LateInv, SeenIsStored
<1>2. MissesOnlyLateArrivals'
  BY DEF LateInv, SeenIsStored, MissesOnlyLateArrivals, Viable
<1> QED
  BY <1>1, <1>2 DEF LateInv

\* The layer of a pair is never the sweeper's.
LEMMA PairLayer ==
    ASSUME TypeOK, NEW r \in Row, NEW d \in decide(r, find_counterparties(r))
    PROVE  d.layer # "unmatched_sweep"
<1>1. PICK o \in Row : classify_pair(r, o) # "none" /\ d = PairDecision(r, o)
  BY DEF decide, find_counterparties, Best, Viable, Pending, TypeOK
<1> QED
  BY <1>1, RowFacts, VerdictFacts DEF PairDecision

LEMMA GivingUp ==
    ASSUME TypeOK, NEW r \in Row, NEW d \in SweepDecisions(r), d.layer = "unmatched_sweep"
    PROVE  Viable(r, Pending) = {}
<1>1. Viable(r, find_counterparties(r)) = {}
  BY PairLayer DEF SweepDecisions
<1>2. ASSUME NEW o \in Pending, classify_pair(r, o) # "none" PROVE FALSE
  <2>1. o \in Row
    BY DEF Pending, TypeOK
  <2>2. InQueryWindow(r, o)
    BY <1>2, <2>1, RowFacts, QueryIsComplete
  <2> QED
    BY <1>1, <1>2, <2>2 DEF Viable, find_counterparties
<1> QED
  BY <1>2 DEF Viable

LEMMA LateOpen ==
    ASSUME TypeOK, LateInv, NEW a \in Agent, NEW r \in Row, NEW d, Open(a, r, d),
           d.layer = "unmatched_sweep" => Viable(r, Pending) = {},
           UNCHANGED <<accounts, stored, reconciled>>
    PROVE  LateInv'
<1>1. job' = [job EXCEPT ![a] = [row |-> r, decision |-> d,
                    seen |-> IF d.layer = "unmatched_sweep" THEN stored ELSE {}]]
  BY DEF Open
<1>2. job'[a] = [row |-> r, decision |-> d,
                    seen |-> IF d.layer = "unmatched_sweep" THEN stored ELSE {}]
  BY <1>1 DEF TypeOK
<1>3. \A b \in Agent \ {a} : job'[b] = job[b]
  BY <1>1 DEF TypeOK
<1>4. SeenIsStored'
  BY <1>2, <1>3 DEF LateInv, SeenIsStored
<1>5. Pending' = Pending
  BY DEF Pending
<1>6. MissesOnlyLateArrivals'
  BY <1>2, <1>3, <1>5 DEF LateInv, MissesOnlyLateArrivals
<1> QED
  BY <1>4, <1>6 DEF LateInv

LEMMA NextLate == IInv /\ LateInv /\ [Next]_vars => LateInv'
<1> SUFFICES ASSUME IInv, LateInv, [Next]_vars PROVE LateInv'
  OBVIOUS
<1>0. TypeOK
  BY DEF IInv
<1> USE DEF accountVars, rowVars, resultVars, Pending
<1>1. ASSUME NEW r \in Row, ingest_gateway(r) PROVE LateInv'
  BY <1>0, <1>1, LateQuiet DEF ingest_gateway
<1>2. ASSUME NEW entries \in Batches, ingest_ledger_batch(entries) PROVE LateInv'
  <2>1. UNCHANGED <<reconciled, accounts, job>>
    BY <1>2 DEF ingest_ledger_batch
  <2> QED
    BY <1>0, <1>2, <2>1, LedgerArrivals, LateQuiet
<1>3. ASSUME NEW w \in Worker, NEW m \in events, process(w, m) PROVE LateInv'
  <2>1. m.row \in Row /\ w \in Agent
    BY <1>0 DEF TypeOK, IngestMessage, Agent
  <2>2. UNCHANGED <<accounts, stored, reconciled>>
    BY <1>3 DEF process
  <2>3. CASE Open(w, m.row, decide_duplicate(m.row))
    <3>1. decide_duplicate(m.row).layer = "duplicate"
      BY DEF decide_duplicate, OneSided
    <3> QED
      BY <1>0, <2>1, <2>2, <2>3, <3>1, LateOpen
  <2>4. ASSUME NEW d \in decide(m.row, find_counterparties(m.row)), Open(w, m.row, d)
        PROVE  LateInv'
    BY <1>0, <2>1, <2>2, <2>4, PairLayer, LateOpen
  <2> QED
    BY <1>3, <2>3, <2>4 DEF process
<1>4. ASSUME NEW a \in Agent, Apply(a) \/ Fail(a) PROVE LateInv'
  <2>1. \A b \in Agent : job'[b] = job[b] \/ job'[b] = NoJob
    BY <1>0, <1>4 DEF Apply, apply_decision_written, apply_decision_conflict,
                      apply_decision_fk_error, Fail, Abandon, Close, TypeOK
  <2>2. UNCHANGED <<accounts, stored>> /\ reconciled \subseteq reconciled'
    BY <1>4 DEF Apply, apply_decision_written, apply_decision_conflict,
                apply_decision_fk_error, Fail
  <2> QED
    BY <1>0, <2>1, <2>2, LateQuiet
<1>5. ASSUME NEW s \in Sweeper, SweepGateway(s) \/ SweepLedger(s) \/ SweepRetention(s)
      PROVE  LateInv'
  <2>1. UNCHANGED <<accounts, stored, reconciled, job>>
    BY <1>5 DEF SweepGateway, SweepLedger, SweepRetention, Scan
  <2> QED
    BY <1>0, <2>1, LateQuiet
<1>6. ASSUME NEW s \in Sweeper, NEW r \in Row, SweepLook(s, r) PROVE LateInv'
  BY <1>0, <1>6, GivingUp, LateOpen DEF SweepLook, Agent
<1>7. ASSUME NEW s \in Sweeper, NEW t \in Tenant, sweep_demo_account(s, t) PROVE LateInv'
  BY <1>0, <1>7, LateQuiet DEF sweep_demo_account
<1>8. CASE Environment
  <2>1. UNCHANGED <<accounts, stored, reconciled, job>>
    BY <1>8 DEF Environment, Age, GoIdle, touch_account
  <2> QED
    BY <1>0, <2>1, LateQuiet
<1>9. CASE UNCHANGED vars
  BY <1>0, <1>9, LateQuiet DEF vars
<1> QED
  BY <1>1, <1>2, <1>3, <1>4, <1>5, <1>6, <1>7, <1>8, <1>9
     DEF Next, Ingest, Matcher, SweepStep, Agent

(***************************************************************************)
(* However many rows arrive, settle or are forgotten between a sweeper's   *)
(* query and its insert, the counterparty it misses arrived in between:    *)
(* the query itself (find_counterparties) overlooks nothing.               *)
(***************************************************************************)
THEOREM MissesOnlyLateArrivalsHolds == Spec => []MissesOnlyLateArrivals
<1>1. Init => LateInv
  BY DEF Init, LateInv, SeenIsStored, MissesOnlyLateArrivals
<1>2. IInv /\ LateInv /\ [Next]_vars => LateInv'
  BY NextLate
<1>3. LateInv => MissesOnlyLateArrivals
  BY DEF LateInv
<1> QED
  BY <1>1, <1>2, <1>3, Invariance, PTL DEF Spec

(***************************************************************************)
(* The data layer implements Settlement.                                   *)
(***************************************************************************)
LEMMA SameVerdict ==
    ASSUME NEW a, NEW b PROVE S!classify_pair(a, b) = classify_pair(a, b)
  BY DEF S!classify_pair, classify_pair, S!Comparable, Comparable, S!time_delta, time_delta,
         S!WithinTolerance, WithinTolerance, S!amount_tolerance, amount_tolerance,
         S!_gateway, _gateway, S!_ledger, _ledger, S!Abs, Abs

LEMMA BookEntry ==
    ASSUME NEW x \in results, IsActive(x)
    PROVE  [gateway |-> x.gateway, ledger |-> x.ledger] \in Book
  BY DEF Book

\* Steps that neither settle nor forget, and add the rows A.
LEMMA ArriveStep ==
    ASSUME IInv, NEW A \in SUBSET Row, stored' = stored \cup A, A \cap stored = {},
           \A r \in A : r.tenant_id \in accounts,
           UNCHANGED <<accounts, reconciled, results>>
    PROVE  S!Arrive(A)
<1>1. Pending' = Pending \cup A
  BY DEF Pending, IInv, TypeOK
<1>2. Book' = Book
  BY DEF Book
<1>3. \A r \in A : ~S!Settled(r)
  <2> SUFFICES ASSUME NEW r \in A, NEW x \in results, IsActive(x), r \in {x.gateway, x.ledger}
               PROVE  FALSE
    BY DEF S!Settled, Book
  <2>1. r \in SidesOf(x)
    BY RowFacts DEF SidesOf
  <2> QED
    BY <2>1 DEF IInv, NothingOutlivesItsAccount
<1>4. \A r \in A : r \notin Pending /\ r.tenant_id \notin Tenant \ accounts
  BY DEF Pending
<1> QED
  BY <1>1, <1>2, <1>3, <1>4 DEF S!Arrive

\* A decision that is written consumes rows that were pending until now.
LEMMA WrittenRowsWerePending ==
    ASSUME IInv, NEW a \in Agent, apply_decision_written(a),
           job[a].decision.status # "duplicate"
    PROVE  /\ SidesOf(job[a].decision) \subseteq Pending
           /\ Pending' = Pending \ SidesOf(job[a].decision)
<1> DEFINE d == job[a].decision
<1>1. ASSUME NEW r \in SidesOf(d) PROVE r \in Pending
  <2>1. r \in stored
    BY DEF apply_decision_written, ReferencesHold
  <2>2. \A x \in results : IsActive(x) => r \notin SidesOf(x)
    <3> SUFFICES ASSUME NEW x \in results, IsActive(x), r \in SidesOf(x) PROVE FALSE
      OBVIOUS
    <3>1. job[a].row \in Row /\ DecisionFor(job[a].row, d)
      BY JobFacts DEF apply_decision_written, IInv
    <3>2. /\ d.gateway # NoRow => d.gateway.side = "gateway"
          /\ d.ledger # NoRow => d.ledger.side = "ledger"
      BY <3>1, DecisionFacts
    <3>3. /\ x.gateway # NoRow => x.gateway.side = "gateway"
          /\ x.ledger # NoRow => x.ledger.side = "ledger"
      BY DEF IInv, ResultsAreWellFormed, WellFormed
    <3>4. IndexConflict(x, d)
      BY <3>2, <3>3 DEF IndexConflict, SidesOf, IsActive
    <3> QED
      BY <3>4 DEF apply_decision_written, Conflicts
  <2> QED
    BY <2>1, <2>2 DEF IInv, PendingIffUndecided, Pending
<1>2. stored' = stored /\ reconciled' = reconciled \cup SidesOf(d)
  BY DEF apply_decision_written, rowVars, Consumed
<1> QED
  BY <1>1, <1>2 DEF Pending

LEMMA WrittenStep ==
    ASSUME IInv, NEW a \in Agent, apply_decision_written(a)
    PROVE  [S!SNext]_(S!avars)
<1> DEFINE d == job[a].decision
           r == job[a].row
           new == [id |-> next_id, tenant_id |-> r.tenant_id, status |-> d.status,
                   layer |-> d.layer, gateway |-> d.gateway, ledger |-> d.ledger]
<1>1. r \in Row /\ DecisionFor(r, d)
  BY JobFacts DEF apply_decision_written, IInv
<1>2. results' = results \cup {new} /\ UNCHANGED <<accounts, stored>>
  BY DEF apply_decision_written, accountVars, rowVars
<1>3. new.gateway = d.gateway /\ new.ledger = d.ledger /\ new.status = d.status
  OBVIOUS
<1>4. CASE d.status = "duplicate"
  <2>1. Book' = Book
    <3>1. \A x : x \in results' /\ IsActive(x) <=> x \in results /\ IsActive(x)
      BY <1>2, <1>3, <1>4 DEF IsActive
    <3> QED
      BY <3>1 DEF Book
  <2>2. Pending' = Pending
    BY <1>2, <1>4 DEF Pending, apply_decision_written, Consumed
  <2> QED
    BY <1>2, <2>1, <2>2 DEF S!avars
<1>5. CASE d.status # "duplicate"
  <2>1. SidesOf(d) \subseteq Pending /\ Pending' = Pending \ SidesOf(d)
    BY <1>5, WrittenRowsWerePending
  <2>2. Book' = Book \cup {[gateway |-> d.gateway, ledger |-> d.ledger]}
    <3> HIDE DEF new, d
    <3>1. IsActive(new)
      BY <1>3, <1>5 DEF IsActive
    <3> QED
      BY <1>2, <1>3, <3>1 DEF Book
  <2>3. CASE d = decide_unmatched(r)
    <3>1. d = OneSided(r, d.status, d.layer) /\ SidesOf(d) = {r}
      BY <1>1, <2>3, OneSidedFacts DEF decide_unmatched, OneSided
    <3>2. S!SettleAlone(r)
      BY <1>2, <2>1, <2>2, <3>1 DEF S!SettleAlone, OneSided
    <3> QED
      BY <1>1, <3>2 DEF S!SNext
  <2>4. ASSUME NEW o \in Row, classify_pair(r, o) # "none", d = PairDecision(r, o)
        PROVE  [S!SNext]_(S!avars)
    <3>1. /\ d.gateway \in Row /\ d.gateway.side = "gateway"
          /\ d.ledger \in Row /\ d.ledger.side = "ledger"
          /\ SidesOf(d) = {r, o}
          /\ {d.gateway, d.ledger} = {r, o}
      BY <1>1, <2>4, PairFacts
    <3>2. classify_pair(d.gateway, d.ledger) # "none"
      <4>1. r \in TxnFacts /\ o \in TxnFacts
        BY <1>1, RowFacts
      <4>2. classify_pair(o, r) # "none"
        BY <2>4, <4>1, ClassifyPairSymmetric
      <4>3. (d.gateway = r /\ d.ledger = o) \/ (d.gateway = o /\ d.ledger = r)
        BY <3>1
      <4> QED
        BY <2>4, <4>2, <4>3
    <3>3. S!SettlePair(d.gateway, d.ledger)
      <4>1. S!classify_pair(d.gateway, d.ledger) # "none"
        BY <3>2, SameVerdict
      <4> QED
        BY <1>2, <2>1, <2>2, <3>1, <4>1 DEF S!SettlePair
    <3> QED
      BY <3>1, <3>3 DEF S!SNext
  <2>5. d # decide_duplicate(r)
    BY <1>1, <1>5, OneSidedFacts DEF decide_duplicate
  <2> QED
    BY <1>1, <2>3, <2>4, <2>5 DEF DecisionFor
<1> QED
  BY <1>4, <1>5

LEMMA ForgetStep ==
    ASSUME IInv, NEW s \in Sweeper, NEW t \in Tenant, sweep_demo_account(s, t)
    PROVE  S!SNext
<1>1. t \in DemoTenant
  BY DEF sweep_demo_account, IInv, TypeOK, Pass
<1>2. Pending' = {r \in Pending : r.tenant_id # t}
  BY DEF sweep_demo_account, Pending
<1>3. Book' = {e \in Book : \A r \in {e.gateway, e.ledger} \ {NoRow} : r.tenant_id # t}
  <2>1. \A x \in results :
            x.tenant_id # t <=> \A r \in {x.gateway, x.ledger} \ {NoRow} : r.tenant_id # t
    BY DEF IInv, ResultsAreWellFormed, WellFormed, SidesOf
  <2>2. results' = {x \in results : x.tenant_id # t}
    BY DEF sweep_demo_account
  <2> QED
    BY <2>1, <2>2 DEF Book
<1>4. Tenant \ accounts' = (Tenant \ accounts) \cup {t}
  BY DEF sweep_demo_account
<1> QED
  BY <1>1, <1>2, <1>3, <1>4 DEF S!SNext, S!Forget

LEMMA NextRefines == IInv /\ [Next]_vars => [S!SNext]_(S!avars)
<1> SUFFICES ASSUME IInv, [Next]_vars PROVE [S!SNext]_(S!avars)
  OBVIOUS
<1>0. TypeOK
  BY DEF IInv
<1> USE DEF accountVars, rowVars, resultVars
<1>1. ASSUME NEW A \in SUBSET Row, S!Arrive(A) PROVE S!SNext
  BY <1>1 DEF S!SNext
<1>2. ASSUME UNCHANGED <<accounts, stored, reconciled, results>> PROVE [S!SNext]_(S!avars)
  BY <1>2 DEF S!avars, Pending, Book
<1>3. ASSUME NEW r \in Row, ingest_gateway(r) PROVE [S!SNext]_(S!avars)
  <2>1. UNCHANGED <<accounts, reconciled, results>>
    BY <1>3 DEF ingest_gateway
  <2>2. CASE stored' = stored
    BY <1>2, <2>1, <2>2
  <2>3. CASE Holder(r) = {} /\ stored' = stored \cup {r}
    <3>1. r \notin stored /\ r.tenant_id \in accounts
      BY <1>3, <2>3 DEF ingest_gateway, Holder, SameKey
    <3>2. S!Arrive({r})
      BY <2>1, <2>3, <3>1, ArriveStep
    <3> QED
      BY <1>1, <3>2
  <2> QED
    BY <1>3, <2>2, <2>3 DEF ingest_gateway
<1>4. ASSUME NEW entries \in Batches, ingest_ledger_batch(entries) PROVE [S!SNext]_(S!avars)
  <2>1. UNCHANGED <<accounts, reconciled, results>>
    BY <1>4 DEF ingest_ledger_batch
  <2> DEFINE A == stored' \ stored
  <2>2. stored' = stored \cup A /\ \A r \in A : r \in Row /\ r.tenant_id \in accounts
    BY <1>0, <1>4, LedgerArrivals
  <2>3. A \in SUBSET Row /\ A \cap stored = {}
    BY <2>2
  <2> HIDE DEF A
  <2> QED
    BY <1>1, <2>1, <2>2, <2>3, ArriveStep
<1>5. ASSUME NEW w \in Worker, NEW m \in events, process(w, m) PROVE [S!SNext]_(S!avars)
  BY <1>2, <1>5 DEF process
<1>6. ASSUME NEW a \in Agent, Apply(a) PROVE [S!SNext]_(S!avars)
  <2>1. CASE apply_decision_written(a)
    BY <2>1, WrittenStep
  <2>2. CASE apply_decision_conflict(a) \/ apply_decision_fk_error(a)
    BY <1>2, <2>2 DEF apply_decision_conflict, apply_decision_fk_error
  <2> QED
    BY <1>6, <2>1, <2>2 DEF Apply
<1>7. ASSUME NEW s \in Sweeper,
             \/ SweepGateway(s) \/ SweepLedger(s) \/ SweepRetention(s)
             \/ \E r \in Row : SweepLook(s, r)
      PROVE  [S!SNext]_(S!avars)
  BY <1>2, <1>7 DEF SweepGateway, SweepLedger, SweepRetention, Scan, SweepLook
<1>8. ASSUME NEW s \in Sweeper, NEW t \in Tenant, sweep_demo_account(s, t)
      PROVE  [S!SNext]_(S!avars)
  BY <1>8, ForgetStep
<1>9. ASSUME NEW a \in Agent, Fail(a) PROVE [S!SNext]_(S!avars)
  BY <1>2, <1>9 DEF Fail
<1>10. CASE Environment
  BY <1>2, <1>10 DEF Environment, Age, GoIdle, touch_account
<1>11. CASE UNCHANGED vars
  BY <1>2, <1>11 DEF vars
<1> QED
  BY <1>3, <1>4, <1>5, <1>6, <1>7, <1>8, <1>9, <1>10, <1>11
     DEF Next, Ingest, Matcher, SweepStep, Agent

(***************************************************************************)
(* Every behaviour of the data layer, seen through its pending rows and    *)
(* its active results, is a behaviour of Settlement: rows settle once, a   *)
(* pair settles both its sides in one step and only if they pair, and only *)
(* deleting a demo account ever undoes anything.                           *)
(***************************************************************************)
THEOREM ImplementsSettlementHolds == Spec => ImplementsSettlement
<1>1. Init => S!SInit
  BY DEF Init, S!SInit, Pending, Book
<1>2. IInv /\ [Next]_vars => [S!SNext]_(S!avars)
  BY NextRefines
<1> QED
  BY <1>1, <1>2, Invariance, PTL DEF Spec, ImplementsSettlement, S!SSpec
=============================================================================
