--------------------------- MODULE Reconciliation ---------------------------
(***************************************************************************)
(* The data layer of the engine: what ingestion, the matcher workers, the  *)
(* sweeper with its demo retention do to PostgreSQL, and how their         *)
(* transactions interleave under READ COMMITTED.                           *)
(*                                                                         *)
(* A raw row is its own record (a member of Row): its columns are never    *)
(* updated except duplicate_count and reconciled_at, which are variables.  *)
(* A member of Row is also what a client submits; it becomes the stored    *)
(* row if its idempotency key is new.                                      *)
(*                                                                         *)
(* A matching attempt is two steps: Look (the SELECTs and the decision)    *)
(* and Apply (the INSERT, whose unique-index and foreign-key checks see    *)
(* every committed write, with the updates that follow it and the commit). *)
(* Any number of other transactions may commit between the two.            *)
(*                                                                         *)
(* The transport is abstracted to the set of outbox events ever written: a *)
(* worker may handle any of them, at any time, any number of times.        *)
(***************************************************************************)
EXTENDS Matching, Sequences, FiniteSets

CONSTANTS
    Row,             \* the pool of raw rows
    DemoTenant,      \* accounts of kind demo
    Worker, Sweeper, \* matcher tasks; sweepers (resident and cron)
    NoJob,
    BatchLimit,      \* Sweeper._batch_limit
    MaxBatch,        \* bound: entries of one ledger batch
    MaxDup,          \* bound, per row: duplicate_count
    MaxFailures      \* bound: crashes and failed transactions

ASSUME RowAssumption ==
    /\ Row \subseteq TxnFacts
    /\ \A r, s \in Row : r.side = s.side /\ r.row_id = s.row_id => r = s

ASSUME AgentAssumption ==
    /\ DemoTenant \subseteq Tenant
    /\ Worker \cap Sweeper = {}

ASSUME BoundsAssumption ==
    /\ BatchLimit \in Nat \ {0}
    /\ MaxBatch \in Nat
    /\ MaxDup \in [Row -> Nat]
    /\ MaxFailures \in Nat

VARIABLES
    accounts,         \* account ids that exist
    idle,             \* demo accounts whose last_seen_at is past the retention cutoff
    stored,           \* gateway_transactions and ledger_entries
    duplicate_count,
    reconciled,       \* stored rows with reconciled_at set
    aged,             \* stored rows received before the unmatched cutoff
    results,          \* reconciliation_results
    next_id,          \* the id sequence of results
    exceptions,       \* exceptions
    events,           \* outbox events ever written
    job,              \* per agent: the transaction it has open, after its Look
    sweep,            \* per sweeper: where its pass is
    failures

rowVars     == <<stored, duplicate_count, aged>>
resultVars  == <<reconciled, results, next_id, exceptions>>
accountVars == <<accounts, idle>>
vars == <<accountVars, rowVars, resultVars, events, job, sweep, failures>>

Agent == Worker \cup Sweeper

Pending == stored \ reconciled

IngestMessage == [row : Row, is_duplicate : BOOLEAN]

Result ==
    [id : Nat, tenant_id : Tenant, status : ReconStatus, layer : MatchLayer,
     gateway : Row \cup {NoRow}, ledger : Row \cup {NoRow}]

Exception_ == [result : Nat, tenant_id : Tenant]

\* "seen" is a history variable: the rows stored when a sweeper looked and gave up.
Job == [row : Row, decision : Decision, seen : SUBSET Row]

Pass ==
    [phase : {"wait", "gateway", "ledger", "retention"},
     backlog : SUBSET Row, doomed : SUBSET DemoTenant]

Waiting == [phase |-> "wait", backlog |-> {}, doomed |-> {}]

Init ==
    /\ accounts = Tenant
    /\ idle = {}
    /\ stored = {}
    /\ duplicate_count = [r \in Row |-> 0]
    /\ reconciled = {}
    /\ aged = {}
    /\ results = {}
    /\ next_id = 0
    /\ exceptions = {}
    /\ events = {}
    /\ job = [a \in Agent |-> NoJob]
    /\ sweep = [s \in Sweeper |-> Waiting]
    /\ failures = 0

-----------------------------------------------------------------------------
(***************************************************************************)
(* Ingestion: the raw row (or the duplicate count) and the outbox event    *)
(* commit together.  The request touched its account just before, so the   *)
(* account exists and is not idle; otherwise the insert fails on its       *)
(* foreign key and the transaction leaves nothing.                         *)
(***************************************************************************)
SameKey(r, s) == r.side = s.side /\ r.tenant_id = s.tenant_id /\ r.key = s.key

\* The stored row that owns r's idempotency key, if there is one.
Holder(r) == {h \in stored : SameKey(h, r)}

_enqueue(messages) == events' = events \cup messages

ingest_gateway(r) ==
    /\ r.side = "gateway"
    /\ r.tenant_id \in accounts \ idle
    /\ \/ /\ Holder(r) = {}
          /\ stored' = stored \cup {r}
          /\ _enqueue({[row |-> r, is_duplicate |-> FALSE]})
          /\ UNCHANGED duplicate_count
       \/ \E h \in Holder(r) :
          /\ duplicate_count[h] < MaxDup[h]
          /\ duplicate_count' = [duplicate_count EXCEPT ![h] = @ + 1]
          /\ _enqueue({[row |-> h, is_duplicate |-> TRUE]})
          /\ UNCHANGED stored
    /\ UNCHANGED <<accountVars, aged, resultVars, job, sweep, failures>>

\* The batch collapses to the first entry of each key ...
first_by_key(entries) ==
    {entries[i] : i \in {i \in DOMAIN entries :
                            \A j \in 1..(i - 1) : ~SameKey(entries[j], entries[i])}}

\* ... whose row is the stored one, or the entry itself when its key is new ...
RowFor(r) == IF Holder(r) = {} THEN r ELSE CHOOSE h \in Holder(r) : TRUE

submissions_per_key(entries, r) ==
    Cardinality({i \in DOMAIN entries : SameKey(entries[i], r)})

\* ... and every submission beyond the one that inserted the row is counted.
increments(entries, r) ==
    submissions_per_key(entries, r) - (IF Holder(r) = {} THEN 1 ELSE 0)

ingest_ledger_batch(entries) ==
    LET firsts   == first_by_key(entries)
        inserted == {r \in firsts : Holder(r) = {}}
        extra(h) == LET of == {r \in firsts : SameKey(r, h)}
                    IN  IF of = {} THEN 0 ELSE increments(entries, CHOOSE r \in of : TRUE)
    IN
    /\ \A i \in DOMAIN entries :
        /\ entries[i].side = "ledger"
        /\ entries[i].tenant_id \in accounts \ idle
        /\ entries[i].tenant_id = entries[1].tenant_id
    /\ \A h \in stored \cup inserted : duplicate_count[h] + extra(h) <= MaxDup[h]
    /\ stored' = stored \cup inserted
    /\ duplicate_count' = [h \in Row |-> IF h \in stored \cup inserted
                                         THEN duplicate_count[h] + extra(h)
                                         ELSE duplicate_count[h]]
    /\ _enqueue({[row |-> RowFor(r), is_duplicate |-> increments(entries, r) > 0] : r \in firsts})
    /\ UNCHANGED <<accountVars, aged, resultVars, job, sweep, failures>>

-----------------------------------------------------------------------------
(***************************************************************************)
(* A matching attempt: the reads.                                          *)
(***************************************************************************)
find_counterparties(candidate) == {o \in Pending : InQueryWindow(candidate, o)}

Open(a, r, decision) ==
    job' = [job EXCEPT ![a] =
        [row |-> r, decision |-> decision,
         seen |-> IF decision.layer = "unmatched_sweep" THEN stored ELSE {}]]

\* MatcherWorker.process up to apply_decision.  A missing row and a deferral
\* write nothing, so they are not steps of this module.
process(w, message) ==
    /\ job[w] = NoJob
    /\ message.row \in stored
    /\ \/ /\ message.is_duplicate
          /\ Open(w, message.row, decide_duplicate(message.row))
       \/ /\ ~message.is_duplicate
          /\ \E d \in decide(message.row, find_counterparties(message.row)) :
                Open(w, message.row, d)
    /\ UNCHANGED <<accountVars, rowVars, resultVars, events, sweep, failures>>

\* Sweeper.sweep_once on one stale row: a last attempt, and only then give up.
\* The row is not read again, so it may be reconciled, or gone, by now.
SweepDecisions_give_up(r) == {decide_unmatched(r)}   \* defect variant: no last attempt

SweepDecisions(r) ==
    LET found == find_counterparties(r)
    IN  IF Viable(r, found) = {} THEN {decide_unmatched(r)} ELSE decide(r, found)

SweepLook(s, r) ==
    /\ job[s] = NoJob
    /\ r \in sweep[s].backlog
    /\ \E d \in SweepDecisions(r) : Open(s, r, d)
    /\ UNCHANGED <<accountVars, rowVars, resultVars, events, sweep, failures>>

-----------------------------------------------------------------------------
(***************************************************************************)
(* A matching attempt: the writes.                                         *)
(***************************************************************************)
SidesOf(x) == {x.gateway, x.ledger} \ {NoRow}

\* Defect variant: the indexes on ledger_entry_id are missing.
IndexConflict_gateway_only(x, d) ==
    /\ (x.status = "duplicate") <=> (d.status = "duplicate")
    /\ x.gateway = d.gateway /\ d.gateway # NoRow

\* The four partial unique indexes: per side, one active result and one duplicate
\* marker (the tenant_id in the index is the row's own).
IndexConflict(x, d) ==
    /\ (x.status = "duplicate") <=> (d.status = "duplicate")
    /\ \/ x.gateway = d.gateway /\ d.gateway # NoRow
       \/ x.ledger = d.ledger /\ d.ledger # NoRow

Conflicts(d) == \E x \in results : IndexConflict(x, d)

\* The foreign keys to the raw tables.
ReferencesHold_unchecked(d) == TRUE    \* defect variant: no foreign key

ReferencesHold(d) == SidesOf(d) \subseteq stored

\* Defect variants: a duplicate marker consumes its row; only one side is marked.
Consumed_by_duplicates(d) == SidesOf(d)
Consumed_gateway_only(d)  == {d.gateway} \ {NoRow}

\* The rows _mark_reconciled flips.  A duplicate marker consumes none: it points
\* at the original row, which still waits for its own counterparty.
Consumed(d) == IF d.status = "duplicate" THEN {} ELSE SidesOf(d)

\* A sweeper moves on to its next row, whatever became of this one.
Advance(a) ==
    sweep' = IF a \in Sweeper
             THEN [sweep EXCEPT ![a].backlog = @ \ {job[a].row}]
             ELSE sweep

Close(a) == job' = [job EXCEPT ![a] = NoJob]

apply_decision_written(a) ==
    LET d == job[a].decision IN
    /\ job[a] # NoJob
    /\ ~Conflicts(d)
    /\ ReferencesHold(d)
    /\ results' = results \cup
         {[id |-> next_id, tenant_id |-> job[a].row.tenant_id, status |-> d.status,
           layer |-> d.layer, gateway |-> d.gateway, ledger |-> d.ledger]}
    /\ next_id' = next_id + 1
    /\ reconciled' = reconciled \cup Consumed(d)
    /\ exceptions' = IF opens_exception(d.status)
                     THEN exceptions \cup {[result |-> next_id,
                                            tenant_id |-> job[a].row.tenant_id]}
                     ELSE exceptions
    /\ Advance(a)
    /\ Close(a)
    /\ UNCHANGED <<accountVars, rowVars, events, failures>>

\* ON CONFLICT DO NOTHING: written=False.
apply_decision_conflict(a) ==
    /\ job[a] # NoJob
    /\ Conflicts(job[a].decision)
    /\ Advance(a)
    /\ Close(a)
    /\ UNCHANGED <<accountVars, rowVars, resultVars, events, failures>>

\* What an exception leaves of an agent: no transaction, and no pass.
Abandon(a) ==
    /\ Close(a)
    /\ sweep' = IF a \in Sweeper THEN [sweep EXCEPT ![a] = Waiting] ELSE sweep

\* A side was deleted since the Look: the insert violates its foreign key.
apply_decision_fk_error(a) ==
    /\ job[a] # NoJob
    /\ ~Conflicts(job[a].decision)
    /\ ~ReferencesHold(job[a].decision)
    /\ Abandon(a)
    /\ UNCHANGED <<accountVars, rowVars, resultVars, events, failures>>

\* A crash, a lost connection, a deadlock victim, at any point of the work.
Fail(a) ==
    /\ failures < MaxFailures
    /\ job[a] # NoJob \/ (a \in Sweeper /\ sweep[a] # Waiting)
    /\ failures' = failures + 1
    /\ Abandon(a)
    /\ UNCHANGED <<accountVars, rowVars, resultVars, events>>

-----------------------------------------------------------------------------
(***************************************************************************)
(* The sweeper's pass: gateway backlog, ledger backlog, retention if due.  *)
(***************************************************************************)
\* ORDER BY ... LIMIT :batch_limit, with the order of arrival left open.
Limited(stale) ==
    {B \in SUBSET stale :
        \/ Cardinality(B) = BatchLimit
        \/ B = stale /\ Cardinality(B) < BatchLimit}

\* Defect variant: both queries read the gateway table.
find_stale_pending_gateway(side) == Limited({r \in Pending \cap aged : r.side = "gateway"})

find_stale_pending(side) == Limited({r \in Pending \cap aged : r.side = side})

Enter(s, phase, backlog, doomed) ==
    sweep' = [sweep EXCEPT ![s] = [phase |-> phase, backlog |-> backlog, doomed |-> doomed]]

Scan(s, from, side) ==
    /\ job[s] = NoJob
    /\ sweep[s].phase = from
    /\ sweep[s].backlog = {}
    /\ \E B \in find_stale_pending(side) : Enter(s, side, B, {})
    /\ UNCHANGED <<accountVars, rowVars, resultVars, events, job, failures>>

SweepGateway(s) == Scan(s, "wait", "gateway")
SweepLedger(s)  == Scan(s, "gateway", "ledger")

\* _maybe_sweep_demo_accounts: retention runs only once per interval.
SweepRetention(s) ==
    /\ job[s] = NoJob
    /\ sweep[s].phase = "ledger"
    /\ sweep[s].backlog = {}
    /\ \/ Enter(s, "wait", {}, {})
       \/ idle # {} /\ \E D \in Limited(idle) : Enter(s, "retention", {}, D)
    /\ UNCHANGED <<accountVars, rowVars, resultVars, events, job, failures>>

\* One transaction per account; last_seen_at is not read again.
sweep_demo_account(s, t) ==
    /\ sweep[s].phase = "retention"
    /\ t \in sweep[s].doomed
    /\ exceptions' = {e \in exceptions : e.tenant_id # t}
    /\ results' = {x \in results : x.tenant_id # t}
    /\ stored' = {r \in stored : r.tenant_id # t}
    /\ reconciled' = {r \in reconciled : r.tenant_id # t}
    /\ aged' = {r \in aged : r.tenant_id # t}
    /\ accounts' = accounts \ {t}
    /\ idle' = idle \ {t}
    /\ LET left == sweep[s].doomed \ {t}
       IN  Enter(s, IF left = {} THEN "wait" ELSE "retention", {}, left)
    /\ UNCHANGED <<duplicate_count, next_id, events, job, failures>>

-----------------------------------------------------------------------------
(***************************************************************************)
(* Time and visitors.                                                      *)
(***************************************************************************)
Age(r) ==
    /\ r \in stored \ aged
    /\ aged' = aged \cup {r}
    /\ UNCHANGED <<accountVars, stored, duplicate_count, resultVars, events, job, sweep, failures>>

\* Defect variant: retention forgets to filter on kind = demo.
GoIdle_any_kind(t) ==
    /\ t \in accounts \ idle
    /\ idle' = idle \cup {t}
    /\ UNCHANGED <<accounts, rowVars, resultVars, events, job, sweep, failures>>

\* A demo account passes the retention cutoff.
GoIdle(t) ==
    /\ t \in (accounts \cap DemoTenant) \ idle
    /\ idle' = idle \cup {t}
    /\ UNCHANGED <<accounts, rowVars, resultVars, events, job, sweep, failures>>

touch_account(t) ==
    /\ t \in idle
    /\ idle' = idle \ {t}
    /\ UNCHANGED <<accounts, rowVars, resultVars, events, job, sweep, failures>>

-----------------------------------------------------------------------------
Batches == UNION {[1..n -> {r \in Row : r.side = "ledger"}] : n \in 1..MaxBatch}

Ingest ==
    \/ \E r \in Row : ingest_gateway(r)
    \/ \E entries \in Batches : ingest_ledger_batch(entries)

Matcher == \E w \in Worker, m \in events : process(w, m)

Apply(a) ==
    \/ apply_decision_written(a)
    \/ apply_decision_conflict(a)
    \/ apply_decision_fk_error(a)

SweepStep(s) ==
    \/ SweepGateway(s)
    \/ SweepLedger(s)
    \/ SweepRetention(s)
    \/ \E r \in Row : SweepLook(s, r)
    \/ \E t \in Tenant : sweep_demo_account(s, t)
    \/ Apply(s)

Environment ==
    \/ \E r \in Row : Age(r)
    \/ \E t \in Tenant : GoIdle(t) \/ touch_account(t)

Next ==
    \/ Ingest
    \/ Matcher
    \/ \E w \in Worker : Apply(w)
    \/ \E s \in Sweeper : SweepStep(s)
    \/ \E a \in Agent : Fail(a)
    \/ Environment

Spec == Init /\ [][Next]_vars

(***************************************************************************)
(* The clock advances and every sweeper keeps taking steps; workers owe    *)
(* nothing, for their messages may be lost.                                *)
(***************************************************************************)
Fairness ==
    /\ \A r \in Row : WF_vars(Age(r))
    /\ \A s \in Sweeper : WF_vars(SweepStep(s))

LiveSpec == Spec /\ Fairness

-----------------------------------------------------------------------------
(***************************************************************************)
(* Type invariant.                                                         *)
(***************************************************************************)
TypeOK ==
    /\ accounts \subseteq Tenant
    /\ idle \subseteq accounts \cap DemoTenant
    /\ stored \subseteq Row
    /\ duplicate_count \in [Row -> Nat]
    /\ reconciled \subseteq stored
    /\ aged \subseteq stored
    /\ results \subseteq Result
    /\ next_id \in Nat
    /\ exceptions \subseteq Exception_
    /\ events \subseteq IngestMessage
    /\ job \in [Agent -> Job \cup {NoJob}]
    /\ sweep \in [Sweeper -> Pass]
    /\ failures \in 0..MaxFailures

IsActive(x) == x.status # "duplicate"

(***************************************************************************)
(* What the properties below rest on, together with them: a decision in    *)
(* flight is one the pure layer could have made for its row, a written     *)
(* result is well formed, and result ids are unique.                       *)
(***************************************************************************)
DecisionFor(r, d) ==
    \/ d = decide_duplicate(r)
    \/ d = decide_unmatched(r)
    \/ \E o \in Row : classify_pair(r, o) # "none" /\ d = PairDecision(r, o)

JobsAreJustified == \A a \in Agent : job[a] # NoJob => DecisionFor(job[a].row, job[a].decision)

WellFormed(x) ==
    /\ x.gateway # NoRow => x.gateway.side = "gateway" /\ x.gateway.tenant_id = x.tenant_id
    /\ x.ledger # NoRow => x.ledger.side = "ledger" /\ x.ledger.tenant_id = x.tenant_id
    /\ SidesOf(x) # {}
    /\ x.layer \in {"amount_drift", "unmatched_sweep"} <=> opens_exception(x.status)

ResultsAreWellFormed == \A x \in results : WellFormed(x)

IdsAreFresh ==
    /\ \A x \in results : x.id < next_id
    /\ \A x, y \in results : x.id = y.id => x = y
    /\ \A e \in exceptions : e.result < next_id

(***************************************************************************)
(* At-least-once delivery is effectively once: however often and by        *)
(* however many agents a row is handled, it has at most one active result  *)
(* and at most one duplicate marker (the four partial unique indexes with  *)
(* ON CONFLICT DO NOTHING in apply_decision).                              *)
(***************************************************************************)
EffectivelyOnce ==
    \A x, y \in results :
        /\ SidesOf(x) \cap SidesOf(y) # {}
        /\ (IsActive(x) <=> IsActive(y))
        => x = y

(***************************************************************************)
(* reconciled_at is set exactly on the rows that have an active result.    *)
(* If it were set without one the row would be invisible to matching and   *)
(* to the sweeper for ever; if it were missing, the row would be offered   *)
(* as a counterparty again and every pair built on it would be refused.    *)
(***************************************************************************)
PendingIffUndecided ==
    \A r \in stored : r \in reconciled <=> \E x \in results : IsActive(x) /\ r \in SidesOf(x)

(***************************************************************************)
(* A result that names two rows names a gateway row and a ledger row of    *)
(* its own account that really pair, at the layer it claims, although both *)
(* rows may have been looked at long before the result was written.        *)
(***************************************************************************)
PairsAreSound ==
    \A x \in results : x.gateway # NoRow /\ x.ledger # NoRow =>
        /\ x.gateway.side = "gateway"
        /\ x.ledger.side = "ledger"
        /\ x.gateway.tenant_id = x.tenant_id
        /\ x.ledger.tenant_id = x.tenant_id
        /\ x.gateway.txn_id = x.ledger.txn_id
        /\ x.gateway.currency = x.ledger.currency
        /\ time_delta(x.gateway, x.ledger) <= DriftWindow
        /\ IF x.gateway.amount = x.ledger.amount
           THEN x.status = "matched" /\ x.layer \in {"exact", "time_drift"}
           ELSE x.status = "amount_drift" /\ WithinTolerance(x.gateway, x.ledger)

(***************************************************************************)
(* Every break has its case and every case its break: a drifted or         *)
(* unmatched result has exactly one exception, of its own account, and no  *)
(* other result has any (apply_decision, retention).                       *)
(***************************************************************************)
BreaksOpenExceptions ==
    /\ \A x \in results :
        x.layer \in {"amount_drift", "unmatched_sweep"}
            <=> \E e \in exceptions : e.result = x.id /\ e.tenant_id = x.tenant_id
    /\ \A e \in exceptions : \E x \in results : x.id = e.result /\ x.tenant_id = e.tenant_id
    /\ \A e, f \in exceptions : e.result = f.result => e = f

(***************************************************************************)
(* Retention leaves nothing behind, and nothing comes back: no row, result *)
(* or exception belongs to an account that is gone, even when a worker or  *)
(* a sweeper decided on its rows before the delete and writes after it.    *)
(***************************************************************************)
NothingOutlivesItsAccount ==
    /\ \A r \in stored : r.tenant_id \in accounts
    /\ \A x \in results : x.tenant_id \in accounts /\ SidesOf(x) \subseteq stored
    /\ \A e \in exceptions : e.tenant_id \in accounts

(***************************************************************************)
(* A sweeper about to declare a row unmatched has missed no counterparty   *)
(* that was stored when it looked: a pending row that pairs with it can    *)
(* only have arrived since.                                                *)
(***************************************************************************)
MissesOnlyLateArrivals ==
    \A a \in Agent : job[a] # NoJob /\ job[a].decision.layer = "unmatched_sweep" =>
        Viable(job[a].row, Pending) \cap job[a].seen = {}

\* The inductive invariant of ReconciliationProofs.
IInv ==
    /\ TypeOK
    /\ JobsAreJustified
    /\ ResultsAreWellFormed
    /\ IdsAreFresh
    /\ EffectivelyOnce
    /\ PendingIffUndecided
    /\ PairsAreSound
    /\ BreaksOpenExceptions
    /\ NothingOutlivesItsAccount

(***************************************************************************)
(* The engine implements the abstract settlement: one row or one sound     *)
(* pair of rows settles at a time, both sides in one step, and what has    *)
(* settled stays as it is until its account is forgotten.                  *)
(***************************************************************************)
Book == {[gateway |-> x.gateway, ledger |-> x.ledger] : x \in {y \in results : IsActive(y)}}

S == INSTANCE Settlement
        WITH pending <- Pending, book <- Book, forgotten <- Tenant \ accounts

ImplementsSettlement == S!SSpec

(***************************************************************************)
(* Whatever happens to the messages, every stored row is eventually        *)
(* settled (or its account deleted): the sweeper is the repair path.       *)
(***************************************************************************)
EveryRowSettles == \A r \in Row : r \in stored ~> (r \in reconciled \/ r \notin stored)

-----------------------------------------------------------------------------
(***************************************************************************)
(* Statements of the repository that the code does not keep.  Each has a   *)
(* run that shows how.                                                     *)
(***************************************************************************)

(***************************************************************************)
(* sweeper.py: "every unmatched row was checked against live data at the   *)
(* moment it was declared unmatched".                                      *)
(***************************************************************************)
CheckedWhenDeclared ==
    [][\A x \in results' \ results : x.layer = "unmatched_sweep" =>
            \A r \in SidesOf(x) : Viable(r, Pending) = {}]_vars

(***************************************************************************)
(* models.py, Account: "an actively used demo session is never swept out   *)
(* from under a visitor who is still looking at it".                       *)
(***************************************************************************)
OnlyIdleAccountsAreSwept == [][accounts \ accounts' \subseteq idle]_vars
=============================================================================
