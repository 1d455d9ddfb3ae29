# LedgerLoop: a TLA+ model of the reconciliation engine

LedgerLoop reconciles payment-gateway transactions with ledger entries.  Rows of both
kinds are ingested over HTTP, an outbox relay moves an event per row to a Redis
stream, matcher workers read the stream and pair rows, and a sweeper settles what is
left.  Customers' gateways deliver signed webhooks, visitors get a demo account of
their own, operators page through the results and close exceptions.  This directory
models the backend in TLA+, checks it with TLC on small instances, and proves its
safety properties with TLAPS for all instances.  Source paths below are relative to
`src/backend/ledgerloop/`.

## 1. Inventory

| Component | State | Operations | Interacts through |
|---|---|---|---|
| Matching core, `matching/core.py` | none (pure) | `classify_pair`, `decide`, `decide_duplicate`, `decide_unmatched` | called by worker and sweeper |
| Persistence, `worker/persist.py`, `db/models.py` | raw rows, results, exceptions | `find_counterparties`, `apply_decision`, `find_stale_pending` | PostgreSQL, READ COMMITTED |
| Ingestion, `services/ingest.py` | raw rows, `duplicate_count`, outbox | `ingest_gateway`, `ingest_ledger_batch` | one transaction with the outbox |
| Outbox relay, `queue/relay.py` | row locks, `published_at` | `drain_once` | outbox to stream |
| Stream client, `queue/streams.py` | stream, group, pending entries | `publish_many`, `ensure_group`, `read`, `claim_stale`, `ack` | Redis |
| Matcher worker, `worker/loop.py` | entries in hand, last claim | `run`, `process`, `_maybe_claim` | stream, PostgreSQL |
| Sweeper, `worker/sweeper.py`, `worker/sweep.py` | its pass | `sweep_once`, `sweep_demo_accounts` | PostgreSQL |
| Worker process, `worker/main.py`, `worker/embedded.py`, `worker/sweep.py` | tasks, stop event, clients, exit code | start, SIGTERM, drain, cancel, close | signals, API lifespan |
| Tenancy, `services/tenancy.py`, `api/deps.py` | accounts, API keys, `last_seen_at` | resolve by key, session or default; touch; issue, revoke | every request; retention |
| Rate limiter, `api/ratelimit.py` | Redis counters | `check` | every write request |
| Webhooks, `api/routes_ingest.py`, `services/sources.py`, `webhooks/` | sources, delivery records | resolve source, verify, adapt, ingest, record, test | providers; ingestion |
| Read path, `api/routes_read.py`, `services/queries.py` | none of its own | pages, stats, `close_exception` | results, exceptions; retention |
| Frontend, `src/frontend/src/` | session, cached queries, upload | requests, tenant switch, upload | HTTP API |

What is hard here:

* *Concurrency without locks.*  Workers and sweepers read, decide and write
  under READ COMMITTED; correctness rests on four partial unique indexes with
  `ON CONFLICT DO NOTHING`.
* *At-least-once delivery.*  A relay may die between XADD and COMMIT, a worker
  between COMMIT and XACK; slow workers lose entries to their siblings; a loop
  that cannot create the consumer group ends; Redis may come back empty or trim
  unread entries.
* *Stale reads.*  The sweeper works from a backlog read earlier; retention from
  a list of accounts read earlier.
* *Requests of several transactions.*  Tenant resolution commits before the
  write that uses its account id; a delivery is ingested and recorded in two
  transactions; `resolve_exception` reads again after its commit.  Retention can
  delete the account between any two.
* *Shutdown.*  Loops inside transactions or blocked reads, a shared stop event,
  clients that must be closed last, and one loop failing while others run.
* *Boundaries.*  Two time windows in Python and one in SQL; a tolerance relative
  to one of two amounts; rows returned in no order.

What makes each part correct, in short: a row is decided once and soundly and every
row is decided in the end (engine); every event reaches a worker (transport); a write
lands in its sender's account and keys never hang off an account that expires
(tenancy); one row per provider event, of the right money, and a 202 only for a stored
row, but for custom keys that read alike (webhooks); lists neither skip nor repeat,
one operator closes an exception (read path); a process stops when told, closes
nothing under a running loop, and does not hide a dead one (process).

`PROJECT.json` lists the hazards with their lines and the properties that watch
them.

## 2. Modules

| Module | Models | Used by |
|---|---|---|
| `Matching` | the pure layer and the `WHERE` clause that feeds it | all but Transport |
| `MatchingScan` | `decide` as the code runs it: a list in any order, walked once, first minimum | run `matching` and the proofs |
| `Settlement` | abstract: rows arrive, wait, settle once | `Reconciliation` |
| `Reconciliation` | ingestion, worker transaction, sweeper, retention over the tables | four runs and the proofs |
| `Transport` | outbox, relay, stream, consumer group, worker loop | runs `transport*` and the proofs |
| `RateLimit` | the fixed-window counters of the write limiter | `Tenancy` |
| `Tenancy` | requests, accounts, keys, sources and retention | run `tenancy` and the proofs |
| `Webhook` | a signed delivery from arrival to its record | runs `webhook`, `custom_key` and the proofs |
| `ReadPath` | pages, exception resolution, stats | run `read_path` and the proofs |
| `Process` | the three hosts of the loops | run `process` and the proofs |
| `MatchingProofs`, `MatchingScanProofs`, `ReconciliationProofs`, `TransportProofs`, `TenancyProofs`, `WebhookProofs`, `ReadPathProofs`, `ProcessProofs` | theorems | TLAPS |
| `MC*` | instances | TLC |

### Matching and MatchingScan

Amounts are integers in minor units and the percentage is `PctNum / PctScale`;
the comparison with the tolerance is multiplied out, so it is as exact as the
code's `Decimal`.  `Optional[Decision]` is a set with at most one element.
`Matching!decide` defines the answer from the *set* of pending rows;
`MatchingScan` computes it as the code does (query, walk, `min`) and
`SameConclusion` says that the two agree.

### Reconciliation

A raw row is a record of its immutable columns; `reconciled_at` and
`duplicate_count` are variables over rows.  The steps follow the transactions:

* `ingest_gateway`, `ingest_ledger_batch`: one transaction, outbox event included.
* `process` (worker) and `SweepLook` (sweeper): the SELECTs and the decision.
  The agent then holds a *job*.
* `apply_decision_written`, `_conflict`, `_fk_error`: the INSERT with its
  index and foreign-key checks, the updates after it and the commit.  Between a
  Look and its Apply anything may commit, which is what READ COMMITTED allows.
  The INSERT to COMMIT part is one step: another writer of the same index key
  waits for that commit, and a reader that does not see it yet is one that
  looked before.
* `SweepGateway`, `SweepLedger`, `SweepRetention`, `sweep_demo_account`: a pass.
  A list read at the start of a phase is worked off row by row.
* `Fail`: a crash, a lost connection, a deadlock victim; the open transaction
  rolls back and a sweeper's pass ends.

Messages are abstracted to the set of events ever written, any of which may be
handled at any time, any number of times or never.  This contains every
behaviour of `Transport`, so the safety results hold whatever the transport
does; only liveness must not count on messages, and it does not.

### Transport

Stream entries are numbered; `live` are those Redis still holds, `delivered` the
group's cursor, `pel` the pending entries, `stale` those past
`claim_min_idle_ms`.  `handled` and `lost` are history variables.  A worker goes
round `claim -> read -> process -> ack`, through `group` at start and after
NOGROUP.  Trimming (`MAXLEN ~`) may remove any number of the oldest entries
beyond the cap.

An iteration that fails inside the loop is caught (`WorkerFail`, `RelayFail`).  At
`group` nothing catches: `ensure_group_raises` ends the worker, together with every
loop of the container (`Container`), or alone where the loops are embedded in the
API (`Embedded`).  `End` is what that leaves behind, also when a process crashes
(`Crash`); `ended` are the loops that do not run.  How the main coroutine brings the
siblings to an end is in `Process`; here it is one step.

### RateLimit and Tenancy

`Tenancy` extends `RateLimit`, whose `check_*` actions are conjuncts of
`enforce_write_limit`.  A request goes `resolve -> (select) -> limit -> handle`,
one step per transaction or statement that another actor can interleave with:

* `resolve_key`, `demo_account_name_rejects`, `_upsert_account_inserts`,
  `_upsert_account_conflicts`, `_upsert_account_selects`: `resolve_tenant`.  The
  `INSERT ... ON CONFLICT` and the `SELECT` after it have different snapshots.
* `enforce_write_limit`: INCR and EXPIRE, a 429, or Redis failing before or
  after it counted, which admits the request.  `LoseCounters`: Redis drops live
  counters, which `dropped` remembers by bucket and window.
* `ingest`, `create_gateway_source`, `Unprocessable`: the handlers, by what they
  do to the account's data; what happens to a row afterwards is `Reconciliation`.
* `issue_api_key`, `register`, `Revoke`: the operator's scripts.
* `Scan`, `Purge`, `DeleteAccount`, `DeleteAccount_fails`, `RetentionCrash`:
  retention at the level of its statements (in `Reconciliation` an account's
  deletion is one step).  `last_seen_at` is left out here, so any demo account
  may be found stale: a superset of what the cutoff allows.

### Webhook

A handler goes `verify -> ingest -> record`, or to a refusal that is recorded.
An event is a record of what the code looks at: who signed it, type, shape,
ids, currency and amount; `units` is the provider's integer and `value` the money
it stands for, so that `minor_to_major` can be wrong.  The provider is external:
it may deliver anything at any time, signed at any tick.

An id is the sequence of its parts, which ":" separates: the ids "A:B" and "C" are
`<<1, 2>>` and `<<3>>`.  `idempotency_key` of a custom event joins the two, as
`adapt_custom` does, and so forgets where one ends and the other begins;
`ReadsAlike` are two events that this confuses.  A key that does not fit its column
(`KeyIsTooLong`) is refused by the database and by nothing before it
(`IngestRaises`).  `AdapterFails` are the defects that become an `AdapterError`, and a
422 on record; `AdapterRaises` those that nobody catches.

Nothing in the schema keeps an account from having several sources of one
provider, and a provider sends one event to each.  `Same` says that two
deliveries are of one event, and the properties speak of an account's events, not
of a source's: a delivery to a second source is a duplicate of the first, and its
202 stands for the first one's row.

### ReadPath

An item is a result with the exception it opens.  Ids are drawn before the
commit, so items become visible in any order.  A scan keeps its cursor, what it
returned, and as a history what it owes: items on the list from its first page
on.  `close_exception` is the compare-and-set, `fetch_existing` and
`fetch_found` the reads that produce the answer.

### Process

One module for the worker container, the API with the loops on its event loop,
and the scheduled sweep; `mode` says which.  Each loop is a small automaton
(`starting`, `check`, `reading`, `recover`, `working`, `resting`, and how it
ended); a unit of work is one transaction.  The main coroutine goes
`start -> run -> (drain) -> cancel -> dispose -> exited`.

## 3. Runs

| Run | Checks | Instance |
|---|---|---|
| `matching` | `SameConclusion`, `SameVerdictFromBothSides` | 12 rows on both sides of every boundary; every set of up to 5 pending rows in every order |
| `reconciliation` | six safety invariants, `MissesOnlyLateArrivals`, `ImplementsSettlement` | two payments contending for one entry, a retried payment, 2 workers, 1 sweeper, 1 failure |
| `reconciliation_live` | `EveryRowSettles` | the same rows, ledger batches of 2 with a repeated key, backlog limit 1, 1 failure |
| `transport` | `NothingSlipsThrough`, `PublishedOnceUnlessFailed` | 2 events; a relay and a worker in the container, a relay and a worker embedded; 1 failure, 1 loss of Redis, cap 3 |
| `transport_live` | `EventuallyHandled` | 1 event, the same four loops, 2 failures, 1 loss of Redis, cap 2 |
| `tenancy` | `WritesReachTheirAccount`, `CredentialsOnRealAccounts`, `FailsOnlyWhenSwept`, `NoWindowOverLimit`, `RealAccountsStay`, `RowsLeaveWithTheirAccount` | 2 requests, a visitor, a customer with a key, one address, limits of 1, windows of 2 ticks, 1 lost counter |
| `webhook` | `OneRowPerEvent`, `AcknowledgedMeansStored`, `RowsAreAuthentic`, `OkMeansStored`, `EventuallyStored` | 2 handlers; yen at a source under rotation, dinars, a mistyped payload, two custom payments of which one has too long a key; a test delivery, a revocation, a failure |
| `read_path` | `PagesAreExact`, `OwnTenantOnly`, `AnswersAreTrue`, `StatsCountOnce` | 5 results of 2 accounts, pages of 1, a reader, 2 operators, retention |
| `process` | `ClientsOutliveTasks`, `NothingCutOnRequest`, `OneMessageAfterStop`, `ShutdownCompletes`, `FailureIsNotSilent` | 2 matchers, a relay, a sweeper, batches of 2, 2 outages of Redis, in all three hosts |

Three rows are enough for the contention that matters (a pair and a rival), two
workers and a sweeper for every kind of race between deciders; the proofs remove
the bound.  Workers are interchangeable in `Reconciliation` and
slots in `Tenancy`, and these two safety runs use symmetry; in `Transport` the loops
of the two processes are not interchangeable.  `MaxDup`, `MaxBatch`,
`MaxFailures`, `MaxOutages` bound what would be unbounded.  Deadlock is not
checked: when every row is settled, every message handled, every request
answered or the process has exited, an instance with bounded submissions has
nothing left to do.

In `tenancy` two requests of one visitor are the rivals that matter, with retention
and an operator beside them; four account ids let the visitor's account be deleted and
created again; two windows are what a boundary needs.  An interval that is not a
window and sees twice the limit needs more requests than the run has: that
`AtMostTwiceTheLimit` is proved and not checked.  In `transport` two loops of each
kind, in different processes, are a loop that dies and one that is left; two failures
in `transport_live` can end all of them.  In `webhook` two handlers overlap on one
event or on two of one source; several sources of one provider in one account, and
custom events that read alike, are left to the proofs and to `custom_key`, whose
instance is those two events.  In `read_path` pages of one make every position a page
boundary.  In `process` two loops of one kind and two of other kinds give every
pairing of a failing with a working loop; the proofs remove the bound.

Three runs are expected to fail.  Each checks a sentence of the repository that
the code does not keep:

| Run | Sentence | What happens |
|---|---|---|
| `late_counterparty` | sweeper.py:16 "every unmatched row was checked against live data at the moment it was declared unmatched" | a counterparty commits between the SELECT and the INSERT; both rows end up as breaks |
| `custom_key` | ingest.py:15 "the key was already present *for this tenant* -- a retry" | ("A:B", "C") and ("A", "B:C") have one custom key: the second payment is acknowledged as a duplicate and has no row |
| `active_sandbox` | models.py:107 "an actively used demo session is never swept out from under a visitor" | the visitor returns between the retention scan and the delete |

None of these corrupts the tables: the invariants above hold in all of them, and
`EveryRowSettles` says that the rows there are are settled in the end.  The payment
of `custom_key` is none of them: it is gone, and its ledger entry becomes a break.

### Fairness

`reconciliation_live`: `WF(Age(r))`, because time passes; `WF(SweepStep(s))`, because
`run_forever` catches everything and goes round again.  Workers get no fairness: their
messages may have been lost.  `transport_live`: weak fairness of relay and worker
loops that have not ended, because inside the loop they catch everything; strong
fairness of `claim_stale` of the same, because a worker that keeps looping finds
`claim_interval_s` elapsed again and again; weak fairness of `Idle`, because an entry
that stays pending grows old.  Nothing obliges anybody to start a process again:
`docker-compose.yml` has no restart policy for `api` or `worker`, and the embedded
loops are started once.  So `EventuallyHandled` has a way out, which is that for ever
no relay or no worker runs.  Failures are bounded, so none of these can be starved by
crashes.  `webhook`: weak fairness of each handler, which the event loop resumes;
strong fairness of a newly signed delivery of an event without a 202, because
providers deliver again and the signature is made at each attempt.  `process`: weak
fairness of the main coroutine and of each loop; nothing is assumed of Redis or of
signals.  `tenancy` and `read_path` check safety only and assume none.

### Observations

Places where the text says more than the code does, met while modelling.  They
are part of the models unless the text says otherwise; no run is devoted to them.

* `webhooks/adapters.py:196` builds a `GatewayWebhookIn` whose `ValidationError`
  is not an `AdapterError`; a zero amount, or a malformed custom payload, leaves
  `provider_webhook` as a 500 without a delivery record (`Outcome` = "uncaught").
  So do an amount that `int()` does not read (`webhooks/adapters.py:86`) and metadata
  or notes that are no object (line 138).  `services/sources.py:132` says
  `last_event_at` moves on every delivery, "including the rejected ones".
* `webhooks/adapters.py:199`: two ids of up to 128 characters make a custom key of up
  to 264, and `String(255)` refuses it: a 500 without a delivery record, at every
  retry (`IngestRaises`).  `EventuallyStored` excludes such events.
* `services/ingest.py:201`: a new key that one batch carries twice is published as a
  duplicate, where `queue/messages.py:29` says "True when ingestion found the
  idempotency key already present".  The row waits for its counterparty's message or
  the sweeper; `reconciliation_live` has such a batch.
* `api/routes_read.py:207`: the 409 "already closed" is also the answer for an exception
  that is open, if it was committed between the UPDATE that did not see it and the read
  that does.  `AnswersAreTrue` says of a 409 that this operator did not close it.
* `queue/streams.py:80` is "safe to call concurrently" and `worker/loop.py:200` means to
  "carry on"; an error other than BUSYGROUP ends the matcher, and embedded nothing
  starts another (`ensure_group_raises`).
* `webhooks/adapters.py:33` speaks of "202-and-ignore" for event types it does
  not take; the route answers 422.
* `services/tenancy.py:190` sees "no window to lose" between the INSERT and the
  SELECT; retention fits in (`FailsOnlyWhenSwept` says that nothing else does).
* `worker/persist.py:54`: `written=False` "means someone else already decided this
  row"; the conflict may be on the counterparty, and the row is still pending.
  `EveryRowSettles` covers what becomes of it.
* `worker/main.py:94`: "Nothing is cancelled mid-write" holds for a shutdown on
  request (`NothingCutOnRequest`) and not when a sibling loop failed.
* `worker/embedded.py:9`: "What moves is the process boundary and nothing else";
  in the worker container a dead loop ends the process, embedded it is missing
  until shutdown (`FailureIsNotSilent` is about the former only).

## 4. Proofs

`MatchingProofs` (for all rows and settings):

* `ClassifyPairSymmetric`: a pair gets one verdict from both sides.
* `QueryIsComplete`: a row that pairs satisfies the query.  It needs
  `ExactWindow <= DriftWindow` (`WindowOrder`), which the defaults satisfy and
  the settings do not enforce.
* `BestIsUnique`: the tie-break on `row_id` leaves one best candidate.

`MatchingScanProofs` proves that the walk agrees with the set-based `decide`
(`SameConclusion`), for any rows in any order.  While the walk lasts, every viable
counterparty is still to be walked or in the list, and the list has a first minimum
(`WalkIsSound`); `AppendKeepsMin` says that one more element leaves it one, which
needs the order of the sort keys to be a strict weak order (`LexAsymmetric`,
`LexBelow`).  That the fetched list holds all the rows of the query is a counting
argument (`SeqsHaveAll`), that the query misses none is `QueryIsComplete`, and that
the first minimum is the only best row is `BestIsUnique`.  That rows are finitely
many is assumed with the constants.

`ReconciliationProofs` proves `Spec => []IInv`, for any rows, accounts, workers,
sweepers and bounds, and from it type correctness, `EffectivelyOnce`,
`PendingIffUndecided`, `PairsAreSound`, `BreaksOpenExceptions` and
`NothingOutlivesItsAccount`.  None of these is inductive alone.  An insert is
refused only through the *result* of a row, so `EffectivelyOnce` needs results
to be well formed (a gateway column holds gateway rows); `PairsAreSound` needs
to know that a decision in flight is one the pure layer made for its row
(`JobsAreJustified`), because the tables may have changed since;
`BreaksOpenExceptions` needs result ids to be fresh; `PendingIffUndecided` and
`NothingOutlivesItsAccount` need each other when an account is deleted.  `IInv`
is their conjunction.  The proof has one lemma per transaction: `WrittenResultInv`
for the insert, `ForgetResultInv` for retention, `QuietStep` for the rest.

Two results build on it:

* `MissesOnlyLateArrivalsHolds`.  Strengthened by `SeenIsStored` (a row the
  sweeper saw is still stored, or its account is gone); the step that opens the
  job uses `QueryIsComplete`.
* `ImplementsSettlementHolds`: with `pending` mapped to the rows whose
  `reconciled_at` is null, `book` to the active results and `forgotten` to the
  deleted accounts, every step is a step of `Settlement` or a stutter.  The
  heart is `WrittenRowsWerePending`: a decision that passes the indexes consumes
  only rows that are pending at that moment, however old the decision is.

`ProcessProofs` proves `Spec => []IInv` for any set of loops, batch size and
number of outages, and from it type correctness, `ClientsOutliveTasks`,
`NothingCutOnRequest` and `OneMessageAfterStop`.  `IInv` adds to the type
invariant why a task may be cancelled (`CancelsAreJustified`), which tasks can
still run in each phase of the main coroutine (`PhasesAreOrderly`) and where a
matcher that has finished a late message can be (`LateIsLeaving`): without the
phases nothing relates an open client to the loops, and without the matcher's
position a second late message cannot be excluded.  Every step of a loop goes
through one lemma, `GotoInv`; the other actions have one each.

`TransportProofs` proves `Spec => []IInv` for any events, relays and workers, and
from it type correctness, `NothingSlipsThrough` and `PublishedOnceUnlessFailed`.
The former has to hold of an entry from XADD on, before its relay commits
(`SentIsCovered`), and an entry may be acknowledged only when it was handled
(`AckIsHandled`).  The latter needs the locks: an outbox row is in one relay's
batch at most (`BatchesDisjoint`), and while nothing has failed an entry on the
stream is of a published row or of one that the relay which added it still has
locked (`EntriesAreAccounted`).  Loops that end and processes that are started again
disturb none of this: what they drop is still unpublished or still pending (`EndInv`,
`RestartInv`).

`TenancyProofs` has two inductive invariants, because the limiter knows nothing of
accounts.  `AccountInv` adds to type correctness what a request in flight knows
(`RequestsKnowTheirAccount`: the account it resolved is there or retention took
it, and a key's account is real and stays), that a lost INSERT race has a winner
(`ConflictsAreReal`) and that an id on a retention list is a demo account's or
nobody's (`DoomedAreDemo`, which rests on ids never being used again).  From it
follow `WritesReachTheirAccount`, `CredentialsOnRealAccounts`,
`FailsOnlyWhenSwept` and the action properties `RealAccountsStay` and
`RowsLeaveWithTheirAccount`.  `LimitInv` says that a counter lives as long as its
window unless Redis lost it (`Kept`), so that the hits of such a window have distinct
numbers up to the limit.  `NoWindowOverLimit` is then counting, wherever in the window
the hits are, and so is `AtMostTwiceTheLimit`: from any tick on, an interval of one
window length meets two windows.

`ReadPathProofs` proves `Spec => []IInv` for any items, readers, operators and page
size, and from it `PagesAreExact`, `OwnTenantOnly`, `AnswersAreTrue` and
`StatsCountOnce`.  The invariant of a scan says that what it returned is not below
its cursor and that what it owes and has not returned is below it; the lemma
`PageOf` is the arithmetic of `limit + 1` rows, for sets of any size.  A resolution
needs to know that notes are only ever written by the operator who will be told
200, and that a request that lost found notes of another.  That the statuses
partition what the stats count uses `Status`, the values of the column.

`WebhookProofs` proves `Spec => []IInv` for any sources, events, number of handlers
and failures, and from it type correctness, `OneRowPerEvent`,
`AcknowledgedMeansStored`, `RowsAreAuthentic` and `OkMeansStored`.  A handler has
to remember what its earlier stages found out (`HandlersAreSound`: at `ingest` that
the signature and the payload were good, at `record` that a row with its key is
there), and rows keep it (`RowsAreSound`).  That the row an acknowledgement counts
on is of the same *event* is `KeyIsIdentity`: within an account the key tells events
apart, except custom events that read alike.  The exception is part of
`AcknowledgedMeansStored`, and `custom_key` shows that it is needed.  The lemma is
about the key formats and about what providers promise of their ids
(`IdentityAssumption`).  `AmountIsValue` is the same for money: for every
currency that is not refused, the conversion yields what the provider meant.

Assumptions are those stated with the constants, and TLC evaluates each in some
run:

* `WindowsAssumption`, `WindowOrder`, `ToleranceAssumption`, `NoRowAssumption`,
  `RowAssumption` (row ids are unique per table), `AgentAssumption`,
  `BoundsAssumption` of the engine, and `SizesAssumption` of `Transport` and of
  `Process`: types, sizes and disjointness of the constants.
* `ContainerAssumption` (`Transport`): the loops of the container are loops.
* `LimitsAssumption`, `WindowAssumption` (`Tenancy`, `RateLimit`): limits are
  numbers, the window is positive.
* `ItemAssumption` (`ReadPath`): ids are positive, a page has room for a row, and
  a result has one of the statuses of `ReconStatus`.
* `EventAssumption`, `IdentityAssumption`, `MoneyAssumption` (`Webhook`).  The
  latter two are about the world outside: an account has one merchant at each
  provider, whose event ids (Stripe), payment ids (Razorpay), or pairs of
  transaction and gateway reference (custom) are each of one event; none of them
  is an id that `_synthetic_event` makes; an integer amount counts the smallest
  unit of its currency.  Providers send integers; `int()` would cut a fraction off.
  Rows that the account writes itself through the unsigned route, under keys of its
  own choosing, are left out, and so is a key that such a row shares with an event.

Two simplifications are assumptions too: `check` reads the clock and counts in one
step, so the delay between the two is shorter than a tick; and in `Transport` the
siblings of a loop that failed in the container end with it in one step.

Only model-checked: the liveness properties (`EveryRowSettles`, `EventuallyHandled`,
`EventuallyStored`, `ShutdownCompletes`, `FailureIsNotSilent`), because fairness and
`ENABLED` are outside the prover.  Every invariant, action property and refinement
of a passing run is a theorem.  `StatsCountOnce` is about the columns that count by
status; `via_time_drift`, which counts by layer beside them, is left out.

## 5. Plan

What is done is above.  Left, in this order:

1. `Engine`: Transport and Reconciliation composed, so that the workers handle
   what the stream delivers.  Question: when the message that Redis loses is a
   duplicate's, the sweeper does not repair it, although loop.py:198 says it
   "reconciles anything whose message was lost".
2. `Frontend`: session, tenant switch and 401 handling racing responses;
   chunked upload with retry.

## 6. Not modelled

Notes, latency figures, logs, metrics and gauges; the response list of a batch;
response shapes (`api/schemas.py`), health probes and wiring (`api/app.py` but
its lifespan, `db/session.py`, `config.py`); row locks inside one ingest
transaction (a deadlock between two batches rolls one back whole); downgrades
and the one-off data migration (the schema the migrations leave is the initial
state of the models); load generation and benchmarks; the frontend, whose races
are in the plan and whose screens hold no state of the system.
