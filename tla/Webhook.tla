------------------------------- MODULE Webhook -------------------------------
(***************************************************************************)
(* Signed deliveries from payment providers: provider_webhook and          *)
(* test_gateway_source (api/routes_ingest.py) over webhooks/signatures.py, *)
(* webhooks/adapters.py and services/sources.py.                           *)
(*                                                                         *)
(* The provider is external: it sends an event again until it gets a 2xx,  *)
(* and sometimes after it.  A delivery carries the time it was signed at,  *)
(* which may be long past when it arrives, or ahead of the server's clock. *)
(* An HMAC is the pair of secret and payload.  Amounts are counted in      *)
(* hundredths of the major unit, as numeric(18,2) stores them.             *)
(***************************************************************************)
EXTENDS Integers, Sequences, FiniteSets

CONSTANTS
    Slot,           \* deliveries that can be handled at once
    Source,         \* webhook_sources: [provider, account, secret]
    Event,          \* provider events, see EventType
    Tolerance,      \* DEFAULT_TOLERANCE, in ticks
    MaxClock,       \* bound: the last tick
    Revocable,      \* bound: sources an operator may revoke
    Tester,         \* bound: accounts that ask for test deliveries
    KeyMax,         \* String(255) of idempotency_key, as a length of ids
    MaxTests,       \* bound: test deliveries they ask for
    MaxFailures     \* bound: deliveries cut short by a crash or a lost connection

\* signers: the secrets the provider signs with, several while it rotates them.
\* shape: bad_notes has metadata (or notes) that is no object, bad_amount an amount
\* that int() does not read.
\* id, payment, txn: the provider's event id, its payment id, the merchant's own id;
\* an id is the sequence of its parts, which ":" separates.
\* currency: one with two decimals, one with none and one with three.
\* units: the amount as the provider writes it; value: the money it stands for.
Shape == {"complete", "incomplete", "bad_notes", "bad_amount", "not_json"}
EventType == [source : Source, signers : Seq(STRING), type : {"handled", "other"},
              shape : Shape, id : Seq(Int), payment : Seq(Int), txn : Seq(Int),
              currency : {"INR", "JPY", "KWD"}, units : Int, value : Int]

ASSUME EventAssumption ==
    /\ \A s \in Source : s.provider \in {"stripe", "razorpay", "custom"} /\ s.secret \in STRING
    /\ \A e \in Event : e \in EventType
    /\ Revocable \subseteq Source
    /\ KeyMax \in Nat
    /\ Tolerance \in Nat /\ MaxClock \in Nat /\ MaxTests \in Nat /\ MaxFailures \in Nat

\* One event: a provider sends it to every endpoint that an account has configured.
Same(e, f) ==
    /\ e.source.provider = f.source.provider
    /\ e.id = f.id /\ e.payment = f.payment /\ e.txn = f.txn /\ e.value = f.value

\* External: what identifies an event, by provider.  An account has one merchant at
\* each provider.  No provider's id begins like those of _synthetic_event.
ASSUME IdentityAssumption ==
    /\ \A e \in Event : \A id \in {e.id, e.payment, e.txn} : id # <<>> /\ id[1] >= 0
    /\ \A e, f \in Event :
        /\ e.source.account = f.source.account
        /\ e.source.provider = f.source.provider
        /\ CASE e.source.provider = "stripe"   -> e.id = f.id
             [] e.source.provider = "razorpay" -> e.payment = f.payment
             [] e.source.provider = "custom"   -> e.txn = f.txn /\ e.payment = f.payment
        => Same(e, f)

VARIABLES
    clock,
    revoked,        \* sources whose revoked_at is set
    handler,        \* per slot: where its handler is, and on what
    stored,         \* gateway rows: [account, key, event, amount, fresh]
    delivery_log,   \* per source: last_delivery_status
    acked,          \* external: events whose 202 reached the provider
    tests, failures

vars == <<clock, revoked, handler, stored, delivery_log, acked, tests, failures>>

Free == [at |-> "free"]
Stage == {"verify", "invalid_signature", "invalid_payload", "ingest", "record"}
Delivery == [at : Stage, event : EventType, fresh : BOOLEAN, signed : 0..MaxClock]

Init ==
    /\ clock = 0
    /\ revoked = {}
    /\ handler = [p \in Slot |-> Free]
    /\ stored = {}
    /\ delivery_log = [s \in Source |-> "none"]
    /\ acked = {}
    /\ tests = 0
    /\ failures = 0

-----------------------------------------------------------------------------
(***************************************************************************)
(* signatures.py.                                                          *)
(***************************************************************************)
Fresh(t) == t - clock \in -Tolerance..Tolerance

SignedBy_first(e, secret) == Head(e.signers) = secret    \* defect variant: one candidate

\* Any of the candidates may match.
SignedBy(e, secret) == \E i \in DOMAIN e.signers : e.signers[i] = secret

verify_stripe(e, t) == Fresh(t) /\ SignedBy(e, e.source.secret)

verify_razorpay(e) == SignedBy(e, e.source.secret)

verify_custom(e) == SignedBy(e, e.source.secret)

verify(e, t) ==
    \/ e.source.provider = "stripe" /\ verify_stripe(e, t)
    \/ e.source.provider = "razorpay" /\ verify_razorpay(e)
    \/ e.source.provider = "custom" /\ verify_custom(e)

-----------------------------------------------------------------------------
(***************************************************************************)
(* adapters.py: "ok", an AdapterError, or an error nobody catches.         *)
(***************************************************************************)
_ZERO_DECIMAL == {"JPY"}
_THREE_DECIMAL == {"KWD"}

\* External: what an integer amount means.  Nothing is said of the currencies that
\* are refused, whose value hundredths cannot hold.
ASSUME MoneyAssumption ==
    \A e \in Event :
        /\ e.source.provider = "custom" => e.value = e.units
        /\ e.source.provider # "custom" /\ e.currency \in _ZERO_DECIMAL => e.value = 100 * e.units
        /\ e.source.provider # "custom" /\ e.currency \notin _ZERO_DECIMAL \cup _THREE_DECIMAL
            => e.value = e.units

minor_to_major_always_two(e) == e.units    \* defect variant: every currency has cents

\* The provider's integer, in hundredths.
minor_to_major(e) == IF e.currency \in _ZERO_DECIMAL THEN e.units * 100 ELSE e.units

Amount(e) == IF e.source.provider = "custom" THEN e.units ELSE minor_to_major(e)

\* Errors nobody catches: a ValidationError, as of a zero amount or of anything amiss
\* in the payload of a custom source, and what a mistyped payload makes of a provider's
\* fields, an AttributeError or a ValueError.
AdapterRaises(e) ==
    \/ Amount(e) = 0
    \/ e.shape # "complete"

\* The AdapterErrors.  Metadata is looked at before the currency, and that before the
\* amount.
AdapterFails(e) ==
    \/ e.shape = "not_json"
    \/ /\ e.source.provider # "custom"
       /\ \/ e.type = "other"
          \/ e.shape = "incomplete"
          \/ e.currency \in _THREE_DECIMAL /\ e.shape # "bad_notes"

\* Defect variant: the merchant's id as identity.
idempotency_key_txn(e) == <<e.source.provider, e.txn>>

\* The provider's name and what follows it.  For a custom source that is two ids joined
\* by ":", which both may contain: where one ends and the other begins is lost.
idempotency_key(e) ==
    IF e.source.provider = "stripe" THEN <<"stripe", e.id>>
    ELSE IF e.source.provider = "razorpay" THEN <<"razorpay", e.payment>>
    ELSE <<"custom", e.txn \o e.payment>>

\* Nothing checks the length of a key before the insert does.
KeyIsTooLong(e) == Len(idempotency_key(e)[2]) > KeyMax

-----------------------------------------------------------------------------
(***************************************************************************)
(* The handler.  Each stage ends where its transaction does.               *)
(***************************************************************************)
\* resolve_source: unknown and revoked are a 404, which changes nothing.
resolve_source(s) == s \in Source \ revoked

\* Only Stripe signs a time.
provider_webhook(p, e, t) ==
    /\ handler[p] = Free
    /\ resolve_source(e.source)
    /\ handler' = [handler EXCEPT ![p] =
            [at |-> "verify", event |-> e, fresh |-> FALSE,
             signed |-> IF e.source.provider = "stripe" THEN t ELSE 0]]
    /\ UNCHANGED <<clock, revoked, stored, delivery_log, acked, tests, failures>>

\* Where a delivery goes once its signature and its payload have been looked at:
\* both are pure, and an error that is not an AdapterError is nobody's to catch.
Outcome(e, t) ==
    IF ~verify(e, t) THEN "invalid_signature"
    ELSE IF AdapterFails(e) THEN "invalid_payload"
    ELSE IF AdapterRaises(e) THEN "uncaught"
    ELSE "ingest"

Proceed(p, h, t) ==
    handler' = [handler EXCEPT ![p] =
        IF Outcome(h.event, t) = "uncaught"
        THEN Free       \* a 500, and no record
        ELSE [at |-> Outcome(h.event, t), event |-> h.event, signed |-> 0,
              fresh |-> Outcome(h.event, t) = "ingest" /\ Fresh(t)]]

Verify(p) ==
    /\ handler[p].at = "verify"
    /\ Proceed(p, handler[p], handler[p].signed)
    /\ UNCHANGED <<clock, revoked, stored, delivery_log, acked, tests, failures>>

\* The ids carry the second, below those of the provider's events.
_synthetic_event(s, now) ==
    [source |-> s, signers |-> <<s.secret>>, type |-> "handled", shape |-> "complete",
     id |-> <<-1 - now>>, payment |-> <<-1 - now>>, txn |-> <<-1 - now>>,
     currency |-> "INR", units |-> 105000, value |-> 105000]

\* Another account's source is a 404.  One clock reading both signs and verifies.
test_gateway_source(p, tenant, s) ==
    /\ handler[p] = Free
    /\ tests < MaxTests
    /\ resolve_source(s) /\ s.account = tenant
    /\ tests' = tests + 1
    /\ Proceed(p, [at |-> "verify", event |-> _synthetic_event(s, clock),
                    signed |-> clock, fresh |-> FALSE], clock)
    /\ UNCHANGED <<clock, revoked, stored, delivery_log, acked, failures>>

Finish(p) == handler' = [handler EXCEPT ![p] = Free]

record_delivery_code(s, status) == [delivery_log EXCEPT ![s] = "202"]  \* defect variant

\* last_event_at is set by the same statement, and is left out.
record_delivery(s, status) == [delivery_log EXCEPT ![s] = status]

\* Recorded in a transaction of its own, then a 401 or a 422.
Refuse(p) ==
    /\ handler[p].at \in {"invalid_signature", "invalid_payload"}
    /\ delivery_log' = record_delivery(handler[p].event.source, handler[p].at)
    /\ Finish(p)
    /\ UNCHANGED <<clock, revoked, stored, acked, tests, failures>>

\* Defect variant: a row is keyed by the moment of its arrival.
RowOf_arrival(h) == [account |-> h.event.source.account,
                     key |-> <<h.event.source.provider, <<clock>>>>,
                     event |-> h.event, amount |-> Amount(h.event), fresh |-> h.fresh]

RowOf(h) == [account |-> h.event.source.account, key |-> idempotency_key(h.event),
             event |-> h.event, amount |-> Amount(h.event), fresh |-> h.fresh]

\* ingest_gateway; Reconciliation has the duplicate count and the outbox event.
Ingest(p) ==
    LET r == RowOf(handler[p]) IN
    /\ handler[p].at = "ingest"
    /\ ~KeyIsTooLong(handler[p].event)
    /\ stored' = IF \E x \in stored : x.account = r.account /\ x.key = r.key
                 THEN stored ELSE stored \cup {r}
    /\ handler' = [handler EXCEPT ![p] =
            [at |-> "record", event |-> r.event, fresh |-> FALSE, signed |-> 0]]
    /\ UNCHANGED <<clock, revoked, delivery_log, acked, tests, failures>>

\* The statement is refused: a 500, and no record.
IngestRaises(p) ==
    /\ handler[p].at = "ingest"
    /\ KeyIsTooLong(handler[p].event)
    /\ Finish(p)
    /\ UNCHANGED <<clock, revoked, stored, delivery_log, acked, tests, failures>>

\* Defect variant: the success is recorded before the row is written.
Record_first(p) ==
    /\ handler[p].at = "ingest"
    /\ delivery_log' = record_delivery(handler[p].event.source, "ok")
    /\ UNCHANGED <<clock, revoked, handler, stored, acked, tests, failures>>

\* Then the 202, which may not arrive.
Record(p) ==
    LET h == handler[p] IN
    /\ h.at = "record"
    /\ delivery_log' = record_delivery(h.event.source, "ok")
    /\ acked' \in {acked, acked \cup ({h.event} \cap Event)}
    /\ Finish(p)
    /\ UNCHANGED <<clock, revoked, stored, tests, failures>>

\* A crash, a lost connection or a database error between two stages.
Fail(p) ==
    /\ handler[p] # Free
    /\ failures < MaxFailures
    /\ failures' = failures + 1
    /\ Finish(p)
    /\ UNCHANGED <<clock, revoked, stored, delivery_log, acked, tests>>

\* External: an operator sets revoked_at.
Revoke(s) ==
    /\ s \notin revoked
    /\ revoked' = revoked \cup {s}
    /\ UNCHANGED <<clock, handler, stored, delivery_log, acked, tests, failures>>

Tick ==
    /\ clock < MaxClock
    /\ clock' = clock + 1
    /\ UNCHANGED <<revoked, handler, stored, delivery_log, acked, tests, failures>>

-----------------------------------------------------------------------------
Step(p) == Verify(p) \/ Refuse(p) \/ Ingest(p) \/ IngestRaises(p) \/ Record(p)

\* External: the provider delivers, signing at the moment or having signed before.
Deliver(e, t) == \E p \in Slot : provider_webhook(p, e, t)

Next ==
    \/ \E e \in Event, t \in 0..MaxClock : Deliver(e, t)
    \/ \E p \in Slot, a \in Tester, s \in Source : test_gateway_source(p, a, s)
    \/ \E p \in Slot : Step(p) \/ Fail(p)
    \/ \E s \in Revocable : Revoke(s)
    \/ Tick

\* Well formed, and signed with the secret its source is configured with.
Storable(e) ==
    /\ \E i \in DOMAIN e.signers : e.signers[i] = e.source.secret
    /\ ~AdapterFails(e) /\ ~AdapterRaises(e) /\ ~KeyIsTooLong(e)

(***************************************************************************)
(* Handlers run on; a provider without a 202 delivers again, newly signed, *)
(* and gets its turn among the other deliveries.                           *)
(***************************************************************************)
Fairness ==
    /\ \A p \in Slot : WF_vars(Step(p))
    /\ \A e \in {x \in Event : Storable(x)} : SF_vars(e \notin acked /\ Deliver(e, clock))

Spec == Init /\ [][Next]_vars /\ Fairness

-----------------------------------------------------------------------------
(***************************************************************************)
(* Type invariant.                                                         *)
(***************************************************************************)
TypeOK ==
    /\ clock \in 0..MaxClock
    /\ revoked \subseteq Source
    /\ handler \in [Slot -> Delivery \cup {Free}]
    /\ \A r \in stored : r.event \in EventType /\ r.amount \in Int /\ r.fresh \in BOOLEAN
    /\ delivery_log \in [Source -> {"none", "ok", "invalid_signature", "invalid_payload"}]
    /\ acked \subseteq Event
    /\ tests \in 0..MaxTests
    /\ failures \in 0..MaxFailures

(***************************************************************************)
(* However often an event is delivered, by however many handlers at once,  *)
(* and wherever a handler is cut off, an account has at most one row for   *)
(* it (adapters.py: the key is "derived from the provider's own event      *)
(* id"), also when several of its sources receive it; tests of one second  *)
(* count as one event.                                                     *)
(***************************************************************************)
OneRowPerEvent ==
    \A r, x \in stored : r.account = x.account /\ Same(r.event, x.event) => r = x

\* Two events of custom sources that only the place of the joining ":" tells apart.
ReadsAlike(e, f) ==
    /\ e.source.provider = "custom" /\ f.source.provider = "custom"
    /\ <<e.txn, e.payment>> # <<f.txn, f.payment>>
    /\ e.txn \o e.payment = f.txn \o f.payment

Represented(e) ==
    \E r \in stored :
        /\ r.account = e.source.account
        /\ Same(r.event, e) \/ ReadsAlike(r.event, e)

(***************************************************************************)
(* A 202 that reached the provider is never for an event whose row is      *)
(* missing, cut off by a failure or taken for a duplicate of another one;  *)
(* only two custom events whose ids, joined by ":", read alike share a     *)
(* row.                                                                    *)
(***************************************************************************)
AcknowledgedMeansStored == \A e \in acked : Represented(e)

(***************************************************************************)
(* services/ingest.py: "If nothing comes back, the key was already present *)
(* ... -- a retry": the row behind a 202 is the acknowledged event's own.  *)
(***************************************************************************)
DuplicateMeansRetry ==
    \A e \in acked : \E r \in stored : r.account = e.source.account /\ Same(r.event, e)

(***************************************************************************)
(* A row is of the money the provider reported, signed with the secret of  *)
(* the source that gave it its account, and not a capture replayed, or     *)
(* dated ahead, by more than the tolerance where the scheme signs a time.  *)
(***************************************************************************)
RowsAreAuthentic ==
    \A r \in stored :
        /\ r.account = r.event.source.account
        /\ \E i \in DOMAIN r.event.signers : r.event.signers[i] = r.event.source.secret
        /\ r.event.source.provider = "stripe" => r.fresh
        /\ r.amount = r.event.value

(***************************************************************************)
(* last_delivery_status never reports a success that did not happen: "ok"  *)
(* implies a row that an event of this provider gave the source's account, *)
(* by this source or an earlier one, even when handlers overlap or die.    *)
(***************************************************************************)
OkMeansStored ==
    \A s \in Source : delivery_log[s] = "ok" =>
        \E r \in stored : r.account = s.account /\ r.event.source.provider = s.provider

(***************************************************************************)
(* Every well-formed event of a live, correctly configured source is       *)
(* stored in the end, through failures, rotation of the provider's secret  *)
(* and deliveries that arrive too late, if its key fits the column; or its *)
(* place is taken by a custom event that reads alike.                      *)
(***************************************************************************)
EventuallyStored ==
    \A e \in Event : Storable(e) => <>(e.source \in revoked \/ Represented(e))
=============================================================================
