--------------------------- MODULE WebhookProofs ---------------------------
(***************************************************************************)
(* A provider's event becomes one authentic row, its own unless a custom   *)
(* event reads like another, and a success is only reported of one: for    *)
(* any sources and events, any number of deliveries handled at once, and   *)
(* any number of failures.                                                 *)
(***************************************************************************)
EXTENDS Webhook, TLAPS

-----------------------------------------------------------------------------
(***************************************************************************)
(* The inductive invariant.                                                *)
(***************************************************************************)
\* What a handler can be given: a provider's event, or a test delivery of some second.
Known(e) == e \in Event \/ \E s \in Source, t \in 0..MaxClock : e = _synthetic_event(s, t)

Signature(e) == SignedBy(e, e.source.secret)

\* The adapter made something of it.
Adapted(e) == ~AdapterFails(e) /\ ~AdapterRaises(e)

Has(e) == \E r \in stored : r.account = e.source.account /\ r.key = idempotency_key(e)

\* A handler remembers what its earlier stages found out.
Informed(h) ==
    /\ Known(h.event)
    /\ h.at \in {"ingest", "record"} => Signature(h.event) /\ Adapted(h.event)
    /\ h.at = "ingest" => (h.event.source.provider = "stripe" => h.fresh)
    /\ h.at = "record" => Has(h.event)

HandlersAreSound == \A p \in Slot : handler[p] # Free => Informed(handler[p])

Sound(r) ==
    /\ Known(r.event)
    /\ Signature(r.event) /\ Adapted(r.event)
    /\ r.event.source.provider = "stripe" => r.fresh
    /\ r.account = r.event.source.account
    /\ r.key = idempotency_key(r.event)
    /\ r.amount = Amount(r.event)

RowsAreSound == \A r \in stored : Sound(r)

\* The unique constraint of gateway_txns.
OneRowPerKey ==
    \A r, x \in stored : r.account = x.account /\ r.key = x.key => r = x

AckedHaveRows == \A e \in acked : Has(e)

IInv ==
    /\ TypeOK
    /\ HandlersAreSound
    /\ RowsAreSound
    /\ OneRowPerKey
    /\ AckedHaveRows
    /\ OkMeansStored

-----------------------------------------------------------------------------
(***************************************************************************)
(* Events.                                                                 *)
(***************************************************************************)
LEMMA OneElement == ASSUME NEW S, NEW x \in S PROVE <<x>> \in Seq(S)
OBVIOUS

LEMMA SyntheticIsTyped ==
    ASSUME NEW s \in Source, NEW t \in 0..MaxClock
    PROVE  _synthetic_event(s, t) \in EventType
<1>1. s.secret \in STRING /\ t \in Int
  BY EventAssumption
<1>2. PICK q \in Seq(STRING) : q = <<s.secret>>
  BY <1>1, OneElement, Zenon
<1>3. PICK n \in Seq(Int) : n = <<-1 - t>>
  <2>1. -1 - t \in Int
    BY <1>1
  <2> QED
    BY <2>1, OneElement, Zenon
<1>4. PICK v \in Int : v = 105000
  OBVIOUS
<1>5. /\ "handled" \in {"handled", "other"}
      /\ "complete" \in Shape
      /\ "INR" \in {"INR", "JPY", "KWD"}
  BY DEF Shape
<1>6. [source |-> s, signers |-> q, type |-> "handled", shape |-> "complete",
       id |-> n, payment |-> n, txn |-> n, currency |-> "INR",
       units |-> v, value |-> v] \in EventType
  BY <1>5, Zenon DEF EventType
<1> QED
  BY <1>2, <1>3, <1>4, <1>6 DEF _synthetic_event

LEMMA KnownIsTyped ==
    ASSUME NEW e, Known(e)
    PROVE  e \in EventType /\ e.source \in Source /\ Amount(e) \in Int
<1>1. e \in EventType
  BY SyntheticIsTyped, EventAssumption DEF Known
<1>2. e.source \in Source /\ e.units \in Int
  BY <1>1 DEF EventType
<1> QED
  BY <1>1, <1>2 DEF Amount, minor_to_major

\* What the adapter makes of an amount is the money the provider meant.
LEMMA AmountIsValue ==
    ASSUME NEW e, Known(e), Adapted(e)
    PROVE  Amount(e) = e.value
<1>1. CASE e \in Event
  <2>1. e.units \in Int /\ e.value \in Int
    BY <1>1, EventAssumption DEF EventType
  <2>2. CASE e.source.provider = "custom"
    BY <1>1, <2>2, MoneyAssumption DEF Amount
  <2>3. CASE e.source.provider # "custom"
    <3>1. e.currency \notin _THREE_DECIMAL
      BY <2>3 DEF Adapted, AdapterFails, AdapterRaises
    <3> QED
      BY <1>1, <2>1, <2>3, <3>1, MoneyAssumption DEF Amount, minor_to_major
  <2> QED
    BY <2>2, <2>3
<1>2. CASE \E s \in Source, t \in 0..MaxClock : e = _synthetic_event(s, t)
  <2>1. e.units = 105000 /\ e.value = 105000 /\ e.currency = "INR"
    BY <1>2 DEF _synthetic_event
  <2> QED
    BY <2>1 DEF Amount, minor_to_major, _ZERO_DECIMAL
<1> QED
  BY <1>1, <1>2 DEF Known

\* Two events of one key are of one provider.
LEMMA KeyTellsProvider ==
    ASSUME NEW e, NEW f, e.source \in Source, f.source \in Source,
           idempotency_key(e) = idempotency_key(f)
    PROVE  /\ e.source.provider = f.source.provider
           /\ CASE e.source.provider = "stripe"   -> e.id = f.id
                [] e.source.provider = "razorpay" -> e.payment = f.payment
                [] e.source.provider = "custom"   -> e.txn \o e.payment = f.txn \o f.payment
<1>1. /\ e.source.provider \in {"stripe", "razorpay", "custom"}
      /\ f.source.provider \in {"stripe", "razorpay", "custom"}
  BY EventAssumption
<1>2. idempotency_key(e)[1] = e.source.provider /\ idempotency_key(f)[1] = f.source.provider
  BY <1>1 DEF idempotency_key
<1>3. e.source.provider = f.source.provider
  BY <1>2
<1>4. CASE e.source.provider = "stripe"
  BY <1>3, <1>4 DEF idempotency_key
<1>5. CASE e.source.provider = "razorpay"
  BY <1>3, <1>5 DEF idempotency_key
<1>6. CASE e.source.provider = "custom"
  BY <1>3, <1>6 DEF idempotency_key
<1> QED
  BY <1>1, <1>3, <1>4, <1>5, <1>6

\* The ids of a test delivery are no provider's.
LEMMA SyntheticIsApart ==
    ASSUME NEW e \in Event, NEW s \in Source, NEW t \in 0..MaxClock, NEW f,
           f = _synthetic_event(s, t)
    PROVE  f.id # e.id /\ f.payment # e.payment
<1>1. f.id[1] = -1 - t /\ f.payment[1] = -1 - t
  BY DEF _synthetic_event
<1>2. e.id[1] >= 0 /\ e.payment[1] >= 0
  BY IdentityAssumption
<1>3. ~(-1 - t >= 0)
  OBVIOUS
<1> QED
  BY <1>1, <1>2, <1>3

\* What has the identity of a provider's event, within an account, is that event.
LEMMA SharedIdentity ==
    ASSUME NEW e \in Event, NEW f, Known(f), f.source.account = e.source.account,
           f.source.provider = e.source.provider,
           CASE f.source.provider = "stripe"   -> f.id = e.id
             [] f.source.provider = "razorpay" -> f.payment = e.payment
             [] f.source.provider = "custom"   -> f.txn = e.txn /\ f.payment = e.payment
    PROVE  Same(f, e)
<1>1. e.source \in Source
  BY EventAssumption DEF EventType
<1>2. e.source.provider \in {"stripe", "razorpay", "custom"}
  BY <1>1, EventAssumption
<1>3. f.id = e.id \/ f.payment = e.payment
  BY <1>2
<1>4. f \in Event
  BY <1>3, SyntheticIsApart DEF Known
<1> QED
  BY <1>4, IdentityAssumption

\* A provider's event shares its key, within an account, with itself and, if the source
\* is a custom one, with what reads alike.
LEMMA KeyIsIdentity ==
    ASSUME NEW e \in Event, NEW f, Known(f),
           e.source.account = f.source.account, idempotency_key(f) = idempotency_key(e)
    PROVE  Same(f, e) \/ ReadsAlike(f, e)
<1>1. e.source \in Source /\ f.source \in Source
  BY EventAssumption, KnownIsTyped DEF EventType
<1>2. e.source.provider \in {"stripe", "razorpay", "custom"}
  BY <1>1, EventAssumption
<1>3. f.source.provider = e.source.provider
  BY <1>1, KeyTellsProvider
<1>4. CASE e.source.provider = "stripe"
  <2>1. f.id = e.id
    BY <1>1, <1>3, <1>4, KeyTellsProvider
  <2> QED
    BY <1>3, <1>4, <2>1, SharedIdentity
<1>5. CASE e.source.provider = "razorpay"
  <2>1. f.payment = e.payment
    BY <1>1, <1>3, <1>5, KeyTellsProvider
  <2> QED
    BY <1>3, <1>5, <2>1, SharedIdentity
<1>6. CASE e.source.provider = "custom"
  <2>1. f.txn \o f.payment = e.txn \o e.payment
    BY <1>1, <1>3, <1>6, KeyTellsProvider
  <2>2. CASE f.txn = e.txn /\ f.payment = e.payment
    BY <1>3, <1>6, <2>2, SharedIdentity
  <2>3. CASE ~(f.txn = e.txn /\ f.payment = e.payment)
    BY <1>3, <1>6, <2>1, <2>3 DEF ReadsAlike
  <2> QED
    BY <2>2, <2>3
<1> QED
  BY <1>2, <1>4, <1>5, <1>6

LEMMA SameHasOneKey ==
    ASSUME NEW e, NEW f, Same(e, f)
    PROVE  idempotency_key(e) = idempotency_key(f)
BY DEF Same, idempotency_key

-----------------------------------------------------------------------------
(***************************************************************************)
(* The invariant.                                                          *)
(***************************************************************************)
LEMMA FreeIsNoDelivery == Free \notin Delivery /\ \A d \in Delivery : d.at # "free"
BY DEF Free, Delivery, Stage

LEMMA InitInv == Init => IInv
<1> SUFFICES ASSUME Init PROVE IInv
  OBVIOUS
<1>1. /\ stored = {} /\ acked = {}
      /\ \A p \in Slot : handler[p] = Free
      /\ \A s \in Source : delivery_log[s] = "none"
  BY DEF Init
<1>2. TypeOK
  BY <1>1, EventAssumption DEF Init, TypeOK
<1>3. HandlersAreSound /\ RowsAreSound /\ OneRowPerKey /\ AckedHaveRows /\ OkMeansStored
  BY <1>1 DEF HandlersAreSound, RowsAreSound, OneRowPerKey, AckedHaveRows, OkMeansStored
<1> QED
  BY <1>2, <1>3 DEF IInv

\* A handler moves on, and nothing is written.
LEMMA HandlerInv ==
    ASSUME IInv, NEW p \in Slot, NEW d \in Delivery \cup {Free}, d # Free => Informed(d),
           handler' = [handler EXCEPT ![p] = d],
           UNCHANGED <<clock, revoked, stored, delivery_log, acked>>,
           tests' \in 0..MaxTests, failures' \in 0..MaxFailures
    PROVE  IInv'
<1>1. \A q \in Slot : handler'[q] = IF q = p THEN d ELSE handler[q]
  BY DEF IInv, TypeOK
<1>2. TypeOK'
  BY DEF IInv, TypeOK
<1>3. \A e : Has(e)' <=> Has(e)
  BY DEF Has
<1>4. \A h : Informed(h) => Informed(h)'
  BY <1>3 DEF Informed
<1>5. HandlersAreSound'
  BY <1>1, <1>4 DEF IInv, HandlersAreSound
<1>6. RowsAreSound' /\ OneRowPerKey' /\ AckedHaveRows' /\ OkMeansStored'
  BY <1>3 DEF IInv, RowsAreSound, OneRowPerKey, AckedHaveRows, OkMeansStored
<1> QED
  BY <1>2, <1>5, <1>6 DEF IInv

LEMMA FinishInv ==
    ASSUME IInv, NEW p \in Slot, Finish(p),
           UNCHANGED <<clock, revoked, stored, delivery_log, acked>>,
           tests' \in 0..MaxTests, failures' \in 0..MaxFailures
    PROVE  IInv'
BY HandlerInv DEF Finish

LEMMA DeliverInv ==
    ASSUME IInv, NEW p \in Slot, NEW e \in Event, NEW t \in 0..MaxClock,
           provider_webhook(p, e, t)
    PROVE  IInv'
<1>1. PICK n \in 0..MaxClock : n = IF e.source.provider = "stripe" THEN t ELSE 0
  BY EventAssumption
<1>2. PICK d : d = [at |-> "verify", event |-> e, fresh |-> FALSE, signed |-> n]
  OBVIOUS
<1>3. d \in Delivery
  BY <1>2, EventAssumption DEF Delivery, Stage
<1>4. Informed(d)
  BY <1>2 DEF Informed, Known
<1>5. handler' = [handler EXCEPT ![p] = d]
  BY <1>1, <1>2 DEF provider_webhook
<1> QED
  BY <1>3, <1>4, <1>5, HandlerInv DEF provider_webhook, IInv, TypeOK

\* The looks at the signature and at the payload leave what they have found out.
LEMMA ProceedInv ==
    ASSUME IInv, NEW p \in Slot, NEW h \in Delivery, NEW t, h.at = "verify", Known(h.event),
           Proceed(p, h, t), UNCHANGED <<clock, revoked, stored, delivery_log, acked>>,
           tests' \in 0..MaxTests, failures' \in 0..MaxFailures
    PROVE  IInv'
<1>1. PICK o : o = Outcome(h.event, t)
  OBVIOUS
<1>2. CASE o = "uncaught"
  <2>1. handler' = [handler EXCEPT ![p] = Free]
    BY <1>1, <1>2 DEF Proceed
  <2> QED
    BY <2>1, HandlerInv
<1>3. CASE o # "uncaught"
  <2>1. PICK b \in BOOLEAN : b <=> (o = "ingest" /\ Fresh(t))
    OBVIOUS
  <2>2. PICK d : d = [at |-> o, event |-> h.event, fresh |-> b, signed |-> 0]
    OBVIOUS
  <2>3. o \in {"invalid_signature", "invalid_payload", "ingest"}
    BY <1>1, <1>3 DEF Outcome
  <2>4. d \in Delivery
    BY <2>2, <2>3, KnownIsTyped, EventAssumption DEF Delivery, Stage
  <2>5. d = [at |-> o, event |-> h.event, signed |-> 0, fresh |-> o = "ingest" /\ Fresh(t)]
    BY <2>1, <2>2
  <2>6. handler' = [handler EXCEPT ![p] = d]
    BY <1>1, <1>3, <2>5, Zenon DEF Proceed
  <2>7. o = "ingest" => verify(h.event, t) /\ Adapted(h.event)
    BY <1>1 DEF Outcome, Adapted
  <2>8. o = "ingest" => Signature(h.event) /\ (h.event.source.provider = "stripe" => Fresh(t))
    BY <2>7 DEF verify, verify_stripe, verify_razorpay, verify_custom, Signature
  <2>9. Informed(d)
    BY <2>1, <2>2, <2>3, <2>7, <2>8 DEF Informed
  <2> QED
    BY <2>4, <2>6, <2>9, HandlerInv
<1> QED
  BY <1>2, <1>3

LEMMA VerifyInv ==
    ASSUME IInv, NEW p \in Slot, Verify(p)
    PROVE  IInv'
<1>1. PICK h : h = handler[p]
  OBVIOUS
<1>2. h \in Delivery /\ h.at = "verify"
  BY <1>1 DEF Verify, IInv, TypeOK, Free
<1>3. Known(h.event)
  BY <1>1, <1>2, FreeIsNoDelivery DEF IInv, HandlersAreSound, Informed
<1>4. \E t : Proceed(p, h, t)
  BY <1>1 DEF Verify
<1> QED
  BY <1>2, <1>3, <1>4, ProceedInv DEF Verify, IInv, TypeOK

LEMMA TestInv ==
    ASSUME IInv, NEW p \in Slot, NEW tenant, NEW s \in Source, test_gateway_source(p, tenant, s)
    PROVE  IInv'
<1>1. PICK e : e = _synthetic_event(s, clock)
  OBVIOUS
<1>2. PICK d : d = [at |-> "verify", event |-> e, signed |-> clock, fresh |-> FALSE]
  OBVIOUS
<1>3. clock \in 0..MaxClock /\ Known(e)
  BY <1>1 DEF Known, IInv, TypeOK
<1>4. d \in Delivery /\ d.at = "verify" /\ d.event = e
  BY <1>2, <1>3, KnownIsTyped DEF Delivery, Stage
<1>5. Proceed(p, d, clock)
  BY <1>1, <1>2, Zenon DEF test_gateway_source
<1>6. tests' \in 0..MaxTests /\ failures' \in 0..MaxFailures
  BY EventAssumption DEF test_gateway_source, IInv, TypeOK
<1> QED
  BY <1>3, <1>4, <1>5, <1>6, ProceedInv DEF test_gateway_source

LEMMA RefuseInv ==
    ASSUME IInv, NEW p \in Slot, Refuse(p)
    PROVE  IInv'
<1>1. PICK h : h = handler[p]
  OBVIOUS
<1>2. h.at \in {"invalid_signature", "invalid_payload"} /\ h \in Delivery
  BY <1>1 DEF Refuse, IInv, TypeOK, Free
<1>3. delivery_log' = [delivery_log EXCEPT ![h.event.source] = h.at]
  BY <1>1 DEF Refuse, record_delivery
<1>4. \A q \in Slot : handler'[q] = IF q = p THEN Free ELSE handler[q]
  BY DEF Refuse, Finish, IInv, TypeOK
<1>5. TypeOK'
  BY <1>2, <1>3 DEF Refuse, Finish, IInv, TypeOK
<1>6. \A e : Has(e)' <=> Has(e)
  BY DEF Has, Refuse
<1>7. \A g : Informed(g) => Informed(g)'
  BY <1>6 DEF Informed
<1>8. HandlersAreSound'
  BY <1>4, <1>7 DEF IInv, HandlersAreSound
<1>9. RowsAreSound' /\ OneRowPerKey' /\ AckedHaveRows'
  BY <1>6 DEF Refuse, IInv, RowsAreSound, OneRowPerKey, AckedHaveRows
<1>10. OkMeansStored'
  <2>1. \A s \in Source : delivery_log'[s] = "ok" => delivery_log[s] = "ok"
    BY <1>2, <1>3 DEF IInv, TypeOK
  <2> QED
    BY <2>1 DEF Refuse, IInv, OkMeansStored
<1> QED
  BY <1>5, <1>8, <1>9, <1>10 DEF IInv

\* The row is added unless one with its key is there: afterwards one is.
LEMMA IngestInv ==
    ASSUME IInv, NEW p \in Slot, Ingest(p)
    PROVE  IInv'
<1>1. PICK h : h = handler[p]
  OBVIOUS
<1>2. h.at = "ingest" /\ h \in Delivery
  BY <1>1 DEF Ingest, IInv, TypeOK, Free
<1>3. Informed(h)
  BY <1>1, <1>2, FreeIsNoDelivery DEF IInv, HandlersAreSound
<1>4. PICK r : r = RowOf(h)
  OBVIOUS
<1>5. /\ r.account = h.event.source.account /\ r.key = idempotency_key(h.event)
      /\ r.event = h.event /\ r.amount = Amount(h.event) /\ r.fresh = h.fresh
  BY <1>4 DEF RowOf
<1>6. Sound(r)
  BY <1>2, <1>3, <1>5 DEF Sound, Informed
<1>7. \/ stored' = stored /\ \E x \in stored : x.account = r.account /\ x.key = r.key
      \/ stored' = stored \cup {r} /\ ~\E x \in stored : x.account = r.account /\ x.key = r.key
  BY <1>1, <1>4 DEF Ingest
<1>8. stored \subseteq stored' /\ \A x \in stored' : x \in stored \/ x = r
  BY <1>7
<1>9. PICK d : d = [at |-> "record", event |-> h.event, fresh |-> FALSE, signed |-> 0]
  OBVIOUS
<1>10. d \in Delivery
  BY <1>2, <1>9, EventAssumption DEF Delivery, Stage
<1>11. handler' = [handler EXCEPT ![p] = d]
  BY <1>1, <1>4, <1>5, <1>9 DEF Ingest
<1>12. \A q \in Slot : handler'[q] = IF q = p THEN d ELSE handler[q]
  BY <1>11 DEF IInv, TypeOK
<1>13. TypeOK'
  <2>1. r.event \in EventType /\ r.amount \in Int /\ r.fresh \in BOOLEAN
    BY <1>2, <1>3, <1>5, KnownIsTyped DEF Informed, Delivery
  <2>2. \A x \in stored' : x.event \in EventType /\ x.amount \in Int /\ x.fresh \in BOOLEAN
    BY <1>8, <2>1 DEF IInv, TypeOK
  <2> QED
    BY <1>10, <1>11, <2>2 DEF Ingest, IInv, TypeOK
<1>14. \A e : Has(e) => Has(e)'
  BY <1>8 DEF Has
<1>15. Has(h.event)'
  BY <1>5, <1>7 DEF Has
<1>16. \A g : Informed(g) => Informed(g)'
  BY <1>14 DEF Informed
<1>17. Informed(d)'
  BY <1>2, <1>3, <1>9, <1>15 DEF Informed
<1>18. HandlersAreSound'
  BY <1>12, <1>16, <1>17 DEF IInv, HandlersAreSound
<1>19. RowsAreSound'
  BY <1>6, <1>8 DEF IInv, RowsAreSound
<1>20. OneRowPerKey'
  BY <1>7 DEF IInv, OneRowPerKey
<1>21. AckedHaveRows' /\ OkMeansStored'
  BY <1>8, <1>14 DEF Ingest, IInv, AckedHaveRows, OkMeansStored
<1> QED
  BY <1>13, <1>18, <1>19, <1>20, <1>21 DEF IInv

LEMMA RecordInv ==
    ASSUME IInv, NEW p \in Slot, Record(p)
    PROVE  IInv'
<1>1. PICK h : h = handler[p]
  OBVIOUS
<1>2. h.at = "record" /\ h \in Delivery
  BY <1>1 DEF Record, IInv, TypeOK, Free
<1>3. Known(h.event) /\ Has(h.event)
  BY <1>1, <1>2, FreeIsNoDelivery DEF IInv, HandlersAreSound, Informed
<1>4. delivery_log' = [delivery_log EXCEPT ![h.event.source] = "ok"]
  BY <1>1 DEF Record, record_delivery
<1>5. acked' \subseteq acked \cup {h.event} /\ acked' \subseteq acked \cup Event
  BY <1>1 DEF Record
<1>6. \A q \in Slot : handler'[q] = IF q = p THEN Free ELSE handler[q]
  BY DEF Record, Finish, IInv, TypeOK
<1>7. TypeOK'
  BY <1>4, <1>5 DEF Record, Finish, IInv, TypeOK
<1>8. \A e : Has(e)' <=> Has(e)
  BY DEF Has, Record
<1>9. \A g : Informed(g) => Informed(g)'
  BY <1>8 DEF Informed
<1>10. HandlersAreSound'
  BY <1>6, <1>9 DEF IInv, HandlersAreSound
<1>11. RowsAreSound' /\ OneRowPerKey'
  BY DEF Record, IInv, RowsAreSound, OneRowPerKey
<1>12. AckedHaveRows'
  BY <1>3, <1>5, <1>8 DEF IInv, AckedHaveRows
<1>13. OkMeansStored'
  <2>1. \A s \in Source : delivery_log'[s] = "ok" => delivery_log[s] = "ok" \/ s = h.event.source
    BY <1>4 DEF IInv, TypeOK
  <2>2. PICK r \in stored : r.account = h.event.source.account /\ r.key = idempotency_key(h.event)
    BY <1>3 DEF Has
  <2>3. Known(r.event) /\ r.key = idempotency_key(r.event)
    BY <2>2 DEF IInv, RowsAreSound, Sound
  <2>4. r.event.source.provider = h.event.source.provider
    BY <1>3, <2>2, <2>3, KnownIsTyped, KeyTellsProvider
  <2> QED
    BY <2>1, <2>2, <2>4 DEF Record, IInv, OkMeansStored
<1> QED
  BY <1>7, <1>10, <1>11, <1>12, <1>13 DEF IInv

\* A key that does not fit ends the handler.
LEMMA IngestRaisesInv ==
    ASSUME IInv, NEW p \in Slot, IngestRaises(p)
    PROVE  IInv'
<1>1. tests' \in 0..MaxTests /\ failures' \in 0..MaxFailures
  BY DEF IngestRaises, IInv, TypeOK
<1> QED
  BY <1>1, FinishInv DEF IngestRaises

LEMMA FailInv ==
    ASSUME IInv, NEW p \in Slot, Fail(p)
    PROVE  IInv'
<1>1. tests' \in 0..MaxTests /\ failures' \in 0..MaxFailures
  BY EventAssumption DEF Fail, IInv, TypeOK
<1> QED
  BY <1>1, FinishInv DEF Fail

LEMMA WorldInv ==
    ASSUME IInv, (\E s \in Revocable : Revoke(s)) \/ Tick \/ UNCHANGED vars
    PROVE  IInv'
<1>1. UNCHANGED <<handler, stored, delivery_log, acked, tests, failures>>
  BY DEF Revoke, Tick, vars
<1>2. TypeOK'
  BY <1>1, EventAssumption DEF IInv, TypeOK, Revoke, Tick, vars
<1>3. \A e : Has(e)' <=> Has(e)
  BY <1>1 DEF Has
<1>4. \A g : Informed(g) => Informed(g)'
  BY <1>3 DEF Informed
<1>5. HandlersAreSound' /\ RowsAreSound' /\ OneRowPerKey' /\ AckedHaveRows' /\ OkMeansStored'
  BY <1>1, <1>3, <1>4
     DEF IInv, HandlersAreSound, RowsAreSound, OneRowPerKey, AckedHaveRows, OkMeansStored
<1> QED
  BY <1>2, <1>5 DEF IInv

\* The invariant holds in every state.
THEOREM Invariance == Spec => []IInv
<1>1. IInv /\ [Next]_vars => IInv'
  <2> SUFFICES ASSUME IInv, [Next]_vars PROVE IInv'
    OBVIOUS
  <2>1. ASSUME NEW e \in Event, NEW t \in 0..MaxClock, Deliver(e, t) PROVE IInv'
    BY <2>1, DeliverInv DEF Deliver
  <2>2. ASSUME NEW p \in Slot, NEW a \in Tester, NEW s \in Source, test_gateway_source(p, a, s)
        PROVE  IInv'
    BY <2>2, TestInv
  <2>3. ASSUME NEW p \in Slot, Step(p) PROVE IInv'
    BY <2>3, VerifyInv, RefuseInv, IngestInv, IngestRaisesInv, RecordInv DEF Step
  <2>4. ASSUME NEW p \in Slot, Fail(p) PROVE IInv'
    BY <2>4, FailInv
  <2>5. CASE (\E s \in Revocable : Revoke(s)) \/ Tick \/ UNCHANGED vars
    BY <2>5, WorldInv
  <2> QED
    BY <2>1, <2>2, <2>3, <2>4, <2>5 DEF Next
<1> QED
  BY <1>1, InitInv, PTL DEF Spec

-----------------------------------------------------------------------------
(***************************************************************************)
(* The properties of the runs.                                             *)
(***************************************************************************)
\* The state of the handlers, of the rows and of the delivery log is well formed.
THEOREM TypeCorrect == Spec => []TypeOK
<1>1. IInv => TypeOK
  BY DEF IInv
<1> QED
  BY <1>1, Invariance, PTL

\* A redelivery, an overlapping one, one to a second source of the account, and a test
\* in a second that had one, all meet the key of the first: ingest_gateway adds no row.
THEOREM OneRowPerEventHolds == Spec => []OneRowPerEvent
<1>1. IInv => OneRowPerEvent
  <2> SUFFICES ASSUME IInv, NEW r \in stored, NEW x \in stored,
                      r.account = x.account, Same(r.event, x.event)
               PROVE  r = x
    BY DEF OneRowPerEvent
  <2>1. r.key = x.key
    BY SameHasOneKey DEF IInv, RowsAreSound, Sound
  <2> QED
    BY <2>1 DEF IInv, OneRowPerKey
<1> QED
  BY <1>1, Invariance, PTL

\* The 202 is sent after ingest_gateway has committed, and the row it then counts on is
\* of the acknowledged event; only of two custom events whose ids, joined by ":", read
\* alike can one count on the row of the other.
THEOREM AcknowledgedMeansStoredHolds == Spec => []AcknowledgedMeansStored
<1>1. IInv => AcknowledgedMeansStored
  <2> SUFFICES ASSUME IInv, NEW e \in acked
               PROVE  Represented(e)
    BY DEF AcknowledgedMeansStored
  <2>1. e \in Event
    BY DEF IInv, TypeOK
  <2>2. PICK r \in stored : r.account = e.source.account /\ r.key = idempotency_key(e)
    BY DEF IInv, AckedHaveRows, Has
  <2>3. /\ Known(r.event) /\ r.account = r.event.source.account
        /\ r.key = idempotency_key(r.event)
    BY DEF IInv, RowsAreSound, Sound
  <2>4. Same(r.event, e) \/ ReadsAlike(r.event, e)
    BY <2>1, <2>2, <2>3, KeyIsIdentity
  <2> QED
    BY <2>2, <2>4 DEF Represented
<1> QED
  BY <1>1, Invariance, PTL

\* provider_webhook writes what a signed, fresh and adaptable delivery says, in the
\* currency's own decimals.
THEOREM RowsAreAuthenticHolds == Spec => []RowsAreAuthentic
<1>1. IInv => RowsAreAuthentic
  BY AmountIsValue DEF IInv, RowsAreSound, Sound, Signature, SignedBy, RowsAreAuthentic
<1> QED
  BY <1>1, Invariance, PTL

\* record_delivery writes "ok" in a transaction after the one that leaves the row.
THEOREM OkMeansStoredHolds == Spec => []OkMeansStored
<1>1. IInv => OkMeansStored
  BY DEF IInv
<1> QED
  BY <1>1, Invariance, PTL
=============================================================================
