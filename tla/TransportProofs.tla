-------------------------- MODULE TransportProofs ---------------------------
(***************************************************************************)
(* No event slips through the transport and, unless a relay fails, none is *)
(* published twice: for any number of events, relays, workers, failures    *)
(* and restarts of Redis, and for any batch sizes and stream cap.          *)
(***************************************************************************)
EXTENDS Transport, FiniteSetTheorems, SequenceTheorems, TLAPS

-----------------------------------------------------------------------------
(***************************************************************************)
(* The inductive invariant.                                                *)
(***************************************************************************)
\* An event needs nothing more from the relays.
Covered(e) ==
    \/ e \in handled
    \/ e \in lost
    \/ \E i \in live : log[i] = e /\ Unacked(i)

\* What a relay has added to the stream is safe before the relay says so.
SentIsCovered ==
    \A e \in Event :
        outbox[e] = "published" \/ (\E r \in Relay : e \in sent[r]) => Covered(e)

\* XACK comes after the commit.
AckIsHandled ==
    \A w \in Worker : at[w] = "ack" => log[Min(inbox[w])] \in handled

\* SKIP LOCKED: no row is locked by two relays.
BatchesDisjoint ==
    \A r, q \in Relay : r # q => batch[r] \cap batch[q] = {}

\* Without a failure, a stream entry is of a published row, or of one that the relay
\* which added it still has locked.
EntriesAreAccounted ==
    failures = 0 => \A i \in Entry :
        outbox[log[i]] = "published" \/ \E r \in Relay : log[i] \in sent[r]

IInv ==
    /\ TypeOK
    /\ SentIsCovered
    /\ AckIsHandled
    /\ BatchesDisjoint
    /\ EntriesAreAccounted
    /\ PublishedOnceUnlessFailed

-----------------------------------------------------------------------------
(***************************************************************************)
(* Lowest, Min and Max over entries and events.                            *)
(***************************************************************************)
LEMMA LowestSubset ==
    ASSUME NEW S, NEW n PROVE Lowest(S, n) \subseteq S
BY DEF Lowest

\* Who is in brings everyone below.
LEMMA LowestDownward ==
    ASSUME NEW S \in SUBSET Nat, IsFiniteSet(S), NEW n \in Nat,
           NEW i \in Lowest(S, n), NEW j \in S, j < i
    PROVE  j \in Lowest(S, n)
<1> DEFINE Below(k) == {x \in S : x < k}
<1>1. Below(j) \in SUBSET Below(i)
  <2>1. i \in Nat /\ j \in Nat /\ \A x \in S : x \in Nat
    BY LowestSubset
  <2>2. \A x \in S : x < j => x < i
    BY <2>1
  <2> QED
    BY <2>2
<1>2. IsFiniteSet(Below(i))
  BY FS_Subset
<1>3. Cardinality(Below(j)) <= Cardinality(Below(i))
  BY <1>1, <1>2, FS_Subset
<1>4. Cardinality(Below(i)) \in Nat /\ Cardinality(Below(j)) \in Nat
  BY <1>1, <1>2, FS_Subset, FS_CardinalityType
<1>5. Cardinality(Below(i)) < n
  BY DEF Lowest
<1> QED
  BY <1>3, <1>4, <1>5 DEF Lowest

\* The library states it with an operator for a parameter.
LEMMA NatWellFounded ==
    ASSUME NEW S \in SUBSET Nat, S # {}
    PROVE  \E m \in S : \A x \in S : m <= x
<1> DEFINE R == {p \in Nat \X Nat : p[1] < p[2]}
<1>1. OpToRel(<, Nat) = R
  BY DEF OpToRel
<1>2. IsWellFoundedOn(R, Nat)
  BY <1>1, NatLessThanWellFounded
<1>3. \E m \in S : \A x \in S : ~ (<<x, m>> \in R)
  <2> HIDE DEF R
  <2> QED
    BY <1>2, WFMin
<1> QED
  <2>1. PICK m \in S : \A x \in S : ~ (<<x, m>> \in R)
    BY <1>3
  <2>2. \A x \in S : x \in Nat
    OBVIOUS
  <2>3. \A x \in S : ~ (x < m)
    BY <2>1, <2>2
  <2> QED
    BY <2>2, <2>3

LEMMA MinMember ==
    ASSUME NEW S \in SUBSET Nat, S # {}
    PROVE  Min(S) \in S /\ \A x \in S : Min(S) <= x
BY NatWellFounded DEF Min

LEMMA MaxMember ==
    ASSUME NEW k \in Nat, NEW S \in SUBSET (1..k), S # {}
    PROVE  Max(S) \in S /\ \A x \in S : x <= Max(S)
<1> DEFINE T == {k - x : x \in S}
<1>0. \A x \in S : x \in 1..k
  OBVIOUS
<1>1. T \in SUBSET Nat /\ T # {}
  <2>1. \A x \in S : k - x \in Nat
    BY <1>0
  <2>2. T \in SUBSET Nat
    BY <2>1, Zenon
  <2>3. PICK x : x \in S
    OBVIOUS
  <2>4. k - x \in T
    BY <2>3, Zenon
  <2> QED
    BY <2>2, <2>4
<1>2. PICK m \in T : \A y \in T : m <= y
  BY <1>1, NatWellFounded
<1>3. PICK x \in S : m = k - x
  OBVIOUS
<1>4. \A y \in S : y <= x
  <2> SUFFICES ASSUME NEW y \in S PROVE y <= x
    OBVIOUS
  <2>1. k - y \in T
    OBVIOUS
  <2> QED
    BY <1>0, <1>2, <1>3, <2>1
<1> QED
  BY <1>4 DEF Max

-----------------------------------------------------------------------------
(***************************************************************************)
(* Facts that the type invariant gives.                                    *)
(***************************************************************************)
LEMMA Basics ==
    ASSUME TypeOK
    PROVE  /\ N \in Nat /\ Event \in SUBSET Nat
           /\ Len(log) \in Nat
           /\ Entry \in SUBSET Nat /\ IsFiniteSet(Entry)
           /\ \A i \in Entry : log[i] \in Event
           /\ live \in SUBSET Nat /\ IsFiniteSet(live)
           /\ \A w \in Worker : inbox[w] \in SUBSET Nat /\ inbox[w] \subseteq Entry
<1>1. N \in Nat /\ Event \in SUBSET Nat
  BY SizesAssumption DEF Event
<1>2. Len(log) \in Nat /\ \A i \in Entry : log[i] \in Event
  BY LenProperties DEF TypeOK, Entry
<1>3. Entry \in SUBSET Nat /\ IsFiniteSet(Entry)
  BY <1>2, FS_Interval DEF Entry
<1>4. live \in SUBSET Nat /\ IsFiniteSet(live)
  BY <1>3, FS_Subset DEF TypeOK
<1>5. \A w \in Worker : inbox[w] \subseteq Entry
  BY DEF TypeOK
<1> QED
  BY <1>1, <1>2, <1>3, <1>4, <1>5

\* The entry a worker is at.
LEMMA InHand ==
    ASSUME TypeOK, NEW w \in Worker, inbox[w] # {}
    PROVE  Min(inbox[w]) \in inbox[w] /\ Min(inbox[w]) \in Entry
BY Basics, MinMember

-----------------------------------------------------------------------------
(***************************************************************************)
(* Initially, and for the relays.                                          *)
(***************************************************************************)
LEMMA InitInv == Init => IInv
<1> SUFFICES ASSUME Init PROVE IInv
  OBVIOUS
<1> USE DEF Init
<1>1. Len(log) = 0 /\ Entry = {}
  BY EmptySeq DEF Entry
<1>2. TypeOK
  <2>1. log \in Seq(Event)
    BY EmptySeq
  <2>2. delivered \in 0..Len(log) /\ failures \in 0..MaxFailures /\ outages \in 0..MaxOutages
    BY <1>1, SizesAssumption
  <2>3. /\ outbox \in [Event -> {"absent", "unpublished", "published"}]
        /\ batch \in [Relay -> SUBSET Event]
        /\ sent \in [Relay -> SUBSET Event]
        /\ \A r \in Relay : batch[r] = {} /\ sent[r] = {}
    OBVIOUS
  <2>4. /\ at \in [Worker -> {"group", "claim", "read", "process", "ack"}]
        /\ inbox \in [Worker -> SUBSET Entry]
        /\ \A w \in Worker : at[w] = "group"
    OBVIOUS
  <2>5. /\ live = {} /\ pel = {} /\ stale = {} /\ handled = {} /\ lost = {} /\ ended = {}
        /\ group \in BOOLEAN
    OBVIOUS
  <2> HIDE DEF Init
  <2> QED
    BY <2>1, <2>2, <2>3, <2>4, <2>5 DEF TypeOK
<1>3. SentIsCovered
  BY DEF SentIsCovered
<1>4. AckIsHandled
  BY DEF AckIsHandled
<1>5. BatchesDisjoint
  BY DEF BatchesDisjoint
<1>6. EntriesAreAccounted /\ PublishedOnceUnlessFailed
  BY <1>1 DEF EntriesAreAccounted, PublishedOnceUnlessFailed
<1> QED
  BY <1>2, <1>3, <1>4, <1>5, <1>6 DEF IInv

\* Redis and the workers do not move.
LEMMA RelaySide ==
    ASSUME IInv, UNCHANGED <<redisVars, workerVars, ended, lost, boundVars>>,
           outbox' \in [Event -> {"absent", "unpublished", "published"}],
           batch' \in [Relay -> SUBSET Event],
           sent' \in [Relay -> SUBSET Event],
           \A r \in Relay : sent'[r] \subseteq batch'[r],
           \A r \in Relay : \A e \in batch'[r] : outbox'[e] = "unpublished",
           \A r \in Relay \cap ended : batch'[r] = {},
           BatchesDisjoint',
           \A e \in Event :
                outbox'[e] = "published" \/ (\E r \in Relay : e \in sent'[r])
                <=> outbox[e] = "published" \/ (\E r \in Relay : e \in sent[r])
    PROVE  IInv'
<1> USE DEF redisVars, workerVars, boundVars
<1>1. TypeOK'
  BY DEF IInv, TypeOK, Entry
<1>2. \A e : Covered(e)' <=> Covered(e)
  BY DEF Covered, Unacked
<1>3. SentIsCovered'
  BY <1>2 DEF IInv, SentIsCovered
<1>4. AckIsHandled' /\ PublishedOnceUnlessFailed'
  BY DEF IInv, AckIsHandled, PublishedOnceUnlessFailed, Entry
<1>5. EntriesAreAccounted'
  <2>1. \A i \in Entry : log[i] \in Event
    BY Basics DEF IInv
  <2> QED
    BY <2>1 DEF IInv, EntriesAreAccounted, Entry
<1> QED
  BY <1>1, <1>3, <1>4, <1>5 DEF IInv

LEMMA CommitInv ==
    ASSUME IInv, NEW e \in Event, Commit(e)
    PROVE  IInv'
<1> USE DEF Commit, IInv, TypeOK
<1>1. BatchesDisjoint'
  BY DEF BatchesDisjoint
<1>2. \A f \in Event \ {e} : outbox'[f] = outbox[f]
  OBVIOUS
<1>3. outbox[e] = "absent" /\ outbox'[e] = "unpublished"
  OBVIOUS
<1>4. \A r \in Relay : e \notin batch[r]
  BY <1>3
<1>5. \A r \in Relay \cap ended : batch'[r] = {}
  OBVIOUS
<1> QED
  BY <1>1, <1>2, <1>3, <1>4, <1>5, RelaySide

LEMMA ClaimInv ==
    ASSUME IInv, NEW r \in Relay \ ended, drain_claim(r)
    PROVE  IInv'
<1>1. Lowest(Claimable, OutboxBatch) \subseteq Claimable
  BY LowestSubset
<1>2. /\ batch' = [batch EXCEPT ![r] = Lowest(Claimable, OutboxBatch)]
      /\ sent' = [sent EXCEPT ![r] = {}]
      /\ batch[r] = {} /\ sent[r] = {}
      /\ UNCHANGED <<outbox, redisVars, workerVars, ended, lost, boundVars>>
  BY DEF drain_claim, IInv, TypeOK
<1>3. batch'[r] \subseteq Claimable /\ \A q \in Relay \ {r} : batch'[q] = batch[q]
  BY <1>1, <1>2 DEF IInv, TypeOK
<1>4. sent' = sent
  BY <1>2 DEF IInv, TypeOK
<1>5. BatchesDisjoint'
  BY <1>3 DEF IInv, BatchesDisjoint, Claimable
<1>6. /\ batch' \in [Relay -> SUBSET Event]
      /\ \A q \in Relay : sent'[q] \subseteq batch'[q]
      /\ \A q \in Relay : \A e \in batch'[q] : outbox'[e] = "unpublished"
  <2>1. Claimable \subseteq Event /\ \A e \in Claimable : outbox[e] = "unpublished"
    BY DEF Claimable
  <2>2. batch' \in [Relay -> SUBSET Event]
    BY <1>1, <1>2, <2>1 DEF IInv, TypeOK
  <2>3. \A q \in Relay : sent'[q] \subseteq batch'[q]
    BY <1>2, <1>3, <1>4 DEF IInv, TypeOK
  <2>4. \A q \in Relay : \A e \in batch'[q] : outbox'[e] = "unpublished"
    BY <1>2, <1>3, <2>1 DEF IInv, TypeOK
  <2> QED
    BY <2>2, <2>3, <2>4
<1>7. outbox' \in [Event -> {"absent", "unpublished", "published"}] /\ sent' \in [Relay -> SUBSET Event]
  BY <1>2, <1>4 DEF IInv, TypeOK
<1>8. \A q \in Relay \cap ended : batch'[q] = {}
  <2>1. \A q \in Relay \cap ended : batch[q] = {}
    BY DEF IInv, TypeOK
  <2> QED
    BY <1>3, <2>1
<1> QED
  BY <1>2, <1>4, <1>5, <1>6, <1>7, <1>8, RelaySide

LEMMA DrainCommitInv ==
    ASSUME IInv, NEW r \in Relay, drain_commit(r)
    PROVE  IInv'
<1>1. /\ outbox' = [e \in Event |-> IF e \in batch[r] THEN "published" ELSE outbox[e]]
      /\ batch' = [batch EXCEPT ![r] = {}]
      /\ sent' = [sent EXCEPT ![r] = {}]
      /\ sent[r] = batch[r]
      /\ UNCHANGED <<redisVars, workerVars, ended, lost, boundVars>>
  BY DEF drain_commit
<1>2. /\ batch'[r] = {} /\ sent'[r] = {}
      /\ \A q \in Relay \ {r} : batch'[q] = batch[q] /\ sent'[q] = sent[q]
      /\ batch' \in [Relay -> SUBSET Event] /\ sent' \in [Relay -> SUBSET Event]
  BY <1>1 DEF IInv, TypeOK
<1>3. outbox' \in [Event -> {"absent", "unpublished", "published"}]
  BY <1>1 DEF IInv, TypeOK
<1>4. \A q \in Relay : sent'[q] \subseteq batch'[q]
  BY <1>2 DEF IInv, TypeOK
<1>5. \A q \in Relay : \A e \in batch'[q] : outbox'[e] = "unpublished"
  BY <1>1, <1>2 DEF IInv, TypeOK, BatchesDisjoint
<1>6. BatchesDisjoint'
  BY <1>2 DEF IInv, BatchesDisjoint
<1>7. \A e \in Event :
        outbox'[e] = "published" \/ (\E q \in Relay : e \in sent'[q])
        <=> outbox[e] = "published" \/ (\E q \in Relay : e \in sent[q])
  BY <1>1, <1>2
<1>8. \A q \in Relay \cap ended : batch'[q] = {}
  <2>1. \A q \in Relay \cap ended : batch[q] = {}
    BY DEF IInv, TypeOK
  <2> QED
    BY <1>2, <2>1
<1> QED
  BY <1>1, <1>2, <1>3, <1>4, <1>5, <1>6, <1>7, <1>8, RelaySide

LEMMA RelayFailInv ==
    ASSUME IInv, NEW r \in Relay, RelayFail(r)
    PROVE  IInv'
<1> USE DEF redisVars, workerVars
<1>1. /\ batch' = [batch EXCEPT ![r] = {}] /\ sent' = [sent EXCEPT ![r] = {}]
      /\ failures' = failures + 1 /\ failures < MaxFailures
      /\ UNCHANGED <<outbox, redisVars, workerVars, ended, lost, outages>>
  BY DEF RelayFail
<1>2. /\ batch'[r] = {} /\ sent'[r] = {}
      /\ \A q \in Relay \ {r} : batch'[q] = batch[q] /\ sent'[q] = sent[q]
      /\ batch' \in [Relay -> SUBSET Event] /\ sent' \in [Relay -> SUBSET Event]
  BY <1>1 DEF IInv, TypeOK
<1>3. failures' \in 0..MaxFailures /\ failures' # 0
  BY <1>1, SizesAssumption DEF IInv, TypeOK
<1>4. TypeOK'
  <2>1. /\ \A q \in Relay : sent'[q] \subseteq batch'[q]
        /\ \A q \in Relay : \A e \in batch'[q] : outbox'[e] = "unpublished"
        /\ \A q \in Relay \cap ended : batch'[q] = {}
    BY <1>1, <1>2 DEF IInv, TypeOK
  <2> QED
    BY <1>1, <1>2, <1>3, <2>1 DEF IInv, TypeOK, Entry
<1>5. \A e : Covered(e)' <=> Covered(e)
  BY <1>1 DEF Covered, Unacked
<1>6. SentIsCovered'
  BY <1>1, <1>2, <1>5 DEF IInv, SentIsCovered
<1>7. AckIsHandled'
  BY <1>1 DEF IInv, AckIsHandled
<1>8. BatchesDisjoint'
  BY <1>2 DEF IInv, BatchesDisjoint
<1>9. EntriesAreAccounted' /\ PublishedOnceUnlessFailed'
  BY <1>3 DEF EntriesAreAccounted, PublishedOnceUnlessFailed
<1> QED
  BY <1>4, <1>6, <1>7, <1>8, <1>9 DEF IInv

\* XADD: the new entry is unread, and what the trimming takes unread or pending is lost.
LEMMA PublishInv ==
    ASSUME IInv, NEW r \in Relay, publish_many(r)
    PROVE  IInv'
<1>e. PICK e : e = Min(batch[r] \ sent[r])
  OBVIOUS
<1>n. PICK n : n = Len(log) + 1
  OBVIOUS
<1> DEFINE over == Cardinality(live) + 1 - MaxLen
<1> USE DEF workerVars, boundVars
<1>1. /\ batch[r] \ sent[r] # {}
      /\ log' = Append(log, e)
      /\ sent' = [sent EXCEPT ![r] = @ \cup {e}]
      /\ UNCHANGED <<outbox, batch, delivered, pel, stale, group, workerVars, ended, boundVars>>
  BY <1>e DEF publish_many
<1>2. PICK k \in 0..(IF over > 0 THEN over ELSE 0) :
        LET trimmed == Lowest(live, k) IN
        /\ live' = (live \cup {n}) \ trimmed
        /\ lost' = lost \cup {log[i] : i \in {j \in trimmed : Unacked(j)}}
  BY <1>n DEF publish_many
<1> DEFINE trimmed == Lowest(live, k)
<1>3. trimmed \subseteq live
  BY LowestSubset
<1>4. e \in batch[r] /\ e \notin sent[r] /\ e \in Event /\ outbox[e] = "unpublished"
  <2>1. batch[r] \ sent[r] \in SUBSET Nat
    BY Basics DEF IInv, TypeOK
  <2>2. e \in batch[r] \ sent[r]
    BY <1>1, <1>e, <2>1, MinMember
  <2> QED
    BY <2>2 DEF IInv, TypeOK
<1>5. Len(log) \in Nat /\ n \in Nat /\ n \notin Entry
  BY <1>n, Basics DEF IInv, Entry
<1>6. /\ log' \in Seq(Event) /\ Len(log') = n /\ log'[n] = e
      /\ \A i \in Entry : log'[i] = log[i]
      /\ Entry' = Entry \cup {n}
  <2>1. log \in Seq(Event)
    BY DEF IInv, TypeOK
  <2> QED
    BY <1>n, <1>1, <1>4, <1>5, <2>1, AppendProperties DEF Entry
<1> HIDE DEF over, trimmed
<1>7. /\ live' = (live \cup {n}) \ trimmed
      /\ lost' = lost \cup {log[i] : i \in {j \in trimmed : Unacked(j)}}
      /\ live \subseteq Entry /\ trimmed \subseteq Entry
  BY <1>2, <1>3 DEF trimmed, IInv, TypeOK
<1>8. /\ sent' \in [Relay -> SUBSET Event]
      /\ sent'[r] = sent[r] \cup {e} /\ \A q \in Relay \ {r} : sent'[q] = sent[q]
  BY <1>1, <1>4 DEF IInv, TypeOK
<1>9. TypeOK'
  <2>1. \A i \in Entry : log[i] \in Event
    BY Basics DEF IInv
  <2>2. lost' \subseteq Event
    BY <1>7, <2>1 DEF IInv, TypeOK
  <2>3. live' \subseteq Entry'
    BY <1>6, <1>7
  <2>4. \A q \in Relay : sent'[q] \subseteq batch'[q]
    BY <1>1, <1>4, <1>8 DEF IInv, TypeOK
  <2>5. delivered' \in 0..Len(log')
    BY <1>n, <1>1, <1>5, <1>6 DEF IInv, TypeOK
  <2>6. pel' \subseteq Entry' /\ inbox' \in [Worker -> SUBSET Entry']
    BY <1>1, <1>6 DEF IInv, TypeOK
  <2>7. /\ UNCHANGED <<outbox, batch, pel, stale, group, at, inbox, ended, handled, failures, outages>>
        /\ log' \in Seq(Event)
    BY <1>1, <1>6
  <2> QED
    BY <1>8, <2>2, <2>3, <2>4, <2>5, <2>6, <2>7 DEF IInv, TypeOK
<1>10. ASSUME NEW f, Covered(f) PROVE Covered(f)'
  <2>1. CASE f \in handled \/ f \in lost
    BY <1>1, <1>7, <2>1 DEF Covered
  <2>2. ASSUME NEW i \in live, log[i] = f, Unacked(i) PROVE Covered(f)'
    <3>1. CASE i \in trimmed
      BY <1>7, <2>2, <3>1 DEF Covered
    <3>2. CASE i \notin trimmed
      <4>1. i \in live' /\ log'[i] = f
        BY <1>6, <1>7, <2>2, <3>2
      <4>2. Unacked(i)'
        BY <1>1, <2>2, <4>1 DEF Unacked
      <4> QED
        BY <4>1, <4>2 DEF Covered
    <3> QED
      BY <3>1, <3>2
  <2> QED
    BY <1>10, <2>1, <2>2 DEF Covered
<1>11. Covered(e)'
  <2>1. n \in live' /\ log'[n] = e
    BY <1>5, <1>6, <1>7
  <2>2. n > delivered'
    BY <1>n, <1>1, <1>5 DEF IInv, TypeOK
  <2>3. Unacked(n)'
    BY <2>1, <2>2 DEF Unacked
  <2> QED
    BY <2>1, <2>3 DEF Covered
<1>12. SentIsCovered'
  BY <1>1, <1>8, <1>10, <1>11 DEF IInv, SentIsCovered
<1>13. AckIsHandled'
  <2> SUFFICES ASSUME NEW w \in Worker, at[w] = "ack" PROVE log'[Min(inbox[w])] \in handled
    BY <1>1 DEF AckIsHandled
  <2>1. Min(inbox[w]) \in Entry
    BY InHand DEF IInv, TypeOK
  <2> QED
    BY <1>6, <2>1 DEF IInv, AckIsHandled
<1>14. BatchesDisjoint'
  BY <1>1 DEF IInv, BatchesDisjoint
<1>15. EntriesAreAccounted'
  <2> SUFFICES ASSUME failures = 0, NEW i \in Entry'
               PROVE  outbox[log'[i]] = "published" \/ \E q \in Relay : log'[i] \in sent'[q]
    BY <1>1 DEF EntriesAreAccounted
  <2>1. CASE i \in Entry
    BY <1>6, <1>8, <2>1 DEF IInv, EntriesAreAccounted
  <2>2. CASE i = n
    BY <1>6, <1>8, <2>2
  <2> QED
    BY <1>6, <2>1, <2>2
<1>16. PublishedOnceUnlessFailed'
  <2> SUFFICES ASSUME failures = 0 PROVE \A i, j \in Entry' : log'[i] = log'[j] => i = j
    BY <1>1 DEF PublishedOnceUnlessFailed
  <2>1. \A i \in Entry : log[i] # e
    <3> SUFFICES ASSUME NEW i \in Entry, log[i] = e PROVE FALSE
      OBVIOUS
    <3>1. PICK q \in Relay : e \in sent[q]
      BY <1>4 DEF IInv, EntriesAreAccounted
    <3>2. e \in batch[q] /\ q # r
      BY <1>4, <3>1 DEF IInv, TypeOK
    <3> QED
      BY <1>4, <3>2 DEF IInv, BatchesDisjoint
  <2> QED
    BY <1>6, <2>1 DEF IInv, PublishedOnceUnlessFailed
<1> QED
  BY <1>9, <1>12, <1>13, <1>14, <1>15, <1>16 DEF IInv

-----------------------------------------------------------------------------
(***************************************************************************)
(* Workers and Redis: the relays do not move and nothing is added.         *)
(***************************************************************************)
LEMMA WorkerSide ==
    ASSUME IInv, UNCHANGED <<outbox, batch, sent, log>>,
           failures' = 0 => failures = 0,
           TypeOK', AckIsHandled',
           \A e : Covered(e) => Covered(e)'
    PROVE  IInv'
<1>1. SentIsCovered'
  BY DEF IInv, SentIsCovered
<1>2. BatchesDisjoint' /\ EntriesAreAccounted' /\ PublishedOnceUnlessFailed'
  BY DEF IInv, BatchesDisjoint, EntriesAreAccounted, PublishedOnceUnlessFailed, Entry
<1> QED
  BY <1>1, <1>2 DEF IInv

\* Steps that leave the entries of Redis alone, and move one worker to a place
\* other than "ack".
LEMMA LoopInv ==
    ASSUME IInv, NEW w \in Worker \ ended, NEW place \in {"group", "claim", "read"},
           NEW hold \in SUBSET Entry,
           at' = [at EXCEPT ![w] = place],
           inbox' = [inbox EXCEPT ![w] = hold],
           UNCHANGED <<relayVars, log, live, handled, ended, lost, outages>>,
           failures' \in 0..MaxFailures, failures' = 0 => failures = 0,
           group' \in BOOLEAN,
           delivered' \in 0..delivered, pel' \subseteq pel, stale' \subseteq stale \cap pel',
           \A i \in live : i \in pel => i \in pel'
    PROVE  IInv'
<1> USE DEF relayVars
<1>1. /\ at'[w] = place /\ inbox'[w] = hold
      /\ \A v \in Worker \ {w} : at'[v] = at[v] /\ inbox'[v] = inbox[v]
      /\ at' \in [Worker -> {"group", "claim", "read", "process", "ack"}]
      /\ inbox' \in [Worker -> SUBSET Entry]
  BY DEF IInv, TypeOK
<1>2. delivered \in Nat /\ delivered' \in 0..Len(log) /\ delivered' <= delivered
  BY Basics DEF IInv, TypeOK
<1>3. TypeOK'
  <2>1. \A v \in Worker : at'[v] \in {"process", "ack"} => inbox'[v] # {}
    BY <1>1 DEF IInv, TypeOK
  <2>2. Entry' = Entry
    BY DEF Entry
  <2>3. \A v \in Worker \cap ended : inbox'[v] = {}
    BY <1>1 DEF IInv, TypeOK
  <2> QED
    BY <1>1, <1>2, <2>1, <2>2, <2>3 DEF IInv, TypeOK
<1>4. ASSUME NEW e, Covered(e) PROVE Covered(e)'
  <2>1. ASSUME NEW i \in live, Unacked(i) PROVE Unacked(i)'
    <3>1. i \in Nat
      BY Basics DEF IInv
    <3> QED
      BY <1>2, <2>1, <3>1 DEF Unacked
  <2> QED
    BY <1>4, <2>1 DEF Covered
<1>5. AckIsHandled'
  BY <1>1 DEF IInv, AckIsHandled
<1> QED
  BY <1>3, <1>4, <1>5, WorkerSide

LEMMA GroupInv ==
    ASSUME IInv, NEW w \in Worker \ ended,
           \/ nogroup(w) \/ ensure_group(w) \/ claim_not_due(w)
           \/ claim_stale(w) \/ WorkerFail(w)
    PROVE  IInv'
<1> USE DEF relayVars, redisVars, boundVars
<1>1. /\ delivered \in 0..Len(log) /\ delivered \in 0..delivered
      /\ failures \in 0..MaxFailures /\ failures + 1 # 0 /\ failures \in Nat
      /\ 0 \in 0..delivered
      /\ (failures < MaxFailures => failures + 1 \in 0..MaxFailures)
  BY Basics, SizesAssumption DEF IInv, TypeOK
<1>2. inbox = [inbox EXCEPT ![w] = inbox[w]] /\ inbox[w] \in SUBSET Entry
  BY DEF IInv, TypeOK
<1>3. group \in BOOLEAN /\ stale \subseteq pel /\ live \subseteq Entry
  BY DEF IInv, TypeOK
<1>4. CASE nogroup(w)
  BY <1>1, <1>3, <1>4, LoopInv DEF nogroup
<1>5. CASE ensure_group(w)
  BY <1>1, <1>2, <1>3, <1>5, LoopInv DEF ensure_group, CreateGroup
<1>6. CASE claim_not_due(w)
  BY <1>1, <1>2, <1>3, <1>6, LoopInv DEF claim_not_due
<1>7. CASE claim_stale(w)
  <2>1. PICK claimed : claimed = Lowest(stale \cap live, StreamBatch)
    OBVIOUS
  <2>2. claimed \subseteq stale \cap live
    BY <2>1, LowestSubset
  <2>3. claimed \in SUBSET Entry
    BY <1>3, <2>2
  <2>4. /\ inbox' = [inbox EXCEPT ![w] = claimed]
        /\ pel' = pel \ (stale \ live)
        /\ stale' = stale \ ((stale \ live) \cup claimed)
        /\ at' = [at EXCEPT ![w] = "read"]
        /\ UNCHANGED <<relayVars, log, live, delivered, group, handled, ended, lost, boundVars>>
    BY <1>7, <2>1 DEF claim_stale
  <2>5. /\ pel' \subseteq pel /\ stale' \subseteq stale \cap pel'
        /\ \A i \in live : i \in pel => i \in pel'
    BY <1>3, <2>4
  <2> QED
    BY <1>1, <1>3, <2>3, <2>4, <2>5, LoopInv
<1>8. CASE WorkerFail(w)
  <2>1. at' = [at EXCEPT ![w] = "claim"]
    BY <1>8 DEF WorkerFail
  <2>2. /\ inbox' = [inbox EXCEPT ![w] = {}]
        /\ failures' \in 0..MaxFailures /\ failures' # 0
        /\ UNCHANGED <<relayVars, redisVars, handled, ended, lost, outages>>
    BY <1>1, <1>8 DEF WorkerFail
  <2> QED
    BY <1>1, <1>3, <2>1, <2>2, LoopInv
<1> QED
  BY <1>4, <1>5, <1>6, <1>7, <1>8

\* XREADGROUP: what lies at or below the new cursor is pending.
LEMMA ReadInv ==
    ASSUME IInv, NEW w \in Worker \ ended, read(w)
    PROVE  IInv'
<1> USE DEF relayVars, boundVars
<1>1. PICK new : new = Unread
  OBVIOUS
<1> DEFINE above == {i \in live : i > delivered}
<1>2. /\ inbox' = [inbox EXCEPT ![w] = @ \cup new]
      /\ pel' = pel \cup new
      /\ delivered' = IF new = {} THEN delivered ELSE Max(new)
      /\ at' = [at EXCEPT ![w] = IF inbox'[w] = {} THEN "claim" ELSE "process"]
      /\ UNCHANGED <<relayVars, log, live, stale, group, handled, ended, lost, boundVars>>
  BY <1>1 DEF read
<1>3. above \in SUBSET Nat /\ IsFiniteSet(above) /\ above \subseteq live
  BY Basics, FS_Subset DEF IInv
<1>4. new = Lowest(above, StreamBatch) /\ StreamBatch \in Nat
  BY <1>1, SizesAssumption DEF Unread
<1>5. new \subseteq above
  <2> HIDE DEF above
  <2> QED
    BY <1>4, LowestSubset
<1>6. new \subseteq live /\ new \in SUBSET (1..Len(log)) /\ Len(log) \in Nat
  BY <1>5, Basics DEF IInv, TypeOK, Entry
<1>7. new # {} => Max(new) \in new /\ \A i \in new : i <= Max(new)
  BY <1>6, MaxMember
<1>8. delivered \in 0..Len(log) /\ delivered' \in 0..Len(log)
  BY <1>2, <1>6, <1>7 DEF IInv, TypeOK
<1>9. \A i \in live : i > delivered => i > delivered' \/ i \in new
  <2> SUFFICES ASSUME NEW i \in live, i > delivered, ~(i > delivered') PROVE i \in new
    OBVIOUS
  <2>1. new # {}
    BY <1>2
  <2>2. delivered' = Max(new) /\ Max(new) \in new
    BY <1>2, <1>7, <2>1
  <2>3. i \in Nat /\ Max(new) \in Nat
    BY <1>6, <2>2, Basics DEF IInv
  <2>4. i = Max(new) \/ i < Max(new)
    BY <2>2, <2>3
  <2>5. CASE i < Max(new)
    <3>1. i \in above
      OBVIOUS
    <3> HIDE DEF above
    <3> QED
      BY <1>3, <1>4, <2>2, <2>5, <3>1, LowestDownward
  <2> QED
    BY <2>2, <2>4, <2>5
<1>10. /\ inbox' \in [Worker -> SUBSET Entry]
       /\ \A v \in Worker \ {w} : at'[v] = at[v] /\ inbox'[v] = inbox[v]
       /\ at'[w] \in {"claim", "process"} /\ (at'[w] = "process" => inbox'[w] # {})
       /\ at' \in [Worker -> {"group", "claim", "read", "process", "ack"}]
  <2>1. /\ inbox \in [Worker -> SUBSET Entry] /\ new \in SUBSET Entry
        /\ at \in [Worker -> {"group", "claim", "read", "process", "ack"}]
    BY <1>6 DEF IInv, TypeOK, Entry
  <2> QED
    BY <1>2, <2>1
<1>11. TypeOK'
  <2>1. \A v \in Worker : at'[v] \in {"process", "ack"} => inbox'[v] # {}
    BY <1>10 DEF IInv, TypeOK
  <2>2. pel' \subseteq Entry /\ stale' \subseteq pel' /\ Entry' = Entry
    BY <1>2, <1>6 DEF IInv, TypeOK, Entry
  <2>3. \A v \in Worker \cap ended : inbox'[v] = {}
    BY <1>10 DEF IInv, TypeOK
  <2> QED
    BY <1>2, <1>8, <1>10, <2>1, <2>2, <2>3 DEF IInv, TypeOK
<1>12. AckIsHandled'
  BY <1>2, <1>10 DEF IInv, AckIsHandled
<1>13. ASSUME NEW e, Covered(e) PROVE Covered(e)'
  <2>1. \A i \in live : Unacked(i) => Unacked(i)'
    BY <1>2, <1>9 DEF Unacked
  <2> QED
    BY <1>2, <1>13, <2>1 DEF Covered
<1> QED
  BY <1>2, <1>11, <1>12, <1>13, WorkerSide

LEMMA ProcessInv ==
    ASSUME IInv, NEW w \in Worker \ ended, process(w)
    PROVE  IInv'
<1> USE DEF relayVars, redisVars, boundVars
<1>1. PICK i : i = Min(inbox[w])
  OBVIOUS
<1>2. /\ at[w] = "process"
      /\ handled' = handled \cup {log[i]}
      /\ at' = [at EXCEPT ![w] = "ack"]
      /\ UNCHANGED <<relayVars, redisVars, inbox, ended, lost, boundVars>>
  BY <1>1 DEF process
<1>3. i \in Entry /\ log[i] \in Event /\ inbox[w] # {}
  BY <1>1, <1>2, InHand, Basics DEF IInv, TypeOK
<1>4. at'[w] = "ack" /\ \A v \in Worker \ {w} : at'[v] = at[v]
  BY <1>2 DEF IInv, TypeOK
<1>5. TypeOK'
  <2>1. \A v \in Worker : at'[v] \in {"process", "ack"} => inbox'[v] # {}
    BY <1>2, <1>3, <1>4 DEF IInv, TypeOK
  <2>2. at' \in [Worker -> {"group", "claim", "read", "process", "ack"}]
    BY <1>2 DEF IInv, TypeOK
  <2> QED
    BY <1>2, <1>3, <2>1, <2>2 DEF IInv, TypeOK, Entry
<1>6. AckIsHandled'
  BY <1>1, <1>2, <1>4 DEF IInv, AckIsHandled
<1>7. \A e : Covered(e) => Covered(e)'
  BY <1>2 DEF Covered, Unacked
<1> QED
  BY <1>2, <1>5, <1>6, <1>7, WorkerSide

LEMMA AckInv ==
    ASSUME IInv, NEW w \in Worker \ ended, ack(w)
    PROVE  IInv'
<1> USE DEF relayVars, boundVars
<1>1. PICK i : i = Min(inbox[w])
  OBVIOUS
<1>2. /\ at[w] = "ack"
      /\ pel' = pel \ {i} /\ stale' = stale \ {i}
      /\ inbox' = [inbox EXCEPT ![w] = @ \ {i}]
      /\ at' = [at EXCEPT ![w] = IF inbox'[w] = {} THEN "claim" ELSE "process"]
      /\ UNCHANGED <<relayVars, log, live, delivered, group, handled, ended, lost, boundVars>>
  BY <1>1 DEF ack
<1>3. log[i] \in handled
  BY <1>1, <1>2 DEF IInv, AckIsHandled
<1>4. /\ at'[w] \in {"claim", "process"} /\ (at'[w] = "process" => inbox'[w] # {})
      /\ \A v \in Worker \ {w} : at'[v] = at[v] /\ inbox'[v] = inbox[v]
      /\ inbox' \in [Worker -> SUBSET Entry]
      /\ at' \in [Worker -> {"group", "claim", "read", "process", "ack"}]
  BY <1>2 DEF IInv, TypeOK
<1>5. TypeOK'
  <2>1. \A v \in Worker : at'[v] \in {"process", "ack"} => inbox'[v] # {}
    BY <1>4 DEF IInv, TypeOK
  <2>2. \A v \in Worker \cap ended : inbox'[v] = {}
    BY <1>4 DEF IInv, TypeOK
  <2> QED
    BY <1>2, <1>4, <2>1, <2>2 DEF IInv, TypeOK, Entry
<1>6. AckIsHandled'
  BY <1>2, <1>4 DEF IInv, AckIsHandled
<1>7. ASSUME NEW e, Covered(e) PROVE Covered(e)'
  <2>1. CASE e \in handled \/ e \in lost
    BY <1>2, <2>1 DEF Covered
  <2>2. ASSUME NEW j \in live, log[j] = e, Unacked(j), e \notin handled PROVE Covered(e)'
    BY <1>2, <1>3, <2>2 DEF Covered, Unacked
  <2> QED
    BY <1>7, <2>1, <2>2 DEF Covered
<1> QED
  BY <1>2, <1>5, <1>6, <1>7, WorkerSide

LEMMA IdleInv ==
    ASSUME IInv, NEW i \in Entry, Idle(i)
    PROVE  IInv'
<1> USE DEF relayVars, workerVars, boundVars, Idle
<1>1. TypeOK'
  BY DEF IInv, TypeOK, Entry
<1>2. AckIsHandled'
  BY DEF IInv, AckIsHandled
<1>3. \A e : Covered(e) => Covered(e)'
  BY DEF Covered, Unacked
<1> QED
  BY <1>1, <1>2, <1>3, WorkerSide

LEMMA OutageInv ==
    ASSUME IInv, RedisOutage
    PROVE  IInv'
<1> USE DEF relayVars, workerVars
<1>1. /\ outages < MaxOutages /\ outages' = outages + 1
      /\ lost' = lost \cup {log[i] : i \in {j \in Entry : Unacked(j)}}
      /\ live' = {} /\ delivered' = 0 /\ pel' = {} /\ stale' = {} /\ group' = FALSE
      /\ UNCHANGED <<relayVars, log, workerVars, ended, failures>>
  BY DEF RedisOutage
<1>2. TypeOK'
  <2>1. outages' \in 0..MaxOutages
    BY <1>1, SizesAssumption DEF IInv, TypeOK
  <2>2. lost' \subseteq Event
    BY <1>1, Basics DEF IInv, TypeOK
  <2>3. delivered' \in 0..Len(log')
    BY <1>1, Basics DEF IInv
  <2> QED
    BY <1>1, <2>1, <2>2, <2>3 DEF IInv, TypeOK, Entry
<1>3. AckIsHandled'
  BY <1>1 DEF IInv, AckIsHandled
<1>4. \A e : Covered(e) => Covered(e)'
  BY <1>1 DEF Covered, IInv, TypeOK
<1> QED
  BY <1>1, <1>2, <1>3, <1>4, WorkerSide

LEMMA StutterInv ==
    ASSUME IInv, UNCHANGED vars
    PROVE  IInv'
<1> USE DEF vars, relayVars, redisVars, workerVars, boundVars
<1>1. TypeOK'
  BY DEF IInv, TypeOK, Entry
<1>2. AckIsHandled'
  BY DEF IInv, AckIsHandled
<1>3. \A e : Covered(e) => Covered(e)'
  BY DEF Covered, Unacked
<1> QED
  BY <1>1, <1>2, <1>3, WorkerSide

\* Whatever ends, alone or with its process, takes nothing of the stream with it.
LEMMA EndInv ==
    ASSUME IInv, NEW S \in SUBSET (Relay \cup Worker), End(S),
           UNCHANGED <<log, live, pel, stale>>,
           group' \in BOOLEAN, delivered' \in 0..delivered
    PROVE  IInv'
<1>1. /\ failures' \in 0..MaxFailures /\ failures' # 0
      /\ ended' = ended \cup S
      /\ UNCHANGED <<outbox, handled, lost, outages>>
  BY SizesAssumption DEF End, IInv, TypeOK
<1>2. /\ batch' \in [Relay -> SUBSET Event] /\ sent' \in [Relay -> SUBSET Event]
      /\ \A r \in Relay : batch'[r] = (IF r \in S THEN {} ELSE batch[r])
      /\ \A r \in Relay : sent'[r] = (IF r \in S THEN {} ELSE sent[r])
  BY DEF End, IInv, TypeOK
<1>3. /\ at' \in [Worker -> {"group", "claim", "read", "process", "ack"}]
      /\ inbox' \in [Worker -> SUBSET Entry]
      /\ \A w \in Worker : at'[w] = (IF w \in S THEN "group" ELSE at[w])
      /\ \A w \in Worker : inbox'[w] = (IF w \in S THEN {} ELSE inbox[w])
  BY DEF End, IInv, TypeOK
<1>4. delivered \in Nat /\ delivered' \in 0..Len(log) /\ delivered' <= delivered
  BY Basics DEF IInv, TypeOK
<1>5. TypeOK'
  <2>1. /\ \A r \in Relay : sent'[r] \subseteq batch'[r]
        /\ \A r \in Relay : \A e \in batch'[r] : outbox'[e] = "unpublished"
        /\ \A r \in Relay \cap ended' : batch'[r] = {}
    BY <1>1, <1>2 DEF IInv, TypeOK
  <2>2. /\ \A w \in Worker : at'[w] \in {"process", "ack"} => inbox'[w] # {}
        /\ \A w \in Worker \cap ended' : inbox'[w] = {}
    BY <1>1, <1>3 DEF IInv, TypeOK
  <2>3. ended' \subseteq Relay \cup Worker /\ Entry' = Entry
    BY <1>1 DEF IInv, TypeOK, Entry
  <2> QED
    BY <1>1, <1>2, <1>3, <1>4, <2>1, <2>2, <2>3 DEF IInv, TypeOK
<1>6. ASSUME NEW e, Covered(e) PROVE Covered(e)'
  <2>1. ASSUME NEW i \in live, Unacked(i) PROVE Unacked(i)'
    <3>1. i \in Nat
      BY Basics DEF IInv
    <3> QED
      BY <1>4, <2>1, <3>1 DEF Unacked
  <2> QED
    BY <1>1, <1>6, <2>1 DEF Covered
<1>7. SentIsCovered'
  BY <1>1, <1>2, <1>6 DEF IInv, SentIsCovered
<1>8. AckIsHandled'
  BY <1>1, <1>3 DEF IInv, AckIsHandled
<1>9. BatchesDisjoint'
  BY <1>2 DEF IInv, BatchesDisjoint
<1>10. EntriesAreAccounted' /\ PublishedOnceUnlessFailed'
  BY <1>1 DEF EntriesAreAccounted, PublishedOnceUnlessFailed
<1> QED
  BY <1>5, <1>7, <1>8, <1>9, <1>10 DEF IInv

LEMMA ProcessesInv ==
    ASSUME IInv,
           \/ \E w \in Worker \ ended : ensure_group_raises(w)
           \/ \E P \in Process : Crash(P)
    PROVE  IInv'
<1>1. /\ group \in BOOLEAN /\ delivered \in 0..delivered /\ 0 \in 0..delivered
      /\ Container \in SUBSET (Relay \cup Worker)
      /\ \A P \in Process : P \in SUBSET (Relay \cup Worker)
  BY Basics, ContainerAssumption DEF IInv, TypeOK, Process, Embedded
<1>2. ASSUME NEW w \in Worker \ ended, ensure_group_raises(w) PROVE IInv'
  <2>1. PICK S \in SUBSET (Relay \cup Worker) : End(S)
    <3>1. (IF w \in Container THEN Container ELSE {w}) \in SUBSET (Relay \cup Worker)
      BY <1>1
    <3> QED
      BY <1>2, <3>1 DEF ensure_group_raises
  <2>2. CreateGroup \/ UNCHANGED redisVars
    BY <1>2 DEF ensure_group_raises
  <2>3. /\ UNCHANGED <<log, live, pel, stale>>
        /\ group' \in BOOLEAN /\ delivered' \in 0..delivered
    BY <1>1, <2>2 DEF CreateGroup, redisVars
  <2> QED
    BY <2>1, <2>3, EndInv
<1>3. ASSUME NEW P \in Process, Crash(P) PROVE IInv'
  <2>1. End(P) /\ UNCHANGED <<log, live, pel, stale, group, delivered>>
    BY <1>3 DEF Crash, redisVars
  <2> QED
    BY <1>1, <2>1, EndInv
<1> QED
  BY <1>2, <1>3

LEMMA RestartInv ==
    ASSUME IInv, NEW P \in Process, Restart(P)
    PROVE  IInv'
<1> USE DEF Restart, relayVars, redisVars, workerVars, boundVars
<1>1. TypeOK'
  BY DEF IInv, TypeOK, Entry
<1>2. AckIsHandled'
  BY DEF IInv, AckIsHandled
<1>3. \A e : Covered(e) => Covered(e)'
  BY DEF Covered, Unacked
<1> QED
  BY <1>1, <1>2, <1>3, WorkerSide

-----------------------------------------------------------------------------
(***************************************************************************)
(* Every step of drain_once, of MatcherWorker.run and of Redis, and every  *)
(* end and restart of a loop or a process, keeps the invariant.            *)
(***************************************************************************)
THEOREM Invariance == Spec => []IInv
<1>1. IInv /\ [Next]_vars => IInv'
  <2> SUFFICES ASSUME IInv, [Next]_vars PROVE IInv'
    OBVIOUS
  <2>1. CASE \E e \in Event : Commit(e)
    BY <2>1, CommitInv
  <2>2. CASE \E r \in Relay : RelayStep(r) \/ RelayFail(r)
    BY <2>2, ClaimInv, PublishInv, DrainCommitInv, RelayFailInv DEF RelayStep
  <2>3. ASSUME NEW w \in Worker, WorkerStep(w) \/ WorkerFail(w) PROVE IInv'
    <3>1. w \notin ended
      BY <2>3 DEF WorkerStep, WorkerFail, IInv, TypeOK
    <3> QED
      BY <2>3, <3>1, GroupInv, ReadInv, ProcessInv, AckInv DEF WorkerStep
  <2>4. CASE \E w \in Worker \ ended : ensure_group_raises(w)
    BY <2>4, ProcessesInv
  <2>5. CASE \E P \in Process : Crash(P) \/ Restart(P)
    BY <2>5, ProcessesInv, RestartInv
  <2>6. CASE \E i \in Entry : Idle(i)
    BY <2>6, IdleInv
  <2>7. CASE RedisOutage
    BY <2>7, OutageInv
  <2>8. CASE UNCHANGED vars
    BY <2>8, StutterInv
  <2> QED
    BY <2>1, <2>2, <2>3, <2>4, <2>5, <2>6, <2>7, <2>8 DEF Next
<1> QED
  BY <1>1, InitInv, PTL DEF Spec

(***************************************************************************)
(* Every variable of the transport keeps its type; in particular a relay   *)
(* only ever holds unpublished rows and a worker at work has an entry.     *)
(***************************************************************************)
THEOREM TypeCorrect == Spec => []TypeOK
<1>1. IInv => TypeOK
  BY DEF IInv
<1> QED
  BY <1>1, Invariance, PTL

(***************************************************************************)
(* publish, mark, read, claim, commit, ack: wherever relays and workers    *)
(* are cut off, a published event was processed, or dropped by Redis, or   *)
(* still has an unread or pending entry.                                   *)
(***************************************************************************)
THEOREM NothingSlipsThroughHolds == Spec => []NothingSlipsThrough
<1>1. IInv => NothingSlipsThrough
  BY DEF IInv, SentIsCovered, Covered, NothingSlipsThrough
<1> QED
  BY <1>1, Invariance, PTL

(***************************************************************************)
(* FOR UPDATE SKIP LOCKED lets any number of relays drain one outbox: as   *)
(* long as none has failed, no event is on the stream twice.               *)
(***************************************************************************)
THEOREM PublishedOnceUnlessFailedHolds == Spec => []PublishedOnceUnlessFailed
<1>1. IInv => PublishedOnceUnlessFailed
  BY DEF IInv
<1> QED
  BY <1>1, Invariance, PTL

=============================================================================
