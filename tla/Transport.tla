------------------------------ MODULE Transport ------------------------------
(***************************************************************************)
(* From committed outbox row to acknowledged stream entry: the outbox, the *)
(* relays (queue/relay.py), the Redis stream with its consumer group       *)
(* (queue/streams.py) and the read-process-ack loop of the matcher workers *)
(* (worker/loop.py).  What a worker does with a message is one step here,  *)
(* process: the database transaction commits, or it fails.                 *)
(*                                                                         *)
(* Stream entries are numbered in the order they were added and never      *)
(* renumbered: log[i] is the event of entry i, live are the entries Redis  *)
(* still holds.  XACK and XAUTOCLAIM ignore who owns an entry, so the      *)
(* pending entries list has no owners.                                     *)
(*                                                                         *)
(* The loops run in two processes: the worker container (worker/main.py),  *)
(* which goes down as a whole when one of its loops fails, and the API     *)
(* with an embedded worker (worker/embedded.py), where the loop that fails *)
(* ends and the others go on.                                              *)
(***************************************************************************)
EXTENDS Naturals, Sequences, FiniteSets, FiniteSetsExt

CONSTANTS
    N,              \* outbox rows 1..N, numbered by their id
    Relay, Worker,
    Container,      \* the relays and workers of the worker container
    OutboxBatch,    \* outbox_batch_size
    StreamBatch,    \* stream_batch_size
    MaxLen,         \* stream_maxlen
    MaxFailures,    \* bound: failed or crashed iterations of relays and workers
    MaxOutages      \* bound: times Redis comes back empty

ASSUME SizesAssumption ==
    /\ N \in Nat
    /\ OutboxBatch \in Nat \ {0}
    /\ StreamBatch \in Nat \ {0}
    /\ MaxLen \in Nat \ {0}
    /\ MaxFailures \in Nat
    /\ MaxOutages \in Nat

ASSUME ContainerAssumption == Container \subseteq Relay \cup Worker

Event == 1..N

VARIABLES
    outbox,      \* per event: absent, unpublished or published
    batch,       \* per relay: the outbox rows it has locked
    sent,        \* per relay: those of them already added to the stream
    log, live, delivered, pel, stale, group,      \* Redis
    at,          \* per worker: where its loop is
    inbox,       \* per worker: entries it holds and has not acknowledged
    ended,       \* relays and workers whose task has ended
    handled,     \* history: events whose processing committed
    lost,        \* history: events Redis dropped before they were acknowledged
    failures, outages

relayVars  == <<outbox, batch, sent>>
redisVars  == <<log, live, delivered, pel, stale, group>>
workerVars == <<at, inbox, handled>>
boundVars  == <<failures, outages>>
vars == <<relayVars, redisVars, workerVars, ended, lost, boundVars>>

Entry == 1..Len(log)

Init ==
    /\ outbox = [e \in Event |-> "absent"]
    /\ batch = [r \in Relay |-> {}]
    /\ sent = [r \in Relay |-> {}]
    /\ log = <<>>
    /\ live = {}
    /\ delivered = 0
    /\ pel = {}
    /\ stale = {}
    /\ group = FALSE
    /\ at = [w \in Worker |-> "group"]
    /\ inbox = [w \in Worker |-> {}]
    /\ ended = {}
    /\ handled = {}
    /\ lost = {}
    /\ failures = 0
    /\ outages = 0

Lowest(S, n) == {i \in S : Cardinality({j \in S : j < i}) < n}

(***************************************************************************)
(* Ingestion commits an outbox row.  Ids come from a sequence, so a row    *)
(* with a lower id may commit after one with a higher id.                  *)
(***************************************************************************)
Commit(e) ==
    /\ outbox[e] = "absent"
    /\ outbox' = [outbox EXCEPT ![e] = "unpublished"]
    /\ UNCHANGED <<batch, sent, redisVars, workerVars, ended, lost, boundVars>>

-----------------------------------------------------------------------------
(***************************************************************************)
(* OutboxRelay.drain_once: lock a batch, add it to the stream one command  *)
(* after the other (the pipeline is not a transaction), mark it published. *)
(***************************************************************************)
\* Defect variant: FOR UPDATE without SKIP LOCKED semantics, no exclusion at all.
Claimable_unlocked == {e \in Event : outbox[e] = "unpublished"}

Claimable == {e \in Event : outbox[e] = "unpublished" /\ \A r \in Relay : e \notin batch[r]}

drain_claim(r) ==
    /\ batch[r] = {}
    /\ Claimable # {}
    /\ batch' = [batch EXCEPT ![r] = Lowest(Claimable, OutboxBatch)]
    /\ sent' = [sent EXCEPT ![r] = {}]
    /\ UNCHANGED <<outbox, redisVars, workerVars, ended, lost, boundVars>>

\* An entry nobody acknowledged: not delivered to the group yet, or pending.
Unacked(i) == i \in live /\ (i > delivered \/ i \in pel)

\* XADD MAXLEN ~: entries beyond the cap may go, oldest first.
publish_many(r) ==
    LET e == Min(batch[r] \ sent[r])
        n == Len(log) + 1
        over == Cardinality(live) + 1 - MaxLen
    IN
    /\ batch[r] \ sent[r] # {}
    /\ log' = Append(log, e)
    /\ sent' = [sent EXCEPT ![r] = @ \cup {e}]
    /\ \E k \in 0..(IF over > 0 THEN over ELSE 0) :
        LET trimmed == Lowest(live, k) IN
        /\ live' = (live \cup {n}) \ trimmed
        /\ lost' = lost \cup {log[i] : i \in {j \in trimmed : Unacked(j)}}
    /\ UNCHANGED <<outbox, batch, delivered, pel, stale, group, workerVars, ended, boundVars>>

\* Defect variant: the row locks are not released with the commit.
drain_commit_locked(r) ==
    /\ batch[r] # {} /\ sent[r] = batch[r]
    /\ outbox' = [e \in Event |-> IF e \in batch[r] THEN "published" ELSE outbox[e]]
    /\ UNCHANGED <<batch, sent, redisVars, workerVars, ended, lost, boundVars>>

drain_commit(r) ==
    /\ batch[r] # {} /\ sent[r] = batch[r]
    /\ outbox' = [e \in Event |-> IF e \in batch[r] THEN "published" ELSE outbox[e]]
    /\ batch' = [batch EXCEPT ![r] = {}]
    /\ sent' = [sent EXCEPT ![r] = {}]
    /\ UNCHANGED <<redisVars, workerVars, ended, lost, boundVars>>

\* A failed command or a failed commit: the transaction rolls back and the rows
\* stay unpublished, but what was added to the stream stays there.
RelayFail(r) ==
    /\ failures < MaxFailures
    /\ batch[r] # {}
    /\ failures' = failures + 1
    /\ batch' = [batch EXCEPT ![r] = {}]
    /\ sent' = [sent EXCEPT ![r] = {}]
    /\ UNCHANGED <<outbox, redisVars, workerVars, ended, lost, outages>>

-----------------------------------------------------------------------------
(***************************************************************************)
(* MatcherWorker.run: claim what others abandoned, read what is new, then  *)
(* process and acknowledge one entry at a time.                            *)
(***************************************************************************)
\* XAUTOCLAIM and XREADGROUP answer NOGROUP when the group is gone: the iteration
\* ends and what it had claimed is dropped.
nogroup(w) ==
    /\ ~group
    /\ at[w] \in {"claim", "read"}
    /\ at' = [at EXCEPT ![w] = "group"]
    /\ inbox' = [inbox EXCEPT ![w] = {}]
    /\ UNCHANGED <<relayVars, redisVars, handled, ended, lost, boundVars>>

\* XGROUP CREATE ... 0 MKSTREAM.
CreateGroup ==
    /\ group' = TRUE
    /\ delivered' = IF group THEN delivered ELSE 0
    /\ UNCHANGED <<log, live, pel, stale>>

\* At start and after NOGROUP; BUSYGROUP, when a sibling was faster, is no error.
ensure_group(w) ==
    /\ at[w] = "group"
    /\ CreateGroup
    /\ at' = [at EXCEPT ![w] = "claim"]
    /\ UNCHANGED <<relayVars, inbox, handled, ended, lost, boundVars>>

\* _maybe_claim: most iterations find that claim_interval_s has not passed.
claim_not_due(w) ==
    /\ at[w] = "claim"
    /\ at' = [at EXCEPT ![w] = "read"]
    /\ UNCHANGED <<relayVars, redisVars, inbox, handled, ended, lost, boundVars>>

\* Defect variant: XAUTOCLAIM's answer is read at the wrong index.
claim_stale_nothing(w) ==
    /\ group
    /\ at[w] = "claim"
    /\ at' = [at EXCEPT ![w] = "read"]
    /\ UNCHANGED <<relayVars, redisVars, inbox, handled, ended, lost, boundVars>>

\* XAUTOCLAIM also drops pending entries that were trimmed from the stream.
claim_stale(w) ==
    LET claimed == Lowest(stale \cap live, StreamBatch) IN
    /\ group
    /\ at[w] = "claim"
    /\ inbox' = [inbox EXCEPT ![w] = claimed]
    /\ pel' = pel \ (stale \ live)
    /\ stale' = stale \ ((stale \ live) \cup claimed)
    /\ at' = [at EXCEPT ![w] = "read"]
    /\ UNCHANGED <<relayVars, log, live, delivered, group, handled, ended, lost, boundVars>>

\* XREADGROUP > : entries never delivered to the group.  Nothing to do: go round.
Unread == Lowest({i \in live : i > delivered}, StreamBatch)

\* Defect variant: XREADGROUP NOACK.
read_noack(w) ==
    /\ group
    /\ at[w] = "read"
    /\ inbox' = [inbox EXCEPT ![w] = @ \cup Unread]
    /\ delivered' = IF Unread = {} THEN delivered ELSE Max(Unread)
    /\ at' = [at EXCEPT ![w] = IF inbox'[w] = {} THEN "claim" ELSE "process"]
    /\ UNCHANGED <<relayVars, log, live, pel, stale, group, handled, ended, lost, boundVars>>

read(w) ==
    /\ group
    /\ at[w] = "read"
    /\ inbox' = [inbox EXCEPT ![w] = @ \cup Unread]
    /\ pel' = pel \cup Unread
    /\ delivered' = IF Unread = {} THEN delivered ELSE Max(Unread)
    /\ at' = [at EXCEPT ![w] = IF inbox'[w] = {} THEN "claim" ELSE "process"]
    /\ UNCHANGED <<relayVars, log, live, stale, group, handled, ended, lost, boundVars>>

\* Claimed entries come before new ones, so the list is walked in entry order.
\* At "ack" the first entry in hand is committed and not acknowledged yet.
process(w) ==
    /\ at[w] = "process"
    /\ handled' = handled \cup {log[Min(inbox[w])]}
    /\ at' = [at EXCEPT ![w] = "ack"]
    /\ UNCHANGED <<relayVars, redisVars, inbox, ended, lost, boundVars>>

ack(w) ==
    LET i == Min(inbox[w]) IN
    /\ at[w] = "ack"
    /\ pel' = pel \ {i}
    /\ stale' = stale \ {i}
    /\ inbox' = [inbox EXCEPT ![w] = @ \ {i}]
    /\ at' = [at EXCEPT ![w] = IF inbox'[w] = {} THEN "claim" ELSE "process"]
    /\ UNCHANGED <<relayVars, log, live, delivered, group, handled, ended, lost, boundVars>>

\* run catches an exception and goes round.  What is in hand is dropped and stays
\* pending in Redis.
WorkerFail(w) ==
    /\ failures < MaxFailures
    /\ inbox[w] # {}
    /\ failures' = failures + 1
    /\ at' = [at EXCEPT ![w] = "claim"]
    /\ inbox' = [inbox EXCEPT ![w] = {}]
    /\ UNCHANGED <<relayVars, redisVars, handled, ended, lost, outages>>

-----------------------------------------------------------------------------
(***************************************************************************)
(* How loops end and come back.                                            *)
(***************************************************************************)
Embedded == (Relay \cup Worker) \ Container

Process == {Container, Embedded} \ {{}}

\* The loops of S end: their transactions roll back, what they hold is dropped.
End(S) ==
    /\ failures < MaxFailures
    /\ failures' = failures + 1
    /\ ended' = ended \cup S
    /\ batch' = [r \in Relay |-> IF r \in S THEN {} ELSE batch[r]]
    /\ sent' = [r \in Relay |-> IF r \in S THEN {} ELSE sent[r]]
    /\ at' = [w \in Worker |-> IF w \in S THEN "group" ELSE at[w]]
    /\ inbox' = [w \in Worker |-> IF w \in S THEN {} ELSE inbox[w]]
    /\ UNCHANGED <<outbox, handled, lost, outages>>

\* Anything but BUSYGROUP, carried out or not, leaves run: it is called before the
\* loop and inside a handler.  In the container gather raises and its finally
\* clause cancels the siblings.
ensure_group_raises(w) ==
    /\ at[w] = "group"
    /\ End(IF w \in Container THEN Container ELSE {w})
    /\ CreateGroup \/ UNCHANGED redisVars

\* A process is killed or stopped.
Crash(P) ==
    /\ ~(P \subseteq ended)
    /\ End(P)
    /\ UNCHANGED redisVars

\* It is started again: by an operator or a platform, not by the code.
Restart(P) ==
    /\ P \subseteq ended
    /\ ended' = ended \ P
    /\ UNCHANGED <<relayVars, redisVars, workerVars, lost, boundVars>>

-----------------------------------------------------------------------------
(***************************************************************************)
(* Redis: an entry exceeds claim_min_idle_ms, whether its worker is dead   *)
(* or only slow; or Redis restarts without its data.                       *)
(***************************************************************************)
Idle(i) ==
    /\ i \in pel \ stale
    /\ stale' = stale \cup {i}
    /\ UNCHANGED <<relayVars, log, live, delivered, pel, group, workerVars, ended, lost, boundVars>>

RedisOutage ==
    /\ outages < MaxOutages
    /\ outages' = outages + 1
    /\ lost' = lost \cup {log[i] : i \in {j \in Entry : Unacked(j)}}
    /\ live' = {}
    /\ delivered' = 0
    /\ pel' = {}
    /\ stale' = {}
    /\ group' = FALSE
    /\ UNCHANGED <<relayVars, log, workerVars, ended, failures>>

-----------------------------------------------------------------------------
RelayStep(r) ==
    /\ r \notin ended
    /\ drain_claim(r) \/ publish_many(r) \/ drain_commit(r)

WorkerStep(w) ==
    /\ w \notin ended
    /\ \/ nogroup(w) \/ ensure_group(w)
       \/ claim_not_due(w) \/ claim_stale(w)
       \/ read(w) \/ process(w) \/ ack(w)

Next ==
    \/ \E e \in Event : Commit(e)
    \/ \E r \in Relay : RelayStep(r) \/ RelayFail(r)
    \/ \E w \in Worker : WorkerStep(w) \/ WorkerFail(w)
    \/ \E w \in Worker \ ended : ensure_group_raises(w)
    \/ \E P \in Process : Crash(P) \/ Restart(P)
    \/ \E i \in Entry : Idle(i)
    \/ RedisOutage

Spec == Init /\ [][Next]_vars

(***************************************************************************)
(* A loop that has not ended takes its next step, a worker that keeps      *)
(* looping finds again and again that a claim is due (this is what the     *)
(* strong fairness says), and time makes every entry that stays pending    *)
(* stale.  Nothing is assumed of Restart: docker-compose.yml gives the     *)
(* services no restart policy.                                             *)
(***************************************************************************)
Fairness ==
    /\ \A r \in Relay : WF_vars(RelayStep(r))
    /\ \A w \in Worker : WF_vars(WorkerStep(w)) /\ SF_vars(w \notin ended /\ claim_stale(w))
    /\ WF_vars(\E i \in Entry : Idle(i))

LiveSpec == Spec /\ Fairness

-----------------------------------------------------------------------------
(***************************************************************************)
(* Type invariant, with what the rows a relay has locked can be.           *)
(***************************************************************************)
TypeOK ==
    /\ outbox \in [Event -> {"absent", "unpublished", "published"}]
    /\ batch \in [Relay -> SUBSET Event]
    /\ sent \in [Relay -> SUBSET Event]
    /\ \A r \in Relay : sent[r] \subseteq batch[r]
    /\ \A r \in Relay : \A e \in batch[r] : outbox[e] = "unpublished"
    /\ log \in Seq(Event)
    /\ live \subseteq Entry
    /\ delivered \in 0..Len(log)
    /\ pel \subseteq Entry
    /\ stale \subseteq pel
    /\ group \in BOOLEAN
    /\ at \in [Worker -> {"group", "claim", "read", "process", "ack"}]
    /\ inbox \in [Worker -> SUBSET Entry]
    /\ \A w \in Worker : at[w] \in {"process", "ack"} => inbox[w] # {}
    /\ ended \subseteq Relay \cup Worker
    /\ \A r \in Relay \cap ended : batch[r] = {}
    /\ \A w \in Worker \cap ended : inbox[w] = {}
    /\ handled \subseteq Event
    /\ lost \subseteq Event
    /\ failures \in 0..MaxFailures
    /\ outages \in 0..MaxOutages

(***************************************************************************)
(* No event slips through: whatever crashes and in whichever order, an     *)
(* event that was committed is still unpublished, or has an entry that is  *)
(* unread or pending, or was processed, or Redis itself dropped it.        *)
(***************************************************************************)
NothingSlipsThrough ==
    \A e \in Event :
        outbox[e] = "published" =>
            \/ e \in handled
            \/ e \in lost
            \/ \E i \in live : log[i] = e /\ Unacked(i)

(***************************************************************************)
(* Several relays never publish the same outbox row: an event is on the    *)
(* stream twice only if some relay failed after publishing (SKIP LOCKED).  *)
(***************************************************************************)
PublishedOnceUnlessFailed ==
    failures = 0 => \A i, j \in Entry : log[i] = log[j] => i = j

(***************************************************************************)
(* Every committed event is eventually processed unless Redis dropped it,  *)
(* although relays, workers and whole processes fail in between: what a    *)
(* failed iteration or a dead worker leaves behind is retried or claimed   *)
(* by whichever loop is left.  It waits for ever only if, from some time   *)
(* on, no relay or no worker runs and nobody starts one.                   *)
(***************************************************************************)
EventuallyHandled ==
    \A e \in Event : outbox[e] # "absent" ~>
        \/ e \in handled
        \/ e \in lost
        \/ [](Relay \subseteq ended \/ Worker \subseteq ended)
=============================================================================
