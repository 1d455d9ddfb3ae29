------------------------------ MODULE RateLimit ------------------------------
(***************************************************************************)
(* The write limiter (api/ratelimit.py): one Redis counter per bucket and  *)
(* fixed window, incremented and given its expiry in one transaction.      *)
(* Reading the clock and counting are one step: the delay between the two  *)
(* is taken to be shorter than a tick.                                     *)
(***************************************************************************)
EXTENDS Integers, FiniteSets

CONSTANTS
    Window,      \* _WINDOW_S, in ticks
    MaxClock,    \* bound: the last tick
    MaxDropped   \* bound: counters Redis loses

ASSUME WindowAssumption == Window \in Nat \ {0}

VARIABLES
    clock,
    counters,    \* Redis: [bucket, window, count, expires]
    admitted,    \* history: the hits that were counted and allowed
    dropped      \* history: <<bucket, window>> whose counter Redis lost

limitVars == <<clock, counters, admitted, dropped>>

RateLimitInit ==
    /\ clock = 0
    /\ counters = {}
    /\ admitted = {}
    /\ dropped = {}

\* Defect variant: the second, not the window, names the counter.
window_start_of_now(now) == now

window_start(now) == now - (now % Window)

Current(bucket) == {c \in counters : c.bucket = bucket /\ c.window = window_start(clock)}

\* The reply of INCR, which creates the key at 1.
Hits(bucket) ==
    IF Current(bucket) = {} THEN 1 ELSE (CHOOSE c \in Current(bucket) : TRUE).count + 1

\* INCR and EXPIRE, on every hit.
Count(bucket) ==
    counters' = (counters \ Current(bucket)) \cup
        {[bucket |-> bucket, window |-> window_start(clock),
          count |-> Hits(bucket), expires |-> clock + Window]}

check_refused(bucket, limit) ==
    /\ Hits(bucket) > limit
    /\ Count(bucket)
    /\ UNCHANGED <<clock, admitted, dropped>>

check_allowed(bucket, limit) ==
    /\ Hits(bucket) <= limit
    /\ Count(bucket)
    /\ admitted' = admitted \cup {[bucket |-> bucket, at |-> clock, hit |-> Hits(bucket)]}
    /\ UNCHANGED <<clock, dropped>>

\* Redis fails, before or after it counted: the request is allowed all the same.
check_unavailable(bucket) ==
    /\ \/ Count(bucket)
       \/ UNCHANGED counters
    /\ UNCHANGED <<clock, admitted, dropped>>

Tick ==
    /\ clock < MaxClock
    /\ clock' = clock + 1
    /\ counters' = {c \in counters : c.expires > clock'}
    /\ UNCHANGED <<admitted, dropped>>

\* Redis comes back empty or evicts: counters go before they expire, and the next
\* hit starts again at 1.
LoseCounters ==
    \E L \in (SUBSET counters) \ {{}} :
        /\ counters' = counters \ L
        /\ dropped' = dropped \cup {<<c.bucket, c.window>> : c \in L}
        /\ Cardinality(dropped') <= MaxDropped
        /\ UNCHANGED <<clock, admitted>>

\* The hits of one bucket that were counted and allowed in n ticks from t.
AdmittedIn(bucket, t, n) ==
    Cardinality({h \in admitted : h.bucket = bucket /\ h.at \in t..(t + n - 1)})
=============================================================================
