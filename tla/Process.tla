------------------------------- MODULE Process -------------------------------
(***************************************************************************)
(* The processes that host the engine's loops: the worker container        *)
(* (worker/main.py), the API with the loops on its own event loop          *)
(* (worker/embedded.py under the lifespan of api/app.py) and the scheduled *)
(* sweep (worker/sweep.py).  How they start, how a failing loop is         *)
(* noticed, how they shut down.                                            *)
(*                                                                         *)
(* What a loop does with its work is in Transport and Reconciliation; here *)
(* a unit of work is a message, a batch of the outbox or a swept row, each *)
(* one transaction.                                                        *)
(***************************************************************************)
EXTENDS Naturals, FiniteSets

CONSTANTS
    Matcher, Relay, Sweeper,   \* the tasks; Relay and Sweeper may be empty
    Batch,                     \* messages of one read, rows of one pass
    MaxPasses,                 \* --max-passes
    MaxOutages                 \* bound: times Redis becomes unreachable

ASSUME SizesAssumption ==
    /\ Batch \in Nat \ {0}
    /\ MaxPasses \in Nat
    /\ MaxOutages \in Nat

Task == Matcher \cup Relay \cup Sweeper

VARIABLES
    mode,        \* which of the three processes
    phase,       \* where its main coroutine is
    stop,        \* the asyncio.Event the loops watch
    state,       \* per task: where its loop is
    hand,        \* per task: units it still holds
    cancelled,   \* tasks whose cancel() was called
    open,        \* the clients not closed: Redis, the engine's pool
    exit,        \* exit code, None before
    redis,       \* up, without the consumer group, or down
    raised,      \* an exception is leaving the main coroutine
    passes, drained,   \* of the scheduled sweep
    outages,
    asked,       \* history: a SIGTERM was received
    timedOut,    \* history: the drain of the embedded worker timed out
    cut,         \* history: tasks cancelled inside a transaction
    late         \* history: per matcher, messages finished since stop was set

mainVars == <<mode, phase, open, exit, raised, passes, drained>>
taskVars == <<state, hand, cut, late>>
envVars  == <<redis, outages>>
vars == <<mainVars, taskVars, envVars, stop, cancelled, asked, timedOut>>

None == 99

Init ==
    /\ mode \in {"worker", "embedded", "sweep"}
    /\ phase = "start"
    /\ stop = FALSE
    /\ state = [t \in Task |-> "none"]
    /\ hand = [t \in Task |-> 0]
    /\ cancelled = {}
    /\ open = IF mode = "sweep" THEN {"engine"} ELSE {"redis", "engine"}
    /\ exit = None
    /\ redis \in {"up", "nogroup", "down"}
    /\ raised = FALSE
    /\ passes = 0
    /\ drained = FALSE
    /\ outages = 0
    /\ asked = FALSE
    /\ timedOut = FALSE
    /\ cut = {}
    /\ late = [m \in Matcher |-> 0]

Ended(t) == state[t] \in {"none", "done", "failed", "cancelled"}

-----------------------------------------------------------------------------
(***************************************************************************)
(* Redis becomes unreachable, and returns with or without its data.        *)
(***************************************************************************)
LoseRedis ==
    /\ redis # "down" /\ outages < MaxOutages
    /\ redis' = "down"
    /\ outages' = outages + 1
    /\ UNCHANGED <<mainVars, taskVars, stop, cancelled, asked, timedOut>>

ReturnRedis ==
    /\ redis = "down"
    /\ redis' \in {"up", "nogroup"}
    /\ UNCHANGED <<mainVars, taskVars, outages, stop, cancelled, asked, timedOut>>

-----------------------------------------------------------------------------
(***************************************************************************)
(* The loops.                                                              *)
(***************************************************************************)
Running(t) == ~Ended(t) /\ t \notin cancelled

Goto(t, s, n) ==
    /\ state' = [state EXCEPT ![t] = s]
    /\ hand' = [hand EXCEPT ![t] = n]

\* MatcherWorker.run's first call, and its reaction to NOGROUP: outside of
\* every try, so an unreachable Redis ends the task.
ensure_group(t) ==
    /\ Running(t) /\ state[t] \in {"starting", "recover"}
    /\ \/ redis # "down" /\ redis' = "up" /\ Goto(t, "check", 0)
       \/ redis = "down" /\ redis' = redis /\ Goto(t, "failed", 0)
    /\ UNCHANGED <<mainVars, outages, stop, cancelled, cut, late, asked, timedOut>>

\* Defect variant: the loop runs for ever and trusts the check after each message.
LoopEnds_never(t) == stop /\ t \notin Matcher

LoopEnds(t) == stop

\* while not stop.is_set(), and where a round of each loop begins.
Check(t) ==
    /\ Running(t) /\ state[t] = "check"
    /\ \/ LoopEnds(t) /\ Goto(t, "done", 0)
       \/ ~LoopEnds(t) /\ t \in Matcher /\ Goto(t, "reading", 0)
       \/ ~LoopEnds(t) /\ t \in Relay /\ Goto(t, "working", 1)
       \/ ~LoopEnds(t) /\ t \in Sweeper /\ \E n \in 1..Batch : Goto(t, "working", n)
       \/ ~LoopEnds(t) /\ t \in Sweeper /\ Goto(t, "resting", 0)
    /\ UNCHANGED <<mainVars, envVars, stop, cancelled, cut, late, asked, timedOut>>

\* The blocking read (and claim): entries, nothing, NOGROUP, or a lost connection.
read(t) ==
    /\ Running(t) /\ state[t] = "reading"
    /\ \/ redis = "up" /\ Goto(t, "check", 0)
       \/ redis = "up" /\ \E n \in 1..Batch : Goto(t, "working", n)
       \/ redis = "nogroup" /\ Goto(t, "recover", 0)
       \/ redis = "down" /\ Goto(t, "resting", 0)
    /\ UNCHANGED <<mainVars, envVars, stop, cancelled, cut, late, asked, timedOut>>

LeavesBatch_when_empty(t) == hand[t] = 1    \* defect variant: stop not looked at

\* After a message: the batch is used up or the stop event is set.
LeavesBatch(t) == hand[t] = 1 \/ stop

\* A message processed and acked; without Redis the ack raises.
Handle(t) ==
    /\ Running(t) /\ state[t] = "working" /\ t \in Matcher
    /\ late' = [late EXCEPT ![t] = IF stop THEN @ + 1 ELSE @]
    /\ \/ redis # "down" /\ LeavesBatch(t) /\ Goto(t, "check", 0)
       \/ redis # "down" /\ ~LeavesBatch(t) /\ Goto(t, "working", hand[t] - 1)
       \/ redis = "down" /\ Goto(t, "resting", 0)
    /\ UNCHANGED <<mainVars, envVars, stop, cancelled, cut, asked, timedOut>>

\* A batch of the outbox: published, or nothing to publish and a rest.
Drain(t) ==
    /\ Running(t) /\ state[t] = "working" /\ t \in Relay
    /\ \/ redis # "down" /\ Goto(t, "check", 0)
       \/ Goto(t, "resting", 0)
    /\ UNCHANGED <<mainVars, envVars, stop, cancelled, cut, late, asked, timedOut>>

\* A row of a pass; the pass does not look at the stop event.
SweepRow(t) ==
    /\ Running(t) /\ state[t] = "working" /\ t \in Sweeper
    /\ Goto(t, IF hand[t] = 1 THEN "resting" ELSE "working", hand[t] - 1)
    /\ UNCHANGED <<mainVars, envVars, stop, cancelled, cut, late, asked, timedOut>>

\* Any other exception: rolled back, logged, and a rest.
WorkFails(t) ==
    /\ Running(t) /\ state[t] = "working"
    /\ Goto(t, "resting", 0)
    /\ UNCHANGED <<mainVars, envVars, stop, cancelled, cut, late, asked, timedOut>>

\* The back-off sleeps, and the waits that end with the stop event or a timeout.
Rest(t) ==
    /\ Running(t) /\ state[t] = "resting"
    /\ Goto(t, "check", 0)
    /\ UNCHANGED <<mainVars, envVars, stop, cancelled, cut, late, asked, timedOut>>

\* CancelledError at the next await; an open transaction is rolled back.
CancelledError(t) ==
    /\ t \in cancelled /\ ~Ended(t)
    /\ Goto(t, "cancelled", 0)
    /\ cut' = IF state[t] = "working" THEN cut \cup {t} ELSE cut
    /\ UNCHANGED <<mainVars, envVars, stop, cancelled, late, asked, timedOut>>

TaskStep(t) ==
    ensure_group(t) \/ Check(t) \/ read(t) \/ Handle(t) \/ Drain(t)
        \/ SweepRow(t) \/ WorkFails(t) \/ Rest(t) \/ CancelledError(t)

-----------------------------------------------------------------------------
(***************************************************************************)
(* Start: run_worker, and lifespan with EmbeddedWorker.start.              *)
(***************************************************************************)
\* lifespan's own ensure_group, whose failure is only a warning.
GroupAtStart ==
    IF mode = "embedded" /\ redis = "nogroup" THEN "up" ELSE redis

Start ==
    /\ phase = "start" /\ mode # "sweep"
    /\ phase' = "run"
    /\ state' = [t \in Task |-> IF t \in Matcher THEN "starting" ELSE "check"]
    /\ redis' = GroupAtStart
    /\ UNCHANGED <<mode, open, exit, raised, passes, drained, hand, cut, late, outages, stop, cancelled, asked, timedOut>>

(***************************************************************************)
(* Shutdown.                                                               *)
(***************************************************************************)
\* Defect variant: the loops are cancelled instead of told.
Sigterm_cancels ==
    /\ phase = "run" /\ ~asked
    /\ asked' = TRUE
    /\ stop' = TRUE
    /\ cancelled' = {t \in Task : ~Ended(t)}
    /\ phase' = IF mode = "embedded" THEN "drain" ELSE phase
    /\ UNCHANGED <<mode, open, exit, passes, raised, drained, taskVars, envVars, timedOut>>

\* SIGTERM: the worker's handler sets the event; the API's server leaves the
\* lifespan's yield, and EmbeddedWorker.stop sets it and begins to wait.
Sigterm ==
    /\ phase = "run" /\ ~asked
    /\ asked' = TRUE
    /\ stop' = TRUE
    /\ phase' = IF mode = "embedded" THEN "drain" ELSE phase
    /\ UNCHANGED <<mode, open, exit, raised, passes, drained, taskVars, envVars, cancelled, timedOut>>

\* Defect variant: gather(return_exceptions=True).
GatherReturns_all_ended == \A t \in Task : Ended(t)

\* gather(*tasks): the first exception, or every task done.
GatherReturns == (\E t \in Task : state[t] = "failed") \/ \A t \in Task : Ended(t)

\* run_worker's finally, up to its second gather.
Finally ==
    /\ mode = "worker" /\ phase = "run" /\ GatherReturns
    /\ stop' = TRUE
    /\ cancelled' = {t \in Task : ~Ended(t)}
    /\ raised' = (\E t \in Task : state[t] = "failed")
    /\ phase' = "cancel"
    /\ UNCHANGED <<mode, open, exit, passes, drained, taskVars, envVars, asked, timedOut>>

\* asyncio.wait in EmbeddedWorker.stop: every loop has ended; what one of them
\* raised is logged and goes no further.
WaitReturns ==
    /\ phase = "drain" /\ \A t \in Task : Ended(t)
    /\ phase' = "cancel"
    /\ UNCHANGED <<mode, open, exit, raised, passes, drained, taskVars, envVars, stop, cancelled, asked, timedOut>>

\* The same wait after _shutdown_timeout: the rest is cancelled.
WaitTimesOut ==
    /\ phase = "drain" /\ \E t \in Task : ~Ended(t)
    /\ timedOut' = TRUE
    /\ cancelled' = {t \in Task : ~Ended(t)}
    /\ phase' = "cancel"
    /\ UNCHANGED <<mode, open, exit, raised, passes, drained, taskVars, envVars, stop, asked>>

MayClose_at_once == TRUE    \* defect variant: the cancelled tasks are not awaited

\* gather(..., return_exceptions=True) of the cancelled tasks.
MayClose == \A t \in Task : Ended(t)

\* await redis.aclose()
aclose ==
    /\ phase = "cancel" /\ MayClose
    /\ open' = open \ {"redis"}
    /\ phase' = "dispose"
    /\ UNCHANGED <<mode, exit, raised, passes, drained, taskVars, envVars, stop, cancelled, asked, timedOut>>

\* await engine.dispose(), and the end of the process.
dispose ==
    /\ phase = "dispose"
    /\ open' = open \ {"engine"}
    /\ exit' = IF raised THEN 1 ELSE 0
    /\ phase' = "exited"
    /\ UNCHANGED <<mode, raised, passes, drained, taskVars, envVars, stop, cancelled, asked, timedOut>>

-----------------------------------------------------------------------------
(***************************************************************************)
(* sweep: passes until one resolves nothing, fails, or the budget is used. *)
(***************************************************************************)
MorePasses_one_too_many == passes <= MaxPasses    \* defect variant

MorePasses == passes < MaxPasses

sweep_once ==
    /\ phase = "start" /\ mode = "sweep" /\ MorePasses
    /\ passes' = passes + 1
    /\ \/ UNCHANGED <<phase, drained, raised>>    \* rows were resolved
       \/ drained' = TRUE /\ phase' = "dispose" /\ raised' = raised
       \/ raised' = TRUE /\ phase' = "dispose" /\ drained' = drained
    /\ UNCHANGED <<mode, open, exit, taskVars, envVars, stop, cancelled, asked, timedOut>>

BudgetUsed ==
    /\ phase = "start" /\ mode = "sweep" /\ ~MorePasses
    /\ phase' = "dispose"
    /\ UNCHANGED <<mode, open, exit, raised, passes, drained, taskVars, envVars, stop, cancelled, asked, timedOut>>

-----------------------------------------------------------------------------
MainStep ==
    Start \/ Finally \/ WaitReturns \/ WaitTimesOut \/ aclose \/ dispose \/ sweep_once \/ BudgetUsed

Next == LoseRedis \/ ReturnRedis \/ (\E t \in Task : TaskStep(t)) \/ Sigterm \/ MainStep

\* The event loop resumes every coroutine that can go on, and each database
\* or Redis call returns or raises.  Nothing is assumed of Redis or of signals.
Fairness == WF_vars(MainStep) /\ \A t \in Task : WF_vars(TaskStep(t))

Spec == Init /\ [][Next]_vars /\ Fairness

-----------------------------------------------------------------------------
(***************************************************************************)
(* Type invariant; before Start and in a scheduled sweep there are no      *)
(* tasks, and a task holds units only inside a transaction.                *)
(***************************************************************************)
TypeOK ==
    /\ mode \in {"worker", "embedded", "sweep"}
    /\ phase \in {"start", "run", "drain", "cancel", "dispose", "exited"}
    /\ state \in [Task -> {"none", "starting", "check", "reading", "recover", "working",
                           "resting", "done", "failed", "cancelled"}]
    /\ \A t \in Task : state[t] = "none" <=> phase = "start" \/ mode = "sweep"
    /\ hand \in [Task -> 0..Batch]
    /\ \A t \in Task : hand[t] # 0 <=> state[t] = "working"
    /\ cancelled \subseteq Task /\ cut \subseteq cancelled
    /\ open \subseteq {"redis", "engine"}
    /\ exit \in {None, 0, 1}
    /\ redis \in {"up", "nogroup", "down"}
    /\ passes \in 0..MaxPasses /\ outages \in 0..MaxOutages
    /\ stop \in BOOLEAN /\ asked \in BOOLEAN /\ timedOut \in BOOLEAN
    /\ raised \in BOOLEAN /\ drained \in BOOLEAN
    /\ late \in [Matcher -> Nat]

(***************************************************************************)
(* The Redis client and the connection pool are closed only when no loop   *)
(* is left that could use them ("Drain the loops before the pool they are  *)
(* using goes away", lifespan; the two gathers of run_worker).             *)
(***************************************************************************)
ClientsOutliveTasks ==
    open # {"redis", "engine"} => \A t \in Task : Ended(t)

(***************************************************************************)
(* A shutdown on request cuts no transaction short: in the worker that     *)
(* happens only when another loop failed, in the API only when the drain   *)
(* timed out ("Nothing is cancelled mid-write").                           *)
(***************************************************************************)
NothingCutOnRequest ==
    cut # {} =>
        \/ mode = "worker" /\ \E t \in Task : state[t] = "failed"
        \/ mode = "embedded" /\ timedOut

(***************************************************************************)
(* Once the stop event is set a matcher finishes at most one more message, *)
(* also when a read that was blocked returns a full batch.                 *)
(***************************************************************************)
OneMessageAfterStop == \A m \in Matcher : late[m] <= 1

(***************************************************************************)
(* A process that was told to stop exits, whatever its loops are doing and *)
(* whether Redis answers or not; a scheduled sweep always does.            *)
(***************************************************************************)
ShutdownCompletes == (asked \/ mode = "sweep") ~> exit # None

(***************************************************************************)
(* A loop that dies in the worker container takes the process with it and  *)
(* shows in the exit code, and so does a failed scheduled sweep; no loop   *)
(* is silently missing.  (The embedded worker promises nothing like it.)   *)
(***************************************************************************)
FailureIsNotSilent ==
    (mode = "worker" /\ \E t \in Task : state[t] = "failed") \/ raised ~> exit = 1
=============================================================================
