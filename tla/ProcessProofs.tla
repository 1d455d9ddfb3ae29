--------------------------- MODULE ProcessProofs ----------------------------
(***************************************************************************)
(* Shutdown is orderly for any number of loops, any batch size and any     *)
(* number of outages: the invariants of Process, proved inductive.         *)
(***************************************************************************)
EXTENDS Process, TLAPS

\* A task is cancelled only by run_worker's finally, after a loop failed, or by
\* EmbeddedWorker.stop after the timeout.
CancelsAreJustified ==
    cancelled # {} =>
        \/ mode = "worker" /\ \E t \in Task : state[t] = "failed"
        \/ mode = "embedded" /\ timedOut

\* Before the cancels nothing is cancelled; after them, whoever is not cancelled
\* has ended; and no one is left when the clients are closed.
PhasesAreOrderly ==
    /\ phase \in {"start", "run", "drain"} => cancelled = {}
    /\ phase = "cancel" => \A t \in Task : t \in cancelled \/ Ended(t)
    /\ phase \in {"dispose", "exited"} => \A t \in Task : Ended(t)
    /\ phase = "drain" => mode = "embedded"
    /\ mode = "sweep" => phase \in {"start", "dispose", "exited"} /\ cancelled = {}
    /\ open # {"redis", "engine"} => mode = "sweep" \/ phase \in {"dispose", "exited"}

\* A matcher that has finished a message since the stop event is on its way out.
LateIsLeaving ==
    \A m \in Matcher :
        \/ late[m] = 0
        \/ late[m] = 1 /\ stop = TRUE /\ state[m] \in {"check", "resting", "done", "cancelled"}

IInv == TypeOK /\ CancelsAreJustified /\ PhasesAreOrderly /\ LateIsLeaving

LEMMA InitInv == Init => IInv
<1> SUFFICES ASSUME Init PROVE IInv
  OBVIOUS
<1>1. phase = "start" /\ cancelled = {} /\ cut = {} /\ mode \in {"worker", "embedded", "sweep"}
  BY DEF Init
<1>2. \A t \in Task : state[t] = "none" /\ hand[t] = 0
  BY DEF Init
<1>3. TypeOK
  <2>1. /\ hand \in [Task -> 0..Batch]
        /\ passes \in 0..MaxPasses /\ outages \in 0..MaxOutages
        /\ late \in [Matcher -> Nat]
    BY SizesAssumption DEF Init
  <2>2. /\ state \in [Task -> {"none", "starting", "check", "reading", "recover", "working",
                               "resting", "done", "failed", "cancelled"}]
        /\ open \subseteq {"redis", "engine"}
        /\ exit \in {None, 0, 1}
        /\ redis \in {"up", "nogroup", "down"}
    BY DEF Init
  <2>3. /\ stop \in BOOLEAN /\ asked \in BOOLEAN /\ timedOut \in BOOLEAN
        /\ raised \in BOOLEAN /\ drained \in BOOLEAN
    BY DEF Init
  <2> QED
    BY <1>1, <1>2, <2>1, <2>2, <2>3 DEF TypeOK
<1>4. CancelsAreJustified
  BY <1>1 DEF CancelsAreJustified
<1>5. PhasesAreOrderly
  BY <1>1 DEF PhasesAreOrderly, Init
<1>6. LateIsLeaving
  BY DEF LateIsLeaving, Init
<1> QED
  BY <1>3, <1>4, <1>5, <1>6 DEF IInv

-----------------------------------------------------------------------------
(***************************************************************************)
(* The loops.                                                              *)
(***************************************************************************)
LoopState == {"starting", "check", "reading", "recover", "working",
              "resting", "done", "failed", "cancelled"}

\* What a step of a loop does to the rest of the process: nothing.
LEMMA GotoInv ==
    ASSUME IInv,
           NEW t \in Task, ~Ended(t),
           NEW s \in LoopState, NEW n \in 0..Batch, n # 0 <=> s = "working",
           Goto(t, s, n),
           UNCHANGED <<mainVars, outages, stop, cancelled, asked, timedOut>>,
           redis' \in {"up", "nogroup", "down"},
           cut' \subseteq cancelled,
           late' \in [Matcher -> Nat],
           LateIsLeaving'
    PROVE  IInv'
<1> USE DEF mainVars
<1>1. /\ state \in [Task -> LoopState \cup {"none"}]
      /\ hand \in [Task -> 0..Batch]
  BY DEF IInv, TypeOK, LoopState
<1>2. /\ state' \in [Task -> LoopState \cup {"none"}]
      /\ hand' \in [Task -> 0..Batch]
      /\ state'[t] = s /\ hand'[t] = n
      /\ \A u \in Task \ {t} : state'[u] = state[u] /\ hand'[u] = hand[u]
  BY <1>1 DEF Goto
<1>3. state[t] # "none" /\ s # "none" /\ state[t] # "failed"
  BY DEF Ended, LoopState
<1>4. TypeOK'
  <2>1. \A u \in Task : state'[u] = "none" <=> phase' = "start" \/ mode' = "sweep"
    BY <1>2, <1>3 DEF IInv, TypeOK
  <2>2. \A u \in Task : hand'[u] # 0 <=> state'[u] = "working"
    BY <1>2 DEF IInv, TypeOK
  <2>3. state' \in [Task -> {"none", "starting", "check", "reading", "recover", "working",
                             "resting", "done", "failed", "cancelled"}]
    BY <1>2 DEF LoopState
  <2> QED
    BY <1>2, <2>1, <2>2, <2>3 DEF IInv, TypeOK
<1>5. \A u \in Task : state[u] = "failed" => state'[u] = "failed"
  BY <1>2, <1>3
<1>6. CancelsAreJustified'
  BY <1>5 DEF IInv, CancelsAreJustified
<1>7. \A u \in Task \ {t} : Ended(u) => Ended(u)'
  BY <1>2 DEF Ended
<1>8. PhasesAreOrderly'
  BY <1>7 DEF IInv, PhasesAreOrderly
<1> QED
  BY <1>4, <1>6, <1>8 DEF IInv

\* A matcher with a late message leaves; one without may go anywhere.
LEMMA SameLate ==
    ASSUME IInv, NEW t \in Task, NEW s, NEW n,
           Goto(t, s, n), UNCHANGED <<late, stop>>,
           t \in Matcher => late[t] = 0 \/ s \in {"check", "resting", "done", "cancelled"}
    PROVE  LateIsLeaving'
<1>1. \A u \in Task \ {t} : state'[u] = state[u]
  BY DEF Goto, IInv, TypeOK
<1>2. state'[t] = s
  BY DEF Goto, IInv, TypeOK
<1> QED
  BY <1>1, <1>2 DEF IInv, LateIsLeaving, Task

LEMMA TaskStepInv ==
    ASSUME IInv, NEW t \in Task, TaskStep(t)
    PROVE  IInv'
<1> USE DEF LoopState
<1>0. /\ Batch \in Nat \ {0}
      /\ redis \in {"up", "nogroup", "down"} /\ cut \subseteq cancelled
      /\ late \in [Matcher -> Nat]
      /\ hand[t] \in 0..Batch /\ (hand[t] # 0 <=> state[t] = "working")
      /\ stop \in BOOLEAN
  BY SizesAssumption DEF IInv, TypeOK
<1>a. t \in Matcher /\ state[t] \notin {"check", "resting", "done", "cancelled"} => late[t] = 0
  BY DEF IInv, LateIsLeaving
<1>b. t \in Matcher /\ late[t] # 0 => stop = TRUE
  BY DEF IInv, LateIsLeaving
<1>1. CASE ensure_group(t)
  <2>1. ~Ended(t) /\ late' = late /\ cut' = cut /\ stop' = stop /\ state[t] \in {"starting", "recover"}
    BY <1>1 DEF ensure_group, Running
  <2>2. redis' \in {"up", "nogroup", "down"} /\ (Goto(t, "check", 0) \/ Goto(t, "failed", 0))
    BY <1>0, <1>1 DEF ensure_group
  <2>3. UNCHANGED <<mainVars, outages, stop, cancelled, asked, timedOut>>
    BY <1>1 DEF ensure_group
  <2>4. PICK s \in {"check", "failed"} : Goto(t, s, 0)
    BY <2>2
  <2>5. LateIsLeaving'
    BY <1>a, <2>1, <2>4, SameLate
  <2> QED
    BY <1>0, <2>1, <2>2, <2>3, <2>4, <2>5, GotoInv
<1>2. CASE Check(t)
  <2>1. ~Ended(t) /\ late' = late /\ cut' = cut /\ stop' = stop /\ redis' = redis
    BY <1>2 DEF Check, Running, envVars
  <2>2. UNCHANGED <<mainVars, outages, stop, cancelled, asked, timedOut>>
    BY <1>2 DEF Check, envVars
  <2>3. \E s \in {"done", "reading", "working", "resting"}, n \in 0..Batch :
           /\ Goto(t, s, n) /\ (n # 0 <=> s = "working")
           /\ stop = TRUE => s = "done"
    BY <1>0, <1>2 DEF Check, LoopEnds
  <2>4. PICK s \in {"done", "reading", "working", "resting"}, n \in 0..Batch :
           /\ Goto(t, s, n) /\ (n # 0 <=> s = "working")
           /\ stop = TRUE => s = "done"
    BY <2>3
  <2>5. LateIsLeaving'
    BY <1>b, <2>1, <2>4, SameLate
  <2> QED
    BY <1>0, <2>1, <2>2, <2>4, <2>5, GotoInv
<1>3. CASE read(t)
  <2>1. ~Ended(t) /\ late' = late /\ cut' = cut /\ stop' = stop /\ redis' = redis /\ state[t] = "reading"
    BY <1>3 DEF read, Running, envVars
  <2>2. UNCHANGED <<mainVars, outages, stop, cancelled, asked, timedOut>>
    BY <1>3 DEF read, envVars
  <2>3. \E s \in {"check", "working", "recover", "resting"}, n \in 0..Batch :
           Goto(t, s, n) /\ (n # 0 <=> s = "working")
    BY <1>0, <1>3 DEF read
  <2>4. PICK s \in {"check", "working", "recover", "resting"}, n \in 0..Batch :
           Goto(t, s, n) /\ (n # 0 <=> s = "working")
    BY <2>3
  <2>5. LateIsLeaving'
    BY <1>a, <2>1, <2>4, SameLate
  <2> QED
    BY <1>0, <2>1, <2>2, <2>4, <2>5, GotoInv
<1>4. CASE Handle(t)
  <2>1. ~Ended(t) /\ cut' = cut /\ stop' = stop /\ redis' = redis /\ state[t] = "working" /\ t \in Matcher
    BY <1>4 DEF Handle, Running, envVars
  <2>2. UNCHANGED <<mainVars, outages, stop, cancelled, asked, timedOut>>
    BY <1>4 DEF Handle, envVars
  <2>3. \E s \in {"check", "working", "resting"}, n \in 0..Batch :
           /\ Goto(t, s, n) /\ (n # 0 <=> s = "working")
           /\ stop = TRUE => s # "working"
    BY <1>0, <1>4 DEF Handle, LeavesBatch
  <2>4. PICK s \in {"check", "working", "resting"}, n \in 0..Batch :
           /\ Goto(t, s, n) /\ (n # 0 <=> s = "working")
           /\ stop = TRUE => s # "working"
    BY <2>3
  <2>5. /\ late' \in [Matcher -> Nat]
        /\ late'[t] = IF stop THEN 1 ELSE 0
        /\ \A m \in Matcher \ {t} : late'[m] = late[m]
    <3>1. late[t] = 0
      BY <1>a, <2>1
    <3>2. late' = [late EXCEPT ![t] = IF stop THEN @ + 1 ELSE @]
      BY <1>4 DEF Handle
    <3> QED
      BY <1>0, <2>1, <3>1, <3>2
  <2>6. LateIsLeaving'
    <3>1. state'[t] = s /\ \A u \in Task \ {t} : state'[u] = state[u]
      BY <2>4 DEF Goto, IInv, TypeOK
    <3>2. SUFFICES ASSUME NEW m \in Matcher
                   PROVE  \/ late'[m] = 0
                          \/ /\ late'[m] = 1 /\ stop' = TRUE
                             /\ state'[m] \in {"check", "resting", "done", "cancelled"}
      BY DEF LateIsLeaving
    <3>3. CASE m = t
      BY <1>0, <2>1, <2>4, <2>5, <3>1, <3>3
    <3>4. CASE m # t
      BY <2>1, <2>5, <3>1, <3>4 DEF IInv, LateIsLeaving, Task
    <3> QED
      BY <3>3, <3>4
  <2> QED
    BY <1>0, <2>1, <2>2, <2>4, <2>5, <2>6, GotoInv
<1>5. CASE Drain(t) \/ WorkFails(t) \/ SweepRow(t) \/ Rest(t)
  <2>1. ~Ended(t) /\ late' = late /\ cut' = cut /\ stop' = stop /\ redis' = redis
    BY <1>5 DEF Drain, WorkFails, SweepRow, Rest, Running, envVars
  <2>2. UNCHANGED <<mainVars, outages, stop, cancelled, asked, timedOut>>
    BY <1>5 DEF Drain, WorkFails, SweepRow, Rest, envVars
  <2>3. \E s \in {"check", "working", "resting"}, n \in 0..Batch :
           /\ Goto(t, s, n) /\ (n # 0 <=> s = "working")
           /\ s = "working" => state[t] = "working"
    <3>1. CASE Drain(t) \/ WorkFails(t) \/ Rest(t)
      BY <1>0, <3>1 DEF Drain, WorkFails, Rest
    <3>2. CASE SweepRow(t)
      BY <1>0, <3>2 DEF SweepRow
    <3> QED
      BY <1>5, <3>1, <3>2
  <2>4. PICK s \in {"check", "working", "resting"}, n \in 0..Batch :
           /\ Goto(t, s, n) /\ (n # 0 <=> s = "working")
           /\ s = "working" => state[t] = "working"
    BY <2>3
  <2>5. LateIsLeaving'
    BY <1>a, <2>1, <2>4, SameLate
  <2> QED
    BY <1>0, <2>1, <2>2, <2>4, <2>5, GotoInv
<1>6. CASE CancelledError(t)
  <2>1. /\ ~Ended(t) /\ late' = late /\ cut' \subseteq cancelled /\ stop' = stop /\ redis' = redis
        /\ Goto(t, "cancelled", 0)
    BY <1>0, <1>6 DEF CancelledError, envVars
  <2>2. UNCHANGED <<mainVars, outages, stop, cancelled, asked, timedOut>>
    BY <1>6 DEF CancelledError, envVars
  <2>3. LateIsLeaving'
    BY <2>1, SameLate
  <2> QED
    BY <1>0, <2>1, <2>2, <2>3, GotoInv
<1> QED
  BY <1>1, <1>2, <1>3, <1>4, <1>5, <1>6 DEF TaskStep

-----------------------------------------------------------------------------
(***************************************************************************)
(* The main coroutine, signals and Redis.                                  *)
(***************************************************************************)
LEMMA StartInv ==
    ASSUME IInv, Start
    PROVE  IInv'
<1> USE DEF Start, IInv
<1>1. \A t \in Task : state[t] = "none" /\ hand[t] = 0
  BY DEF TypeOK
<1>2. /\ state' \in [Task -> {"starting", "check"}]
      /\ phase' = "run" /\ mode' = mode /\ mode # "sweep" /\ cancelled' = cancelled
  OBVIOUS
<1>3. TypeOK'
  BY <1>1, <1>2 DEF TypeOK, GroupAtStart
<1>4. \A t \in Task : t \notin cancelled
  BY DEF PhasesAreOrderly
<1>5. CancelsAreJustified'
  BY <1>2, <1>4 DEF PhasesAreOrderly, CancelsAreJustified
<1>6. PhasesAreOrderly'
  BY <1>2 DEF PhasesAreOrderly
<1>7. LateIsLeaving'
  BY <1>1 DEF LateIsLeaving, Task
<1> QED
  BY <1>3, <1>5, <1>6, <1>7

LEMMA SigtermInv ==
    ASSUME IInv, Sigterm
    PROVE  IInv'
<1> USE DEF Sigterm, IInv, taskVars, envVars
<1>1. TypeOK'
  BY DEF TypeOK
<1>2. CancelsAreJustified'
  BY DEF CancelsAreJustified
<1>3. PhasesAreOrderly'
  BY DEF PhasesAreOrderly, TypeOK
<1>4. LateIsLeaving'
  BY DEF LateIsLeaving
<1> QED
  BY <1>1, <1>2, <1>3, <1>4

LEMMA FinallyInv ==
    ASSUME IInv, Finally
    PROVE  IInv'
<1> USE DEF Finally, IInv, taskVars, envVars
<1>1. cut = {}
  BY DEF TypeOK, PhasesAreOrderly
<1>2. TypeOK'
  <2>1. raised' \in BOOLEAN /\ stop' \in BOOLEAN
    OBVIOUS
  <2> QED
    BY <1>1, <2>1 DEF TypeOK
<1>3. CancelsAreJustified'
  BY DEF CancelsAreJustified, GatherReturns
<1>4. PhasesAreOrderly'
  BY DEF PhasesAreOrderly, Ended
<1>5. LateIsLeaving'
  BY DEF LateIsLeaving
<1> QED
  BY <1>2, <1>3, <1>4, <1>5

LEMMA WaitInv ==
    ASSUME IInv, WaitReturns \/ WaitTimesOut
    PROVE  IInv'
<1> USE DEF WaitReturns, WaitTimesOut, IInv, taskVars, envVars
<1>1. cut = {} /\ cancelled = {} /\ mode = "embedded"
  BY DEF TypeOK, PhasesAreOrderly
<1>2. TypeOK'
  <2>1. CASE WaitReturns
    BY <1>1, <2>1 DEF TypeOK
  <2>2. CASE WaitTimesOut
    <3>1. cancelled' \subseteq Task
      BY <2>2
    <3> QED
      BY <1>1, <2>2, <3>1 DEF TypeOK
  <2> QED
    BY <2>1, <2>2
<1>3. CancelsAreJustified'
  BY <1>1 DEF CancelsAreJustified
<1>4. PhasesAreOrderly'
  BY <1>1 DEF PhasesAreOrderly, Ended
<1>5. LateIsLeaving'
  BY DEF LateIsLeaving
<1> QED
  BY <1>2, <1>3, <1>4, <1>5

LEMMA CloseInv ==
    ASSUME IInv, aclose \/ dispose
    PROVE  IInv'
<1> USE DEF aclose, dispose, IInv, taskVars, envVars
<1>1. TypeOK'
  <2>1. open' \subseteq {"redis", "engine"} /\ exit' \in {None, 0, 1}
    BY DEF TypeOK
  <2>2. phase' \in {"dispose", "exited"} /\ phase # "start" /\ mode' = mode
    OBVIOUS
  <2>3. UNCHANGED <<raised, passes, drained, state, hand, cut, late, redis, outages,
                    stop, cancelled, asked, timedOut>>
    OBVIOUS
  <2> QED
    BY <2>1, <2>2, <2>3 DEF TypeOK
<1>2. CancelsAreJustified'
  BY DEF CancelsAreJustified
<1>3. PhasesAreOrderly'
  BY DEF PhasesAreOrderly, MayClose, Ended
<1>4. LateIsLeaving'
  BY DEF LateIsLeaving
<1> QED
  BY <1>1, <1>2, <1>3, <1>4

LEMMA SweepInv ==
    ASSUME IInv, sweep_once \/ BudgetUsed
    PROVE  IInv'
<1> USE DEF sweep_once, BudgetUsed, IInv, taskVars, envVars
<1>1. TypeOK'
  <2>1. passes' \in 0..MaxPasses
    BY SizesAssumption DEF TypeOK, MorePasses
  <2>2. phase' \in {"start", "dispose"} /\ mode = "sweep" /\ mode' = mode
    OBVIOUS
  <2>3. raised' \in BOOLEAN /\ drained' \in BOOLEAN
    BY DEF TypeOK
  <2>4. UNCHANGED <<open, exit, state, hand, cut, late, redis, outages, stop,
                    cancelled, asked, timedOut>>
    OBVIOUS
  <2> QED
    BY <2>1, <2>2, <2>3, <2>4 DEF TypeOK
<1>2. CancelsAreJustified'
  BY DEF CancelsAreJustified
<1>3. PhasesAreOrderly'
  BY DEF PhasesAreOrderly, TypeOK, Ended
<1>4. LateIsLeaving'
  BY DEF LateIsLeaving
<1> QED
  BY <1>1, <1>2, <1>3, <1>4

LEMMA RedisInv ==
    ASSUME IInv, LoseRedis \/ ReturnRedis
    PROVE  IInv'
<1> USE DEF LoseRedis, ReturnRedis, IInv, mainVars, taskVars
<1>1. TypeOK'
  <2>1. outages' \in 0..MaxOutages
    BY SizesAssumption DEF TypeOK
  <2>2. redis' \in {"up", "nogroup", "down"}
    OBVIOUS
  <2>3. UNCHANGED <<mode, phase, open, exit, raised, passes, drained, state, hand, cut, late,
                    stop, cancelled, asked, timedOut>>
    OBVIOUS
  <2> QED
    BY <2>1, <2>2, <2>3 DEF TypeOK
<1>2. CancelsAreJustified'
  BY DEF CancelsAreJustified
<1>3. PhasesAreOrderly'
  BY DEF PhasesAreOrderly, Ended
<1>4. LateIsLeaving'
  BY DEF LateIsLeaving
<1> QED
  BY <1>1, <1>2, <1>3, <1>4

LEMMA StutterInv ==
    ASSUME IInv, UNCHANGED vars
    PROVE  IInv'
<1> USE DEF vars, mainVars, taskVars, envVars, IInv
<1>1. TypeOK'
  BY DEF TypeOK
<1>2. CancelsAreJustified' /\ PhasesAreOrderly' /\ LateIsLeaving'
  BY DEF CancelsAreJustified, PhasesAreOrderly, LateIsLeaving, Ended
<1> QED
  BY <1>1, <1>2

-----------------------------------------------------------------------------
(***************************************************************************)
(* The invariant of worker/main.py, worker/embedded.py and worker/sweep.py *)
(* is preserved by every step of their main coroutines and loops.          *)
(***************************************************************************)
THEOREM Invariance == Spec => []IInv
<1>1. IInv /\ [Next]_vars => IInv'
  <2> SUFFICES ASSUME IInv, [Next]_vars PROVE IInv'
    OBVIOUS
  <2>1. CASE \E t \in Task : TaskStep(t)
    BY <2>1, TaskStepInv
  <2>2. CASE Sigterm
    BY <2>2, SigtermInv
  <2>3. CASE LoseRedis \/ ReturnRedis
    BY <2>3, RedisInv
  <2>4. CASE MainStep
    BY <2>4, StartInv, FinallyInv, WaitInv, CloseInv, SweepInv DEF MainStep
  <2>5. CASE UNCHANGED vars
    BY <2>5, StutterInv
  <2> QED
    BY <2>1, <2>2, <2>3, <2>4, <2>5 DEF Next
<1> QED
  BY <1>1, InitInv, PTL DEF Spec

(***************************************************************************)
(* Every variable of the three processes keeps its type, and a loop holds  *)
(* units of work only inside a transaction.                                *)
(***************************************************************************)
THEOREM TypeCorrect == Spec => []TypeOK
<1>1. IInv => TypeOK
  BY DEF IInv
<1> QED
  BY <1>1, Invariance, PTL

(***************************************************************************)
(* redis.aclose() and engine.dispose() run only after every loop has       *)
(* ended, for any number of loops and whatever made the process stop.      *)
(***************************************************************************)
THEOREM ClientsOutliveTasksHolds == Spec => []ClientsOutliveTasks
<1>1. IInv => ClientsOutliveTasks
  BY DEF IInv, TypeOK, PhasesAreOrderly, ClientsOutliveTasks, Ended
<1> QED
  BY <1>1, Invariance, PTL

(***************************************************************************)
(* No transaction is cut short by a SIGTERM alone: only by the failure of  *)
(* another loop of the worker or by the drain timeout of the API.          *)
(***************************************************************************)
THEOREM NothingCutOnRequestHolds == Spec => []NothingCutOnRequest
<1>1. IInv => NothingCutOnRequest
  BY DEF IInv, TypeOK, CancelsAreJustified, NothingCutOnRequest
<1> QED
  BY <1>1, Invariance, PTL

(***************************************************************************)
(* MatcherWorker.run finishes at most one message once the stop event is   *)
(* set, however large a batch the blocked read returns.                    *)
(***************************************************************************)
THEOREM OneMessageAfterStopHolds == Spec => []OneMessageAfterStop
<1>1. IInv => OneMessageAfterStop
  BY DEF IInv, LateIsLeaving, OneMessageAfterStop
<1> QED
  BY <1>1, Invariance, PTL

=============================================================================
