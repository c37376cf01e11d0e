--------------------------- MODULE PollTaskProofs ---------------------------
(***************************************************************************)
(* The client keeps its invariant under the polling task, whatever the     *)
(* cap, the tick and the delays, and the task never leaves it behind.      *)
(***************************************************************************)
EXTENDS PollTask, SSEClientProofs

\* Each step of the task is a step of the client, the passing of a ms or none.
LEMMA TaskStepOfClient ==
    ASSUME TaskNext
    PROVE  Next \/ Elapse \/ UNCHANGED vars
<1>1. CASE CloseBefore \/ StartTask \/ TaskEnds \/ Wake \/ StopTask
  BY <1>1 DEF CloseBefore, StartTask, TaskEnds, Wake, StopTask, Next
<1>2. CASE TaskTick
  BY <1>2 DEF TaskTick
<1>3. CASE TaskPoll
  BY <1>3 DEF TaskPoll, InPoll, Next
<1>4. CASE InPoll(OpenReturns) \/ InPoll(ReadReturns) \/ InPoll(Parse)
           \/ InPoll(FeedDone) \/ InPoll(Report)
  BY <1>4 DEF InPoll, Next
<1> QED BY <1>1, <1>2, <1>3, <1>4 DEF TaskNext

\* The client's invariant survives every step of the task.
LEMMA TaskKeepsSafety == ASSUME SafetyInv, [TaskNext]_tvars PROVE SafetyInv'
<1>1. CASE Elapse
  BY <1>1, ElapseTyped, ElapseCore DEF SafetyInv, Core
<1>2. CASE [Next]_vars
  BY <1>2, TypeStep, CoreStep DEF SafetyInv, Core
<1>3. CASE UNCHANGED tvars
  BY <1>2, <1>3 DEF tvars
<1> QED BY <1>1, <1>2, <1>3, TaskStepOfClient

\* A task that is gone has left a CLOSED client.
LEMMA TaskKeepsClosed ==
    ASSUME SentinelFree, SafetyInv, TaskEndsClosed, [TaskNext]_tvars
    PROVE  TaskEndsClosed'
<1>1. CASE task' = task
  <2>1. CASE task = "gone"
    <3>1. state = "CLOSED"
      BY <2>1 DEF TaskEndsClosed
    <3>2. CASE Next
      BY <3>1, <3>2, ClosedStays DEF TaskEndsClosed
    <3>3. CASE ~ Next
      BY <3>1, <3>3, TaskStepOfClient DEF TaskEndsClosed, Elapse, vars, tvars, client
    <3> QED BY <3>2, <3>3
  <2>2. CASE task # "gone"
    BY <1>1, <2>2 DEF TaskEndsClosed
  <2> QED BY <2>1, <2>2
<1>2. CASE task' # task /\ (CloseBefore \/ StartTask \/ TaskEnds \/ Wake \/ StopTask \/ TaskTick)
  BY <1>2 DEF CloseBefore, StartTask, TaskEnds, Wake, StopTask, TaskTick, TaskEndsClosed,
              vars, client
<1>3. CASE task' # task /\ (TaskPoll \/ InPoll(OpenReturns) \/ InPoll(ReadReturns)
                            \/ InPoll(Parse) \/ InPoll(FeedDone) \/ InPoll(Report))
  <2>1. pc' = "app" /\ Returned(hint')
    BY <1>3 DEF TaskPoll, InPoll
  <2>2. hint' = UINT32_MAX <=> state' = "CLOSED"
    <3>1. CASE Poll
      BY <2>1, <3>1, ReturnTells
    <3>2. CASE ~ Poll
      <4>1. OpenReturns \/ ReadReturns \/ Parse \/ FeedDone \/ Report
        BY <1>3, <3>2 DEF TaskPoll, InPoll
      <4>2. pc # "app"
        BY <4>1 DEF OpenReturns, OpenFails, OpenRefused, OpenAccepted, ReadReturns,
           ReadStopped, ReadData, ReadTimedOut, ReadOversize, ReadEnded, Parse, BridgeOnId,
           BridgeOnRetry, BridgeOnEvent, BridgeOnPerr, Bridge, FeedDone, Report, OnOpen,
           ErrStop, ErrRetry, Hook, Stop
      <4> QED BY <2>1, <4>1, <4>2, ReturnTells
    <3> QED BY <3>1, <3>2
  <2>3. task' = "gone" => hint' = UINT32_MAX
    BY <2>1 DEF Returned, Ends
  <2> QED BY <2>2, <2>3 DEF TaskEndsClosed
<1> QED BY <1>1, <1>2, <1>3 DEF TaskNext, tvars

\* What is proved of the client alone holds of the client that a task polls.
THEOREM TaskSafety == TaskSpec => []SafetyInv
<1>1. TaskInit => SafetyInv
  BY SafetyInit DEF TaskInit
<1>2. SafetyInv /\ [TaskNext]_tvars => SafetyInv'
  BY TaskKeepsSafety
<1> QED BY <1>1, <1>2, PTL DEF TaskSpec

\* The task ends only once its client is CLOSED, unless a hint of its own
\* configuration is UINT32_MAX.
THEOREM TaskEndsClosedHolds == SentinelFree => (TaskSpec => []TaskEndsClosed)
<1> SUFFICES ASSUME SentinelFree PROVE TaskSpec => []TaskEndsClosed
  OBVIOUS
<1>1. TaskInit => TaskEndsClosed
  BY DEF TaskInit, TaskEndsClosed
<1>2. SafetyInv /\ TaskEndsClosed /\ [TaskNext]_tvars => TaskEndsClosed'
  BY TaskKeepsClosed
<1> QED BY <1>1, <1>2, TaskSafety, PTL DEF TaskSpec

----------------------------------------------------------------------------
(* How long a stop request takes. *)

\* The most that may have passed since the stop flag was raised when the task
\* gets to p: one blocking call, and the callbacks called after it.
Before(p) ==
    IF p \in {"open", "read"} THEN 0
    ELSE IF p \in {"on_open", "feed", "hook"} THEN Longest
    ELSE IF p \in {"err_stop", "err_retry"} THEN Longest + CallbackMs
    ELSE IF p = "stop" THEN Longest + 2 * CallbackMs
    ELSE Longest + 3 * CallbackMs

\* How long the task stays at p.
Stay(p) ==
    IF p = "app" THEN DelayCap + Lag
    ELSE IF p = "open" THEN OpenMs
    ELSE IF p = "read" THEN ReadMs
    ELSE CallbackMs

LatencyInv ==
    /\ task \in {"none", "run", "delay", "gone"}
    /\ left \in 0 .. DelayCap /\ stop_age \in Nat
    /\ pc # "app" => task = "run"
    /\ task = "none" => dwell = 0 /\ stop_age = 0
    /\ ~ stop_requested => stop_age = 0
    /\ task \in {"run", "delay"} =>
          dwell <= Stay(pc) /\ stop_age <= Before(pc) + dwell

\* The times are natural numbers, and Longest is what it says.
LEMMA TimesAreNat ==
    /\ OpenMs \in Nat /\ CallbackMs \in Nat /\ Lag \in Nat /\ DelayCap \in Nat
    /\ ReadMs \in Nat /\ Longest \in Nat /\ OpenMs <= Longest /\ ReadMs <= Longest
<1>1. /\ OpenMs \in Nat /\ CallbackMs \in Nat /\ Lag \in Nat /\ DelayCap \in Nat
  BY EnvironmentAssumption, TaskAssumption
<1>2. ReadMs \in Nat
  BY SettingsTyped, WidthAssumption DEF Clock, UINT32_MAX, Modulus
<1> QED BY <1>1, <1>2 DEF Longest

\* Rounding down to a multiple.
LEMMA WholeTicks ==
    ASSUME NEW n \in Nat, NEW t \in Nat, t > 0
    PROVE  (n \div t) * t \in 0 .. n
<1>1. (n \div t) \in Nat /\ n % t \in Nat
  OBVIOUS
<1>2. n = t * (n \div t) + (n % t)
  OBVIOUS
<1>3. (n \div t) * t = t * (n \div t)
  BY <1>1
<1>4. (n \div t) * t \in Nat
  BY <1>1
<1> DEFINE d == (n \div t) * t
           r == n % t
<1>5. d \in Nat /\ r \in Nat /\ n = d + r
  BY <1>1, <1>2, <1>3, <1>4
<1> HIDE DEF d, r
<1>6. d \in 0 .. n
  BY <1>5
<1> QED BY <1>6 DEF d

\* A delay in whole ticks is no longer than the cap.
LEMMA DelayIsCapped ==
    ASSUME NEW s \in Nat
    PROVE  DelayFor(s) \in 0 .. DelayCap
<1>1. Capped(s) \in 0 .. DelayCap /\ DelayCap \in Nat
  BY TaskAssumption DEF Capped, AtMost
<1>2. DelayFor(s) \in 0 .. Capped(s)
  <2>1. Capped(s) \in Nat /\ TickMs \in Nat /\ TickMs > 0
    BY <1>1, TaskAssumption
  <2> QED BY <2>1, WholeTicks DEF DelayFor
<1> QED BY <1>1, <1>2

\* Where a step inside poll leads, with the stop flag as it was.
LEMMA Moves ==
    ASSUME SafetyInv, OpenReturns \/ ReadReturns \/ Parse \/ FeedDone \/ Report
    PROVE  /\ UNCHANGED stop_requested
           /\ \/ pc = "feed" /\ pc' = "feed" /\ dwell' = dwell
              \/ /\ dwell' = 0
                 /\ \/ pc = "open" /\ pc' \in {"on_open", "hook", "err_stop", "err_retry"}
                    \/ pc = "read" /\ pc' \in {"app", "feed", "hook", "err_stop", "err_retry"}
                    \/ pc \in {"on_open", "feed", "err_retry", "stop"} /\ pc' = "app"
                    \/ pc = "hook" /\ pc' \in {"app", "err_stop", "err_retry"}
                    \/ pc = "err_stop" /\ pc' = "stop"
<1>1. CASE OpenReturns
  <2>1. CASE OpenFails
    BY <2>1 DEF OpenFails, FailConn, Settle, Goto, stops
  <2>2. ASSUME NEW status \in Statuses, NEW ct \in ContentTypes, NEW ra \in RetryAfters,
               OpenRefused(status, ct, ra)
        PROVE  /\ UNCHANGED stop_requested /\ dwell' = 0
               /\ pc = "open" /\ pc' \in {"hook", "err_stop", "err_retry"}
    BY <2>2 DEF OpenRefused, FailConn, Settle, Goto, stops
  <2>3. ASSUME NEW status \in Statuses, NEW ct \in ContentTypes, OpenAccepted(status, ct)
        PROVE  /\ UNCHANGED stop_requested /\ dwell' = 0
               /\ pc = "open" /\ pc' = "on_open"
    BY <2>3 DEF OpenAccepted, Goto, stops
  <2> QED BY <1>1, <2>1, <2>2, <2>3 DEF OpenReturns
<1>2. CASE ReadReturns
  <2>1. CASE ReadStopped \/ ReadData
    BY <2>1 DEF ReadStopped, ReadData, Return, Goto, stops
  <2>2. CASE ReadTimedOut \/ ReadOversize \/ ReadEnded
    BY <2>2 DEF ReadTimedOut, ReadOversize, ReadEnded, FailConn, Settle, Return, Goto, stops
  <2> QED BY <1>2, <2>1, <2>2 DEF ReadReturns
<1>3. CASE Parse
  BY <1>3 DEF Parse, BridgeOnId, BridgeOnRetry, BridgeOnEvent, BridgeOnPerr, Bridge,
              call, time, stops
<1>4. CASE FeedDone
  BY <1>4 DEF FeedDone, Return, Goto, stops
<1>5. CASE Report
  <2>1. CASE \E retry \in BOOLEAN, closes \in BOOLEAN : Hook(retry, closes)
    BY <2>1 DEF Hook, Settle, Return, Goto, failFrame, stops
  <2>2. CASE (\E closes \in BOOLEAN : OnOpen(closes) \/ ErrStop(closes) \/ ErrRetry(closes))
             \/ Stop
    BY <2>2 DEF OnOpen, ErrStop, ErrRetry, Stop, Return, Goto, failFrame, stops
  <2> QED BY <1>5, <2>1, <2>2 DEF Report
<1> QED BY <1>1, <1>2, <1>3, <1>4, <1>5

\* Where the entry of poll leads.
LEMMA Enters ==
    ASSUME Poll, state # "CLOSED"
    PROVE  /\ UNCHANGED stop_requested /\ dwell' = 0 /\ pc = "app"
           /\ \/ pc' = "app" /\ hint' = UINT32_MAX
              \/ pc' \in {"app", "open", "read"} /\ ~ stop_requested
<1>1. CASE PollStopped
  BY <1>1 DEF PollStopped, Return, Goto, stops
<1>2. CASE PollConnect \/ PollWait \/ PollRead
  BY <1>2 DEF PollConnect, PollWait, PollRead, StopSeenAtEntry, Return, Goto, stops
<1> QED BY <1>1, <1>2 DEF Poll, PollClosed


\* The arithmetic of a step inside poll.
LEMMA MovesInTime ==
    ASSUME NEW p, NEW q, NEW d \in Nat, NEW a \in Nat,
           d <= Stay(p), a <= Before(p) + d,
           \/ p = "open" /\ q \in {"on_open", "hook", "err_stop", "err_retry"}
           \/ p = "read" /\ q \in {"app", "feed", "hook", "err_stop", "err_retry"}
           \/ p \in {"on_open", "feed", "err_retry", "stop"} /\ q = "app"
           \/ p = "hook" /\ q \in {"app", "err_stop", "err_retry"}
           \/ p = "err_stop" /\ q = "stop"
    PROVE  a <= Before(q)
<1> USE TimesAreNat DEF Before, Stay
<1>1. CASE p \in {"open", "read"}
  <2>1. a <= Longest
    BY <1>1
  <2> QED BY <1>1, <2>1
<1>2. CASE p \in {"on_open", "feed", "hook"}
  <2>1. a <= Longest + CallbackMs
    BY <1>2
  <2> QED BY <1>2, <2>1
<1>3. CASE p \in {"err_retry", "err_stop"}
  <2>1. a <= Longest + 2 * CallbackMs
    BY <1>3
  <2> QED BY <1>3, <2>1
<1>4. CASE p = "stop"
  BY <1>4
<1> QED BY <1>1, <1>2, <1>3, <1>4

\* Every step of the task keeps the invariant.
LEMMA LatencyStep ==
    ASSUME SafetyInv, SafetyInv', LatencyInv, [TaskNext]_tvars
    PROVE  LatencyInv'
<1>0. /\ hint' \in Nat /\ dwell \in Nat /\ dwell' \in Nat
      /\ DelayCap \in Nat /\ Lag \in Nat /\ CallbackMs \in Nat /\ Longest \in Nat
      /\ \A q : Before(q) \in Nat /\ Stay(q) \in Nat
  BY TimesAreNat, WidthAssumption DEF SafetyInv, TypeOK, Clock, UINT32_MAX, Modulus, Before, Stay
<1>1. CASE CloseBefore
  BY <1>1 DEF CloseBefore, Close, LatencyInv, call, time, stops
<1>2. CASE StartTask
  BY <1>0, <1>2 DEF StartTask, LatencyInv, vars, call, time, stops
<1>3. CASE TaskEnds
  BY <1>3 DEF TaskEnds, LatencyInv, vars, call, time, stops
<1>4. CASE Wake
  <2>1. pc = "app"
    BY <1>4 DEF Wake, LatencyInv
  <2> QED BY <1>0, <1>4, <2>1 DEF Wake, LatencyInv, vars, call, time, stops
<1>5. CASE StopTask
  BY <1>0, <1>5 DEF StopTask, RequestStop, LatencyInv, call, time
<1>6. CASE TaskTick
  <2>1. /\ task \in {"run", "delay"} /\ UNCHANGED <<task, left, pc, stop_requested>>
        /\ dwell' = dwell + 1
        /\ dwell < (IF pc = "app" THEN left + Lag ELSE Budget)
        /\ stop_age' = IF stop_requested THEN AtMost(stop_age + 1, StopBound + 1) ELSE 0
    BY <1>6 DEF TaskTick, Elapse, call, stops
  <2>2. StopBound \in Nat
    BY <1>0 DEF StopBound
  <2>3. dwell' <= Stay(pc)
    <3>1. CASE pc = "app"
      BY <1>0, <2>1, <3>1 DEF LatencyInv, Stay
    <3>2. CASE pc # "app"
      BY <1>0, <2>1, <3>2, TimesAreNat DEF Budget, Stay
    <3> QED BY <3>1, <3>2
  <2>4. stop_age \in Nat /\ stop_age <= Before(pc) + dwell
    BY <2>1 DEF LatencyInv
  <2>5. stop_age' \in Nat /\ stop_age' <= stop_age + 1
    BY <2>1, <2>2, <2>4 DEF AtMost
  <2>6. stop_age' <= Before(pc) + dwell'
    BY <1>0, <2>1, <2>4, <2>5
  <2> QED BY <2>1, <2>3, <2>5, <2>6 DEF LatencyInv
<1>7. ASSUME NEW s \in Nat, Returned(s)
      PROVE  left' \in 0 .. DelayCap /\ task' \in {"run", "delay", "gone"}
             /\ (s = UINT32_MAX => task' = "gone")
  <2>1. left \in 0 .. DelayCap /\ DelayFor(s) \in 0 .. DelayCap
    BY DelayIsCapped DEF LatencyInv
  <2> QED BY <1>7, <2>1 DEF Returned, Ends
<1>8. CASE TaskPoll
  <2>1. /\ task = "run" /\ UNCHANGED stop_age
        /\ IF pc' = "app" THEN Returned(hint') ELSE UNCHANGED <<task, left>>
        /\ UNCHANGED stop_requested /\ dwell' = 0
        /\ \/ pc' = "app" /\ hint' = UINT32_MAX
           \/ pc' \in {"app", "open", "read"} /\ ~ stop_requested
    BY <1>8, Enters DEF TaskPoll, InPoll
  <2>2. CASE pc' = "app" /\ hint' = UINT32_MAX
    <3>1. left' \in 0 .. DelayCap /\ task' = "gone"
      BY <1>0, <1>7, <2>1, <2>2
    <3> QED BY <2>1, <2>2, <3>1 DEF LatencyInv
  <2>3. CASE pc' \in {"app", "open", "read"} /\ ~ stop_requested
    <3>1. left' \in 0 .. DelayCap /\ task' \in {"run", "delay", "gone"}
          /\ (pc' # "app" => task' = "run")
      BY <1>0, <1>7, <2>1, <2>3 DEF LatencyInv
    <3>2. stop_age' = 0
      BY <2>1, <2>3 DEF LatencyInv
    <3>3. dwell' <= Stay(pc') /\ stop_age' <= Before(pc') + dwell'
      BY <1>0, <2>1, <3>2
    <3> QED BY <2>1, <2>3, <3>1, <3>2, <3>3 DEF LatencyInv
  <2> QED BY <2>1, <2>2, <2>3
<1>9. CASE InPoll(OpenReturns) \/ InPoll(ReadReturns) \/ InPoll(Parse)
           \/ InPoll(FeedDone) \/ InPoll(Report)
  <2>1. /\ UNCHANGED <<stop_age, stop_requested>>
        /\ IF pc' = "app" THEN Returned(hint') ELSE UNCHANGED <<task, left>>
    BY <1>9, Moves DEF InPoll
  <2>2. \/ pc = "feed" /\ pc' = "feed" /\ dwell' = dwell
        \/ /\ dwell' = 0
           /\ \/ pc = "open" /\ pc' \in {"on_open", "hook", "err_stop", "err_retry"}
              \/ pc = "read" /\ pc' \in {"app", "feed", "hook", "err_stop", "err_retry"}
              \/ pc \in {"on_open", "feed", "err_retry", "stop"} /\ pc' = "app"
              \/ pc = "hook" /\ pc' \in {"app", "err_stop", "err_retry"}
              \/ pc = "err_stop" /\ pc' = "stop"
    BY <1>9, Moves DEF InPoll
  <2>3. /\ task = "run" /\ left \in 0 .. DelayCap /\ stop_age \in Nat
        /\ dwell <= Stay(pc) /\ stop_age <= Before(pc) + dwell
        /\ ~ stop_requested => stop_age = 0
    BY <2>2 DEF LatencyInv
  <2>4. left' \in 0 .. DelayCap /\ task' \in {"run", "delay", "gone"}
        /\ (pc' # "app" => task' = "run")
    BY <1>0, <1>7, <2>1, <2>3
  <2>5. dwell' <= Stay(pc') /\ stop_age' <= Before(pc') + dwell'
    <3>1. CASE pc = "feed" /\ pc' = "feed" /\ dwell' = dwell
      BY <2>1, <2>3, <3>1
    <3>2. CASE dwell' = 0 /\ ~ (pc = "feed" /\ pc' = "feed" /\ dwell' = dwell)
      <4>1. stop_age <= Before(pc')
        BY <1>0, <2>2, <2>3, <3>2, MovesInTime
      <4> QED BY <1>0, <2>1, <2>3, <3>2, <4>1
    <3> QED BY <2>2, <3>1, <3>2
  <2> QED BY <2>1, <2>3, <2>4, <2>5 DEF LatencyInv
<1>10. CASE UNCHANGED tvars
  BY <1>10 DEF tvars, vars, LatencyInv, call, time, stops
<1> QED BY <1>1, <1>2, <1>3, <1>4, <1>5, <1>6, <1>8, <1>9, <1>10 DEF TaskNext

\* The bounds hold at every point of the task.
LEMMA TaskLatency == TaskSpec => []LatencyInv
<1>1. TaskInit => LatencyInv
  BY TimesAreNat DEF TaskInit, Init, LatencyInv
<1>2. SafetyInv /\ SafetyInv' /\ LatencyInv /\ [TaskNext]_tvars => LatencyInv'
  BY LatencyStep
<1> QED BY <1>1, <1>2, TaskSafety, PTL DEF TaskSpec

\* A stop request ends the task within one blocking call, the callbacks after
\* it, one capped delay and the lateness of a wakeup.
THEOREM StopLatencyHolds == TaskSpec => []StopLatency
<1>1. SafetyInv /\ LatencyInv => StopLatency
  <2> SUFFICES ASSUME SafetyInv, LatencyInv, stop_requested, task \in {"run", "delay"}
               PROVE  stop_age <= StopBound
    BY DEF StopLatency
  <2>1. /\ stop_age \in Nat /\ dwell \in Nat
        /\ dwell <= Stay(pc) /\ stop_age <= Before(pc) + dwell
    BY DEF LatencyInv, SafetyInv, TypeOK
  <2> USE TimesAreNat
  <2>2. CASE pc = "app"
    BY <2>1, <2>2 DEF StopBound, Before, Stay
  <2>3. CASE pc \in {"open", "read"}
    BY <2>1, <2>3 DEF StopBound, Before, Stay
  <2>4. CASE pc \in {"on_open", "feed", "hook", "err_stop", "err_retry", "stop"}
    <3>1. stop_age <= Longest + 3 * CallbackMs
      BY <2>1, <2>4 DEF Before, Stay
    <3> QED BY <2>1, <3>1 DEF StopBound
  <2> QED BY <2>2, <2>3, <2>4 DEF SafetyInv, TypeOK, PCs
<1> QED BY <1>1, TaskSafety, TaskLatency, PTL

----------------------------------------------------------------------------
(* Cutting a delay into pieces misses no reconnect. *)

\* How late the task may notice a deadline.
TaskLateness == Lag + CallbackMs + Capped(ReadMs)

TaskLatenessFits == TaskLateness < Half

\* How far past the delay the waiting client can be: what is left of the
\* task's own delay counts as passed.
TaskLateInv ==
    /\ task # "delay" => left = 0
    /\ task = "none" => state # "WAITING_RETRY"
    /\ state = "WAITING_RETRY" =>
          /\ pc = "err_retry" => age <= dwell
          /\ pc = "app" =>
                /\ age <= err.retry_in_ms + TaskLateness
                /\ left + age <= err.retry_in_ms + dwell + CallbackMs + Capped(ReadMs)

\* The lateness is a natural number.
LEMMA LatenessIsNat ==
    /\ Capped(ReadMs) \in Nat /\ TaskLateness \in Nat
    /\ TaskLateness = Lag + CallbackMs + Capped(ReadMs)
BY TimesAreNat DEF TaskLateness, Capped, AtMost

\* A delay is no longer than its hint, nor than the cap.
LEMMA DelayIsShort ==
    ASSUME NEW s \in Nat
    PROVE  DelayFor(s) \in Nat /\ DelayFor(s) <= Capped(s) /\ DelayFor(s) <= s
           /\ Capped(s) \in Nat
<1>1. Capped(s) \in Nat /\ Capped(s) <= s /\ TickMs \in Nat /\ TickMs > 0
  BY TaskAssumption DEF Capped, AtMost
<1>2. DelayFor(s) \in 0 .. Capped(s)
  BY <1>1, WholeTicks DEF DelayFor
<1> QED BY <1>1, <1>2

\* What the loop does with a hint, when no delay was under way.
LEMMA ReturnedLeft ==
    ASSUME NEW s \in Nat, left = 0, Returned(s)
    PROVE  /\ left' \in Nat /\ left' <= Capped(s) /\ left' <= s
           /\ task' # "delay" => left' = 0
           /\ task' # "none"
<1>1. DelayFor(s) \in Nat /\ DelayFor(s) <= Capped(s) /\ DelayFor(s) <= s
      /\ Capped(s) \in Nat
  BY DelayIsShort
<1>2. CASE Ends(s)
  BY <1>1, <1>2 DEF Returned
<1>3. CASE ~ Ends(s)
  BY <1>1, <1>3 DEF Returned
<1> QED BY <1>2, <1>3

\* A step of poll, or of the parser, leaves a waiting client in time.
LEMMA TaskLateWorks ==
    ASSUME TaskLatenessFits, SafetyInv, SafetyInv', PastInv, LatencyInv, TaskLateInv,
           task = "run",
           Poll \/ OpenReturns \/ ReadReturns \/ Parse \/ FeedDone \/ Report,
           IF pc' = "app" THEN Returned(hint') ELSE UNCHANGED <<task, left>>
    PROVE  TaskLateInv'
<1>0. /\ err.retry_in_ms \in Nat /\ age \in Nat /\ dwell \in Nat /\ hint' \in Nat
      /\ CallbackMs \in Nat /\ Lag \in Nat /\ Half \in Nat /\ left = 0
  BY WaitingTypes, BoundsAreNat DEF SafetyInv, TypeOK, Clock, UINT32_MAX, TaskLateInv
<1>1. /\ task' # "delay" => left' = 0
      /\ task' # "none"
  BY <1>0, ReturnedLeft
<1>2. SUFFICES ASSUME state' = "WAITING_RETRY"
      PROVE  /\ pc' = "err_retry" => age' <= dwell'
             /\ pc' = "app" =>
                  /\ age' <= err'.retry_in_ms + TaskLateness
                  /\ left' + age' <= err'.retry_in_ms + dwell' + CallbackMs + Capped(ReadMs)
  BY <1>1 DEF TaskLateInv
<1>3. CASE Parse
  <2>1. pc = "feed" /\ state = "OPEN" /\ state' \in {"OPEN", "CLOSED"}
    BY <1>3 DEF Parse, BridgeOnId, BridgeOnRetry, BridgeOnEvent, BridgeOnPerr, Bridge,
       Dispatching, Callback, ToClosed
  <2> QED BY <1>2, <2>1
<1>4. CASE ~ Parse
  <2>1. Works
    BY <1>4, PollWorks
  <2>2. CASE Neither \/ Heard
    BY <1>2, <2>2 DEF Neither, Heard
  <2>3. CASE Schedules
    BY <2>3 DEF Schedules
  <2>4. CASE GoesOn
    <3>0. state = "WAITING_RETRY" /\ dwell' = 0 /\ age' = age /\ err' = err
      BY <1>2, <2>4 DEF GoesOn
    <3>1. CASE pc = "app" /\ pc' = "app" /\ hint' = Remain
      <4>1. age <= err.retry_in_ms + TaskLateness
        BY <3>0, <3>1 DEF TaskLateInv
      <4>2. Remain = err.retry_in_ms - age
        BY <3>0, <4>1, RemainIs, LatenessIsNat DEF TaskLatenessFits
      <4>3. left' \in Nat /\ left' <= hint'
        BY <1>0, <3>1, ReturnedLeft
      <4> QED BY <1>0, <3>0, <3>1, <4>2, <4>3, LatenessIsNat
    <3>2. CASE pc = "err_retry" /\ pc' = "app" /\ hint' = FailHint
      <4>1. left' \in Nat /\ left' <= Capped(hint') /\ left' <= hint'
        BY <1>0, <3>2, ReturnedLeft
      <4>2. left' <= Capped(ReadMs)
        BY <3>2, <4>1, LatenessIsNat DEF FailHint
      <4>3. age <= dwell /\ dwell <= CallbackMs
        BY <3>0, <3>2 DEF TaskLateInv, LatencyInv, Stay
      <4> QED BY <1>0, <3>0, <3>2, <4>1, <4>2, <4>3, LatenessIsNat
    <3> QED BY <2>4, <3>0, <3>1, <3>2 DEF GoesOn
  <2> QED BY <2>1, <2>2, <2>3, <2>4 DEF Works
<1> QED BY <1>3, <1>4

\* Time leaves a waiting client in time.
LEMMA TaskLateTick ==
    ASSUME SafetyInv, LatencyInv, TaskLateInv, TaskTick
    PROVE  TaskLateInv'
<1>1. /\ UNCHANGED <<pc, state, err, task, left>> /\ dwell' = dwell + 1
      /\ task \in {"run", "delay"}
      /\ dwell < (IF pc = "app" THEN left + Lag ELSE Budget)
      /\ (state = "WAITING_RETRY" =>
            age' = IF age + 1 > Modulus THEN Modulus ELSE age + 1)
  BY ElapseIs DEF TaskTick
<1>2. SUFFICES ASSUME state = "WAITING_RETRY"
      PROVE  /\ pc = "err_retry" => age' <= dwell'
             /\ pc = "app" =>
                  /\ age' <= err.retry_in_ms + TaskLateness
                  /\ left + age' <= err.retry_in_ms + dwell' + CallbackMs + Capped(ReadMs)
  BY <1>1 DEF TaskLateInv
<1>3. /\ err.retry_in_ms \in Nat /\ age \in Nat /\ dwell \in Nat /\ left \in Nat
      /\ CallbackMs \in Nat /\ Lag \in Nat /\ Modulus \in Nat
  BY WaitingTypes, BoundsAreNat, TimesAreNat DEF LatencyInv
<1>4. age' \in Nat /\ age' <= age + 1
  <2>1. CASE age + 1 > Modulus
    BY <1>1, <1>2, <1>3, <2>1
  <2>2. CASE ~ (age + 1 > Modulus)
    BY <1>1, <1>2, <1>3, <2>2
  <2> QED BY <2>1, <2>2
<1>5. CASE pc = "err_retry"
  BY <1>1, <1>2, <1>3, <1>4, <1>5 DEF TaskLateInv
<1>6. CASE pc = "app"
  <2>1. left + age <= err.retry_in_ms + dwell + CallbackMs + Capped(ReadMs)
        /\ dwell < left + Lag
    BY <1>1, <1>2, <1>6 DEF TaskLateInv
  <2> QED BY <1>1, <1>3, <1>4, <1>6, <2>1, LatenessIsNat
<1> QED BY <1>5, <1>6

\* Every step of the task leaves a waiting client in time.
LEMMA TaskLateStep ==
    ASSUME TaskLatenessFits, SafetyInv, SafetyInv', PastInv, LatencyInv, LatencyInv',
           TaskLateInv, [TaskNext]_tvars
    PROVE  TaskLateInv'
<1>1. CASE TaskTick
  BY <1>1, TaskLateTick
<1>2. CASE CloseBefore
  BY <1>2 DEF CloseBefore, Close, ToClosed, call, time, TaskLateInv
<1>3. CASE StartTask \/ TaskEnds
  BY <1>3 DEF StartTask, TaskEnds, vars, client, call, time, TaskLateInv
<1>4. CASE Wake
  <2>1. /\ UNCHANGED <<pc, state, err, age, dwell>> /\ task' = "run" /\ left' = 0
    BY <1>4 DEF Wake, vars, client, call, time
  <2>2. age \in Nat /\ left \in Nat /\ dwell \in Nat /\ err.retry_in_ms \in Nat
        /\ CallbackMs \in Nat
    BY WaitingTypes, TimesAreNat DEF LatencyInv
  <2> QED BY <2>1, <2>2, LatenessIsNat DEF TaskLateInv
<1>5. CASE StopTask
  BY <1>5 DEF StopTask, RequestStop, client, call, time, TaskLateInv
<1>6. CASE TaskPoll
  BY <1>6, TaskLateWorks DEF TaskPoll, InPoll
<1>7. CASE InPoll(OpenReturns) \/ InPoll(ReadReturns) \/ InPoll(Parse)
           \/ InPoll(FeedDone) \/ InPoll(Report)
  <2>1. pc # "app"
    BY <1>7, Moves DEF InPoll
  <2>2. task = "run"
    BY <2>1 DEF LatencyInv
  <2> QED BY <1>7, <2>2, TaskLateWorks DEF InPoll
<1>8. CASE UNCHANGED tvars
  BY <1>8 DEF tvars, vars, client, call, time, TaskLateInv
<1> QED BY <1>1, <1>2, <1>3, <1>4, <1>5, <1>6, <1>7, <1>8 DEF TaskNext

\* Every step of the task keeps the distance to a deadline that has passed.
LEMMA TaskPastStep ==
    ASSUME SafetyInv, SafetyInv', PastInv, [TaskNext]_tvars
    PROVE  PastInv'
<1>1. CASE Elapse
  BY <1>1, PastStep
<1>2. CASE Next
  BY <1>2, StepKinds, PastStep DEF Kinds, Tick
<1>3. CASE UNCHANGED vars
  BY <1>3 DEF vars, client, call, time, PastInv
<1> QED BY <1>1, <1>2, <1>3, TaskStepOfClient DEF tvars

\* However a delay is cut and rounded, the task notices a reconnect within the
\* lateness of one wakeup, well before the signed clock difference wraps.
THEOREM TaskPunctualHolds == TaskLatenessFits => (TaskSpec => []TaskPunctual)
<1> SUFFICES ASSUME TaskLatenessFits PROVE TaskSpec => []TaskPunctual
  OBVIOUS
<1>1. TaskInit => PastInv /\ TaskLateInv
  BY DEF TaskInit, Init, PastInv, TaskLateInv
<1>2. SafetyInv /\ SafetyInv' /\ LatencyInv /\ LatencyInv' /\ PastInv /\ TaskLateInv
      /\ [TaskNext]_tvars => PastInv' /\ TaskLateInv'
  BY TaskPastStep, TaskLateStep
<1>3. SafetyInv /\ LatencyInv /\ TaskLateInv => TaskPunctual
  <2> SUFFICES ASSUME SafetyInv, LatencyInv, TaskLateInv, state = "WAITING_RETRY"
               PROVE  age <= err.retry_in_ms + Lag + CallbackMs + Capped(ReadMs)
    BY DEF TaskPunctual
  <2>1. /\ pc \in {"app", "err_retry"} /\ err.retry_in_ms \in Nat /\ age \in Nat
        /\ dwell \in Nat /\ Lag \in Nat /\ CallbackMs \in Nat
    BY WaitingTypes, TimesAreNat
  <2>2. CASE pc = "app"
    BY <2>1, <2>2, LatenessIsNat DEF TaskLateInv
  <2>3. CASE pc = "err_retry"
    <3>1. age <= dwell /\ dwell <= CallbackMs
      BY <2>3 DEF TaskLateInv, LatencyInv, Stay
    <3> QED BY <2>1, <3>1, LatenessIsNat
  <2> QED BY <2>1, <2>2, <2>3
<1> QED BY <1>1, <1>2, <1>3, TaskSafety, TaskLatency, PTL DEF TaskSpec

----------------------------------------------------------------------------
(* The task is a polling application that SSEClient allows: it sleeps for *)
(* no longer than the hint and comes back at most Lag late.               *)

DelayInv ==
    /\ task # "delay" => left = 0
    /\ pc = "app" => left <= hint

\* The delay under way was cut from the last hint.
LEMMA DelayStep ==
    ASSUME SafetyInv, SafetyInv', LatencyInv, DelayInv, [TaskNext]_tvars
    PROVE  DelayInv'
<1>0. hint \in Nat /\ hint' \in Nat
  BY BoundsAreNat DEF SafetyInv, TypeOK, Clock, UINT32_MAX
<1>1. CASE CloseBefore
  BY <1>1 DEF CloseBefore, Close, call, time, DelayInv
<1>2. CASE StartTask \/ TaskEnds \/ Wake
  BY <1>0, <1>2 DEF StartTask, TaskEnds, Wake, vars, call, DelayInv
<1>3. CASE StopTask \/ TaskTick
  BY <1>3 DEF StopTask, RequestStop, TaskTick, Elapse, call, DelayInv
<1>4. ASSUME task = "run",
             IF pc' = "app" THEN Returned(hint') ELSE UNCHANGED <<task, left>>
      PROVE  DelayInv'
  <2>1. left = 0
    BY <1>4 DEF DelayInv
  <2> QED BY <1>0, <1>4, <2>1, ReturnedLeft DEF DelayInv
<1>5. CASE TaskPoll
  BY <1>4, <1>5 DEF TaskPoll, InPoll
<1>6. CASE InPoll(OpenReturns) \/ InPoll(ReadReturns) \/ InPoll(Parse)
           \/ InPoll(FeedDone) \/ InPoll(Report)
  <2>1. pc # "app"
    BY <1>6, Moves DEF InPoll
  <2>2. task = "run"
    BY <2>1 DEF LatencyInv
  <2> QED BY <1>4, <1>6, <2>2 DEF InPoll
<1>7. CASE UNCHANGED tvars
  BY <1>7 DEF tvars, vars, call, DelayInv
<1> QED BY <1>1, <1>2, <1>3, <1>5, <1>6, <1>7 DEF TaskNext

\* Each step of the task is a step of the client, or none of its business: a
\* ms passes only while the client alone would let it pass.
LEMMA TaskStepAllowed ==
    ASSUME SafetyInv, LatencyInv, DelayInv, [TaskNext]_tvars
    PROVE  [Next]_vars
<1>1. CASE TaskTick
  <2>1. dwell < (IF pc = "app" THEN left + Lag ELSE Budget) /\ Elapse
    BY <1>1 DEF TaskTick
  <2>2. dwell < Budget
    <3>1. CASE pc = "app"
      <4>1. /\ dwell \in Nat /\ hint \in Nat /\ left \in Nat /\ Lag \in Nat
            /\ left <= hint /\ dwell < left + Lag
        BY <2>1, <3>1, TimesAreNat, BoundsAreNat
        DEF SafetyInv, TypeOK, Clock, UINT32_MAX, LatencyInv, DelayInv
      <4> QED BY <3>1, <4>1, BudgetIs
    <3>2. CASE pc # "app"
      BY <2>1, <3>2
    <3> QED BY <3>1, <3>2
  <2> QED BY <2>1, <2>2 DEF Tick, Next
<1>2. CASE CloseBefore \/ StartTask \/ TaskEnds \/ Wake \/ StopTask
  BY <1>2 DEF CloseBefore, StartTask, TaskEnds, Wake, StopTask, Next
<1>3. CASE TaskPoll
  BY <1>3 DEF TaskPoll, InPoll, Next
<1>4. CASE InPoll(OpenReturns) \/ InPoll(ReadReturns) \/ InPoll(Parse)
           \/ InPoll(FeedDone) \/ InPoll(Report)
  BY <1>4 DEF InPoll, Next
<1>5. CASE UNCHANGED tvars
  BY <1>5 DEF tvars
<1> QED BY <1>1, <1>2, <1>3, <1>4, <1>5 DEF TaskNext

\* The polling task implements the client's specification: capping, rounding
\* and restarting the delay never adds a behaviour the client did not allow.
THEOREM TaskIsClient == TaskSpec => Spec
<1>1. TaskInit => Init /\ DelayInv
  BY DEF TaskInit, Init, DelayInv
<1>2. SafetyInv /\ SafetyInv' /\ LatencyInv /\ DelayInv /\ [TaskNext]_tvars => DelayInv'
  BY DelayStep
<1>3. SafetyInv /\ LatencyInv /\ DelayInv /\ [TaskNext]_tvars => [Next]_vars
  BY TaskStepAllowed
<1> QED BY <1>1, <1>2, <1>3, TaskSafety, TaskLatency, PTL DEF TaskSpec, Spec

\* So the application under the task hears of every failure once and in order,
\* of nothing after on_closed, and of no idle timeout that was not one; and no
\* reconnect comes before its delay.
THEOREM TaskKeepsPromises ==
    TaskSpec => ContractKept /\ ClosedIsFinal /\ IdleIsReal /\ NoEarlyReconnect
BY TaskIsClient, ContractIsKept, ClosedIsFinalHolds, IdleIsRealHolds, NoEarlyReconnectHolds
=============================================================================
