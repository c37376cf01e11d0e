------------------------------ MODULE PollTask ------------------------------
(***************************************************************************)
(* The polling task of src/ports/esp-idf/sse_client_task.c around a client *)
(* (SSEClient): it polls until the client is CLOSED and sleeps in between, *)
(* never for all of a long hint.  Only the stop flag and the callbacks     *)
(* reach the client from outside.                                          *)
(***************************************************************************)
EXTENDS SSEClient

CONSTANTS
    DelayCap,       \* 250 ms in the program
    TickMs          \* portTICK_PERIOD_MS

ASSUME TaskAssumption == DelayCap \in Nat /\ TickMs \in Nat \ {0}

VARIABLES
    task,           \* none, run, delay (in vTaskDelay), gone
    left,           \* length of the current delay
    stop_age        \* history: ms since the stop flag was raised

tvars == <<vars, task, left, stop_age>>

Faulty_Capped(s) == s               \* sleeps for the whole hint

Capped(s) == AtMost(s, DelayCap)

Faulty_DelayFor(s) == Capped(s) * TickMs    \* milliseconds taken for ticks

\* pdMS_TO_TICKS() rounds down: a delay below one tick only yields.
DelayFor(s) == (Capped(s) \div TickMs) * TickMs

Faulty_Ends(s) == s >= INT32_MAX    \* a long delay taken for the sentinel

Ends(s) == s = UINT32_MAX

\* The loop after poll has returned s.
Returned(s) ==
    IF Ends(s) THEN task' = "gone" /\ UNCHANGED left
    ELSE /\ left' = DelayFor(s)
         /\ task' = IF DelayFor(s) = 0 THEN "run" ELSE "delay"

\* A step inside poll; if it returns, the loop goes on.
InPoll(step) ==
    /\ step
    /\ IF pc' = "app" THEN Returned(hint') ELSE UNCHANGED <<task, left>>
    /\ UNCHANGED stop_age

\* The application may close the client before it hands it to the task.
CloseBefore == task = "none" /\ Close /\ UNCHANGED <<task, left, stop_age>>

\* xTaskCreate() succeeded.
StartTask == task = "none" /\ task' = "run" /\ UNCHANGED <<vars, left, stop_age>>

TaskPoll == task = "run" /\ state # "CLOSED" /\ InPoll(Poll)

\* The loop condition fails and vTaskDelete() ends the task.
TaskEnds ==
    /\ task = "run" /\ pc = "app" /\ state = "CLOSED"
    /\ task' = "gone" /\ UNCHANGED <<vars, left, stop_age>>

\* vTaskDelay(n) ends at the n-th tick from now, the first of which may come
\* at once.
Wake ==
    /\ task = "delay" /\ dwell > left - TickMs
    /\ task' = "run" /\ left' = 0
    /\ UNCHANGED <<vars, stop_age>>

StopTask == RequestStop /\ UNCHANGED <<task, left, stop_age>>

Longest   == IF OpenMs > ReadMs THEN OpenMs ELSE ReadMs
StopBound == Longest + 3 * CallbackMs + DelayCap + Lag

\* Time passes while the task is blocked, or not scheduled for at most Lag.
TaskTick ==
    /\ task \in {"run", "delay"}
    /\ dwell < (IF pc = "app" THEN left + Lag ELSE Budget)
    /\ Elapse
    /\ stop_age' = IF stop_requested THEN AtMost(stop_age + 1, StopBound + 1) ELSE 0
    /\ UNCHANGED <<task, left>>

TaskInit == Init /\ task = "none" /\ left = 0 /\ stop_age = 0

TaskNext ==
    \/ CloseBefore \/ StartTask \/ TaskPoll \/ TaskEnds \/ Wake \/ StopTask \/ TaskTick
    \/ InPoll(OpenReturns) \/ InPoll(ReadReturns) \/ InPoll(Parse)
    \/ InPoll(FeedDone) \/ InPoll(Report)

\* The task is scheduled, calls and callbacks return, and time passes.
TaskSpec ==
    /\ TaskInit /\ [][TaskNext]_tvars
    /\ WF_tvars(TaskPoll) /\ WF_tvars(TaskEnds) /\ WF_tvars(Wake)
    /\ WF_tvars(InPoll(OpenReturns)) /\ WF_tvars(InPoll(ReadReturns))
    /\ WF_tvars(InPoll(FeedDone)) /\ WF_tvars(InPoll(Report))
    /\ SF_tvars(TaskTick)

----------------------------------------------------------------------------
(* Properties. *)

\* The task outlives a stop request by at most one blocking call with its
\* callbacks and one capped delay, however long the client would wait.
StopLatency ==
    (stop_requested /\ task \in {"run", "delay"}) =>
        stop_age <= StopBound

\* The task ends only after it has closed its client: nobody else polls it.
TaskEndsClosed == task = "gone" => state = "CLOSED"

\* Capping and rounding the delay never makes the task miss a reconnect: it is
\* noticed at the next wakeup, well before the signed clock difference wraps.
TaskPunctual ==
    state = "WAITING_RETRY" =>
        age <= err.retry_in_ms + Lag + CallbackMs + Capped(ReadMs)

\* A stop request ends the task.
TaskStops == (stop_requested /\ task # "none") ~> task = "gone"
=============================================================================
