----------------------------- MODULE SSEClient -----------------------------
(***************************************************************************)
(* The connection state machine of src/src/sse_client.c: one polling task  *)
(* calls sse_client_poll(), another task may raise the stop flag, and the  *)
(* application's callbacks run inside poll and may close the client.       *)
(*                                                                         *)
(* poll is cut into steps at the places where something outside the client *)
(* runs: the transport's open() and read(), each application callback and  *)
(* the return to the caller.  pc says where the polling task is:           *)
(*                                                                         *)
(*   app        outside poll                                               *)
(*   open       blocked in transport->open()                               *)
(*   on_open    about to call on_open                                      *)
(*   read       blocked in transport->read()                               *)
(*   feed       inside sse_parser_feed(), between two parser callbacks     *)
(*   hook       about to call reconnect_policy                             *)
(*   err_stop   about to call on_error for a failure that is final         *)
(*   stop       between that on_error and to_closed()                      *)
(*   err_retry  about to call on_error for a failure that is retried       *)
(*                                                                         *)
(* Times are milliseconds read from a clock of Modulus = 2 * Half values;  *)
(* the program has Half = 2^31.                                            *)
(***************************************************************************)
EXTENDS Integers, FiniteSets

CONSTANTS
    \* widths
    Half,               \* 2^31 in the program
    MsPerSecond,        \* 1000 in the program
    MaxShift,           \* 15 in the program
    AttemptsCap,        \* failures are counted exactly up to this bound
    IdMax,              \* SSE_CLIENT_ID_MAX
    \* sse_client_config_t
    DefaultRetryMs, FallbackRetryMs,    \* configured, and used when it is 0
    ReadTimeoutMs, FallbackReadMs,      \* configured, and used when it is 0
    MaxRetryMs, JitterPct, IdleTimeoutMs, SkipContentTypeCheck,
    IdBufLen,
    Installed,          \* the callbacks that are not NULL
    \* what the environment may send, and how long it may take
    ClockStarts, Statuses, RetryAfters, Ids, RetryFields,
    OpenMs, CallbackMs, Lag

Modulus    == 2 * Half
UINT32_MAX == Modulus - 1
INT32_MAX  == Half - 1
Clock      == 0 .. UINT32_MAX

Callbacks == {"on_open", "on_message", "on_error", "on_closed", "reconnect_policy"}
States    == {"IDLE", "CONNECTING", "OPEN", "WAITING_RETRY", "CLOSED"}
Reasons   == {"TRANSPORT", "HTTP_STATUS", "BAD_CONTENT_TYPE", "SERVER_STOP",
              "IDLE_TIMEOUT"}
PCs       == {"app", "open", "on_open", "read", "feed", "hook", "err_stop",
              "stop", "err_retry"}

ASSUME WidthAssumption ==
    /\ Half \in Nat /\ Half > 1
    /\ MsPerSecond \in Nat
    /\ MaxShift \in Nat
    /\ AttemptsCap \in Nat /\ AttemptsCap > MaxShift

\* A fact of arithmetic, spelled out for the shift that backoff uses.
ASSUME ShiftAssumption == \A n \in 0 .. MaxShift : 2 ^ n \in Nat \ {0}

\* sse_client_init() replaces a zero default_retry_ms or read_timeout_ms.
base0  == IF DefaultRetryMs = 0 THEN FallbackRetryMs ELSE DefaultRetryMs
ReadMs == IF ReadTimeoutMs = 0 THEN FallbackReadMs ELSE ReadTimeoutMs

\* What sse_client_init() accepts: uint32_t settings, and an id buffer whose
\* longest id fits the persisted last_event_id.
ASSUME ConfigAssumption ==
    /\ {DefaultRetryMs, ReadTimeoutMs, MaxRetryMs, IdleTimeoutMs} \subseteq Clock
    /\ FallbackRetryMs \in Clock /\ FallbackReadMs \in Clock
    /\ FallbackRetryMs > 0 /\ FallbackReadMs > 0
    /\ JitterPct \in Nat
    /\ SkipContentTypeCheck \in BOOLEAN
    /\ IdMax \in Nat /\ IdBufLen \in 2 .. IdMax + 1
    /\ Installed \subseteq Callbacks

ASSUME EnvironmentAssumption ==
    /\ ClockStarts \subseteq Clock
    /\ Statuses \subseteq Nat
    /\ RetryAfters \subseteq -Half .. INT32_MAX     \* negative: absent
    /\ Ids \subseteq 0 .. IdBufLen - 1      \* an id is known by its length
    /\ RetryFields \subseteq Clock
    /\ OpenMs \in Nat /\ CallbackMs \in Nat /\ Lag \in Nat

VARIABLES
    \* struct sse_client
    state, stop_requested, transport_open, attempts, base_retry_ms,
    retry_deadline, last_rx_ms, last_event_id,
    \* the call in progress
    pc,             \* where the polling task is
    err,            \* the arguments and the result of the latest fail_conn()
    req_id,         \* the Last-Event-ID header of the latest request, 0 if none
    hint,           \* what poll returned last
    now,            \* the clock now_ms() reads
    \* history, read by the properties and by Tick only
    dwell,          \* ms since pc was last set
    age,            \* ms since last_rx_ms or retry_deadline was last set
    parser_id,      \* the id the parser committed last
    last_cb,        \* the callback called last
    closed_count,   \* calls of on_closed
    stop_pc,        \* pc when the stop flag was raised
    ever_open       \* a connection has been open

client  == <<state, transport_open, attempts, base_retry_ms, retry_deadline,
             last_rx_ms, last_event_id>>
call    == <<pc, err, req_id, hint>>
time    == <<now, dwell, age>>
signals == <<last_cb, closed_count>>
history == <<parser_id, ever_open>>
stops   == <<stop_requested, stop_pc>>
vars    == <<client, call, time, signals, history, stops>>

----------------------------------------------------------------------------
(* uint32_t and int32_t arithmetic.  Definitions named Faulty_... are what a *)
(* plausible slip in the code would make of the definition after them; no   *)
(* specification uses them, they show that the properties notice.           *)

Faulty_AddU(a, b) == a + b                          \* no wrap at 2^32
Faulty_AsSigned(u) == u                             \* no int32_t cast

AddU(a, b)  == IF a + b >= Modulus THEN a + b - Modulus ELSE a + b
SubU(a, b)  == IF a >= b THEN a - b ELSE a - b + Modulus
AsSigned(u) == IF u >= Half THEN u - Modulus ELSE u
AtMost(x, bound) == IF x > bound THEN bound ELSE x

NoError == [reason |-> "NONE", http_status |-> 0, retry_after_s |-> -1,
            will_retry |-> FALSE, retry_in_ms |-> 0]

Errors == [reason : Reasons \cup {"NONE"}, http_status : Nat,
           retry_after_s : -Half .. INT32_MAX, will_retry : BOOLEAN,
           retry_in_ms : 0 .. INT32_MAX]

\* default_should_retry().
DefaultShouldRetry(reason, status, retry_after_s) ==
    \/ reason \in {"TRANSPORT", "IDLE_TIMEOUT", "BAD_CONTENT_TYPE"}
    \/ /\ reason = "HTTP_STATUS"
       /\ \/ status >= 500
          \/ status = 429
          \/ retry_after_s >= 0

\* The delay before jitter, computed in 64 bits.
RawDelay(retry_after_s) ==
    IF retry_after_s >= 0 THEN retry_after_s * MsPerSecond
    ELSE IF MaxRetryMs = 0 THEN base_retry_ms
    ELSE AtMost(base_retry_ms * 2 ^ AtMost(attempts, MaxShift), MaxRetryMs)

\* Jitter only adds; prng is the value of prng_next() % (jitter_pct + 1).
Jittered(d, prng) == d + (d * prng) \div 100

\* The single clamp, after all arithmetic.
Clamp(d) == AtMost(d, INT32_MAX)

Faulty_FailHint == ReadMs                           \* every failure sleeps

\* What poll returns after a fail_conn() that left the client not CLOSED.
FailHint == IF err.reason = "IDLE_TIMEOUT" THEN ReadMs ELSE 0

----------------------------------------------------------------------------
(* Steps of the C code that several handlers share. *)

\* The callback called last once cb has been called: a NULL callback is not.
Latest(cb) == IF cb \in Installed THEN cb ELSE last_cb

Goto(p) == pc' = p /\ dwell' = 0

Return(h) == Goto("app") /\ hint' = h

Faulty_PollResult(h) == h                           \* CLOSED is not looked at

\* What poll returns when a callback may have closed the client on the way.
PollResult(h) == IF state' = "CLOSED" THEN UINT32_MAX ELSE h

Faulty_CloseTransport == UNCHANGED transport_open   \* connection leaked

CloseTransport == transport_open' = FALSE

\* CLOSED is not looked at: on_closed fires again.
Faulty_ToClosed(cb) ==
    /\ CloseTransport
    /\ state' = "CLOSED"
    /\ last_cb' = IF "on_closed" \in Installed THEN "on_closed" ELSE cb
    /\ closed_count' = AtMost(closed_count + 1, 2)

\* to_closed(), with cb the callback that called last before it.
ToClosed(cb) ==
    /\ CloseTransport
    /\ IF state = "CLOSED"
       THEN /\ last_cb' = cb
            /\ UNCHANGED <<state, closed_count>>
       ELSE /\ state' = "CLOSED"
            /\ last_cb' = IF "on_closed" \in Installed THEN "on_closed" ELSE cb
            /\ closed_count' = AtMost(closed_count + 1, 2)

\* An application callback that may call sse_client_close().
Callback(cb, closes) ==
    IF closes
    THEN cb \in Installed /\ ToClosed(cb)
    ELSE last_cb' = Latest(cb) /\ UNCHANGED <<state, transport_open, closed_count>>

Faulty_NextAttempts == attempts                     \* no increment

\* attempts++, counted exactly up to AttemptsCap.
NextAttempts == AtMost(attempts + 1, AttemptsCap)

\* fail_conn() from the retry decision on: report and stop, or schedule.
Settle(retry, e) ==
    \/ /\ ~ retry
       /\ err' = [e EXCEPT !.will_retry = FALSE]
       /\ Goto("err_stop")
       /\ UNCHANGED <<state, attempts, retry_deadline, age>>
    \/ /\ retry
       /\ \E prng \in 0 .. JitterPct :
            LET delay == Clamp(Jittered(RawDelay(e.retry_after_s), prng))
            IN  /\ retry_deadline' = AddU(now, delay)
                /\ err' = [e EXCEPT !.will_retry = TRUE, !.retry_in_ms = delay]
       /\ attempts' = NextAttempts
       /\ state' = "WAITING_RETRY"
       /\ age' = 0
       /\ Goto("err_retry")

\* fail_conn() up to the policy hook.
FailConn(reason, status, retry_after_s) ==
    LET dflt == DefaultShouldRetry(reason, status, retry_after_s)
        e    == [reason |-> reason, http_status |-> status,
                 retry_after_s |-> retry_after_s, will_retry |-> dflt,
                 retry_in_ms |-> 0]
    IN  /\ CloseTransport
        /\ IF "reconnect_policy" \in Installed
           THEN /\ err' = e
                /\ Goto("hook")
                /\ UNCHANGED <<state, attempts, retry_deadline, age>>
           ELSE Settle(dflt, e)
        /\ UNCHANGED <<base_retry_ms, last_rx_ms, last_event_id, req_id, hint,
                       now, signals, history, stops>>

----------------------------------------------------------------------------
(* sse_client_poll(), from its entry to its first blocking call. *)

Faulty_StopSeenAtEntry == FALSE                     \* flag not looked at

StopSeenAtEntry == stop_requested

PollStopped ==
    /\ pc = "app" /\ StopSeenAtEntry /\ state # "CLOSED"
    /\ ToClosed(last_cb)
    /\ Return(UINT32_MAX)
    /\ UNCHANGED <<attempts, base_retry_ms, retry_deadline, last_rx_ms,
                   last_event_id, err, req_id, now, age, history, stops>>

PollClosed ==
    /\ pc = "app" /\ state = "CLOSED"
    /\ Return(UINT32_MAX)
    /\ UNCHANGED <<client, err, req_id, now, age, signals, history, stops>>

\* build_headers(): the request carries last_event_id when it is not empty (an
\* id is its length here, and 0 is no header).
BuildHeaders == req_id' = last_event_id

\* do_connect() up to transport->open().
PollConnect ==
    /\ pc = "app" /\ ~ StopSeenAtEntry
    /\ state \in {"IDLE", "CONNECTING"}
    /\ state' = "CONNECTING"
    /\ BuildHeaders
    /\ err' = NoError
    /\ Goto("open")
    /\ UNCHANGED <<transport_open, attempts, base_retry_ms, retry_deadline,
                   last_rx_ms, last_event_id, hint, now, age, signals, history,
                   stops>>

Faulty_Remain == retry_deadline - now               \* compares clock values

\* (int32_t)(retry_deadline - now)
Remain == AsSigned(SubU(retry_deadline, now))

PollWait ==
    /\ pc = "app" /\ ~ StopSeenAtEntry
    /\ state = "WAITING_RETRY"
    /\ IF Remain <= 0
       THEN state' = "CONNECTING" /\ Return(0) /\ age' = 0
       ELSE UNCHANGED <<state, age>> /\ Return(Remain)
    /\ UNCHANGED <<transport_open, attempts, base_retry_ms, retry_deadline,
                   last_rx_ms, last_event_id, err, req_id, now, signals,
                   history, stops>>

PollRead ==
    /\ pc = "app" /\ ~ StopSeenAtEntry
    /\ state = "OPEN"
    /\ Goto("read")
    /\ UNCHANGED <<client, err, req_id, hint, now, age, signals, history, stops>>

Poll == PollStopped \/ PollClosed \/ PollConnect \/ PollWait \/ PollRead

----------------------------------------------------------------------------
(* do_connect() from the return of transport->open(). *)

OpenFails ==
    /\ pc = "open"
    /\ FailConn("TRANSPORT", 0, -1)

\* A Content-Type is text/event-stream in any case, the same with parameters
\* or a space after it, the same with more letters after it, or another one.
ContentTypes == {"exact", "params", "longer", "other"}
CtIsEventStream(ct) == ct \in {"exact", "params"}

\* A response that is not a stream; ra is the parsed Retry-After, or negative.
OpenRefused(status, ct, ra) ==
    /\ pc = "open"
    /\ \/ status = 204 /\ FailConn("SERVER_STOP", 204, -1)
       \/ status \notin {200, 204} /\ FailConn("HTTP_STATUS", status, ra)
       \/ /\ status = 200 /\ ~ SkipContentTypeCheck /\ ~ CtIsEventStream(ct)
          /\ FailConn("BAD_CONTENT_TYPE", status, -1)

Faulty_StampRx == UNCHANGED last_rx_ms /\ age' = 0  \* timestamp not refreshed

StampRx == last_rx_ms' = now /\ age' = 0

OpenAccepted(status, ct) ==
    /\ pc = "open"
    /\ status = 200 /\ (SkipContentTypeCheck \/ CtIsEventStream(ct))
    /\ transport_open' = TRUE
    /\ StampRx
    /\ state' = "OPEN"
    /\ Goto("on_open")
    /\ UNCHANGED <<attempts, base_retry_ms, retry_deadline, last_event_id, err,
                   req_id, hint, now, signals, history, stops>>

OnOpen(closes) ==
    /\ pc = "on_open"
    /\ Callback("on_open", closes)
    /\ ever_open' = TRUE
    /\ Return(PollResult(0))
    /\ UNCHANGED <<attempts, base_retry_ms, retry_deadline, last_rx_ms,
                   last_event_id, err, req_id, now, age, parser_id, stops>>

OpenReturns ==
    \/ OpenFails
    \/ \E status \in Statuses, ct \in ContentTypes, ra \in RetryAfters :
          OpenRefused(status, ct, ra) \/ OpenAccepted(status, ct)

----------------------------------------------------------------------------
(* sse_client_poll() from the return of transport->read(). *)

Faulty_StopSeenAfterRead == FALSE                   \* flag not looked at

\* STOP_GET() after a read that may have blocked for read_timeout_ms.
StopSeenAfterRead == stop_requested

ReadStopped ==
    /\ pc = "read" /\ StopSeenAfterRead
    /\ ToClosed(last_cb)
    /\ Return(UINT32_MAX)
    /\ UNCHANGED <<attempts, base_retry_ms, retry_deadline, last_rx_ms,
                   last_event_id, err, req_id, now, age, history, stops>>

ReadData ==
    /\ pc = "read" /\ ~ StopSeenAfterRead
    /\ StampRx
    /\ Goto("feed")
    /\ UNCHANGED <<state, transport_open, attempts, base_retry_ms,
                   retry_deadline, last_event_id, err, req_id, hint, now,
                   signals, history, stops>>

\* compares clock values
Faulty_IdleExpired == IdleTimeoutMs # 0 /\ now - last_rx_ms >= IdleTimeoutMs

\* (uint32_t)(now - last_rx_ms) >= idle_timeout_ms, when that is not 0.
IdleExpired == IdleTimeoutMs # 0 /\ SubU(now, last_rx_ms) >= IdleTimeoutMs

ReadTimedOut ==
    /\ pc = "read" /\ ~ StopSeenAfterRead
    /\ \/ IdleExpired /\ FailConn("IDLE_TIMEOUT", 0, -1)
       \/ /\ ~ IdleExpired
          /\ Return(ReadMs)
          /\ UNCHANGED <<client, err, req_id, now, age, signals, history, stops>>

\* The transport claims more bytes than rx_buf holds.
ReadOversize ==
    /\ pc = "read" /\ ~ StopSeenAfterRead
    /\ FailConn("TRANSPORT", 0, -1)

\* End of stream, or a transport error.
ReadEnded ==
    /\ pc = "read" /\ ~ StopSeenAfterRead
    /\ FailConn("TRANSPORT", 0, -1)

ReadReturns ==
    ReadStopped \/ ReadData \/ ReadTimedOut \/ ReadOversize \/ ReadEnded

----------------------------------------------------------------------------
(* The parser's callbacks, in any number and order, until feed returns.    *)
(* Once a callback has closed the client the bridges do nothing.           *)

Faulty_Dispatching == TRUE                          \* no check for close()

Dispatching == state = "OPEN"

fed == <<attempts, base_retry_ms, last_event_id, parser_id>>

Bridge ==
    /\ pc = "feed" /\ Dispatching
    /\ UNCHANGED <<retry_deadline, last_rx_ms, call, time, ever_open, stops>>

Faulty_IdFits(id) == id < IdMax                     \* off by one

IdFits(id) == id <= IdMax

BridgeOnId(id) ==
    /\ Bridge
    /\ parser_id' = id
    /\ last_event_id' = IF IdFits(id) THEN id ELSE last_event_id
    /\ UNCHANGED <<state, transport_open, attempts, base_retry_ms, signals>>

BridgeOnRetry(ms) ==
    /\ Bridge
    /\ base_retry_ms' = ms
    /\ UNCHANGED <<state, transport_open, attempts, last_event_id, parser_id,
                   signals>>

BridgeOnEvent(closes) ==
    /\ Bridge
    /\ attempts' = 0
    /\ Callback("on_message", closes)
    /\ UNCHANGED <<base_retry_ms, last_event_id, parser_id>>

\* Only DATA_TOO_LARGE and the two event-type errors lose an event and reach
\* on_error; the others change nothing.
BridgeOnPerr(closes) ==
    /\ Bridge
    /\ Callback("on_error", closes)
    /\ UNCHANGED fed

FeedDone ==
    /\ pc = "feed"
    /\ UNCHANGED client
    /\ Return(PollResult(0))
    /\ UNCHANGED <<err, req_id, now, age, signals, history, stops>>

Parse ==
    \/ \E id \in Ids : BridgeOnId(id)
    \/ \E ms \in RetryFields : BridgeOnRetry(ms)
    \/ \E closes \in BOOLEAN : BridgeOnEvent(closes) \/ BridgeOnPerr(closes)

----------------------------------------------------------------------------
(* fail_conn(): the policy hook and the two reports. *)

failFrame == <<base_retry_ms, last_rx_ms, last_event_id, req_id, now, history,
               stops>>

\* The answer of a hook that closed the client resurrects it.
Faulty_Hook(retry, closes) ==
    /\ pc = "hook"
    /\ Settle(retry, err)
    /\ IF closes
       THEN last_cb' = "on_closed" /\ closed_count' = 1
       ELSE last_cb' = "reconnect_policy" /\ UNCHANGED closed_count
    /\ UNCHANGED <<transport_open, hint, failFrame>>

\* The hook's answer is final, unless the hook closed the client.
Hook(retry, closes) ==
    /\ pc = "hook"
    /\ IF closes
       THEN /\ ToClosed("reconnect_policy")
            /\ Return(UINT32_MAX)
            /\ UNCHANGED <<attempts, retry_deadline, err, age>>
       ELSE /\ Settle(retry, err)
            /\ last_cb' = "reconnect_policy"
            /\ UNCHANGED <<transport_open, closed_count, hint>>
    /\ UNCHANGED failFrame

ErrStop(closes) ==
    /\ pc = "err_stop"
    /\ Callback("on_error", closes)
    /\ Goto("stop")
    /\ UNCHANGED <<attempts, retry_deadline, err, hint, age, failFrame>>

Stop ==
    /\ pc = "stop"
    /\ ToClosed(last_cb)
    /\ Return(UINT32_MAX)
    /\ UNCHANGED <<attempts, retry_deadline, err, age, failFrame>>

ErrRetry(closes) ==
    /\ pc = "err_retry"
    /\ Callback("on_error", closes)
    /\ Return(PollResult(FailHint))
    /\ UNCHANGED <<attempts, retry_deadline, err, age, failFrame>>

Report ==
    \/ \E closes \in BOOLEAN :
          \/ OnOpen(closes) \/ ErrStop(closes) \/ ErrRetry(closes)
          \/ \E retry \in BOOLEAN : Hook(retry, closes)
    \/ Stop

----------------------------------------------------------------------------
(* The application between polls, the other task, and time. *)

\* sse_client_close() from the polling task, outside any callback.
Close ==
    /\ pc = "app"
    /\ ToClosed(last_cb)
    /\ UNCHANGED <<attempts, base_retry_ms, retry_deadline, last_rx_ms,
                   last_event_id, call, time, history, stops>>

\* sse_client_request_stop(), at any point of the polling task.
RequestStop ==
    /\ ~ stop_requested
    /\ stop_requested' = TRUE
    /\ stop_pc' = pc
    /\ UNCHANGED <<client, call, time, signals, history>>

\* How long the polling task stays at pc: the application sleeps for at most
\* the hint and wakes up at most Lag late; open and read are bounded by their
\* timeouts, a callback by CallbackMs.
Budget ==
    CASE pc = "app"  -> hint + Lag
      [] pc = "open" -> OpenMs
      [] pc = "read" -> ReadMs
      [] OTHER       -> CallbackMs

Elapse ==
    /\ state # "CLOSED"
    /\ now' = AddU(now, 1)
    /\ dwell' = dwell + 1
    /\ age' = IF state \in {"OPEN", "WAITING_RETRY"} THEN AtMost(age + 1, Modulus)
              ELSE age
    /\ UNCHANGED <<client, call, signals, history, stops>>

Tick == dwell < Budget /\ Elapse

----------------------------------------------------------------------------

\* sse_client_init().
Init ==
    /\ state = "IDLE"
    /\ stop_requested = FALSE
    /\ transport_open = FALSE
    /\ attempts = 0
    /\ base_retry_ms = base0
    /\ retry_deadline = 0
    /\ last_rx_ms = 0
    /\ last_event_id = 0
    /\ pc = "app"
    /\ err = NoError
    /\ req_id = 0
    /\ hint = 0
    /\ now \in ClockStarts
    /\ dwell = 0
    /\ age = 0
    /\ parser_id = 0
    /\ last_cb = "none"
    /\ closed_count = 0
    /\ stop_pc = "none"
    /\ ever_open = FALSE

Next ==
    \/ Poll
    \/ OpenReturns
    \/ ReadReturns
    \/ Parse
    \/ FeedDone
    \/ Report
    \/ Close
    \/ RequestStop
    \/ Tick

Spec == Init /\ [][Next]_vars

----------------------------------------------------------------------------
(* Properties. *)

\* Every variable stays within its C type (and its bound in this model).
TypeOK ==
    /\ state \in States
    /\ stop_requested \in BOOLEAN
    /\ transport_open \in BOOLEAN
    /\ attempts \in 0 .. AttemptsCap
    /\ base_retry_ms \in Clock
    /\ retry_deadline \in Clock
    /\ last_rx_ms \in Clock
    /\ last_event_id \in 0 .. IdMax
    /\ pc \in PCs
    /\ err \in Errors
    /\ req_id \in 0 .. IdMax
    /\ hint \in Clock
    /\ now \in Clock
    /\ dwell \in Nat
    /\ age \in 0 .. Modulus
    /\ parser_id \in 0 .. IdMax
    /\ last_cb \in Callbacks \cup {"none"}
    /\ closed_count \in 0 .. 2
    /\ stop_pc \in PCs \cup {"none"}
    /\ ever_open \in BOOLEAN

\* on_closed fires exactly once, when the client reaches CLOSED, by whichever
\* of poll, a callback or the stop flag it gets there, and it is the final
\* signal: no other callback is called after it.
FinalSignal ==
    /\ closed_count = (IF state = "CLOSED" THEN 1 ELSE 0)
    /\ (state = "CLOSED" /\ "on_closed" \in Installed) => last_cb = "on_closed"

\* A CLOSED client stays closed, whatever the policy hook answers and whatever
\* the rest of the chunk being dispatched holds; nothing it would resume from
\* changes either.
ClosedIsFinal ==
    [][state = "CLOSED" => /\ state' = "CLOSED"
                           /\ UNCHANGED <<attempts, base_retry_ms,
                                          last_event_id, retry_deadline>>]_vars

\* The transport is open exactly while a stream is being read: never when a
\* new open() begins, never while waiting, failing or closed.
NoTransportLeak ==
    transport_open <=> (state = "OPEN" /\ pc \in {"app", "on_open", "read", "feed"})

\* Each poll returns UINT32_MAX exactly when it leaves the client CLOSED: also
\* when a callback closed it in the middle of this very invocation.
SameInvocation ==
    [][(pc # "app" /\ pc' = "app") => (hint' = UINT32_MAX <=> state' = "CLOSED")]_vars

\* Once the other task has raised the stop flag, the polling task neither
\* connects, nor reads, nor dispatches a chunk that it was not already
\* connecting for, reading or dispatching at that moment.
StopHonoured ==
    (stop_requested /\ pc \in {"open", "read", "feed"}) => stop_pc = pc

\* The reconnect never starts before the delay reported to on_error has
\* really passed, also when the deadline is beyond the clock's wrap, and never
\* before the time a Retry-After asked for (up to the INT32_MAX clamp).
NoEarlyReconnect ==
    [][(state = "WAITING_RETRY" /\ state' = "CONNECTING") =>
          /\ age >= err.retry_in_ms
          /\ age >= Clamp(err.retry_after_s * MsPerSecond)]_vars

\* The hint is a max-sleep hint: an application that sleeps for all of it
\* still wakes up no later than the scheduled reconnect.
NoOversleep ==
    (pc = "app" /\ state = "WAITING_RETRY" /\ Remain >= 0) => hint - dwell <= Remain

\* Waiting ends in time: the deadline, once passed, is noticed as passed
\* before the signed difference can wrap around.
Lateness == Lag + CallbackMs + (IF IdleTimeoutMs = 0 THEN 0 ELSE ReadMs)
PunctualReconnect ==
    state = "WAITING_RETRY" => age <= err.retry_in_ms + Lateness

\* An idle timeout is reported only if no byte arrived for at least
\* idle_timeout_ms of real time.
IdleIsReal ==
    [][(err.reason # "IDLE_TIMEOUT" /\ err'.reason = "IDLE_TIMEOUT")
          => age >= IdleTimeoutMs]_vars

\* A dead connection is noticed: silence on an open connection never lasts
\* longer than the idle timeout plus one sleep and two reads' time.
IdleSlack == 2 * ReadMs + Lag + CallbackMs
SilenceBounded ==
    (IdleTimeoutMs # 0 /\ transport_open) => age <= IdleTimeoutMs + IdleSlack

\* A reconnect is never announced to on_open as reconnect_count 0.
ReconnectCounted ==
    (pc = "on_open" /\ ever_open) => attempts > 0

\* on_open's reconnect_count is 0 on the first connect.
FirstConnectIsZero ==
    (pc = "on_open" /\ ~ ever_open) => attempts = 0

\* Without a policy hook, the only HTTP statuses that are retried are 5xx, 429
\* and a 4xx that carried Retry-After.
OnlyTheseStatusesRetried ==
    (pc = "err_retry" /\ err.reason = "HTTP_STATUS") =>
        \/ err.http_status >= 500
        \/ err.http_status = 429
        \/ err.http_status \in 400 .. 499 /\ err.retry_after_s >= 0

\* Each request resumes from the last id the parser committed.
ResumesFromLastId ==
    pc = "open" => req_id = parser_id

\* Whichever callbacks are installed, they are called in the order the
\* application is promised: this specification implements ClientContract.
Phase == IF state = "CLOSED" THEN "closed"
         ELSE IF transport_open /\ pc # "on_open" THEN "up"
         ELSE "down"
Owed  == IF state = "CLOSED" THEN "nothing"
         ELSE IF pc = "hook" THEN "question"
         ELSE IF pc \in {"err_stop", "err_retry"} THEN "report"
         ELSE "nothing"

Contract == INSTANCE ClientContract WITH phase <- Phase, owed <- Owed,
                                         signal <- last_cb

ContractKept == Contract!CSpec

\* A scheduled reconnect is eventually attempted, unless the client is closed.
RetryConnects == state = "WAITING_RETRY" ~> (pc = "open" \/ state = "CLOSED")

\* With an idle timeout, a connection on which nothing more arrives is
\* eventually given up.
DeadConnectionLeft ==
    IdleTimeoutMs # 0 => (state = "OPEN" ~> (pc = "feed" \/ state # "OPEN"))

=============================================================================
