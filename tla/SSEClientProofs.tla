-------------------------- MODULE SSEClientProofs --------------------------
(***************************************************************************)
(* Theorems about SSEClient for every width, configuration and             *)
(* environment its assumptions allow: its safety invariant and what        *)
(* follows from it, that it implements ClientContract, and its timing.     *)
(***************************************************************************)
EXTENDS SSEClient, TLAPS

USE DEF Modulus, UINT32_MAX, INT32_MAX, Clock

----------------------------------------------------------------------------
(* Arithmetic of the clock and of the delay. *)

\* uint32_t addition and subtraction stay within uint32_t.
LEMMA ClockClosed ==
    ASSUME NEW a \in Clock, NEW b \in Clock
    PROVE  AddU(a, b) \in Clock /\ SubU(a, b) \in Clock
BY WidthAssumption DEF AddU, SubU

\* AtMost is a minimum.
LEMMA AtMostBounds ==
    ASSUME NEW x \in Int, NEW b \in Int
    PROVE  AtMost(x, b) \in Int /\ AtMost(x, b) <= b /\ AtMost(x, b) <= x
           /\ (AtMost(x, b) = x \/ AtMost(x, b) = b)
BY DEF AtMost

\* The settings sse_client_init() derives are uint32_t values.
LEMMA SettingsTyped == base0 \in Clock /\ ReadMs \in Clock
BY WidthAssumption, ConfigAssumption DEF base0, ReadMs

\* Jitter is up-only: it never shortens a delay.
LEMMA JitterUpOnly ==
    ASSUME NEW d \in Nat, NEW prng \in Nat
    PROVE  Jittered(d, prng) \in Nat /\ Jittered(d, prng) >= d
<1>1. d * prng \in Nat
  OBVIOUS
<1>2. (d * prng) \div 100 \in Nat
  BY <1>1
<1> QED
  BY <1>2 DEF Jittered

\* The delay before jitter is a natural number (computed in 64 bits).
LEMMA RawDelayNat ==
    ASSUME base_retry_ms \in Clock, attempts \in 0 .. AttemptsCap,
           NEW ra \in -Half .. INT32_MAX
    PROVE  RawDelay(ra) \in Nat
<1>1. CASE ra >= 0
  BY <1>1, WidthAssumption DEF RawDelay
<1>2. CASE ~ (ra >= 0)
  <2>1. AtMost(attempts, MaxShift) \in 0 .. MaxShift
    BY WidthAssumption DEF AtMost
  <2> DEFINE factor == 2 ^ AtMost(attempts, MaxShift)
  <2>2. factor \in Nat
    BY <2>1, ShiftAssumption
  <2> HIDE DEF factor
  <2>3. base_retry_ms * factor \in Nat
    BY <2>2, WidthAssumption
  <2>4. AtMost(base_retry_ms * factor, MaxRetryMs) \in Nat
    BY <2>3, ConfigAssumption, WidthAssumption DEF AtMost
  <2> QED
    BY <1>2, <2>4, WidthAssumption DEF RawDelay, factor
<1> QED
  BY <1>1, <1>2

\* The scheduled delay fits int32_t, and is no shorter than Retry-After asked.
LEMMA DelayBounds ==
    ASSUME base_retry_ms \in Clock, attempts \in 0 .. AttemptsCap,
           NEW ra \in -Half .. INT32_MAX, NEW prng \in 0 .. JitterPct
    PROVE  /\ Clamp(Jittered(RawDelay(ra), prng)) \in 0 .. INT32_MAX
           /\ Clamp(Jittered(RawDelay(ra), prng)) >= Clamp(ra * MsPerSecond)
<1>1. RawDelay(ra) \in Nat
  BY RawDelayNat
<1>2. prng \in Nat
  BY ConfigAssumption
<1> DEFINE raw == RawDelay(ra)
           j == Jittered(raw, prng)
<1>3. j \in Nat /\ j >= raw
  BY <1>1, <1>2, JitterUpOnly
<1>4. ra * MsPerSecond \in Int /\ ra * MsPerSecond <= raw
  <2>1. CASE ra >= 0
    BY <2>1, WidthAssumption DEF RawDelay
  <2>2. CASE ra < 0
    BY <2>2, <1>1, WidthAssumption
  <2> QED
    BY <2>1, <2>2, WidthAssumption
<1> HIDE DEF j, raw
<1>5. Clamp(j) \in 0 .. INT32_MAX /\ Clamp(j) >= Clamp(ra * MsPerSecond)
  <2>1. raw \in Int
    BY <1>1 DEF raw
  <2> DEFINE asked == ra * MsPerSecond
  <2>2. asked \in Int /\ asked <= raw
    BY <1>4
  <2> HIDE DEF asked
  <2>3. Clamp(j) \in 0 .. INT32_MAX /\ Clamp(j) >= Clamp(asked)
    BY <2>1, <2>2, <1>3, WidthAssumption DEF Clamp, AtMost
  <2> QED
    BY <2>3 DEF asked
<1> QED
  BY <1>5 DEF j, raw

----------------------------------------------------------------------------
(* Type correctness. *)

\* What every shared step leaves well typed.
LEMMA ToClosedTyped ==
    ASSUME TypeOK, NEW cb \in Callbacks \cup {"none"}, ToClosed(cb)
    PROVE  /\ state' \in States
           /\ transport_open' \in BOOLEAN
           /\ last_cb' \in Callbacks \cup {"none"}
           /\ closed_count' \in 0 .. 2
<1>1. transport_open' = FALSE
  BY DEF ToClosed, CloseTransport
<1>2. CASE state = "CLOSED"
  BY <1>1, <1>2 DEF TypeOK, ToClosed
<1>3. CASE state # "CLOSED"
  <2>1. /\ state' = "CLOSED"
        /\ last_cb' = IF "on_closed" \in Installed THEN "on_closed" ELSE cb
        /\ closed_count' = AtMost(closed_count + 1, 2)
    BY <1>3 DEF ToClosed
  <2>2. closed_count' \in 0 .. 2
    BY <2>1 DEF TypeOK, AtMost
  <2>3. last_cb' \in Callbacks \cup {"none"} /\ state' \in States
    BY <2>1 DEF Callbacks, States
  <2> QED
    BY <1>1, <2>2, <2>3
<1> QED
  BY <1>2, <1>3

\* A callback step leaves what it changes well typed, closing or not.
LEMMA CallbackTyped ==
    ASSUME TypeOK, NEW cb \in Callbacks, NEW closes \in BOOLEAN,
           Callback(cb, closes)
    PROVE  /\ state' \in States
           /\ transport_open' \in BOOLEAN
           /\ last_cb' \in Callbacks \cup {"none"}
           /\ closed_count' \in 0 .. 2
<1>1. CASE closes
  BY <1>1, ToClosedTyped DEF Callback
<1>2. CASE ~ closes
  BY <1>2 DEF Callback, Latest, TypeOK
<1> QED
  BY <1>1, <1>2

\* Settling a failure leaves the deadline, the counter and the error typed.
LEMMA SettleTyped ==
    ASSUME TypeOK, NEW retry \in BOOLEAN, NEW e \in Errors, Settle(retry, e)
    PROVE  /\ state' \in States
           /\ attempts' \in 0 .. AttemptsCap
           /\ retry_deadline' \in Clock
           /\ pc' \in PCs
           /\ err' \in Errors
           /\ dwell' \in Nat
           /\ age' \in 0 .. Modulus
<1>1. CASE ~ retry
  <2>1. /\ err' = [e EXCEPT !.will_retry = FALSE]
        /\ Goto("err_stop")
        /\ UNCHANGED <<state, attempts, retry_deadline, age>>
    BY <1>1 DEF Settle
  <2>2. err' \in Errors
    BY <2>1 DEF Errors
  <2> QED
    BY <2>1, <2>2 DEF TypeOK, Goto, PCs
<1>2. CASE retry
  <2>0. /\ attempts' = NextAttempts
        /\ state' = "WAITING_RETRY"
        /\ age' = 0
        /\ Goto("err_retry")
    BY <1>2 DEF Settle
  <2>1. PICK prng \in 0 .. JitterPct :
          LET delay == Clamp(Jittered(RawDelay(e.retry_after_s), prng))
          IN  /\ retry_deadline' = AddU(now, delay)
              /\ err' = [e EXCEPT !.will_retry = TRUE, !.retry_in_ms = delay]
    BY <1>2 DEF Settle
  <2> DEFINE delay == Clamp(Jittered(RawDelay(e.retry_after_s), prng))
  <2>2. delay \in 0 .. INT32_MAX
    BY DelayBounds DEF TypeOK, Errors
  <2> HIDE DEF delay
  <2>3. delay \in Clock /\ now \in Clock
    BY <2>2, WidthAssumption DEF TypeOK
  <2>4. retry_deadline' \in Clock
    BY <2>1, <2>3, ClockClosed DEF delay
  <2>5. err' = [e EXCEPT !.will_retry = TRUE, !.retry_in_ms = delay]
    BY <2>1 DEF delay
  <2>6. err' \in Errors
    BY <2>2, <2>5 DEF Errors
  <2>7. attempts' \in 0 .. AttemptsCap
    BY <2>0, WidthAssumption DEF NextAttempts, AtMost, TypeOK
  <2> QED
    BY <2>0, <2>4, <2>6, <2>7, WidthAssumption DEF Goto, PCs, States
<1> QED
  BY <1>1, <1>2

\* fail_conn() keeps every variable typed.
LEMMA FailConnTyped ==
    ASSUME TypeOK, NEW reason \in Reasons, NEW status \in Nat,
           NEW ra \in -Half .. INT32_MAX, FailConn(reason, status, ra)
    PROVE  TypeOK'
<1> DEFINE dflt == DefaultShouldRetry(reason, status, ra)
           e == [reason |-> reason, http_status |-> status,
                 retry_after_s |-> ra, will_retry |-> dflt, retry_in_ms |-> 0]
<1>1. dflt \in BOOLEAN
  BY DEF DefaultShouldRetry
<1>2. e \in Errors
  BY <1>1, WidthAssumption DEF Errors
<1>3. /\ state' \in States
      /\ attempts' \in 0 .. AttemptsCap
      /\ retry_deadline' \in Clock
      /\ pc' \in PCs
      /\ err' \in Errors
      /\ dwell' \in Nat
      /\ age' \in 0 .. Modulus
  <2>1. CASE "reconnect_policy" \in Installed
    <3>1. err' = e /\ Goto("hook") /\ UNCHANGED <<state, attempts, retry_deadline, age>>
      BY <2>1 DEF FailConn
    <3> QED
      BY <1>2, <3>1 DEF TypeOK, Goto, PCs
  <2>2. CASE "reconnect_policy" \notin Installed
    <3>1. Settle(dflt, e)
      BY <2>2 DEF FailConn
    <3> QED
      BY <1>1, <1>2, <3>1, SettleTyped
  <2> QED
    BY <2>1, <2>2
<1>4. /\ transport_open' = FALSE
      /\ UNCHANGED <<base_retry_ms, last_rx_ms, last_event_id, req_id, hint,
                     now, signals, history, stops>>
  BY DEF FailConn, CloseTransport
<1> QED
  BY <1>3, <1>4 DEF TypeOK, signals, history, stops

\* The clock wraps, the history counters are capped.
LEMMA ElapseTyped == ASSUME TypeOK, Elapse PROVE TypeOK'
<1>1. now' \in Clock
  BY ClockClosed, WidthAssumption DEF TypeOK, Elapse
<1> QED
  BY <1>1, WidthAssumption DEF TypeOK, Elapse, AtMost, client, call, signals, history, stops

\* Every step keeps every variable within its C type.
LEMMA TypeStep == TypeOK /\ [Next]_vars => TypeOK'
<1> SUFFICES ASSUME TypeOK, [Next]_vars PROVE TypeOK'
  OBVIOUS
<1> USE DEF TypeOK
<1>0. UINT32_MAX \in Clock /\ 0 \in Clock /\ last_cb \in Callbacks \cup {"none"}
  BY WidthAssumption
<1>1. ASSUME PollStopped PROVE TypeOK'
  BY <1>1, <1>0, ToClosedTyped DEF PollStopped, Return, Goto, PCs, history, stops
<1>2. ASSUME PollClosed PROVE TypeOK'
  BY <1>2, <1>0 DEF PollClosed, Return, Goto, PCs, client, signals, history, stops
<1>3. ASSUME PollConnect PROVE TypeOK'
  BY <1>3, WidthAssumption
  DEF PollConnect, BuildHeaders, Goto, PCs, States, NoError, Errors, signals, history, stops
<1>4. ASSUME PollWait PROVE TypeOK'
  <2>1. SubU(retry_deadline, now) \in Clock
    BY ClockClosed
  <2>2. Remain > 0 => Remain \in Clock
    BY <2>1, WidthAssumption DEF Remain, AsSigned
  <2>3. Remain \in Int
    BY <2>1, WidthAssumption DEF Remain, AsSigned
  <2> QED
    BY <1>4, <1>0, <2>2, <2>3, WidthAssumption
    DEF PollWait, Return, Goto, PCs, States, signals, history, stops
<1>5. ASSUME PollRead PROVE TypeOK'
  BY <1>5 DEF PollRead, Goto, PCs, client, signals, history, stops
<1>6. ASSUME OpenFails PROVE TypeOK'
  BY <1>6, FailConnTyped, WidthAssumption DEF OpenFails, Reasons
<1>7. ASSUME NEW status \in Statuses, NEW ct \in ContentTypes, NEW ra \in RetryAfters,
             OpenRefused(status, ct, ra)
      PROVE  TypeOK'
  BY <1>7, FailConnTyped, WidthAssumption, EnvironmentAssumption
  DEF OpenRefused, Reasons
<1>8. ASSUME NEW status \in Statuses, NEW ct \in ContentTypes, OpenAccepted(status, ct)
      PROVE  TypeOK'
  BY <1>8, WidthAssumption
  DEF OpenAccepted, StampRx, Goto, PCs, States, signals, history, stops
<1>9. ASSUME NEW closes \in BOOLEAN, OnOpen(closes) PROVE TypeOK'
  <2>1. hint' \in Clock
    BY <1>9, <1>0 DEF OnOpen, Return, PollResult
  <2> QED
    BY <1>9, <2>1, CallbackTyped DEF OnOpen, Return, Goto, PCs, Callbacks, stops
<1>10. ASSUME ReadStopped PROVE TypeOK'
  BY <1>10, <1>0, ToClosedTyped DEF ReadStopped, Return, Goto, PCs, history, stops
<1>11. ASSUME ReadData PROVE TypeOK'
  BY <1>11, WidthAssumption DEF ReadData, StampRx, Goto, PCs, signals, history, stops
<1>12. ASSUME ReadTimedOut PROVE TypeOK'
  <2>1. CASE FailConn("IDLE_TIMEOUT", 0, -1)
    BY <2>1, FailConnTyped, WidthAssumption DEF Reasons
  <2>2. CASE ~ FailConn("IDLE_TIMEOUT", 0, -1)
    BY <1>12, <2>2, SettingsTyped
    DEF ReadTimedOut, Return, Goto, PCs, client, signals, history, stops
  <2> QED
    BY <2>1, <2>2
<1>13. ASSUME ReadOversize \/ ReadEnded PROVE TypeOK'
  BY <1>13, FailConnTyped, WidthAssumption DEF ReadOversize, ReadEnded, Reasons
<1>14. ASSUME NEW id \in Ids, BridgeOnId(id) PROVE TypeOK'
  BY <1>14, EnvironmentAssumption, ConfigAssumption
  DEF BridgeOnId, Bridge, IdFits, call, time, signals, stops
<1>15. ASSUME NEW ms \in RetryFields, BridgeOnRetry(ms) PROVE TypeOK'
  BY <1>15, EnvironmentAssumption DEF BridgeOnRetry, Bridge, call, time, signals, stops
<1>16. ASSUME NEW closes \in BOOLEAN, BridgeOnEvent(closes) PROVE TypeOK'
  BY <1>16, CallbackTyped, WidthAssumption
  DEF BridgeOnEvent, Bridge, Callbacks, call, time, stops
<1>17. ASSUME NEW closes \in BOOLEAN, BridgeOnPerr(closes) PROVE TypeOK'
  BY <1>17, CallbackTyped DEF BridgeOnPerr, Bridge, fed, Callbacks, call, time, stops
<1>18. ASSUME FeedDone PROVE TypeOK'
  BY <1>18, <1>0 DEF FeedDone, Return, PollResult, Goto, PCs, client, signals, history, stops
<1>19. ASSUME NEW retry \in BOOLEAN, NEW closes \in BOOLEAN, Hook(retry, closes)
       PROVE  TypeOK'
  <2>1. CASE closes
    BY <1>19, <2>1, <1>0, ToClosedTyped
    DEF Hook, Return, Goto, PCs, Callbacks, failFrame, history, stops
  <2>2. CASE ~ closes
    BY <1>19, <2>2, SettleTyped DEF Hook, Callbacks, failFrame, history, stops
  <2> QED
    BY <2>1, <2>2
<1>20. ASSUME NEW closes \in BOOLEAN, ErrStop(closes) PROVE TypeOK'
  BY <1>20, CallbackTyped DEF ErrStop, Goto, PCs, Callbacks, failFrame, history, stops
<1>21. ASSUME Stop PROVE TypeOK'
  BY <1>21, <1>0, ToClosedTyped DEF Stop, Return, Goto, PCs, failFrame, history, stops
<1>22. ASSUME NEW closes \in BOOLEAN, ErrRetry(closes) PROVE TypeOK'
  <2>1. hint' \in Clock
    BY <1>22, <1>0, SettingsTyped DEF ErrRetry, Return, PollResult, FailHint
  <2> QED
    BY <1>22, <2>1, CallbackTyped
    DEF ErrRetry, Return, Goto, PCs, Callbacks, failFrame, history, stops
<1>23. ASSUME Close PROVE TypeOK'
  BY <1>23, <1>0, ToClosedTyped DEF Close, call, time, history, stops
<1>24. ASSUME RequestStop PROVE TypeOK'
  BY <1>24 DEF RequestStop, client, call, time, signals, history
<1>25. ASSUME Tick PROVE TypeOK'
  BY <1>25, ElapseTyped DEF Tick
<1>26. CASE UNCHANGED vars
  BY <1>26 DEF vars, client, call, time, signals, history, stops
<1> QED
  BY <1>1, <1>2, <1>3, <1>4, <1>5, <1>6, <1>7, <1>8, <1>9, <1>10, <1>11, <1>12,
     <1>13, <1>14, <1>15, <1>16, <1>17, <1>18, <1>19, <1>20, <1>21, <1>22,
     <1>23, <1>24, <1>25, <1>26
  DEF Next, Poll, OpenReturns, ReadReturns, Parse, Report

\* The initial state is well typed.
LEMMA TypeInit == Init => TypeOK
<1> SUFFICES ASSUME Init PROVE TypeOK
  OBVIOUS
<1>1. NoError \in Errors
  BY WidthAssumption DEF NoError, Errors
<1>2. now \in Clock
  BY EnvironmentAssumption DEF Init
<1>3. /\ attempts \in 0 .. AttemptsCap /\ base_retry_ms \in Clock
      /\ retry_deadline \in Clock /\ last_rx_ms \in Clock
      /\ last_event_id \in 0 .. IdMax /\ req_id \in 0 .. IdMax
      /\ parser_id \in 0 .. IdMax /\ hint \in Clock /\ dwell \in Nat
      /\ age \in 0 .. Modulus /\ closed_count \in 0 .. 2
  BY SettingsTyped, WidthAssumption, ConfigAssumption DEF Init
<1>4. /\ state \in States /\ pc \in PCs
      /\ last_cb \in Callbacks \cup {"none"} /\ stop_pc \in PCs \cup {"none"}
      /\ stop_requested \in BOOLEAN /\ transport_open \in BOOLEAN
      /\ ever_open \in BOOLEAN /\ err = NoError
  BY DEF Init, States, PCs
<1> QED
  BY <1>1, <1>2, <1>3, <1>4 DEF TypeOK

\* Every variable of the client stays within its C type, in particular the
\* reconnect delay within int32_t, for every width, configuration and server.
THEOREM TypeCorrect == Spec => []TypeOK
BY TypeInit, TypeStep, PTL DEF Spec

----------------------------------------------------------------------------
(* The inductive invariant.  None of the properties is inductive alone: what *)
(* a step does depends on which states each point of poll can be reached in, *)
(* and the reconnect is punctual because the distance to the deadline,       *)
(* modulo 2^32, is what is left of the delay.                                *)

ControlInv ==
    /\ pc = "open" => state = "CONNECTING"
    /\ pc \in {"on_open", "read"} => state = "OPEN"
    /\ pc = "feed" => state \in {"OPEN", "CLOSED"}
    /\ pc \in {"hook", "err_stop"} => state \in {"CONNECTING", "OPEN"}
    /\ pc = "stop" => state \in {"CONNECTING", "OPEN", "CLOSED"}
    /\ pc = "err_retry" => state = "WAITING_RETRY"

DeadlineInv ==
    state = "WAITING_RETRY" =>
        /\ err.retry_in_ms >= Clamp(err.retry_after_s * MsPerSecond)
        /\ age <= err.retry_in_ms =>
              SubU(retry_deadline, now) = err.retry_in_ms - age

CountInv ==
    /\ state = "IDLE" => ~ ever_open
    /\ (ever_open /\ state \in {"CONNECTING", "WAITING_RETRY"}) => attempts > 0
    /\ (ever_open /\ pc = "on_open") => attempts > 0

ResumeInv ==
    /\ last_event_id = parser_id
    /\ pc = "open" => req_id = last_event_id

SafetyInv ==
    /\ TypeOK
    /\ ControlInv
    /\ NoTransportLeak
    /\ FinalSignal
    /\ StopHonoured
    /\ DeadlineInv
    /\ CountInv
    /\ ResumeInv

\* The parts of SafetyInv other than types, to be shown of every step.
Core == ControlInv /\ NoTransportLeak /\ FinalSignal /\ StopHonoured
          /\ DeadlineInv /\ CountInv /\ ResumeInv

\* A deadline delay ms ahead of now is delay ms away, across the wrap too.
LEMMA DeadlineDistance ==
    ASSUME NEW t \in Clock, NEW delay \in 0 .. INT32_MAX
    PROVE  SubU(AddU(t, delay), t) = delay
BY WidthAssumption DEF SubU, AddU

\* One tick brings every deadline that is still ahead one ms nearer.
LEMMA TickDistance ==
    ASSUME NEW d \in Clock, NEW t \in Clock, SubU(d, t) > 0
    PROVE  SubU(d, AddU(t, 1)) = SubU(d, t) - 1
BY WidthAssumption DEF SubU, AddU

\* What is left of a delay is positive exactly as a signed difference.
LEMMA SignedRemainder ==
    ASSUME NEW r \in 1 .. INT32_MAX
    PROVE  AsSigned(r) = r
BY WidthAssumption DEF AsSigned

\* Settling either keeps the state and goes on to stop, or schedules a
\* reconnect whose deadline is the reported delay away.
LEMMA SettleEffect ==
    ASSUME TypeOK, NEW retry \in BOOLEAN, NEW e \in Errors, Settle(retry, e),
           now' = now
    PROVE  \/ /\ pc' = "err_stop" /\ state' = state /\ attempts' = attempts
           \/ /\ pc' = "err_retry" /\ state' = "WAITING_RETRY" /\ attempts' > 0
              /\ DeadlineInv'
<1>1. CASE ~ retry
  BY <1>1 DEF Settle, Goto
<1>2. CASE retry
  <2>0. /\ attempts' = NextAttempts
        /\ state' = "WAITING_RETRY"
        /\ age' = 0
        /\ pc' = "err_retry"
    BY <1>2 DEF Settle, Goto
  <2>1. PICK prng \in 0 .. JitterPct :
          LET delay == Clamp(Jittered(RawDelay(e.retry_after_s), prng))
          IN  /\ retry_deadline' = AddU(now, delay)
              /\ err' = [e EXCEPT !.will_retry = TRUE, !.retry_in_ms = delay]
    BY <1>2 DEF Settle
  <2> DEFINE delay == Clamp(Jittered(RawDelay(e.retry_after_s), prng))
             asked == Clamp(e.retry_after_s * MsPerSecond)
  <2>2. delay \in 0 .. INT32_MAX /\ delay >= asked
    BY DelayBounds DEF TypeOK, Errors
  <2>3. /\ retry_deadline' = AddU(now, delay)
        /\ err' = [e EXCEPT !.will_retry = TRUE, !.retry_in_ms = delay]
    BY <2>1
  <2> HIDE DEF delay
  <2>4. err'.retry_in_ms = delay /\ err'.retry_after_s = e.retry_after_s
    BY <2>3 DEF Errors
  <2>5. SubU(retry_deadline', now') = delay
    BY <2>2, <2>3, DeadlineDistance DEF TypeOK
  <2>6. delay - 0 = delay
    BY <2>2
  <2>7. DeadlineInv'
    BY <2>0, <2>2, <2>4, <2>5, <2>6 DEF DeadlineInv
  <2>8. attempts' > 0
    BY <2>0, WidthAssumption DEF NextAttempts, AtMost, TypeOK
  <2> QED
    BY <2>0, <2>7, <2>8
<1> QED
  BY <1>1, <1>2

\* fail_conn() closes the transport, calls nobody yet, and settles or asks.
LEMMA FailConnEffect ==
    ASSUME TypeOK, NEW reason \in Reasons, NEW status \in Nat,
           NEW ra \in -Half .. INT32_MAX, FailConn(reason, status, ra)
    PROVE  /\ transport_open' = FALSE
           /\ UNCHANGED <<last_event_id, req_id, hint, signals, history, stops>>
           /\ \/ /\ pc' \in {"hook", "err_stop"}
                 /\ state' = state /\ attempts' = attempts
              \/ /\ pc' = "err_retry" /\ state' = "WAITING_RETRY"
                 /\ attempts' > 0 /\ DeadlineInv'
<1> DEFINE dflt == DefaultShouldRetry(reason, status, ra)
           e == [reason |-> reason, http_status |-> status,
                 retry_after_s |-> ra, will_retry |-> dflt, retry_in_ms |-> 0]
<1>1. dflt \in BOOLEAN
  BY DEF DefaultShouldRetry
<1>2. e \in Errors
  BY <1>1, WidthAssumption DEF Errors
<1>3. /\ transport_open' = FALSE
      /\ UNCHANGED <<last_event_id, req_id, hint, signals, history, stops, now>>
  BY DEF FailConn, CloseTransport
<1>4. CASE "reconnect_policy" \in Installed
  BY <1>3, <1>4 DEF FailConn, Goto
<1>5. CASE "reconnect_policy" \notin Installed
  <2>1. Settle(dflt, e)
    BY <1>5 DEF FailConn
  <2> HIDE DEF dflt, e
  <2>2. \/ pc' = "err_stop" /\ state' = state /\ attempts' = attempts
        \/ pc' = "err_retry" /\ state' = "WAITING_RETRY" /\ attempts' > 0
             /\ DeadlineInv'
    BY <1>1, <1>2, <1>3, <2>1, SettleEffect
  <2> QED
    BY <1>3, <2>2
<1> QED
  BY <1>4, <1>5

\* A failing connection or connection attempt keeps the invariant.
LEMMA FailConnCore ==
    ASSUME SafetyInv, pc \in {"open", "read"},
           NEW reason \in Reasons, NEW status \in Nat,
           NEW ra \in -Half .. INT32_MAX, FailConn(reason, status, ra)
    PROVE  Core'
<1> DEFINE Ask  == pc' \in {"hook", "err_stop"} /\ state' = state /\ attempts' = attempts
           Wait == pc' = "err_retry" /\ state' = "WAITING_RETRY" /\ attempts' > 0
                     /\ DeadlineInv'
<1>1. /\ transport_open' = FALSE
      /\ UNCHANGED <<last_event_id, req_id, hint, signals, history, stops>>
      /\ Ask \/ Wait
  BY FailConnEffect DEF SafetyInv
<1>2. state \in {"CONNECTING", "OPEN"}
  BY DEF SafetyInv, ControlInv
<1>3. CASE Ask
  BY <1>1, <1>2, <1>3
  DEF SafetyInv, Core, ControlInv, NoTransportLeak, FinalSignal, StopHonoured,
      DeadlineInv, CountInv, ResumeInv, signals, history, stops
<1>4. CASE Wait
  BY <1>1, <1>2, <1>4
  DEF SafetyInv, Core, ControlInv, NoTransportLeak, FinalSignal, StopHonoured,
      CountInv, ResumeInv, signals, history, stops
<1> QED
  BY <1>1, <1>3, <1>4

\* to_closed() fires on_closed once and last, also when called twice.
LEMMA ToClosedEffect ==
    ASSUME TypeOK, FinalSignal, NEW cb, state = "CLOSED" => cb = last_cb, ToClosed(cb)
    PROVE  transport_open' = FALSE /\ state' = "CLOSED" /\ FinalSignal'
<1>1. CASE state = "CLOSED"
  BY <1>1 DEF ToClosed, CloseTransport, FinalSignal
<1>2. CASE state # "CLOSED"
  <2>1. closed_count = 0
    BY <1>2 DEF FinalSignal
  <2>2. closed_count' = 1
    BY <1>2, <2>1 DEF ToClosed, AtMost
  <2> QED
    BY <1>2, <2>2 DEF ToClosed, CloseTransport, FinalSignal
<1> QED
  BY <1>1, <1>2

\* A callback of a client that is not CLOSED either changes no state or
\* closes it, with on_closed as the last call.
LEMMA CallbackEffect ==
    ASSUME TypeOK, FinalSignal, state # "CLOSED", NEW cb, NEW closes \in BOOLEAN,
           Callback(cb, closes)
    PROVE  /\ FinalSignal'
           /\ \/ state' = "CLOSED" /\ transport_open' = FALSE
              \/ UNCHANGED <<state, transport_open>>
<1>1. CASE closes
  BY <1>1, ToClosedEffect DEF Callback
<1>2. CASE ~ closes
  BY <1>2 DEF Callback, FinalSignal
<1> QED
  BY <1>1, <1>2

\* One ms passes: every deadline comes one ms nearer, and nothing else changes.
LEMMA ElapseCore == ASSUME SafetyInv, Elapse PROVE Core'
<1> USE DEF SafetyInv, Core, ControlInv, NoTransportLeak, StopHonoured,
            DeadlineInv, CountInv, ResumeInv
<1>1. DeadlineInv'
  <2> SUFFICES ASSUME state' = "WAITING_RETRY"
               PROVE  /\ err'.retry_in_ms >= Clamp(err'.retry_after_s * MsPerSecond)
                      /\ age' <= err'.retry_in_ms =>
                            SubU(retry_deadline', now') = err'.retry_in_ms - age'
    OBVIOUS
  <2>1. /\ state = "WAITING_RETRY" /\ retry_deadline' = retry_deadline /\ err' = err
        /\ now' = AddU(now, 1) /\ age' = AtMost(age + 1, Modulus)
    BY DEF Elapse, client, call
  <2>2. /\ err.retry_in_ms \in 0 .. INT32_MAX /\ age \in 0 .. Modulus
        /\ retry_deadline \in Clock /\ now \in Clock
    BY DEF TypeOK, Errors
  <2>3. ASSUME age' <= err.retry_in_ms
        PROVE  SubU(retry_deadline, now') = err.retry_in_ms - age'
    <3>1. age' = age + 1
      BY <2>1, <2>2, <2>3, WidthAssumption DEF AtMost
    <3>2. SubU(retry_deadline, now) = err.retry_in_ms - age
      BY <2>1, <2>2, <2>3, <3>1
    <3>3. SubU(retry_deadline, now) > 0
      BY <2>2, <2>3, <3>1, <3>2
    <3>4. SubU(retry_deadline, now') = SubU(retry_deadline, now) - 1
      BY <2>1, <2>2, <3>3, TickDistance
    <3> QED
      BY <2>2, <3>1, <3>2, <3>4
  <2> QED
    BY <2>1, <2>3
<1> QED
  BY <1>1 DEF Elapse, FinalSignal, client, call, signals, history, stops

\* Every step keeps the invariant.
LEMMA CoreStep == SafetyInv /\ [Next]_vars => Core'
<1> SUFFICES ASSUME SafetyInv, [Next]_vars PROVE Core'
  OBVIOUS
<1>0. TypeOK /\ FinalSignal
  BY DEF SafetyInv
<1> USE DEF SafetyInv, Core, ControlInv, NoTransportLeak, StopHonoured,
            DeadlineInv, CountInv, ResumeInv
<1>1. ASSUME PollStopped PROVE Core'
  <2>1. transport_open' = FALSE /\ state' = "CLOSED" /\ FinalSignal'
    BY <1>0, <1>1, ToClosedEffect DEF PollStopped
  <2> QED
    BY <1>1, <2>1 DEF PollStopped, Return, Goto, history, stops
<1>2. ASSUME PollClosed PROVE Core'
  BY <1>2 DEF PollClosed, Return, Goto, FinalSignal, client, signals, history, stops
<1>3. ASSUME PollConnect PROVE Core'
  BY <1>3 DEF PollConnect, BuildHeaders, StopSeenAtEntry, Goto, FinalSignal, signals, history, stops
<1>4. ASSUME PollWait PROVE Core'
  BY <1>4 DEF PollWait, Return, Goto, FinalSignal, signals, history, stops
<1>5. ASSUME PollRead PROVE Core'
  BY <1>5 DEF PollRead, StopSeenAtEntry, Goto, FinalSignal, client, signals, history, stops
<1>6. ASSUME OpenFails PROVE Core'
  BY <1>6, FailConnCore, WidthAssumption DEF OpenFails, Reasons
<1>7. ASSUME NEW status \in Statuses, NEW ct \in ContentTypes, NEW ra \in RetryAfters,
             OpenRefused(status, ct, ra)
      PROVE  Core'
  BY <1>7, FailConnCore, WidthAssumption, EnvironmentAssumption
  DEF OpenRefused, Reasons
<1>8. ASSUME NEW status \in Statuses, NEW ct \in ContentTypes, OpenAccepted(status, ct)
      PROVE  Core'
  BY <1>8 DEF OpenAccepted, Goto, FinalSignal, signals, history, stops
<1>9. ASSUME NEW closes \in BOOLEAN, OnOpen(closes) PROVE Core'
  <2>1. state = "OPEN" /\ transport_open
    BY <1>9 DEF OnOpen
  <2>2. /\ FinalSignal'
        /\ \/ state' = "CLOSED" /\ transport_open' = FALSE
           \/ UNCHANGED <<state, transport_open>>
    BY <1>0, <1>9, <2>1, CallbackEffect DEF OnOpen
  <2> QED
    BY <1>9, <2>1, <2>2 DEF OnOpen, Return, Goto, stops
<1>10. ASSUME ReadStopped PROVE Core'
  <2>1. transport_open' = FALSE /\ state' = "CLOSED" /\ FinalSignal'
    BY <1>0, <1>10, ToClosedEffect DEF ReadStopped
  <2> QED
    BY <1>10, <2>1 DEF ReadStopped, Return, Goto, history, stops
<1>11. ASSUME ReadData PROVE Core'
  BY <1>11 DEF ReadData, StopSeenAfterRead, Goto, FinalSignal, signals, history, stops
<1>12. ASSUME ReadTimedOut PROVE Core'
  <2>1. CASE FailConn("IDLE_TIMEOUT", 0, -1)
    BY <1>12, <2>1, FailConnCore, WidthAssumption DEF ReadTimedOut, Reasons
  <2>2. CASE ~ FailConn("IDLE_TIMEOUT", 0, -1)
    <3>1. /\ pc = "read" /\ pc' = "app"
          /\ UNCHANGED <<client, err, req_id, now, age, signals, history, stops>>
      BY <1>12, <2>2 DEF ReadTimedOut, Return, Goto
    <3> QED
      BY <3>1 DEF FinalSignal, client, signals, history, stops
  <2> QED
    BY <2>1, <2>2
<1>13. ASSUME ReadOversize \/ ReadEnded PROVE Core'
  BY <1>13, FailConnCore, WidthAssumption DEF ReadOversize, ReadEnded, Reasons
<1>14. ASSUME NEW id \in Ids, BridgeOnId(id) PROVE Core'
  <2>1. IdFits(id)
    BY EnvironmentAssumption, ConfigAssumption DEF IdFits
  <2> QED
    BY <1>14, <2>1
    DEF BridgeOnId, Bridge, Dispatching, FinalSignal, call, time, signals, stops
<1>15. ASSUME NEW ms \in RetryFields, BridgeOnRetry(ms) PROVE Core'
  BY <1>15 DEF BridgeOnRetry, Bridge, Dispatching, FinalSignal, call, time, signals, stops
<1>16. ASSUME NEW closes \in BOOLEAN, BridgeOnEvent(closes) PROVE Core'
  <2>1. state = "OPEN" /\ transport_open /\ pc = "feed"
    BY <1>16 DEF BridgeOnEvent, Bridge, Dispatching
  <2>2. /\ FinalSignal'
        /\ \/ state' = "CLOSED" /\ transport_open' = FALSE
           \/ UNCHANGED <<state, transport_open>>
    BY <1>0, <1>16, <2>1, CallbackEffect DEF BridgeOnEvent
  <2> QED
    BY <1>16, <2>1, <2>2 DEF BridgeOnEvent, Bridge, call, time, stops
<1>17. ASSUME NEW closes \in BOOLEAN, BridgeOnPerr(closes) PROVE Core'
  <2>1. state = "OPEN" /\ transport_open /\ pc = "feed"
    BY <1>17 DEF BridgeOnPerr, Bridge, Dispatching
  <2>2. /\ FinalSignal'
        /\ \/ state' = "CLOSED" /\ transport_open' = FALSE
           \/ UNCHANGED <<state, transport_open>>
    BY <1>0, <1>17, <2>1, CallbackEffect DEF BridgeOnPerr
  <2> QED
    BY <1>17, <2>1, <2>2 DEF BridgeOnPerr, Bridge, fed, call, time, stops
<1>18. ASSUME FeedDone PROVE Core'
  BY <1>18 DEF FeedDone, Return, Goto, FinalSignal, client, signals, history, stops
<1>19. ASSUME NEW retry \in BOOLEAN, NEW closes \in BOOLEAN, Hook(retry, closes)
       PROVE  Core'
  <2>0. pc = "hook" /\ state \in {"CONNECTING", "OPEN"} /\ ~ transport_open
    BY <1>19 DEF Hook, TypeOK
  <2>1. CASE closes
    <3>1. transport_open' = FALSE /\ state' = "CLOSED" /\ FinalSignal'
      BY <1>0, <1>19, <2>0, <2>1, ToClosedEffect DEF Hook
    <3> QED
      BY <1>19, <2>1, <3>1 DEF Hook, Return, Goto, failFrame, history, stops
  <2>2. CASE ~ closes
    <3>1. /\ Settle(retry, err) /\ now' = now /\ err \in Errors
          /\ UNCHANGED <<transport_open, closed_count, last_event_id, parser_id,
                         req_id, ever_open, stop_requested, stop_pc>>
      BY <1>19, <2>2 DEF Hook, failFrame, history, stops, TypeOK
    <3>2. \/ pc' = "err_stop" /\ state' = state /\ attempts' = attempts
          \/ pc' = "err_retry" /\ state' = "WAITING_RETRY" /\ attempts' > 0
               /\ DeadlineInv'
      BY <1>0, <3>1, SettleEffect
    <3>3. FinalSignal'
      BY <2>0, <3>1, <3>2 DEF FinalSignal
    <3> QED
      BY <2>0, <3>1, <3>2, <3>3
  <2> QED
    BY <2>1, <2>2
<1>20. ASSUME NEW closes \in BOOLEAN, ErrStop(closes) PROVE Core'
  <2>1. pc = "err_stop" /\ state \in {"CONNECTING", "OPEN"} /\ ~ transport_open
    BY <1>20 DEF ErrStop, TypeOK
  <2>2. /\ FinalSignal'
        /\ \/ state' = "CLOSED" /\ transport_open' = FALSE
           \/ UNCHANGED <<state, transport_open>>
    BY <1>0, <1>20, <2>1, CallbackEffect DEF ErrStop
  <2> QED
    BY <1>20, <2>1, <2>2 DEF ErrStop, Goto, failFrame, history, stops
<1>21. ASSUME Stop PROVE Core'
  <2>1. transport_open' = FALSE /\ state' = "CLOSED" /\ FinalSignal'
    BY <1>0, <1>21, ToClosedEffect DEF Stop
  <2> QED
    BY <1>21, <2>1 DEF Stop, Return, Goto, failFrame, history, stops
<1>22. ASSUME NEW closes \in BOOLEAN, ErrRetry(closes) PROVE Core'
  <2>1. pc = "err_retry" /\ state = "WAITING_RETRY" /\ ~ transport_open
    BY <1>22 DEF ErrRetry, TypeOK
  <2>2. /\ FinalSignal'
        /\ \/ state' = "CLOSED" /\ transport_open' = FALSE
           \/ UNCHANGED <<state, transport_open>>
    BY <1>0, <1>22, <2>1, CallbackEffect DEF ErrRetry
  <2> QED
    BY <1>22, <2>1, <2>2 DEF ErrRetry, Return, Goto, failFrame, history, stops
<1>23. ASSUME Close PROVE Core'
  <2>1. transport_open' = FALSE /\ state' = "CLOSED" /\ FinalSignal'
    BY <1>0, <1>23, ToClosedEffect DEF Close
  <2> QED
    BY <1>23, <2>1 DEF Close, call, time, history, stops
<1>24. ASSUME RequestStop PROVE Core'
  BY <1>24 DEF RequestStop, FinalSignal, client, call, time, signals, history
<1>25. ASSUME Tick PROVE Core'
  BY <1>25, ElapseCore DEF Tick
<1>26. CASE UNCHANGED vars
  BY <1>26 DEF vars, FinalSignal, client, call, time, signals, history, stops
<1> QED
  BY <1>1, <1>2, <1>3, <1>4, <1>5, <1>6, <1>7, <1>8, <1>9, <1>10, <1>11, <1>12,
     <1>13, <1>14, <1>15, <1>16, <1>17, <1>18, <1>19, <1>20, <1>21, <1>22,
     <1>23, <1>24, <1>25, <1>26
  DEF Next, Poll, OpenReturns, ReadReturns, Parse, Report

\* The initial state satisfies the invariant.
LEMMA SafetyInit == Init => SafetyInv
BY TypeInit DEF Init, SafetyInv, ControlInv, NoTransportLeak, FinalSignal,
   StopHonoured, DeadlineInv, CountInv, ResumeInv

\* The inductive invariant holds in every reachable state.
THEOREM Safety == Spec => []SafetyInv
<1>1. SafetyInv /\ [Next]_vars => SafetyInv'
  BY TypeStep, CoreStep DEF SafetyInv, Core
<1> QED
  BY SafetyInit, <1>1, PTL DEF Spec

----------------------------------------------------------------------------
(* The properties that the runs check. *)

\* on_closed fires exactly once, when CLOSED is reached, and nothing after it.
THEOREM FinalSignalHolds == Spec => []FinalSignal
<1>1. SafetyInv => FinalSignal
  BY DEF SafetyInv
<1> QED
  BY Safety, <1>1, PTL

\* The transport is open exactly while a stream is being read: no connection
\* leaks on any failure path and none is closed twice.
THEOREM NoTransportLeakHolds == Spec => []NoTransportLeak
<1>1. SafetyInv => NoTransportLeak
  BY DEF SafetyInv
<1> QED
  BY Safety, <1>1, PTL

\* After a stop request no new connect, read or dispatch begins.
THEOREM StopHonouredHolds == Spec => []StopHonoured
<1>1. SafetyInv => StopHonoured
  BY DEF SafetyInv
<1> QED
  BY Safety, <1>1, PTL

\* A reconnect is never announced with reconnect_count 0.
THEOREM ReconnectCountedHolds == Spec => []ReconnectCounted
<1>1. SafetyInv => ReconnectCounted
  BY DEF SafetyInv, CountInv, ReconnectCounted
<1> QED
  BY Safety, <1>1, PTL

\* Each request resumes from the last id the parser committed.
THEOREM ResumesFromLastIdHolds == Spec => []ResumesFromLastId
<1>1. SafetyInv => ResumesFromLastId
  BY DEF SafetyInv, ResumeInv, ResumesFromLastId
<1> QED
  BY Safety, <1>1, PTL

\* The reconnect starts neither before the reported delay nor before the time
\* Retry-After asked for, wherever the clock wraps.
THEOREM NoEarlyReconnectHolds == Spec => NoEarlyReconnect
<1> DEFINE Early == (state = "WAITING_RETRY" /\ state' = "CONNECTING") =>
                       /\ age >= err.retry_in_ms
                       /\ age >= Clamp(err.retry_after_s * MsPerSecond)
<1>1. SafetyInv /\ [Next]_vars => [Early]_vars
  <2> SUFFICES ASSUME SafetyInv, Next, state = "WAITING_RETRY", state' = "CONNECTING"
               PROVE  /\ age >= err.retry_in_ms
                      /\ age >= Clamp(err.retry_after_s * MsPerSecond)
    OBVIOUS
  <2>1. PollWait
    <3>1. pc \notin {"open", "on_open", "read", "feed", "hook", "err_stop", "stop"}
      BY DEF SafetyInv, ControlInv
    <3>2. ~ (OpenReturns \/ ReadReturns \/ Parse \/ FeedDone)
      BY <3>1 DEF OpenReturns, OpenFails, OpenRefused, OpenAccepted, ReadReturns,
         ReadStopped, ReadData, ReadTimedOut, ReadOversize, ReadEnded, Parse, BridgeOnId,
         BridgeOnRetry, BridgeOnEvent, BridgeOnPerr, Bridge, FeedDone
    <3>3. ~ (Close \/ RequestStop \/ Tick)
      BY DEF Close, ToClosed, RequestStop, Tick, Elapse, client
    <3>4. ~ Report
      BY <3>1 DEF Report, OnOpen, ErrStop, ErrRetry, Hook, Stop, Callback, ToClosed
    <3>5. ~ (PollStopped \/ PollClosed \/ PollConnect \/ PollRead)
      BY DEF PollStopped, ToClosed, PollClosed, PollConnect, PollRead
    <3> QED
      BY <3>2, <3>3, <3>4, <3>5 DEF Next, Poll
  <2>2. Remain <= 0
    BY <2>1 DEF PollWait
  <2>3. /\ err.retry_in_ms \in 0 .. INT32_MAX /\ age \in 0 .. Modulus
        /\ err.retry_after_s \in -Half .. INT32_MAX
    BY DEF SafetyInv, TypeOK, Errors
  <2>4. age >= err.retry_in_ms
    <3> SUFFICES ASSUME age < err.retry_in_ms PROVE FALSE
      BY <2>3, WidthAssumption
    <3>1. SubU(retry_deadline, now) = err.retry_in_ms - age
      BY <2>3, WidthAssumption DEF SafetyInv, DeadlineInv
    <3>2. err.retry_in_ms - age \in 1 .. INT32_MAX
      BY <2>3, WidthAssumption
    <3>3. Remain = err.retry_in_ms - age
      BY <3>1, <3>2, SignedRemainder DEF Remain
    <3> QED
      BY <2>2, <3>2, <3>3, WidthAssumption
  <2> DEFINE asked == Clamp(err.retry_after_s * MsPerSecond)
  <2>5. err.retry_in_ms >= asked
    BY DEF SafetyInv, DeadlineInv
  <2>6. asked \in Int
    BY <2>3, WidthAssumption DEF Clamp, AtMost
  <2> HIDE DEF asked
  <2>7. age >= asked
    BY <2>3, <2>4, <2>5, <2>6, WidthAssumption
  <2> QED
    BY <2>4, <2>7 DEF asked
<1> QED
  BY Safety, <1>1, PTL DEF Spec, NoEarlyReconnect

\* No step leaves CLOSED.
LEMMA ClosedStays ==
    ASSUME SafetyInv, Next, state = "CLOSED"
    PROVE  /\ state' = "CLOSED"
           /\ UNCHANGED <<attempts, base_retry_ms, last_event_id, retry_deadline>>
<1>1. pc \in {"app", "feed", "stop"}
  BY DEF SafetyInv, ControlInv, TypeOK, PCs
<1>2. CASE Poll
  BY <1>2 DEF Poll, PollStopped, PollClosed, PollConnect, PollWait, PollRead, client
<1>3. CASE OpenReturns \/ ReadReturns
  BY <1>1, <1>3 DEF OpenReturns, OpenFails, OpenRefused, OpenAccepted,
     ReadReturns, ReadStopped, ReadData, ReadTimedOut, ReadOversize, ReadEnded
<1>4. CASE Parse
  BY <1>4 DEF Parse, BridgeOnId, BridgeOnRetry, BridgeOnEvent, BridgeOnPerr,
     Bridge, Dispatching
<1>5. CASE FeedDone \/ RequestStop \/ Tick
  BY <1>5 DEF FeedDone, RequestStop, Tick, Elapse, client
<1>6. CASE Report
  <2>1. Stop
    BY <1>1, <1>6 DEF Report, OnOpen, ErrStop, ErrRetry, Hook
  <2> QED
    BY <2>1 DEF Stop, ToClosed, failFrame
<1>7. CASE Close
  BY <1>7 DEF Close, ToClosed
<1> QED
  BY <1>2, <1>3, <1>4, <1>5, <1>6, <1>7 DEF Next

\* A CLOSED client stays closed, and nothing it would resume from changes.
THEOREM ClosedIsFinalHolds == Spec => ClosedIsFinal
<1> DEFINE Kept == state = "CLOSED" => /\ state' = "CLOSED"
                                       /\ UNCHANGED <<attempts, base_retry_ms,
                                                      last_event_id, retry_deadline>>
<1>1. SafetyInv /\ [Next]_vars => [Kept]_vars
  BY ClosedStays
<1> QED
  BY Safety, <1>1, PTL DEF Spec, ClosedIsFinal

----------------------------------------------------------------------------
(* The client implements ClientContract, and its hints are unambiguous. *)

HIDE DEF Modulus, UINT32_MAX, INT32_MAX, Clock

\* The policy is asked only when there is one.
PolicyInstalled == pc = "hook" => "reconnect_policy" \in Installed

CInv == SafetyInv /\ PolicyInstalled

\* A call of to_closed() is the contract's CloseSignal, or nothing.
LEMMA ToClosedIsSignal ==
    ASSUME NEW cb, ToClosed(cb), IF state = "CLOSED" THEN cb = last_cb
                                 ELSE cb = last_cb \/ cb \in Contract!Due \cap Installed
    PROVE  [Contract!CNext]_(Contract!cvars) /\ state' = "CLOSED"
<1>1. CASE state = "CLOSED"
  BY <1>1 DEF ToClosed, Contract!cvars, Phase, Owed
<1>2. CASE state # "CLOSED"
  <2>1. /\ state' = "CLOSED"
        /\ last_cb' = IF "on_closed" \in Installed THEN "on_closed" ELSE cb
    BY <1>2 DEF ToClosed
  <2>2. Phase # "closed" /\ Phase' = "closed" /\ Owed' = "nothing"
    BY <1>2, <2>1 DEF Phase, Owed
  <2>3. last_cb' \in IF "on_closed" \in Installed THEN {"on_closed"}
                     ELSE {last_cb} \cup (Contract!Due \cap Installed)
    BY <1>2, <2>1
  <2> QED
    BY <2>1, <2>2, <2>3 DEF Contract!CNext, Contract!CloseSignal
<1> QED BY <1>1, <1>2

\* fail_conn() is the loss of the connection; nobody has been told yet.
LEMMA FailConnIsFailure ==
    ASSUME CInv, pc \in {"open", "read"}, NEW reason \in Reasons, NEW status \in Nat,
           NEW ra \in -Half .. INT32_MAX, FailConn(reason, status, ra)
    PROVE  [Contract!CNext]_(Contract!cvars) /\ PolicyInstalled'
<1>1. /\ transport_open' = FALSE /\ UNCHANGED last_cb
      /\ state' \in {state, "WAITING_RETRY"}
  BY FailConnEffect DEF CInv, SafetyInv, signals
<1>2. IF "reconnect_policy" \in Installed THEN pc' = "hook" ELSE pc' \in {"err_stop", "err_retry"}
  BY DEF FailConn, Settle, Goto
<1>3. state # "CLOSED"
  BY DEF CInv, SafetyInv, ControlInv
<1>4. /\ Phase # "closed" /\ Phase' = "down" /\ Owed = "nothing"
      /\ Owed' = IF "reconnect_policy" \in Installed THEN "question" ELSE "report"
  BY <1>1, <1>2, <1>3 DEF Phase, Owed
<1>5. Contract!Failure
  BY <1>1, <1>4 DEF Contract!Failure
<1> QED
  BY <1>2, <1>5 DEF PolicyInstalled, Contract!CNext

\* A step that changes neither the phase nor the debt nor calls anybody.
LEMMA SilentStep ==
    ASSUME UNCHANGED <<Phase, Owed, last_cb>>, pc' # "hook"
    PROVE  [Contract!CNext]_(Contract!cvars) /\ PolicyInstalled'
BY DEF Contract!cvars, PolicyInstalled

\* A callback of the stream is its signal, or closes the client.
LEMMA StreamCallback ==
    ASSUME CInv, pc = "feed", pc' = "feed", state = "OPEN",
           NEW cb \in {"on_message", "on_error"}, NEW closes \in BOOLEAN,
           Callback(cb, closes)
    PROVE  [Contract!CNext]_(Contract!cvars) /\ PolicyInstalled'
<1>1. Phase = "up" /\ Owed = "nothing"
  BY DEF CInv, SafetyInv, NoTransportLeak, Phase, Owed
<1>2. cb \in Contract!Due
  BY <1>1 DEF Contract!Due
<1>3. PolicyInstalled'
  BY DEF PolicyInstalled
<1>4. CASE closes
  <2>1. cb \in Installed /\ ToClosed(cb)
    BY <1>4 DEF Callback
  <2> QED BY <1>2, <1>3, <2>1, ToClosedIsSignal
<1>5. CASE ~ closes
  <2>1. last_cb' = Latest(cb) /\ UNCHANGED <<state, transport_open>>
    BY <1>5 DEF Callback
  <2>2. Phase' = Phase /\ Owed' = Owed
    BY <2>1 DEF Phase, Owed
  <2>3. Contract!StreamSignal
    BY <1>1, <1>2, <2>1, <2>2 DEF Contract!StreamSignal, Contract!Calls, Latest
  <2> QED BY <1>3, <2>3 DEF Contract!CNext
<1> QED BY <1>4, <1>5

\* on_error about a failure pays the debt, or closes the client.
LEMMA FailureCallback ==
    ASSUME pc \in {"err_stop", "err_retry"}, pc' \in {"stop", "app"},
           state # "CLOSED", ~ transport_open,
           NEW closes \in BOOLEAN, Callback("on_error", closes)
    PROVE  [Contract!CNext]_(Contract!cvars) /\ PolicyInstalled'
<1>1. Phase = "down" /\ Owed = "report"
  BY DEF Phase, Owed
<1>2. "on_error" \in Contract!Due
  BY <1>1 DEF Contract!Due
<1>3. PolicyInstalled'
  BY DEF PolicyInstalled
<1>4. CASE closes
  <2>1. "on_error" \in Installed /\ ToClosed("on_error")
    BY <1>4 DEF Callback
  <2> QED BY <1>2, <1>3, <2>1, ToClosedIsSignal
<1>5. CASE ~ closes
  <2>1. last_cb' = Latest("on_error") /\ UNCHANGED <<state, transport_open>>
    BY <1>5 DEF Callback
  <2>2. Phase' = Phase /\ Owed' = "nothing"
    BY <2>1 DEF Phase, Owed
  <2>3. Contract!ReportFailure
    BY <1>1, <2>1, <2>2 DEF Contract!ReportFailure, Contract!Calls, Latest
  <2> QED BY <1>3, <2>3 DEF Contract!CNext
<1> QED BY <1>4, <1>5

\* Every step of the client is a step of the contract, or silent.
LEMMA StepsAsContract ==
    ASSUME CInv, [Next]_vars
    PROVE  [Contract!CNext]_(Contract!cvars) /\ PolicyInstalled'
<1> DEFINE Kept == [Contract!CNext]_(Contract!cvars) /\ PolicyInstalled'
<1>0. /\ SafetyInv /\ NoTransportLeak /\ ControlInv
  BY DEF CInv, SafetyInv
<1>1. ASSUME PollStopped \/ ReadStopped \/ Stop \/ Close PROVE Kept
  <2>1. ToClosed(last_cb) /\ pc' # "hook"
    BY <1>1 DEF PollStopped, ReadStopped, Stop, Close, Return, Goto, call
  <2> QED BY <2>1, ToClosedIsSignal DEF PolicyInstalled
<1>2. ASSUME PollClosed PROVE Kept
  BY <1>2, SilentStep DEF PollClosed, Return, Goto, client, signals, Phase, Owed
<1>3. ASSUME PollConnect PROVE Kept
  <2>1. ~ transport_open /\ pc = "app"
    BY <1>0, <1>3 DEF PollConnect, NoTransportLeak
  <2>2. /\ pc' = "open" /\ state' = "CONNECTING" /\ state # "CLOSED"
        /\ UNCHANGED <<transport_open, last_cb>>
    BY <1>3 DEF PollConnect, Goto, signals
  <2>3. UNCHANGED <<Phase, Owed>>
    BY <2>1, <2>2 DEF Phase, Owed
  <2> QED BY <2>2, <2>3, SilentStep
<1>4. ASSUME PollWait PROVE Kept
  <2>1. /\ pc = "app" /\ pc' = "app" /\ state # "CLOSED" /\ state' # "CLOSED"
        /\ UNCHANGED <<transport_open, last_cb>>
    BY <1>4 DEF PollWait, Return, Goto, signals
  <2>2. UNCHANGED <<Phase, Owed>>
    BY <2>1 DEF Phase, Owed
  <2> QED BY <2>1, <2>2, SilentStep
<1>5. ASSUME PollRead \/ ReadData \/ FeedDone \/ RequestStop \/ Tick
      PROVE  Kept
  <2>1. /\ UNCHANGED <<state, transport_open, last_cb>>
        /\ pc' = pc \/ (pc \in {"app", "read", "feed"} /\ pc' \in {"app", "read", "feed"})
    BY <1>5 DEF PollRead, ReadData, FeedDone, RequestStop, Tick, Elapse, Return, Goto,
                client, call, signals
  <2>2. UNCHANGED <<Phase, Owed>>
    BY <2>1 DEF Phase, Owed
  <2>3. PolicyInstalled'
    BY <2>1 DEF PolicyInstalled, CInv
  <2> QED BY <2>1, <2>2, <2>3 DEF Contract!cvars
<1>6. ASSUME OpenFails \/ ReadOversize \/ ReadEnded PROVE Kept
  BY <1>6, FailConnIsFailure, WidthAssumption DEF OpenFails, ReadOversize, ReadEnded, Reasons, INT32_MAX
<1>7. ASSUME NEW status \in Statuses, NEW ct \in ContentTypes, NEW ra \in RetryAfters,
             OpenRefused(status, ct, ra)
      PROVE  Kept
  BY <1>7, FailConnIsFailure, WidthAssumption, EnvironmentAssumption
  DEF OpenRefused, Reasons, INT32_MAX
<1>8. ASSUME NEW status \in Statuses, NEW ct \in ContentTypes, OpenAccepted(status, ct)
      PROVE  Kept
  <2>1. /\ pc = "open" /\ pc' = "on_open" /\ state' = "OPEN" /\ UNCHANGED last_cb
    BY <1>8 DEF OpenAccepted, Goto, signals
  <2>2. ~ transport_open /\ state = "CONNECTING"
    BY <1>0, <2>1 DEF NoTransportLeak, ControlInv
  <2>3. UNCHANGED <<Phase, Owed>>
    BY <2>1, <2>2 DEF Phase, Owed
  <2> QED BY <2>1, <2>3, SilentStep
<1>9. ASSUME NEW closes \in BOOLEAN, OnOpen(closes) PROVE Kept
  <2>1. pc = "on_open" /\ pc' = "app" /\ state = "OPEN" /\ transport_open
    BY <1>0, <1>9 DEF OnOpen, Return, Goto, NoTransportLeak, ControlInv
  <2>2. CASE closes
    <3>1. "on_open" \in Installed /\ ToClosed("on_open")
      BY <1>9, <2>2 DEF OnOpen, Callback
    <3>2. "on_open" \in Contract!Due
      BY <2>1 DEF Contract!Due, Phase, Owed
    <3> QED BY <2>1, <3>1, <3>2, ToClosedIsSignal DEF PolicyInstalled
  <2>3. CASE ~ closes
    <3>1. last_cb' = Latest("on_open") /\ UNCHANGED <<state, transport_open>>
      BY <1>9, <2>3 DEF OnOpen, Callback
    <3>2. Phase = "down" /\ Phase' = "up" /\ Owed = "nothing" /\ Owed' = Owed
      BY <2>1, <3>1 DEF Phase, Owed
    <3>3. Contract!OpenSignal
      BY <3>1, <3>2 DEF Contract!OpenSignal, Contract!Calls, Latest
    <3> QED BY <2>1, <3>3 DEF Contract!CNext, PolicyInstalled
  <2> QED BY <2>2, <2>3
<1>10. ASSUME ReadTimedOut PROVE Kept
  <2>1. CASE FailConn("IDLE_TIMEOUT", 0, -1)
    BY <1>10, <2>1, FailConnIsFailure, WidthAssumption DEF ReadTimedOut, Reasons, INT32_MAX
  <2>2. CASE ~ FailConn("IDLE_TIMEOUT", 0, -1)
    <3>1. pc = "read" /\ pc' = "app" /\ UNCHANGED <<state, transport_open, last_cb>>
      BY <1>10, <2>2 DEF ReadTimedOut, Return, Goto, client, signals
    <3>2. UNCHANGED <<Phase, Owed>>
      BY <3>1 DEF Phase, Owed
    <3> QED BY <3>1, <3>2, SilentStep
  <2> QED BY <2>1, <2>2
<1>11. ASSUME (\E id \in Ids : BridgeOnId(id)) \/ (\E ms \in RetryFields : BridgeOnRetry(ms))
       PROVE  Kept
  <2>1. pc = "feed" /\ UNCHANGED <<pc, state, transport_open, last_cb>>
    BY <1>11 DEF BridgeOnId, BridgeOnRetry, Bridge, call, signals
  <2>2. UNCHANGED <<Phase, Owed>>
    BY <2>1 DEF Phase, Owed
  <2> QED BY <2>1, <2>2, SilentStep
<1>12. ASSUME NEW closes \in BOOLEAN, BridgeOnEvent(closes) \/ BridgeOnPerr(closes)
       PROVE  Kept
  <2>1. pc = "feed" /\ pc' = "feed" /\ state = "OPEN"
    BY <1>12 DEF BridgeOnEvent, BridgeOnPerr, Bridge, Dispatching, call
  <2> QED BY <1>12, <2>1, StreamCallback DEF BridgeOnEvent, BridgeOnPerr
<1>13. ASSUME NEW retry \in BOOLEAN, NEW closes \in BOOLEAN, Hook(retry, closes)
       PROVE  Kept
  <2>0. /\ pc = "hook" /\ state # "CLOSED" /\ ~ transport_open /\ Owed = "question"
        /\ "reconnect_policy" \in Installed
    BY <1>0, <1>13 DEF Hook, ControlInv, NoTransportLeak, Owed, CInv, PolicyInstalled
  <2>1. CASE closes
    <3>1. ToClosed("reconnect_policy") /\ pc' = "app"
      BY <1>13, <2>1 DEF Hook, Return, Goto
    <3>2. "reconnect_policy" \in Contract!Due
      BY <2>0 DEF Contract!Due
    <3> QED BY <2>0, <3>1, <3>2, ToClosedIsSignal DEF PolicyInstalled
  <2>2. CASE ~ closes
    <3>1. /\ last_cb' = "reconnect_policy" /\ UNCHANGED transport_open
          /\ pc' \in {"err_stop", "err_retry"} /\ state' \in {state, "WAITING_RETRY"}
      BY <1>13, <2>2 DEF Hook, Settle, Goto
    <3>2. Phase' = Phase /\ Owed' = "report"
      BY <2>0, <3>1 DEF Phase, Owed
    <3>3. Contract!AskPolicy
      BY <2>0, <3>1, <3>2 DEF Contract!AskPolicy, Contract!Calls
    <3> QED BY <3>1, <3>3 DEF Contract!CNext, PolicyInstalled
  <2> QED BY <2>1, <2>2
<1>14. ASSUME NEW closes \in BOOLEAN, ErrStop(closes) \/ ErrRetry(closes) PROVE Kept
  <2>1. /\ pc \in {"err_stop", "err_retry"} /\ pc' \in {"stop", "app"}
        /\ Callback("on_error", closes)
    BY <1>14 DEF ErrStop, ErrRetry, Return, Goto
  <2>2. state # "CLOSED" /\ ~ transport_open
    BY <1>0, <2>1 DEF ControlInv, NoTransportLeak, SafetyInv, TypeOK
  <2> QED BY <2>1, <2>2, FailureCallback
<1>15. CASE UNCHANGED vars
  BY <1>15 DEF vars, client, call, signals, CInv, PolicyInstalled, Phase, Owed, Contract!cvars
<1> QED
  BY <1>1, <1>2, <1>3, <1>4, <1>5, <1>6, <1>7, <1>8, <1>9, <1>10, <1>11, <1>12,
     <1>13, <1>14, <1>15
  DEF Next, Poll, OpenReturns, ReadReturns, Parse, Report

\* Whichever callbacks it installs, the application hears of every failure once
\* and before the next connection, and of nothing after the client is closed.
THEOREM ContractIsKept == Spec => ContractKept
<1>1. Init => Contract!CInit /\ PolicyInstalled
  BY DEF Init, Contract!CInit, Phase, Owed, PolicyInstalled
<1>2. SafetyInv /\ PolicyInstalled /\ [Next]_vars =>
        [Contract!CNext]_(Contract!cvars) /\ PolicyInstalled'
  BY StepsAsContract DEF CInv
<1> QED
  BY <1>1, <1>2, Safety, PTL DEF Spec, ContractKept, Contract!CSpec

----------------------------------------------------------------------------
(* What poll returns. *)

\* No hint other than that of a CLOSED client is UINT32_MAX, unless the
\* configured read timeout is UINT32_MAX.
SentinelFree == ReadMs # UINT32_MAX

\* Every return of poll tells whether the client is CLOSED now.
LEMMA ReturnTells ==
    ASSUME SentinelFree, SafetyInv, pc' = "app",
           \/ Poll
           \/ pc # "app" /\ (OpenReturns \/ ReadReturns \/ Parse \/ FeedDone \/ Report)
    PROVE  hint' = UINT32_MAX <=> state' = "CLOSED"
<1> USE DEF UINT32_MAX, INT32_MAX, Modulus, Clock
<1>0. 0 # UINT32_MAX /\ ReadMs # UINT32_MAX
  BY WidthAssumption DEF SentinelFree
<1>1. CASE PollStopped \/ PollClosed \/ ReadStopped \/ Stop
  BY <1>1 DEF PollStopped, PollClosed, ReadStopped, Stop, ToClosed, Return, client
<1>2. CASE PollWait
  <2>1. Remain \in Int /\ Remain <= INT32_MAX
    <3>1. SubU(retry_deadline, now) \in Clock
      BY ClockClosed DEF SafetyInv, TypeOK
    <3> QED BY <3>1, WidthAssumption DEF Remain, AsSigned
  <2>2. state' # "CLOSED" /\ hint' \in {0, Remain}
    BY <1>2 DEF PollWait, Return
  <2>3. Remain # UINT32_MAX
    BY <2>1, WidthAssumption
  <2> QED BY <1>0, <2>2, <2>3
<1>3. CASE PollConnect \/ PollRead
  BY <1>3 DEF PollConnect, PollRead, Goto
<1>4. CASE \E closes \in BOOLEAN : OnOpen(closes)
  BY <1>0, <1>4 DEF OnOpen, Return, PollResult
<1>5. CASE FeedDone
  BY <1>0, <1>5 DEF FeedDone, Return, PollResult
<1>6. CASE \E closes \in BOOLEAN : ErrRetry(closes)
  BY <1>0, <1>6 DEF ErrRetry, Return, PollResult, FailHint
<1>7. CASE \E retry \in BOOLEAN, closes \in BOOLEAN : Hook(retry, closes)
  BY <1>7 DEF Hook, ToClosed, Return, Settle, Goto
<1>8. CASE \E closes \in BOOLEAN : ErrStop(closes)
  BY <1>8 DEF ErrStop, Goto
<1>9. CASE ReadTimedOut /\ ~ FailConn("IDLE_TIMEOUT", 0, -1)
  <2>1. pc = "read" /\ hint' = ReadMs /\ state' = state
    BY <1>9 DEF ReadTimedOut, Return, client
  <2>2. state # "CLOSED"
    BY <2>1 DEF SafetyInv, ControlInv
  <2> QED BY <1>0, <2>1, <2>2
<1>10. CASE OpenReturns
  BY <1>10 DEF OpenReturns, OpenFails, OpenRefused, OpenAccepted, FailConn, Settle, Goto
<1>11. CASE ReadData
  BY <1>11 DEF ReadData, Goto
<1>12. CASE ReadOversize \/ ReadEnded \/ FailConn("IDLE_TIMEOUT", 0, -1)
  BY <1>12 DEF ReadOversize, ReadEnded, FailConn, Settle, Goto
<1>13. CASE pc # "app" /\ Parse
  BY <1>13 DEF Parse, BridgeOnId, BridgeOnRetry, BridgeOnEvent, BridgeOnPerr, Bridge, call
<1> QED
  BY <1>1, <1>2, <1>3, <1>4, <1>5, <1>6, <1>7, <1>8, <1>9, <1>10, <1>11, <1>12, <1>13
  DEF Poll, ReadReturns, Report

\* An application that stops polling at UINT32_MAX stops exactly when the
\* client is CLOSED, also when a callback closed it during this very poll.
THEOREM SameInvocationHolds == SentinelFree => (Spec => SameInvocation)
<1> SUFFICES ASSUME SentinelFree PROVE Spec => SameInvocation
  OBVIOUS
<1> DEFINE Told == (pc # "app" /\ pc' = "app") => (hint' = UINT32_MAX <=> state' = "CLOSED")
<1>1. SafetyInv /\ [Next]_vars => [Told]_vars
  <2> SUFFICES ASSUME SafetyInv, Next, pc # "app", pc' = "app"
               PROVE  hint' = UINT32_MAX <=> state' = "CLOSED"
    OBVIOUS
  <2>1. ~ (Close \/ RequestStop \/ Tick)
    BY DEF Close, RequestStop, Tick, Elapse, call
  <2> QED BY <2>1, ReturnTells DEF Next
<1> QED
  BY Safety, <1>1, PTL DEF Spec, SameInvocation

----------------------------------------------------------------------------
(* The client's timing: what real time (age, dwell) has to do with the     *)
(* clock that the code reads, which wraps.                                 *)

\* The settings and bounds are natural numbers.
LEMMA BoundsAreNat ==
    /\ Modulus \in Nat /\ Half \in Nat /\ Half > 1 /\ Modulus = 2 * Half
    /\ OpenMs \in Nat /\ CallbackMs \in Nat /\ Lag \in Nat
    /\ ReadMs \in Nat /\ IdleTimeoutMs \in Nat /\ IdleTimeoutMs < Modulus
<1>1. Half \in Nat /\ Half > 1 /\ OpenMs \in Nat /\ CallbackMs \in Nat /\ Lag \in Nat
  BY WidthAssumption, EnvironmentAssumption
<1>2. ReadMs \in Clock /\ IdleTimeoutMs \in Clock
  BY SettingsTyped, ConfigAssumption
<1> QED BY <1>1, <1>2 DEF Clock, UINT32_MAX, Modulus

----------------------------------------------------------------------------
(* What the steps of the client do to its timing. *)

\* Nothing that the timing depends on changes.
Same == UNCHANGED <<pc, hint, dwell, now, age, last_rx_ms, retry_deadline, err, state,
                    transport_open>>

\* The client has no connection and waits for none.
Neither ==
    /\ ~ transport_open' /\ state' # "WAITING_RETRY"
    /\ dwell' = 0 \/ UNCHANGED <<pc, hint, dwell>>

\* A connection is open, and something has just been received.
Heard ==
    /\ pc' \in {"on_open", "feed"} /\ state' = "OPEN" /\ dwell' = 0
    /\ age' = 0 /\ last_rx_ms' = now /\ now' = now

\* A reconnect is scheduled.
Schedules ==
    /\ pc' = "err_retry" /\ state' = "WAITING_RETRY" /\ dwell' = 0
    /\ ~ transport_open' /\ age' = 0

\* The polling task moves on with the same connection or the same schedule.
GoesOn ==
    /\ dwell' = 0
    /\ UNCHANGED <<state, transport_open, now, age, last_rx_ms, retry_deadline, err>>
    /\ \/ pc = "app" /\ pc' = "read" /\ state = "OPEN"
       \/ pc \in {"on_open", "feed"} /\ pc' = "app" /\ hint' = 0 /\ state = "OPEN"
       \/ pc = "read" /\ pc' = "app" /\ hint' = ReadMs /\ ~ IdleExpired /\ state = "OPEN"
       \/ pc = "app" /\ pc' = "app" /\ hint' = Remain /\ Remain > 0 /\ state = "WAITING_RETRY"
       \/ pc = "err_retry" /\ pc' = "app" /\ hint' = FailHint /\ state = "WAITING_RETRY"

\* The reason of the failure on record is an old one, or the connection is idle.
Cause ==
    err'.reason = "IDLE_TIMEOUT" =>
        err.reason = "IDLE_TIMEOUT" \/ (pc = "read" /\ IdleExpired)

\* What a step of poll may do.
Works == Neither \/ Heard \/ Schedules \/ GoesOn

Kinds == (Tick \/ Same \/ Works) /\ Cause

\* fail_conn() from the retry decision on.
LEMMA SettleTimed ==
    ASSUME NEW retry \in BOOLEAN, NEW e \in Errors, Settle(retry, e)
    PROVE  /\ err'.reason = e.reason /\ dwell' = 0
           /\ \/ pc' = "err_stop" /\ state' = state
              \/ pc' = "err_retry" /\ state' = "WAITING_RETRY" /\ age' = 0
<1>1. CASE ~ retry
  <2>1. err' = [e EXCEPT !.will_retry = FALSE] /\ pc' = "err_stop" /\ dwell' = 0
        /\ state' = state
    BY <1>1 DEF Settle, Goto
  <2>2. err'.reason = e.reason
    BY <2>1 DEF Errors
  <2> QED BY <2>1, <2>2
<1>2. CASE retry
  <2>1. pc' = "err_retry" /\ dwell' = 0 /\ state' = "WAITING_RETRY" /\ age' = 0
    BY <1>2 DEF Settle, Goto
  <2>2. PICK d : err' = [e EXCEPT !.will_retry = TRUE, !.retry_in_ms = d]
    BY <1>2 DEF Settle
  <2>3. err'.reason = e.reason
    BY <2>2 DEF Errors
  <2> QED BY <2>1, <2>3
<1> QED BY <1>1, <1>2

\* All of fail_conn().
LEMMA FailConnTimed ==
    ASSUME SafetyInv, pc \in {"open", "read"}, NEW reason \in Reasons, NEW status \in Nat,
           NEW ra \in -Half .. INT32_MAX, FailConn(reason, status, ra)
    PROVE  (Neither \/ Schedules) /\ err'.reason = reason
<1> DEFINE dflt == DefaultShouldRetry(reason, status, ra)
           e == [reason |-> reason, http_status |-> status,
                 retry_after_s |-> ra, will_retry |-> dflt, retry_in_ms |-> 0]
<1>1. dflt \in BOOLEAN
  BY DEF DefaultShouldRetry
<1>2. e \in Errors /\ e.reason = reason
  BY <1>1, WidthAssumption DEF Errors, INT32_MAX
<1>3. state # "WAITING_RETRY"
  BY DEF SafetyInv, ControlInv
<1>4. ~ transport_open'
  BY DEF FailConn, CloseTransport
<1>5. CASE "reconnect_policy" \in Installed
  <2>1. err' = e /\ dwell' = 0 /\ state' = state
    BY <1>5 DEF FailConn, Goto
  <2> QED BY <1>2, <1>3, <1>4, <2>1 DEF Neither
<1>6. CASE "reconnect_policy" \notin Installed
  <2>1. Settle(dflt, e)
    BY <1>6 DEF FailConn
  <2> HIDE DEF dflt, e
  <2>2. /\ err'.reason = e.reason /\ dwell' = 0
        /\ \/ pc' = "err_stop" /\ state' = state
           \/ pc' = "err_retry" /\ state' = "WAITING_RETRY" /\ age' = 0
    BY <1>1, <1>2, <2>1, SettleTimed
  <2> QED BY <1>2, <1>3, <1>4, <2>2 DEF Neither, Schedules
<1> QED BY <1>5, <1>6

\* Every step of poll is of one of these kinds.
LEMMA PollWorks ==
    ASSUME SafetyInv, Poll \/ OpenReturns \/ ReadReturns \/ FeedDone \/ Report
    PROVE  Works /\ Cause
<1>0. /\ NoTransportLeak /\ ControlInv /\ TypeOK
  BY DEF SafetyInv
<1>1. CASE Poll
  <2>1. CASE PollStopped
    BY <2>1 DEF PollStopped, ToClosed, CloseTransport, Return, Goto, Neither, Works, Cause
  <2>2. CASE PollClosed
    BY <1>0, <2>2 DEF PollClosed, NoTransportLeak, Return, Goto, client, Neither, Works, Cause
  <2>3. CASE PollConnect
    BY <1>0, <2>3 DEF PollConnect, NoTransportLeak, NoError, Goto, Neither, Works, Cause
  <2>4. CASE PollWait
    <3>1. err' = err /\ now' = now /\ dwell' = 0 /\ pc = "app" /\ pc' = "app"
          /\ ~ transport_open /\ state = "WAITING_RETRY"
          /\ UNCHANGED <<transport_open, last_rx_ms, retry_deadline>>
      BY <1>0, <2>4 DEF PollWait, Return, Goto, NoTransportLeak
    <3>2. CASE Remain <= 0
      BY <2>4, <3>1, <3>2 DEF PollWait, Neither, Works, Cause
    <3>3. CASE ~ (Remain <= 0)
      <4>1. hint' = Remain /\ state' = state /\ age' = age
        BY <2>4, <3>3 DEF PollWait, Return
      <4>2. Remain \in Int
        <5>1. SubU(retry_deadline, now) \in Clock
          BY <1>0, ClockClosed DEF TypeOK
        <5> QED BY <5>1, WidthAssumption DEF Remain, AsSigned, Clock, UINT32_MAX, Modulus
      <4>3. Remain > 0
        BY <3>3, <4>2
      <4> QED BY <3>1, <4>1, <4>3 DEF GoesOn, Works, Cause
    <3> QED BY <3>2, <3>3
  <2>5. CASE PollRead
    BY <2>5 DEF PollRead, Goto, client, GoesOn, Works, Cause
  <2> QED BY <1>1, <2>1, <2>2, <2>3, <2>4, <2>5 DEF Poll
<1>2. CASE OpenReturns
  <2>1. CASE OpenFails
    <3>1. (Neither \/ Schedules) /\ err'.reason = "TRANSPORT"
      BY <2>1, FailConnTimed, WidthAssumption DEF OpenFails, Reasons, INT32_MAX
    <3> QED BY <3>1 DEF Works, Cause
  <2>2. ASSUME NEW status \in Statuses, NEW ct \in ContentTypes, NEW ra \in RetryAfters,
               OpenRefused(status, ct, ra)
        PROVE  Works /\ Cause
    <3>1. (Neither \/ Schedules) /\ err'.reason # "IDLE_TIMEOUT"
      BY <2>2, FailConnTimed, WidthAssumption, EnvironmentAssumption
         DEF OpenRefused, Reasons, INT32_MAX
    <3> QED BY <3>1 DEF Works, Cause
  <2>3. ASSUME NEW status \in Statuses, NEW ct \in ContentTypes, OpenAccepted(status, ct)
        PROVE  Works /\ Cause
    BY <2>3 DEF OpenAccepted, StampRx, Goto, Heard, Works, Cause
  <2> QED BY <1>2, <2>1, <2>2, <2>3 DEF OpenReturns
<1>3. CASE ReadReturns
  <2>0. pc = "read" /\ state = "OPEN"
    BY <1>0, <1>3 DEF ReadReturns, ReadStopped, ReadData, ReadTimedOut, ReadOversize,
                      ReadEnded, ControlInv
  <2>1. CASE ReadStopped
    BY <2>1 DEF ReadStopped, ToClosed, CloseTransport, Return, Goto, Neither, Works, Cause
  <2>2. CASE ReadData
    BY <2>0, <2>2 DEF ReadData, StampRx, Goto, Heard, Works, Cause
  <2>3. CASE IdleExpired /\ FailConn("IDLE_TIMEOUT", 0, -1)
    <3>1. Neither \/ Schedules
      BY <2>0, <2>3, FailConnTimed, WidthAssumption DEF Reasons, INT32_MAX
    <3> QED BY <2>0, <2>3, <3>1 DEF Works, Cause
  <2>4. CASE ReadTimedOut /\ ~ IdleExpired
    BY <2>0, <2>4 DEF ReadTimedOut, Return, Goto, client, GoesOn, Works, Cause
  <2>5. CASE ReadOversize \/ ReadEnded
    <3>1. (Neither \/ Schedules) /\ err'.reason = "TRANSPORT"
      BY <2>0, <2>5, FailConnTimed, WidthAssumption
         DEF ReadOversize, ReadEnded, Reasons, INT32_MAX
    <3> QED BY <3>1 DEF Works, Cause
  <2> QED BY <1>3, <2>1, <2>2, <2>3, <2>4, <2>5 DEF ReadReturns, ReadTimedOut
<1>4. CASE FeedDone
  <2>1. /\ pc = "feed" /\ pc' = "app" /\ dwell' = 0 /\ now' = now /\ age' = age /\ err' = err
        /\ UNCHANGED <<state, transport_open, last_rx_ms, retry_deadline>>
        /\ hint' = IF state' = "CLOSED" THEN UINT32_MAX ELSE 0
    BY <1>4 DEF FeedDone, Return, Goto, PollResult, client
  <2>2. state = "OPEN" \/ (state = "CLOSED" /\ ~ transport_open)
    BY <1>0, <2>1 DEF ControlInv, NoTransportLeak
  <2> QED BY <2>1, <2>2 DEF GoesOn, Neither, Works, Cause
<1>5. CASE Report
  <2>1. ASSUME NEW closes \in BOOLEAN, OnOpen(closes) PROVE Works /\ Cause
    <3>1. /\ pc = "on_open" /\ pc' = "app" /\ dwell' = 0 /\ now' = now /\ age' = age
          /\ err' = err /\ UNCHANGED <<last_rx_ms, retry_deadline>>
          /\ hint' = IF state' = "CLOSED" THEN UINT32_MAX ELSE 0
          /\ \/ UNCHANGED <<state, transport_open>>
             \/ ~ transport_open' /\ state' = "CLOSED"
      BY <1>0, <2>1 DEF OnOpen, Callback, ToClosed, CloseTransport, Return, Goto,
                        PollResult, ControlInv
    <3>2. state = "OPEN"
      BY <1>0, <3>1 DEF ControlInv
    <3> QED BY <3>1, <3>2 DEF GoesOn, Neither, Works, Cause
  <2>2. ASSUME NEW closes \in BOOLEAN, ErrStop(closes) PROVE Works /\ Cause
    BY <1>0, <2>2 DEF ErrStop, Callback, ToClosed, CloseTransport, Goto, ControlInv,
                      NoTransportLeak, Neither, Works, Cause
  <2>3. ASSUME NEW closes \in BOOLEAN, ErrRetry(closes) PROVE Works /\ Cause
    <3>1. /\ pc = "err_retry" /\ pc' = "app" /\ dwell' = 0 /\ now' = now /\ age' = age
          /\ err' = err /\ UNCHANGED <<last_rx_ms, retry_deadline>>
          /\ hint' = IF state' = "CLOSED" THEN UINT32_MAX ELSE FailHint
          /\ \/ UNCHANGED <<state, transport_open>>
             \/ ~ transport_open' /\ state' = "CLOSED"
      BY <2>3 DEF ErrRetry, Callback, ToClosed, CloseTransport, Return, Goto,
                  PollResult, failFrame
    <3>2. state = "WAITING_RETRY"
      BY <1>0, <3>1 DEF ControlInv
    <3> QED BY <3>1, <3>2 DEF GoesOn, Neither, Works, Cause
  <2>4. ASSUME NEW retry \in BOOLEAN, NEW closes \in BOOLEAN, Hook(retry, closes) PROVE Works /\ Cause
    <3>1. pc = "hook" /\ ~ transport_open /\ state # "WAITING_RETRY" /\ err \in Errors
      BY <1>0, <2>4 DEF Hook, NoTransportLeak, ControlInv, TypeOK
    <3>2. CASE closes
      BY <2>4, <3>2 DEF Hook, ToClosed, CloseTransport, Return, Goto, Neither, Works, Cause
    <3>3. CASE ~ closes
      <4>1. Settle(retry, err) /\ ~ transport_open'
        BY <2>4, <3>1, <3>3 DEF Hook
      <4> QED BY <3>1, <4>1, SettleTimed DEF Neither, Schedules, Works, Cause
    <3> QED BY <3>2, <3>3
  <2>5. CASE Stop
    BY <2>5 DEF Stop, ToClosed, CloseTransport, Return, Goto, Neither, Works, Cause
  <2> QED BY <1>5, <2>1, <2>2, <2>3, <2>4, <2>5 DEF Report
<1> QED BY <1>1, <1>2, <1>3, <1>4, <1>5

\* Every step of the client is of one of these kinds.
LEMMA StepKinds == ASSUME SafetyInv, Next PROVE Kinds
<1>1. CASE Poll \/ OpenReturns \/ ReadReturns \/ FeedDone \/ Report
  BY <1>1, PollWorks DEF Kinds
<1>2. CASE Parse
  <2>1. /\ UNCHANGED <<pc, hint, dwell, now, age, last_rx_ms, retry_deadline, err>>
        /\ \/ UNCHANGED <<state, transport_open>>
           \/ ~ transport_open' /\ state' = "CLOSED"
    BY <1>2 DEF Parse, BridgeOnId, BridgeOnRetry, BridgeOnEvent, BridgeOnPerr, Bridge,
       Dispatching, Callback, ToClosed, CloseTransport, call, time
  <2> QED BY <2>1 DEF Same, Neither, Works, Kinds, Cause
<1>3. CASE Close
  BY <1>3 DEF Close, ToClosed, CloseTransport, call, time, Neither, Works, Kinds, Cause
<1>4. CASE RequestStop
  BY <1>4 DEF RequestStop, client, call, time, Same, Kinds, Cause
<1>5. CASE Tick
  BY <1>5 DEF Tick, Elapse, call, Kinds, Cause
<1> QED BY <1>1, <1>2, <1>3, <1>4, <1>5 DEF Next

----------------------------------------------------------------------------
(* The invariants. *)

\* The polling task never outstays its budget.
InTime == dwell <= Budget

\* The clock difference that the code compares with idle_timeout_ms is the
\* silence, as long as the silence fits the clock.
Silence == (transport_open /\ age < Modulus) => SubU(now, last_rx_ms) = age

\* Only a configured idle timeout expires.
Configured == err.reason = "IDLE_TIMEOUT" => IdleTimeoutMs # 0

BaseInv == SafetyInv /\ InTime /\ Silence /\ Configured

\* The budget, point by point.
LEMMA BudgetIs ==
    Budget = IF pc = "app" THEN hint + Lag
             ELSE IF pc = "open" THEN OpenMs
             ELSE IF pc = "read" THEN ReadMs
             ELSE CallbackMs
<1>1. CASE pc = "app"
  BY <1>1, Zenon DEF Budget
<1>2. CASE pc = "open"
  BY <1>2, Zenon DEF Budget
<1>3. CASE pc = "read"
  BY <1>3, Zenon DEF Budget
<1>4. CASE pc \notin {"app", "open", "read"}
  BY <1>4, Zenon DEF Budget
<1> QED BY <1>1, <1>2, <1>3, <1>4

\* A budget is a natural number.
LEMMA BudgetNat == TypeOK => Budget \in Nat
BY BudgetIs, BoundsAreNat DEF TypeOK, Clock, UINT32_MAX

\* What a ms changes.
LEMMA ElapseIs ==
    ASSUME Elapse
    PROVE  /\ UNCHANGED <<pc, hint, state, transport_open, last_rx_ms, retry_deadline, err>>
           /\ dwell' = dwell + 1 /\ now' = AddU(now, 1)
           /\ (state \in {"OPEN", "WAITING_RETRY"} =>
                 age' = IF age + 1 > Modulus THEN Modulus ELSE age + 1)
BY DEF Elapse, AtMost, client, call

\* The same, within the budget.
LEMMA TickIs ==
    ASSUME Tick
    PROVE  /\ UNCHANGED <<pc, hint, state, transport_open, last_rx_ms, retry_deadline, err>>
           /\ dwell' = dwell + 1 /\ dwell < Budget /\ now' = AddU(now, 1)
           /\ (state \in {"OPEN", "WAITING_RETRY"} =>
                 age' = IF age + 1 > Modulus THEN Modulus ELSE age + 1)
BY ElapseIs DEF Tick

\* Every step leaves the polling task within its budget.
LEMMA InTimeStep ==
    ASSUME TypeOK, TypeOK', InTime, Kinds
    PROVE  InTime'
<1>1. Budget' \in Nat
  <2>0. hint' \in Nat
    BY BoundsAreNat DEF TypeOK, Clock, UINT32_MAX
  <2>1. CASE pc' = "app"
    <3>1. Budget' = hint' + Lag
      BY <2>1, Zenon DEF Budget
    <3>2. Lag \in Nat
      BY BoundsAreNat
    <3>3. hint' + Lag \in Nat
      <4>1. \A h, l \in Nat : h + l \in Nat
        OBVIOUS
      <4> QED BY <2>0, <3>2, <4>1
    <3> QED BY <3>1, <3>3, Zenon
  <2>2. CASE pc' = "open"
    <3>1. Budget' = OpenMs
      BY <2>2, Zenon DEF Budget
    <3> QED BY <3>1, BoundsAreNat
  <2>3. CASE pc' = "read"
    <3>1. Budget' = ReadMs
      BY <2>3, Zenon DEF Budget
    <3> QED BY <3>1, BoundsAreNat
  <2>4. CASE pc' \notin {"app", "open", "read"}
    <3>1. Budget' = CallbackMs
      BY <2>4, Zenon DEF Budget
    <3> QED BY <3>1, BoundsAreNat
  <2> QED BY <2>1, <2>2, <2>3, <2>4
<1>2. CASE dwell' = 0
  BY <1>1, <1>2 DEF InTime
<1>3. CASE UNCHANGED <<pc, hint, dwell>>
  BY <1>3 DEF InTime, Budget
<1>4. CASE Tick
  <2>1. dwell' = dwell + 1 /\ dwell < Budget /\ UNCHANGED <<pc, hint>>
    BY <1>4, TickIs
  <2>2. Budget' = Budget
    BY <2>1 DEF Budget
  <2>3. dwell \in Nat /\ Budget \in Nat
    BY BudgetNat DEF TypeOK
  <2> QED BY <2>1, <2>2, <2>3 DEF InTime
<1> QED BY <1>2, <1>3, <1>4 DEF Kinds, Works, Same, Neither, Heard, Schedules, GoesOn

\* A ms more since t, until the clock is back at t.
LEMMA OneMsMore ==
    ASSUME NEW n \in Clock, NEW t \in Clock, SubU(n, t) + 1 < Modulus
    PROVE  SubU(AddU(n, 1), t) = SubU(n, t) + 1
BY BoundsAreNat DEF SubU, AddU, Clock, UINT32_MAX

\* No time since now.
LEMMA NoMsYet == ASSUME NEW n \in Clock PROVE SubU(n, n) = 0
BY BoundsAreNat DEF SubU, Clock, UINT32_MAX

\* Every step keeps the silence and its clock difference equal.
LEMMA SilenceStep ==
    ASSUME SafetyInv, Silence, Kinds
    PROVE  Silence'
<1>0. /\ now \in Clock /\ last_rx_ms \in Clock /\ age \in 0 .. Modulus
      /\ (transport_open => state = "OPEN")
  BY DEF SafetyInv, TypeOK, NoTransportLeak
<1>1. CASE Tick
  <2> SUFFICES ASSUME transport_open, age' < Modulus
               PROVE  SubU(now', last_rx_ms') = age'
    BY <1>1, TickIs DEF Silence, SafetyInv
  <2>1. /\ age' = IF age + 1 > Modulus THEN Modulus ELSE age + 1
        /\ now' = AddU(now, 1) /\ last_rx_ms' = last_rx_ms
    BY <1>0, <1>1, TickIs DEF SafetyInv
  <2>2. age' = age + 1 /\ age < Modulus
    BY <1>0, <2>1, BoundsAreNat
  <2>3. SubU(now, last_rx_ms) = age
    BY <2>2 DEF Silence
  <2>4. SubU(now, last_rx_ms) + 1 < Modulus
    BY <2>2, <2>3
  <2> QED BY <1>0, <2>1, <2>2, <2>3, <2>4, OneMsMore
<1>2. CASE Heard
  BY <1>0, <1>2, NoMsYet DEF Heard, Silence
<1>3. CASE Same \/ GoesOn
  BY <1>3 DEF Same, GoesOn, Silence
<1>4. CASE Neither \/ Schedules
  BY <1>4 DEF Neither, Schedules, Silence
<1> QED BY <1>1, <1>2, <1>3, <1>4 DEF Kinds, Works

\* Every step keeps the invariant.
LEMMA BaseStep == BaseInv /\ [Next]_vars => BaseInv'
<1> SUFFICES ASSUME BaseInv, [Next]_vars PROVE BaseInv'
  OBVIOUS
<1>1. SafetyInv'
  BY TypeStep, CoreStep DEF BaseInv, SafetyInv, Core
<1>2. CASE Next
  <2>1. Kinds
    BY <1>2, StepKinds DEF BaseInv
  <2>2. InTime' /\ Silence'
    BY <1>1, <2>1, InTimeStep, SilenceStep DEF BaseInv, SafetyInv
  <2>3. Configured'
    BY <2>1 DEF BaseInv, Configured, Kinds, Cause, IdleExpired
  <2> QED BY <1>1, <2>2, <2>3 DEF BaseInv
<1>3. CASE UNCHANGED vars
  BY <1>1, <1>3 DEF BaseInv, InTime, Budget, Silence, Configured, vars, client, call, time
<1> QED BY <1>2, <1>3

\* The initial state satisfies the invariant.
LEMMA BaseInit == Init => BaseInv
<1> SUFFICES ASSUME Init PROVE BaseInv
  OBVIOUS
<1>1. SafetyInv
  BY SafetyInit
<1>2. Budget \in Nat /\ dwell = 0
  BY <1>1, BudgetNat DEF SafetyInv, Init
<1>3. InTime
  BY <1>2 DEF InTime
<1>4. Silence /\ Configured
  BY DEF Init, Silence, Configured, NoError
<1> QED BY <1>1, <1>3, <1>4 DEF BaseInv

\* The inductive invariant of the client's timing, whatever its bounds: the
\* clock difference since the last byte is the real silence.
THEOREM Timing == Spec => []BaseInv
BY BaseInit, BaseStep, PTL DEF Spec

\* An idle timeout is only reported of a connection that was really silent for
\* idle_timeout_ms, however the clock wraps.
THEOREM IdleIsRealHolds == Spec => IdleIsReal
<1>1. BaseInv /\ [Next]_vars
        => [(err.reason # "IDLE_TIMEOUT" /\ err'.reason = "IDLE_TIMEOUT")
              => age >= IdleTimeoutMs]_vars
  <2> SUFFICES ASSUME BaseInv, Next, err.reason # "IDLE_TIMEOUT",
                      err'.reason = "IDLE_TIMEOUT"
               PROVE  age >= IdleTimeoutMs
    OBVIOUS
  <2>1. pc = "read" /\ IdleExpired
    BY StepKinds DEF BaseInv, Kinds, Cause
  <2>2. transport_open
    BY <2>1 DEF BaseInv, SafetyInv, ControlInv, NoTransportLeak
  <2>3. age \in 0 .. Modulus /\ (age < Modulus => SubU(now, last_rx_ms) = age)
    BY <2>2 DEF BaseInv, SafetyInv, TypeOK, Silence
  <2>4. SubU(now, last_rx_ms) >= IdleTimeoutMs
    BY <2>1 DEF IdleExpired
  <2>5. CASE age < Modulus
    BY <2>3, <2>4, <2>5
  <2>6. CASE age = Modulus
    BY <2>6, BoundsAreNat
  <2> QED BY <2>3, <2>5, <2>6, BoundsAreNat
<1> QED BY Timing, <1>1, PTL DEF Spec, IdleIsReal

----------------------------------------------------------------------------
(* Silence is bounded, if the bound itself fits the clock. *)

SilenceFits == IdleTimeoutMs + IdleSlack < Modulus

\* The most silence there has been at each point of the loop.
QuietInv ==
    (IdleTimeoutMs # 0 /\ transport_open) =>
        /\ pc \in {"on_open", "feed"} => age <= dwell
        /\ pc = "app" => hint <= ReadMs /\ age <= IdleTimeoutMs + CallbackMs + dwell
        /\ pc = "read" => age <= IdleTimeoutMs + CallbackMs + ReadMs + Lag + dwell

\* Every step keeps these bounds.
LEMMA QuietStep ==
    ASSUME SilenceFits, BaseInv, QuietInv, Kinds, hint' \in Nat
    PROVE  QuietInv'
<1> SUFFICES ASSUME IdleTimeoutMs # 0, transport_open'
             PROVE  /\ pc' \in {"on_open", "feed"} => age' <= dwell'
                    /\ pc' = "app" => hint' <= ReadMs
                                      /\ age' <= IdleTimeoutMs + CallbackMs + dwell'
                    /\ pc' = "read" => age' <= IdleTimeoutMs + CallbackMs + ReadMs + Lag + dwell'
  BY DEF QuietInv
<1>0. /\ age \in 0 .. Modulus /\ dwell \in Nat /\ hint \in Nat /\ dwell <= Budget
      /\ (transport_open => state = "OPEN")
      /\ (transport_open /\ age < Modulus => SubU(now, last_rx_ms) = age)
  BY BoundsAreNat DEF BaseInv, SafetyInv, TypeOK, NoTransportLeak, InTime, Silence,
                      Clock, UINT32_MAX
<1> USE BoundsAreNat
<1>1. CASE Heard
  BY <1>1 DEF Heard
<1>2. CASE Same
  BY <1>2 DEF Same, QuietInv
<1>3. CASE Neither \/ Schedules
  BY <1>3 DEF Neither, Schedules
<1>4. CASE Tick
  <2>1. /\ UNCHANGED <<pc, hint, state, transport_open>> /\ dwell' = dwell + 1
        /\ age' <= age + 1 /\ age' \in Nat
    <3>1. TypeOK
      BY DEF BaseInv, SafetyInv
    <3>2. /\ UNCHANGED <<pc, hint, state, transport_open>> /\ dwell' = dwell + 1
          /\ age' = IF age + 1 > Modulus THEN Modulus ELSE age + 1
      BY <1>0, <1>4, <3>1, TickIs
    <3>3. age \in Nat /\ age <= Modulus
      BY <1>0
    <3>4. age' <= age + 1 /\ age' \in Nat
      <4>1. CASE age + 1 > Modulus
        BY <3>2, <3>3, <4>1
      <4>2. CASE ~ (age + 1 > Modulus)
        BY <3>2, <3>3, <4>2
      <4> QED BY <4>1, <4>2
    <3> QED BY <3>2, <3>4
  <2>2. CASE pc \in {"on_open", "feed"}
    BY <1>0, <2>1, <2>2 DEF QuietInv
  <2>3. CASE pc = "app"
    BY <1>0, <2>1, <2>3 DEF QuietInv
  <2>4. CASE pc = "read"
    BY <1>0, <2>1, <2>4 DEF QuietInv
  <2> QED BY <2>1, <2>2, <2>3, <2>4
<1>5. CASE GoesOn
  <2>0. /\ dwell' = 0 /\ age' = age /\ transport_open /\ state = "OPEN"
    BY <1>0, <1>5 DEF GoesOn
  <2>1. CASE pc = "app" /\ pc' = "read"
    <3>1. dwell <= hint + Lag
      BY <1>0, <2>1, BudgetIs
    <3>2. hint <= ReadMs /\ age <= IdleTimeoutMs + CallbackMs + dwell
      BY <2>0, <2>1 DEF QuietInv
    <3> QED BY <1>0, <2>0, <2>1, <3>1, <3>2
  <2>2. CASE pc \in {"on_open", "feed"} /\ pc' = "app" /\ hint' = 0
    <3>1. dwell <= CallbackMs
      BY <1>0, <2>2, BudgetIs
    <3>2. age <= dwell
      BY <2>0, <2>2 DEF QuietInv
    <3> QED BY <1>0, <2>0, <2>2, <3>1, <3>2
  <2>3. CASE pc = "read" /\ pc' = "app" /\ hint' = ReadMs /\ ~ IdleExpired
    <3>1. dwell <= ReadMs
      BY <1>0, <2>3, BudgetIs
    <3>2. age <= IdleTimeoutMs + CallbackMs + ReadMs + Lag + dwell
      BY <2>0, <2>3 DEF QuietInv
    <3>3. age < Modulus
      BY <1>0, <3>1, <3>2 DEF SilenceFits, IdleSlack
    <3>4. SubU(now, last_rx_ms) = age
      BY <1>0, <2>0, <3>3
    <3>5. age < IdleTimeoutMs
      BY <1>0, <2>3, <3>4 DEF IdleExpired
    <3> QED BY <1>0, <2>0, <2>3, <3>5
  <2> QED BY <1>5, <2>0, <2>1, <2>2, <2>3 DEF GoesOn
<1> QED BY <1>1, <1>2, <1>3, <1>4, <1>5 DEF Kinds, Works

\* A dead connection is noticed within the idle timeout, one sleep and the time
\* of two reads, as long as the 32-bit difference can tell.
THEOREM SilenceBoundedHolds == SilenceFits => (Spec => []SilenceBounded)
<1> SUFFICES ASSUME SilenceFits PROVE Spec => []SilenceBounded
  OBVIOUS
<1>1. Init => QuietInv
  BY DEF Init, QuietInv
<1>2. BaseInv /\ BaseInv' /\ QuietInv /\ [Next]_vars => QuietInv'
  <2> SUFFICES ASSUME BaseInv, BaseInv', QuietInv, [Next]_vars PROVE QuietInv'
    OBVIOUS
  <2>1. hint' \in Nat
    BY BoundsAreNat DEF BaseInv, SafetyInv, TypeOK, Clock, UINT32_MAX
  <2>2. CASE Next
    BY <2>1, <2>2, StepKinds, QuietStep DEF BaseInv
  <2>3. CASE UNCHANGED vars
    BY <2>3 DEF QuietInv, vars, client, call, time
  <2> QED BY <2>2, <2>3
<1>3. BaseInv /\ QuietInv => SilenceBounded
  <2> SUFFICES ASSUME BaseInv, QuietInv, IdleTimeoutMs # 0, transport_open
               PROVE  age <= IdleTimeoutMs + IdleSlack
    BY DEF SilenceBounded
  <2>0. /\ age \in Nat /\ dwell \in Nat /\ hint \in Nat /\ dwell <= Budget
        /\ pc \in {"app", "on_open", "read", "feed"}
    BY BoundsAreNat DEF BaseInv, SafetyInv, TypeOK, NoTransportLeak, InTime, Clock, UINT32_MAX
  <2> USE BoundsAreNat DEF IdleSlack
  <2>1. CASE pc = "app"
    BY <2>0, <2>1, BudgetIs DEF QuietInv
  <2>2. CASE pc = "read"
    BY <2>0, <2>2, BudgetIs DEF QuietInv
  <2>3. CASE pc \in {"on_open", "feed"}
    BY <2>0, <2>3, BudgetIs DEF QuietInv
  <2> QED BY <2>0, <2>1, <2>2, <2>3
<1> QED BY <1>1, <1>2, <1>3, Timing, PTL DEF Spec

----------------------------------------------------------------------------
(* Reconnects are not missed, if the lateness of a poll fits int32_t. *)

LatenessFits == Lateness < Half

\* The sleep that poll may ask for after an idle timeout.
Nap == IF IdleTimeoutMs = 0 THEN 0 ELSE ReadMs

\* A deadline that has passed lies that much behind the clock.
PastInv ==
    (state = "WAITING_RETRY" /\ err.retry_in_ms < age /\ age < Modulus) =>
        SubU(retry_deadline, now) = err.retry_in_ms - age + Modulus

\* How far past the delay the waiting client can be.
LateInv ==
    state = "WAITING_RETRY" =>
        /\ pc = "err_retry" => age <= dwell
        /\ pc = "app" => hint + age <= err.retry_in_ms + dwell + CallbackMs + Nap

\* A ms after a deadline, the distance is one less than the whole clock.
LEMMA TickPast ==
    ASSUME NEW d \in Clock, NEW t \in Clock, SubU(d, t) = 0
    PROVE  SubU(d, AddU(t, 1)) = Modulus - 1
BY BoundsAreNat DEF SubU, AddU, Clock, UINT32_MAX

\* What a waiting client's variables are.
LEMMA WaitingTypes ==
    ASSUME SafetyInv
    PROVE  /\ err.retry_in_ms \in 0 .. INT32_MAX /\ err.retry_in_ms \in Nat
           /\ age \in Nat /\ age <= Modulus /\ dwell \in Nat /\ hint \in Nat
           /\ retry_deadline \in Clock /\ now \in Clock
           /\ state = "WAITING_RETRY" => pc \in {"app", "err_retry"}
<1>1. TypeOK /\ ControlInv
  BY DEF SafetyInv
<1>2. err.retry_in_ms \in 0 .. INT32_MAX
  BY <1>1 DEF TypeOK, Errors
<1>3. err.retry_in_ms \in Nat
  BY <1>2, BoundsAreNat DEF INT32_MAX
<1>4. age \in Nat /\ age <= Modulus /\ dwell \in Nat /\ hint \in Nat
      /\ retry_deadline \in Clock /\ now \in Clock
  BY <1>1, BoundsAreNat DEF TypeOK, Clock, UINT32_MAX
<1>5. state = "WAITING_RETRY" => pc \in {"app", "err_retry"}
  BY <1>1 DEF TypeOK, PCs, ControlInv
<1> QED BY <1>2, <1>3, <1>4, <1>5

\* Every step keeps the distance to a deadline that has passed.
LEMMA PastStep ==
    ASSUME SafetyInv, SafetyInv', PastInv, Elapse \/ Same \/ Works
    PROVE  PastInv'
<1> SUFFICES ASSUME state' = "WAITING_RETRY", err'.retry_in_ms < age', age' < Modulus
             PROVE  SubU(retry_deadline', now') = err'.retry_in_ms - age' + Modulus
  BY DEF PastInv
<1>0. err'.retry_in_ms \in Nat
  BY BoundsAreNat DEF SafetyInv, TypeOK, Errors, INT32_MAX
<1>1. CASE Elapse
  <2>1. /\ UNCHANGED <<state, retry_deadline, err>> /\ now' = AddU(now, 1)
        /\ age' = IF age + 1 > Modulus THEN Modulus ELSE age + 1
    BY <1>1, ElapseIs
  <2> DEFINE r == err.retry_in_ms
             left == SubU(retry_deadline, now)
  <2>2. /\ r \in Nat /\ age \in Nat /\ Modulus \in Nat /\ now \in Clock
        /\ retry_deadline \in Clock
    BY WaitingTypes, BoundsAreNat
  <2>3. age' = age + 1 /\ r < age + 1 /\ age < Modulus
    BY <2>1, <2>2
  <2>4. CASE age = r
    <3>1. left = 0
      BY <2>1, <2>2, <2>4 DEF SafetyInv, DeadlineInv
    <3>2. SubU(retry_deadline, now') = Modulus - 1
      BY <2>1, <2>2, <3>1, TickPast
    <3> QED BY <2>1, <2>2, <2>3, <2>4, <3>2
  <2>5. CASE age > r
    <3>1. left = r - age + Modulus
      BY <2>1, <2>2, <2>3, <2>5 DEF PastInv
    <3>2. left > 0
      BY <2>2, <2>3, <3>1
    <3>3. SubU(retry_deadline, now') = left - 1
      BY <2>1, <2>2, <3>2, TickDistance
    <3> QED BY <2>1, <2>2, <2>3, <3>1, <3>3
  <2> QED BY <2>2, <2>3, <2>4, <2>5
<1>2. CASE Same \/ GoesOn
  BY <1>2 DEF Same, GoesOn, PastInv
<1>3. CASE Neither \/ Heard
  BY <1>3 DEF Neither, Heard
<1>4. CASE Schedules
  BY <1>0, <1>4 DEF Schedules
<1> QED BY <1>1, <1>2, <1>3, <1>4 DEF Works

\* While lateness fits int32_t, the signed difference is what is left of the
\* delay, or how far past it the client is.
LEMMA RemainIs ==
    ASSUME SafetyInv, PastInv, state = "WAITING_RETRY",
           NEW late \in Nat, late < Half, age <= err.retry_in_ms + late
    PROVE  Remain = err.retry_in_ms - age
<1> DEFINE r == err.retry_in_ms
           left == SubU(retry_deadline, now)
<1>1. /\ r \in Nat /\ r < Half /\ age \in Nat /\ Half \in Nat /\ Modulus = 2 * Half
      /\ age <= r + late
  BY WaitingTypes, BoundsAreNat DEF INT32_MAX
<1>2. CASE age <= r
  <2>1. left = r - age
    BY <1>2 DEF SafetyInv, DeadlineInv
  <2> QED BY <1>1, <1>2, <2>1 DEF Remain, AsSigned
<1>3. CASE age > r
  <2>1. age < Modulus
    BY <1>1
  <2>2. left = r - age + Modulus
    BY <1>3, <2>1 DEF PastInv
  <2>3. left >= Half /\ left - Modulus = r - age
    BY <1>1, <2>2
  <2> QED BY <2>3 DEF Remain, AsSigned
<1> QED BY <1>1, <1>2, <1>3

\* How late the waiting client can be, at each point.
LEMMA LateBound ==
    ASSUME BaseInv, LateInv, state = "WAITING_RETRY"
    PROVE  age <= err.retry_in_ms + Lateness
<1>1. /\ err.retry_in_ms \in Nat /\ age \in Nat /\ dwell \in Nat /\ hint \in Nat
      /\ dwell <= Budget /\ pc \in {"app", "err_retry"}
  BY WaitingTypes DEF BaseInv, InTime
<1>2. Nap \in Nat /\ Lateness = Lag + CallbackMs + Nap /\ Lag \in Nat /\ CallbackMs \in Nat
  BY BoundsAreNat DEF Nap, Lateness
<1>3. CASE pc = "app"
  BY <1>1, <1>2, <1>3, BudgetIs DEF LateInv
<1>4. CASE pc = "err_retry"
  BY <1>1, <1>2, <1>4, BudgetIs DEF LateInv
<1> QED BY <1>1, <1>3, <1>4

\* Every step keeps the waiting client in time.
LEMMA LateStep ==
    ASSUME LatenessFits, BaseInv, BaseInv', PastInv, LateInv, Kinds
    PROVE  LateInv'
<1> SUFFICES ASSUME state' = "WAITING_RETRY"
             PROVE  /\ pc' = "err_retry" => age' <= dwell'
                    /\ pc' = "app" =>
                         hint' + age' <= err'.retry_in_ms + dwell' + CallbackMs + Nap
  BY DEF LateInv
<1>0. /\ err.retry_in_ms \in Nat /\ age \in Nat /\ age <= Modulus /\ dwell \in Nat
      /\ hint \in Nat /\ Nap \in Nat /\ CallbackMs \in Nat /\ Modulus \in Nat
  BY WaitingTypes, BoundsAreNat DEF BaseInv, Nap
<1>1. CASE Tick
  <2>1. /\ UNCHANGED <<pc, hint, state, err>> /\ dwell' = dwell + 1
        /\ age' = IF age + 1 > Modulus THEN Modulus ELSE age + 1
    BY <1>1, TickIs DEF BaseInv, SafetyInv
  <2>2. age' <= age + 1 /\ age' \in Nat
    <3>1. CASE age + 1 > Modulus
      BY <1>0, <2>1, <3>1
    <3>2. CASE ~ (age + 1 > Modulus)
      BY <1>0, <2>1, <3>2
    <3> QED BY <3>1, <3>2
  <2>3. CASE pc = "err_retry"
    BY <1>0, <2>1, <2>2, <2>3 DEF LateInv
  <2>4. CASE pc = "app"
    BY <1>0, <2>1, <2>2, <2>4 DEF LateInv
  <2> QED BY <2>1, <2>3, <2>4
<1>2. CASE Same
  BY <1>2 DEF Same, LateInv
<1>3. CASE Neither \/ Heard
  BY <1>3 DEF Neither, Heard
<1>4. CASE Schedules
  BY <1>4 DEF Schedules
<1>5. CASE GoesOn
  <2>0. state = "WAITING_RETRY" /\ dwell' = 0 /\ age' = age /\ err' = err
    BY <1>5 DEF GoesOn
  <2>1. CASE pc = "app" /\ pc' = "app" /\ hint' = Remain
    <3>1. Remain = err.retry_in_ms - age
      BY <2>0, LateBound, RemainIs, BoundsAreNat DEF BaseInv, LatenessFits, Lateness
    <3> QED BY <1>0, <2>0, <2>1, <3>1
  <2>2. CASE pc = "err_retry" /\ pc' = "app" /\ hint' = FailHint
    <3>1. hint' \in Nat /\ hint' <= Nap
      BY <2>2, BoundsAreNat DEF BaseInv, Configured, FailHint, Nap
    <3>2. age <= dwell /\ dwell <= CallbackMs
      BY <2>0, <2>2, BudgetIs DEF LateInv, BaseInv, InTime
    <3> QED BY <1>0, <2>0, <2>2, <3>1, <3>2
  <2> QED BY <1>5, <2>0, <2>1, <2>2 DEF GoesOn
<1> QED BY <1>1, <1>2, <1>3, <1>4, <1>5 DEF Kinds, Works

\* A scheduled reconnect is noticed within the lateness of one poll, also when
\* the deadline or the clock wraps in between.
THEOREM PunctualReconnectHolds == LatenessFits => (Spec => []PunctualReconnect)
<1> SUFFICES ASSUME LatenessFits PROVE Spec => []PunctualReconnect
  OBVIOUS
<1>1. Init => PastInv /\ LateInv
  BY DEF Init, PastInv, LateInv
<1>2. BaseInv /\ BaseInv' /\ PastInv /\ LateInv /\ [Next]_vars => PastInv' /\ LateInv'
  <2> SUFFICES ASSUME BaseInv, BaseInv', PastInv, LateInv, [Next]_vars
               PROVE  PastInv' /\ LateInv'
    OBVIOUS
  <2>1. CASE Next
    BY <2>1, StepKinds, PastStep, LateStep DEF BaseInv, Kinds, Tick
  <2>2. CASE UNCHANGED vars
    BY <2>2 DEF PastInv, LateInv, vars, client, call, time
  <2> QED BY <2>1, <2>2
<1>3. BaseInv /\ LateInv => PunctualReconnect
  BY LateBound DEF PunctualReconnect
<1> QED BY <1>1, <1>2, <1>3, Timing, PTL DEF Spec

----------------------------------------------------------------------------
(* The hint of a client without idle timeout is a max-sleep hint. *)

\* What is left of a sleep is not longer than what is left of the delay.
SleepInv ==
    (state = "WAITING_RETRY" /\ pc = "app") => hint <= dwell \/ hint <= dwell + Remain

\* A ms later the signed difference is one less, unless it wraps.
LEMMA RemainTick ==
    ASSUME NEW d \in Clock, NEW t \in Clock
    PROVE  \/ AsSigned(SubU(d, AddU(t, 1))) = AsSigned(SubU(d, t)) - 1
           \/ AsSigned(SubU(d, t)) = 0 - Half
BY BoundsAreNat DEF AsSigned, SubU, AddU, Clock, UINT32_MAX

\* A signed difference is an integer.
LEMMA RemainInt == ASSUME SafetyInv PROVE Remain \in Int
<1>1. retry_deadline \in Clock /\ now \in Clock
  BY WaitingTypes
<1>2. SubU(retry_deadline, now) \in Clock
  BY <1>1, ClockClosed
<1> QED BY <1>2, BoundsAreNat DEF Remain, AsSigned, Clock, UINT32_MAX

\* Every step keeps the sleep within the delay.
LEMMA SleepStep ==
    ASSUME IdleTimeoutMs = 0, BaseInv, SleepInv, Kinds
    PROVE  SleepInv'
<1> SUFFICES ASSUME state' = "WAITING_RETRY", pc' = "app"
             PROVE  hint' <= dwell' \/ hint' <= dwell' + Remain'
  BY DEF SleepInv
<1>0. hint \in Nat /\ dwell \in Nat /\ Remain \in Int /\ Half \in Nat
      /\ retry_deadline \in Clock /\ now \in Clock
  BY WaitingTypes, RemainInt, BoundsAreNat DEF BaseInv
<1>1. CASE Tick
  <2>1. /\ UNCHANGED <<pc, hint, state, retry_deadline>> /\ dwell' = dwell + 1
        /\ now' = AddU(now, 1)
    BY <1>1, TickIs DEF BaseInv, SafetyInv
  <2>2. Remain' = Remain - 1 \/ Remain = 0 - Half
    BY <1>0, <2>1, RemainTick DEF Remain
  <2>3. hint <= dwell \/ hint <= dwell + Remain
    BY <2>1 DEF SleepInv
  <2>4. CASE Remain' = Remain - 1
    BY <1>0, <2>1, <2>3, <2>4
  <2>5. CASE Remain = 0 - Half
    <3>1. hint <= dwell
      BY <1>0, <2>3, <2>5
    <3> QED BY <1>0, <2>1, <3>1
  <2> QED BY <2>2, <2>4, <2>5
<1>2. CASE Same
  BY <1>2 DEF Same, SleepInv, Remain
<1>3. CASE Neither \/ Heard \/ Schedules
  BY <1>3 DEF Neither, Heard, Schedules
<1>4. CASE GoesOn
  <2>0. dwell' = 0 /\ Remain' = Remain
    BY <1>4 DEF GoesOn, Remain
  <2>1. hint' = Remain \/ hint' = FailHint
    BY <1>4 DEF GoesOn
  <2>2. FailHint = 0
    BY DEF BaseInv, Configured, FailHint
  <2> QED BY <1>0, <2>0, <2>1, <2>2
<1> QED BY <1>1, <1>2, <1>3, <1>4 DEF Kinds, Works

\* Without an idle timeout, sleeping for all of a hint never oversleeps the
\* reconnect it leads to.
THEOREM NoOversleepHolds == IdleTimeoutMs = 0 => (Spec => []NoOversleep)
<1> SUFFICES ASSUME IdleTimeoutMs = 0 PROVE Spec => []NoOversleep
  OBVIOUS
<1>1. Init => SleepInv
  BY DEF Init, SleepInv
<1>2. BaseInv /\ SleepInv /\ [Next]_vars => SleepInv'
  <2> SUFFICES ASSUME BaseInv, SleepInv, [Next]_vars PROVE SleepInv'
    OBVIOUS
  <2>1. CASE Next
    BY <2>1, StepKinds, SleepStep DEF BaseInv
  <2>2. CASE UNCHANGED vars
    BY <2>2 DEF SleepInv, Remain, vars, client, call, time
  <2> QED BY <2>1, <2>2
<1>3. BaseInv /\ SleepInv => NoOversleep
  <2> SUFFICES ASSUME BaseInv, SleepInv, pc = "app", state = "WAITING_RETRY", Remain >= 0
               PROVE  hint - dwell <= Remain
    BY DEF NoOversleep
  <2>1. hint \in Nat /\ dwell \in Nat /\ Remain \in Int
    BY WaitingTypes, RemainInt DEF BaseInv
  <2> QED BY <2>1 DEF SleepInv
<1> QED BY <1>1, <1>2, <1>3, Timing, PTL DEF Spec

=============================================================================
