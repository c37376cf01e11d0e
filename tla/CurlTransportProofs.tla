------------------------ MODULE CurlTransportProofs ------------------------
(***************************************************************************)
(* The curl transport's safety, for every ring size, chunk size, set of    *)
(* responses and redirects.  IInv is the inductive invariant: each         *)
(* conjunct says what one part of curl_ctx_t means at every step.          *)
(***************************************************************************)
EXTENDS CurlTransport, TLAPS

Counts ==
    /\ TypeOK
    /\ block \in [status : Nat, retry_after : Nat \cup {-1}]
    /\ pc \in {"idle", "wait", "wait_pump", "drain", "drain_pump", "open", "read_pump", "resuming"}
    /\ stage \in {"none", "request", "block", "interim", "body", "over"}

\* What has happened on the connection, as the flags tell it.
Phases ==
    /\ ~ Up => got \in {Only("none"), Only("failed")} /\ taken = 0
    /\ (Up \/ pc \in {"drain", "drain_pump"}) =>
          stage \in {"body", "over"} /\ header_block_status >= 200
    /\ (headers_done \/ body_started) => stage \in {"body", "over"} /\ header_block_status >= 200
    /\ transfer_done <=> stage = "over"
    /\ (transfer_done /\ transfer_result = "ok") => header_block_status >= 200
    /\ stage = "body" => header_block_status >= 200
    /\ stage \notin {"body", "over"} => sent = 0 /\ r_len = 0
    /\ stage # "body" => held = 0

\* Every byte is taken, in the ring, or held back by libcurl.
Flow ==
    IF Redirects(header_block_status) THEN r_len = 0 /\ held = 0
    ELSE taken + r_len + held = sent

\* The ring holds the next bytes in order.
InOrder == \A i \in 0 .. r_len - 1 : ring[Slot(r_head + i)] = taken + i

\* The captured header fields are those of the latest block, also in out.  Only
\* a 200 is read.
Captured ==
    /\ header_block_status # 0 =>
          /\ header_block_status = block.status
          /\ retry_after_s = IF block.retry_after < 0 THEN -1
                             ELSE ToInt32(block.retry_after)
    /\ Up => out = [status_code |-> header_block_status, retry_after_s |-> retry_after_s]
    /\ pc \in {"read_pump", "resuming"} => out.status_code = 200

\* The time and the hops that open() has used.
Timing ==
    /\ Opening => hops <= MaxHops /\ waited <= OpenTimeout + PumpMs
    /\ pc \in {"wait_pump", "drain_pump"} => waited < OpenTimeout
    /\ pc \in {"wait", "wait_pump"} => hop_ms = waited
    /\ pc \in {"drain", "drain_pump"} => hop_ms <= OpenTimeout + PumpMs + waited

IInv ==
    /\ Counts /\ Phases /\ Flow /\ InOrder /\ Captured /\ Timing
    /\ PauseKnown /\ OriginKept

----------------------------------------------------------------------------
(* Arithmetic of the ring. *)

\* A position past the end of the array wraps once.
LEMMA SlotValue ==
    ASSUME NEW i \in 0 .. 2 * RingCap - 1
    PROVE  Slot(i) = IF i < RingCap THEN i ELSE i - RingCap
<1>1. RingCap \in Nat /\ RingCap > 0
  BY RingAssumption
<1>2. CASE i < RingCap
  BY <1>1, <1>2 DEF Slot
<1>3. CASE i >= RingCap
  BY <1>1, <1>3 DEF Slot
<1> QED BY <1>1, <1>2, <1>3

\* The cast yields an int32_t.
LEMMA CastInRange ==
    ASSUME NEW v \in Nat
    PROVE  ToInt32(v) \in -Half .. Half - 1
<1>1. Half \in Nat /\ 2 * Half \in Nat /\ 2 * Half > 0 /\ v + Half \in Int
  BY RingAssumption
<1>2. (v + Half) % (2 * Half) \in 0 .. 2 * Half - 1
  BY <1>1
<1> QED BY <1>1, <1>2 DEF ToInt32

----------------------------------------------------------------------------
(* The invariant. *)

\* Zero and absence are within the types of a fresh context.
LEMMA FreshValues ==
    /\ -1 \in -Half .. Half - 1
    /\ 0 \in 0 .. RingCap - 1 /\ 0 \in 0 .. RingCap /\ 0 \in 0 .. MaxChunk
    /\ [status |-> 0, retry_after |-> -1] \in [status : Nat, retry_after : Nat \cup {-1}]
<1>1. Half \in Nat /\ Half > 1 /\ RingCap \in Nat /\ RingCap > 1 /\ MaxChunk \in Nat
  BY RingAssumption, PeerAssumption
<1> QED BY <1>1

\* A fresh context satisfies the invariant.
LEMMA InitIInv == Init => IInv
<1> SUFFICES ASSUME Init PROVE IInv
  OBVIOUS
<1> USE RingAssumption, PeerAssumption DEF Init
<1>1. Counts
  BY FreshValues DEF Counts, TypeOK
<1>2. Phases /\ Flow /\ InOrder
  BY DEF Phases, Flow, InOrder, Only, Up, Redirects
<1>3. Captured /\ Timing /\ PauseKnown /\ OriginKept
  BY DEF Captured, Timing, PauseKnown, OriginKept, Up, Opening
<1> QED BY <1>1, <1>2, <1>3 DEF IInv

\* teardown() leaves nothing that the invariant speaks of.
LEMMA TeardownKeeps ==
    ASSUME NEW result \in {"none", "failed"}, Teardown(result)
    PROVE  IInv'
<1> USE RingAssumption, PeerAssumption DEF Teardown, Clean
<1>1. Counts'
  BY FreshValues DEF Counts, TypeOK
<1>2. Phases' /\ Flow' /\ InOrder'
  BY DEF Phases, Flow, InOrder, Up, Redirects
<1>3. Captured' /\ Timing' /\ PauseKnown' /\ OriginKept'
  BY DEF Captured, Timing, PauseKnown, OriginKept, Up, Opening
<1> QED BY <1>1, <1>2, <1>3 DEF IInv

\* The next hop starts afresh, if its origin is the first one's.
LEMMA RequestKeeps ==
    ASSUME IInv, NEW u, Request(u), pc \in {"idle", "drain"},
           u.scheme = Home.scheme, u.host = Home.host, PortOf(u) = PortOf(Home),
           hops' \in 0 .. MaxHops, UNCHANGED block
    PROVE  IInv'
<1> USE RingAssumption, PeerAssumption DEF Request, Clean
<1>0. hops' \in Nat
  OBVIOUS
<1>1. Counts'
  <2>1. block' \in [status : Nat, retry_after : Nat \cup {-1}]
    BY DEF IInv, Counts
  <2>2. TypeOK'
    BY <1>0, FreshValues DEF IInv, Counts, TypeOK
  <2> QED BY <2>1, <2>2 DEF Counts
<1>2. Phases' /\ Flow' /\ InOrder'
  BY DEF IInv, Phases, Flow, InOrder, Up, Redirects
<1>3. Captured' /\ Timing' /\ PauseKnown' /\ OriginKept'
  BY DEF IInv, Captured, Timing, PauseKnown, OriginKept, Up, Opening, PortOf
<1> QED BY <1>1, <1>2, <1>3 DEF IInv

\* Entering pump(), in either loop of open() or in read().
LEMMA PumpBeginsKeeps ==
    ASSUME IInv, NEW there, PumpBegins(there),
           \/ pc = "wait" /\ there = "wait_pump" /\ waited < OpenTimeout
           \/ pc = "drain" /\ there = "drain_pump" /\ waited < OpenTimeout
           \/ pc = "open" /\ there = "read_pump" /\ out.status_code = 200
    PROVE  IInv'
<1> USE DEF PumpBegins, Resume, ringv, flags, ended, flow, call, seen
<1>1. Counts'
  <2>0. paused' \in BOOLEAN /\ stopped' \in BOOLEAN /\ held' \in 0 .. MaxChunk
    BY DEF IInv, Counts, TypeOK
  <2>1. TypeOK'
    <3> HIDE DEF Resume
    <3> QED BY <2>0 DEF IInv, Counts, TypeOK
  <2>2. pc' \in {"wait_pump", "drain_pump", "read_pump"}
    OBVIOUS
  <2> QED BY <2>1, <2>2 DEF IInv, Counts
<1>2. Phases'
  BY DEF IInv, Phases, Up
<1>3. Flow' /\ InOrder'
  BY DEF IInv, Flow, InOrder, Redirects, Slot
<1>4. Captured' /\ Timing' /\ PauseKnown' /\ OriginKept'
  BY DEF IInv, Captured, Timing, PauseKnown, OriginKept, Up, Opening, PortOf
<1> QED BY <1>1, <1>2, <1>3, <1>4 DEF IInv

\* open() returns with the final response that was captured.
LEMMA ReportKeeps ==
    ASSUME IInv, Report, pc \in {"wait", "drain"},
           header_block_status >= 200, stage \in {"body", "over"}
    PROVE  IInv'
<1> USE DEF Report, ringv, flags, ended, flow
<1>1. Counts'
  BY DEF IInv, Counts, TypeOK
<1>2. Phases'
  BY DEF IInv, Counts, TypeOK, Phases, Up
<1>3. Flow' /\ InOrder'
  <2>1. taken' = taken
    OBVIOUS
  <2> QED BY <2>1 DEF IInv, Flow, InOrder, Redirects, Slot
<1>4. Captured'
  BY DEF IInv, Counts, TypeOK, Captured, Up
<1>5. Timing' /\ PauseKnown' /\ OriginKept'
  BY DEF IInv, Timing, PauseKnown, OriginKept, Opening, PortOf
<1> QED BY <1>1, <1>2, <1>3, <1>4, <1>5 DEF IInv

\* read() without a byte changes only where the task is.
LEMMA AnswerKeeps ==
    ASSUME IInv, NEW result, Answer(result), Up
    PROVE  IInv'
<1> USE DEF Answer, ringv, flags, ended, flow, call
<1>1. Counts' /\ Phases'
  BY DEF IInv, Counts, TypeOK, Phases, Up
<1>2. Flow' /\ InOrder' /\ Captured'
  BY DEF IInv, Flow, InOrder, Redirects, Slot, Captured, Up
<1>3. Timing' /\ PauseKnown' /\ OriginKept'
  BY DEF IInv, Timing, PauseKnown, OriginKept, Opening, Up, PortOf
<1> QED BY <1>1, <1>2, <1>3 DEF IInv

\* read() moves the front of the ring to the client.
LEMMA CopyKeeps ==
    ASSUME IInv, Copy, pc \in {"open", "read_pump"}, r_len > 0, out.status_code = 200
    PROVE  IInv'
<1> DEFINE n == IF r_len < ReadLen THEN r_len ELSE ReadLen
<1>1. /\ r_head' = Slot(r_head + n) /\ r_len' = r_len - n /\ taken' = taken + n
      /\ got'.kind = "data" /\ pc' \in {"open", "resuming"}
      /\ \/ pc' = "resuming" /\ paused' = FALSE /\ stopped' = FALSE
         \/ UNCHANGED <<paused, stopped>>
      /\ UNCHANGED <<ring, flags, ended, held, call, stage, sent, block>>
  BY DEF Copy
<1>2. n \in 1 .. r_len /\ r_len \in 1 .. RingCap /\ r_head \in 0 .. RingCap - 1
      /\ RingCap \in Nat /\ taken \in Nat
  BY RingAssumption DEF IInv, Counts, TypeOK
<1> HIDE DEF n
<1>3. r_head' = IF r_head + n < RingCap THEN r_head + n ELSE r_head + n - RingCap
  <2>1. r_head + n \in 0 .. 2 * RingCap - 1
    BY <1>2
  <2> QED BY <1>1, <1>2, <2>1, SlotValue
<1>4. Counts'
  <2>1. r_head' \in 0 .. RingCap - 1 /\ r_len' \in 0 .. RingCap /\ taken' \in Nat
    BY <1>1, <1>2, <1>3
  <2>2. TypeOK'
    BY <1>1, <2>1 DEF IInv, Counts, TypeOK, flags, ended, call
  <2> QED BY <1>1, <2>2 DEF IInv, Counts
<1>5. Phases'
  BY <1>1, <1>2 DEF IInv, Counts, TypeOK, Phases, Up, flags, ended
<1>6. Flow'
  BY <1>1, <1>2 DEF IInv, Counts, TypeOK, Flow, Redirects, flags
<1>7. InOrder'
  <2> SUFFICES ASSUME NEW i \in 0 .. r_len' - 1
               PROVE  ring'[Slot(r_head' + i)] = taken' + i
    BY DEF InOrder
  <2>1. n + i \in 0 .. r_len - 1
    BY <1>1, <1>2
  <2>2. ring[Slot(r_head + (n + i))] = taken + (n + i)
    BY <2>1 DEF IInv, InOrder
  <2>3. Slot(r_head' + i) = Slot(r_head + (n + i))
    <3>1. /\ r_head' + i \in 0 .. 2 * RingCap - 1
          /\ r_head + (n + i) \in 0 .. 2 * RingCap - 1
      BY <1>2, <1>3, <2>1
    <3> QED BY <3>1, <1>2, <1>3, <2>1, SlotValue
  <2> QED BY <1>1, <1>2, <2>2, <2>3
<1>8. Captured' /\ Timing'
  BY <1>1 DEF IInv, Captured, Timing, Up, Opening, flags, call
<1>9. PauseKnown' /\ OriginKept'
  BY <1>1 DEF IInv, PauseKnown, OriginKept, PortOf, call
<1> QED BY <1>4, <1>5, <1>6, <1>7, <1>8, <1>9 DEF IInv

\* How far the slot of position i lies behind the end of the data.
LEMMA Behind ==
    ASSUME NEW h \in 0 .. RingCap - 1, NEW l \in 0 .. RingCap - 1,
           NEW i \in 0 .. RingCap - 1
    PROVE  /\ Slot(h + i) \in 0 .. RingCap - 1
           /\ Slot(Slot(h + i) + RingCap - Slot(h + l)) =
                IF i >= l THEN i - l ELSE i - l + RingCap
<1>1. RingCap \in Nat
  BY RingAssumption
<1>2. /\ Slot(h + i) = IF h + i < RingCap THEN h + i ELSE h + i - RingCap
      /\ Slot(h + l) = IF h + l < RingCap THEN h + l ELSE h + l - RingCap
  <2>1. h + i \in 0 .. 2 * RingCap - 1 /\ h + l \in 0 .. 2 * RingCap - 1
    BY <1>1
  <2>2. Slot(h + i) = IF h + i < RingCap THEN h + i ELSE h + i - RingCap
    BY <1>1, <2>1, SlotValue
  <2>3. Slot(h + l) = IF h + l < RingCap THEN h + l ELSE h + l - RingCap
    BY <1>1, <2>1, SlotValue
  <2> QED BY <2>2, <2>3
<1>3. Slot(h + i) + RingCap - Slot(h + l) \in 0 .. 2 * RingCap - 1
  BY <1>1, <1>2
<1>4. Slot(Slot(h + i) + RingCap - Slot(h + l)) =
        IF Slot(h + i) + RingCap - Slot(h + l) < RingCap
        THEN Slot(h + i) + RingCap - Slot(h + l) ELSE Slot(h + i) - Slot(h + l)
  BY <1>1, <1>2, <1>3, SlotValue
<1> QED BY <1>1, <1>2, <1>4

\* on_body() appends behind the data, or holds the chunk back.
LEMMA OnBodyKeeps ==
    ASSUME IInv, NEW n \in 1 .. MaxChunk, OnBody(sent - held, n), stage = "body",
           sent' = sent - held + n,
           UNCHANGED <<pc, headers_done, header_block_status, retry_after_s, ended,
                       call, stage, seen, block>>
    PROVE  IInv'
<1> DEFINE first == sent - held
<1>1. /\ r_head \in 0 .. RingCap - 1 /\ r_len \in 0 .. RingCap /\ RingCap \in Nat
      /\ taken \in Nat /\ sent \in Nat /\ held \in 0 .. MaxChunk
      /\ MaxChunk \in Nat /\ ring \in [0 .. RingCap - 1 -> Nat]
  BY RingAssumption, PeerAssumption DEF IInv, Counts, TypeOK
<1>2. /\ first \in Nat
      /\ ~ Redirects(header_block_status) => first = taken + r_len
  BY <1>1 DEF IInv, Flow
<1>3. UNCHANGED r_head
  BY DEF OnBody, ringv
<1>4. CASE Redirects(header_block_status)
  <2>1. UNCHANGED <<ringv, body_started, paused, stopped>> /\ held' = 0
    BY <1>4 DEF OnBody
  <2>2. sent' \in Nat
    BY <1>1, <1>2
  <2>3. Counts'
    BY <2>1, <2>2, <1>1 DEF IInv, Counts, TypeOK, ringv, ended, call, seen
  <2>4. Phases' /\ Flow'
    BY <1>4, <2>1 DEF IInv, Phases, Flow, Up, Redirects, ringv, ended, seen
  <2>5. InOrder' /\ Captured'
    BY <2>1 DEF IInv, InOrder, Slot, Captured, Up, ringv, seen, call
  <2>6. Timing' /\ PauseKnown' /\ OriginKept'
    BY <2>1 DEF IInv, Timing, PauseKnown, OriginKept, Opening, PortOf, call
  <2> QED BY <2>3, <2>4, <2>5, <2>6 DEF IInv
<1>5. CASE ~ Redirects(header_block_status) /\ ~ Fits(n)
  <2>1. /\ body_started' = TRUE /\ UNCHANGED ringv
        /\ paused' = TRUE /\ stopped' = TRUE /\ held' = n
    BY <1>5 DEF OnBody, Refuse
  <2>2. sent' \in Nat
    BY <1>1, <1>2
  <2>3. Counts'
    BY <2>1, <2>2, <1>1 DEF IInv, Counts, TypeOK, ringv, ended, call, seen
  <2>4. Phases'
    BY <2>1 DEF IInv, Phases, Up, ringv, ended, seen
  <2>5. Flow'
    BY <1>1, <1>2, <1>5, <2>1 DEF Flow, Redirects, ringv, seen
  <2>6. InOrder' /\ Captured'
    BY <2>1 DEF IInv, InOrder, Slot, Captured, Up, ringv, seen, call
  <2>7. Timing' /\ PauseKnown' /\ OriginKept'
    BY <2>1 DEF IInv, Timing, PauseKnown, OriginKept, Opening, PortOf, call
  <2> QED BY <2>3, <2>4, <2>5, <2>6, <2>7 DEF IInv
<1>6. CASE ~ Redirects(header_block_status) /\ Fits(n)
  <2>1. /\ body_started' = TRUE
        /\ ring' = [j \in 0 .. RingCap - 1 |->
                      LET i == Slot(j + RingCap - Slot(r_head + r_len))
                      IN  IF i < n THEN first + i ELSE ring[j]]
        /\ r_len' = r_len + n /\ held' = 0
        /\ UNCHANGED <<r_head, paused, stopped>>
    BY <1>6 DEF OnBody, Refuse
  <2>2. n <= RingCap - r_len
    BY <1>6 DEF Fits
  <2>3. r_len \in 0 .. RingCap - 1 /\ r_len' \in 0 .. RingCap /\ sent' \in Nat
    BY <1>1, <1>2, <2>1, <2>2
  <2>4. ring' \in [0 .. RingCap - 1 -> Nat]
    <3> SUFFICES ASSUME NEW j \in 0 .. RingCap - 1
                 PROVE  (LET i == Slot(j + RingCap - Slot(r_head + r_len))
                         IN  IF i < n THEN first + i ELSE ring[j]) \in Nat
      BY <2>1
    <3>1. Slot(r_head + r_len) \in 0 .. RingCap - 1
      BY <1>1, <2>3, Behind
    <3>2. Slot(j + RingCap - Slot(r_head + r_len)) \in Nat
      <4>1. j + RingCap - Slot(r_head + r_len) \in 0 .. 2 * RingCap - 1
        BY <1>1, <3>1
      <4> QED BY <1>1, <4>1, SlotValue
    <3> QED BY <1>1, <1>2, <3>2
  <2>5. Counts'
    BY <2>1, <2>3, <2>4, <1>1 DEF IInv, Counts, TypeOK, ended, call, seen
  <2>6. Phases'
    BY <2>1 DEF IInv, Phases, Up, ended, seen
  <2>7. Flow'
    BY <1>1, <1>2, <1>6, <2>1 DEF Flow, Redirects, seen
  <2>8. InOrder'
    <3> SUFFICES ASSUME NEW i \in 0 .. r_len' - 1
                 PROVE  ring'[Slot(r_head' + i)] = taken' + i
      BY DEF InOrder
    <3> DEFINE s == Slot(r_head + i)
               o == Slot(s + RingCap - Slot(r_head + r_len))
    <3>1. i \in 0 .. RingCap - 1
      BY <1>1, <2>1, <2>3
    <3>2. s \in 0 .. RingCap - 1 /\ o = IF i >= r_len THEN i - r_len ELSE i - r_len + RingCap
      BY <1>1, <2>3, <3>1, Behind
    <3>3. ring'[s] = IF o < n THEN first + o ELSE ring[s]
      BY <2>1, <3>2
    <3>4. i < r_len => ring[s] = taken + i
      BY <1>1, <3>1 DEF IInv, InOrder
    <3> HIDE DEF s, o
    <3>5. ring'[s] = taken + i
      BY <1>1, <1>2, <1>6, <2>1, <2>2, <3>1, <3>2, <3>3, <3>4
    <3> QED BY <1>3, <3>5 DEF s, seen
  <2>9. Captured' /\ Timing'
    BY <2>1 DEF IInv, Captured, Timing, Up, Opening, call
  <2>10. PauseKnown' /\ OriginKept'
    BY <2>1 DEF IInv, PauseKnown, OriginKept, PortOf, call
  <2> QED BY <2>5, <2>6, <2>7, <2>8, <2>9, <2>10 DEF IInv
<1> QED BY <1>4, <1>5, <1>6

\* libcurl passes a new chunk, or offers the held one again.
LEMMA BodyKeeps == ASSUME IInv, Body PROVE IInv'
<1>1. /\ sent \in Nat /\ held \in 0 .. MaxChunk /\ MaxChunk \in Nat
  BY PeerAssumption DEF IInv, Counts, TypeOK
<1>2. /\ stage = "body"
      /\ UNCHANGED <<pc, headers_done, header_block_status, retry_after_s, ended,
                     call, stage, seen, block>>
  BY DEF Body
<1>3. CASE held = 0
  <2>1. PICK n \in 1 .. MaxChunk : sent' = sent + n /\ OnBody(sent, n)
    BY <1>3 DEF Body
  <2>2. sent - held = sent
    BY <1>1, <1>3
  <2>3. OnBody(sent - held, n) /\ sent' = sent - held + n
    BY <2>1, <2>2
  <2> QED BY <1>2, <2>3, OnBodyKeeps
<1>4. CASE held > 0
  <2>1. held \in 1 .. MaxChunk /\ OnBody(sent - held, held) /\ sent' = sent
    BY <1>1, <1>4 DEF Body
  <2>2. sent' = sent - held + held
    BY <1>1, <2>1
  <2> QED BY <1>2, <2>1, <2>2, OnBodyKeeps
<1> QED BY <1>1, <1>3, <1>4

\* A new header block replaces what was captured of the one before.
LEMMA StatusLineKeeps ==
    ASSUME IInv, NEW s \in Statuses, StatusLine(s)
    PROVE  IInv'
<1> USE DEF StatusLine, NewBlock, ringv, ended, flow, call, seen
<1>1. s \in Nat /\ s' = s
  BY PeerAssumption
<1>2. Counts'
  <2>1. block' \in [status : Nat, retry_after : Nat \cup {-1}]
    BY <1>1
  <2>2. TypeOK'
    BY <1>1, FreshValues DEF IInv, Counts, TypeOK
  <2> QED BY <2>1, <2>2 DEF IInv, Counts
<1>3. Phases'
  BY DEF IInv, Counts, TypeOK, Phases, Up, Pumping
<1>4. Flow' /\ InOrder'
  <2>1. stage \notin {"body", "over"} /\ ~ Up
    BY DEF IInv, Phases
  <2>2. r_len = 0 /\ sent = 0 /\ held = 0 /\ taken = 0
    BY <2>1 DEF IInv, Phases
  <2>3. r_len' = 0 /\ sent' = 0 /\ held' = 0 /\ taken' = 0
    BY <2>2
  <2> QED BY <2>3 DEF Flow, InOrder
<1>5. Captured'
  BY DEF IInv, Phases, Captured, Up
<1>6. Timing' /\ PauseKnown' /\ OriginKept'
  BY DEF IInv, Timing, PauseKnown, OriginKept, Opening, PortOf
<1> QED BY <1>2, <1>3, <1>4, <1>5, <1>6 DEF IInv

\* A Retry-After line belongs to the block that libcurl is reading.
LEMMA RetryAfterLineKeeps ==
    ASSUME IInv, NEW v \in RetryAfters, RetryAfterLine(v)
    PROVE  IInv'
<1> USE DEF RetryAfterLine, ringv, ended, flow, call, seen
<1>1. v \in Nat
  BY PeerAssumption
<1>2. /\ block' \in [status : Nat, retry_after : Nat \cup {-1}]
      /\ block'.status = block.status /\ block'.retry_after = v
  BY <1>1 DEF IInv, Counts
<1>3. retry_after_s' \in -Half .. Half - 1
  BY <1>1, CastInRange
<1>4. Counts'
  BY <1>2, <1>3 DEF IInv, Counts, TypeOK
<1>5. Phases'
  BY DEF IInv, Phases, Up
<1>6. Flow' /\ InOrder'
  BY DEF IInv, Flow, InOrder, Redirects, Slot
<1>7. Captured'
  BY <1>1, <1>2 DEF IInv, Phases, Captured, Up, ToInt32
<1>8. Timing' /\ PauseKnown' /\ OriginKept'
  BY DEF IInv, Timing, PauseKnown, OriginKept, Opening, PortOf
<1> QED BY <1>4, <1>5, <1>6, <1>7, <1>8 DEF IInv

\* Only the block of a final response ends the headers.
LEMMA BlankLineKeeps == ASSUME IInv, BlankLine PROVE IInv'
<1> USE DEF BlankLine, FinalBlock, ringv, ended, flow, call, seen
<1>1. Counts'
  BY DEF IInv, Counts, TypeOK
<1>2. Phases'
  BY DEF IInv, Counts, TypeOK, Phases, Up
<1>3. Flow' /\ InOrder'
  BY DEF IInv, Flow, InOrder, Redirects, Slot
<1>4. Captured' /\ Timing' /\ PauseKnown' /\ OriginKept'
  BY DEF IInv, Captured, Timing, PauseKnown, OriginKept, Up, Opening, PortOf
<1> QED BY <1>1, <1>2, <1>3, <1>4 DEF IInv

\* A transfer ends with nothing held back.
LEMMA TransferEndsKeeps ==
    ASSUME IInv, NEW result \in {"ok", "failed"}, TransferEnds(result)
    PROVE  IInv'
<1> USE DEF TransferEnds, ringv, flags, flow, call, seen
<1>1. Counts'
  BY DEF IInv, Counts, TypeOK
<1>2. Phases'
  BY DEF IInv, Counts, TypeOK, Phases, Up
<1>3. Flow' /\ InOrder'
  BY DEF IInv, Flow, InOrder, Redirects, Slot
<1>4. Captured' /\ Timing' /\ PauseKnown' /\ OriginKept'
  BY DEF IInv, Captured, Timing, PauseKnown, OriginKept, Up, Opening, PortOf
<1> QED BY <1>1, <1>2, <1>3, <1>4 DEF IInv

\* pump() adds at most PumpMs to a budget that was not used up.
LEMMA PumpReturnsKeeps ==
    ASSUME IInv, NEW ms \in 0 .. PumpMs, PumpReturns(ms)
    PROVE  IInv'
<1> USE DEF PumpReturns, ringv, flags, ended, flow, seen
<1>1. /\ waited \in Nat /\ hop_ms \in Nat /\ OpenTimeout \in Nat /\ PumpMs \in Nat
      /\ ms \in Nat /\ ms <= PumpMs /\ ms' = ms
  BY RingAssumption DEF IInv, Counts, TypeOK
<1>2. Counts'
  BY <1>1 DEF IInv, Counts, TypeOK
<1>3. Phases'
  BY DEF IInv, Phases, Up
<1>4. Flow' /\ InOrder'
  BY DEF IInv, Flow, InOrder, Redirects, Slot
<1>5. Captured' /\ PauseKnown' /\ OriginKept'
  BY DEF IInv, Captured, PauseKnown, OriginKept, Up, PortOf
<1>6. Timing'
  BY <1>1 DEF IInv, Timing, Opening
<1> QED BY <1>2, <1>3, <1>4, <1>5, <1>6 DEF IInv

\* open() leaves its first loop with the headers of a final response: it drains
\* a redirect and reports anything else.
LEMMA WaitEndsKeeps == ASSUME IInv, WaitEnds PROVE IInv'
<1>1. header_block_status >= 200 /\ stage \in {"body", "over"}
  BY DEF IInv, Counts, TypeOK, Phases, WaitEnds, HeadersSeen
<1>2. CASE ~ Redirects(header_block_status)
  BY <1>1, <1>2, ReportKeeps DEF WaitEnds
<1>3. CASE Redirects(header_block_status)
  <2>1. /\ pc = "wait" /\ pc' = "drain" /\ waited' = 0
        /\ UNCHANGED <<ringv, flags, ended, flow, hops, url, out, location,
                       hop_ms, stage, sent, seen, block>>
    BY <1>3 DEF WaitEnds
  <2> USE DEF ringv, flags, ended, flow, seen
  <2>2. Counts'
    BY <2>1 DEF IInv, Counts, TypeOK
  <2>3. Phases'
    BY <1>1, <2>1 DEF IInv, Phases, Up
  <2>4. Flow' /\ InOrder'
    BY <2>1 DEF IInv, Flow, InOrder, Redirects, Slot
  <2>5. Captured' /\ PauseKnown' /\ OriginKept'
    BY <2>1 DEF IInv, Captured, PauseKnown, OriginKept, Up, PortOf
  <2>6. Timing'
    BY <2>1, RingAssumption DEF IInv, Counts, TypeOK, Timing, Opening
  <2> QED BY <2>2, <2>3, <2>4, <2>5, <2>6 DEF IInv
<1> QED BY <1>2, <1>3

\* The drained redirect is followed within the origin and the hop limit, or
\* reported.
LEMMA DrainEndsKeeps == ASSUME IInv, DrainEnds PROVE IInv'
<1>1. CASE LastHop \/ ~ SameOrigin(url, location)
  <2>1. header_block_status >= 200 /\ stage \in {"body", "over"}
    BY DEF IInv, Counts, TypeOK, Phases, DrainEnds
  <2> QED BY <1>1, <2>1, ReportKeeps DEF DrainEnds
<1>2. CASE ~ LastHop /\ SameOrigin(url, location)
  <2>1. Request(location) /\ hops' = hops + 1 /\ UNCHANGED block /\ pc = "drain"
    BY <1>2 DEF DrainEnds, NextHop
  <2>2. hops' \in 0 .. MaxHops
    BY <1>2, <2>1, RingAssumption DEF IInv, Counts, TypeOK, LastHop
  <2>3. /\ location.scheme = Home.scheme /\ location.host = Home.host
        /\ PortOf(location) = PortOf(Home)
    BY <1>2, <2>1 DEF IInv, OriginKept, SameOrigin
  <2> QED BY <2>1, <2>2, <2>3, RequestKeeps
<1> QED BY <1>1, <1>2

\* read() returns once libcurl has offered the held chunk again.
LEMMA ResumedKeeps == ASSUME IInv, Resumed PROVE IInv'
<1> USE DEF Resumed, ringv, flags, ended, flow, call, seen
<1>1. Counts' /\ Phases'
  BY DEF IInv, Counts, TypeOK, Phases, Up
<1>2. Flow' /\ InOrder' /\ Captured'
  BY DEF IInv, Flow, InOrder, Redirects, Slot, Captured, Up
<1>3. Timing' /\ PauseKnown' /\ OriginKept'
  BY DEF IInv, Timing, PauseKnown, OriginKept, Opening, PortOf
<1> QED BY <1>1, <1>2, <1>3 DEF IInv

\* No step at all.
LEMMA StutterKeeps == ASSUME IInv, UNCHANGED vars PROVE IInv'
<1> USE DEF vars, ringv, flags, ended, flow, call, seen
<1>1. Counts' /\ Phases'
  BY DEF IInv, Counts, TypeOK, Phases, Up
<1>2. Flow' /\ InOrder' /\ Captured'
  BY DEF IInv, Flow, InOrder, Redirects, Slot, Captured, Up
<1>3. Timing' /\ PauseKnown' /\ OriginKept'
  BY DEF IInv, Timing, PauseKnown, OriginKept, Opening, PortOf
<1> QED BY <1>1, <1>2, <1>3 DEF IInv

\* Every step of the transport, of libcurl and of the client keeps the
\* invariant.
LEMMA NextKeeps == ASSUME IInv, [Next]_vars PROVE IInv'
<1>1. CASE Body
  BY <1>1, BodyKeeps
<1>2. CASE \E s \in Statuses : StatusLine(s)
  BY <1>2, StatusLineKeeps
<1>3. CASE \E v \in RetryAfters : RetryAfterLine(v)
  BY <1>3, RetryAfterLineKeeps
<1>4. CASE BlankLine
  BY <1>4, BlankLineKeeps
<1>5. CASE \E result \in {"ok", "failed"} : TransferEnds(result)
  BY <1>5, TransferEndsKeeps
<1>6. CASE OpenBegins
  <2>1. pc = "idle" /\ Request(Home) /\ hops' = 0 /\ UNCHANGED block
    BY <1>6 DEF OpenBegins
  <2>2. 0 \in 0 .. MaxHops
    BY RingAssumption
  <2> QED BY <2>1, <2>2, RequestKeeps
<1>7. CASE OpenAborts \/ WaitFails \/ DrainFails \/ PumpFails \/ Close
  BY <1>7, TeardownKeeps DEF OpenAborts, WaitFails, DrainFails, PumpFails, Close
<1>8. CASE WaitMore \/ DrainMore
  BY <1>8, PumpBeginsKeeps DEF WaitMore, DrainMore
<1>9. CASE WaitEnds
  BY <1>9, WaitEndsKeeps
<1>10. CASE DrainEnds
  BY <1>10, DrainEndsKeeps
<1>11. CASE \E ms \in 0 .. PumpMs : PumpReturns(ms)
  BY <1>11, PumpReturnsKeeps
<1>12. CASE Read
  <2>1. pc = "open" /\ out.status_code = 200 /\ Up
    BY <1>12 DEF Read, Up
  <2>2. CASE Answer(EndResult)
    BY <2>1, <2>2, AnswerKeeps
  <2>3. CASE PumpBegins("read_pump")
    BY <2>1, <2>3, PumpBeginsKeeps
  <2>4. CASE r_len > 0 /\ Copy
    BY <2>1, <2>4, CopyKeeps
  <2> QED BY <1>12, <2>2, <2>3, <2>4 DEF Read
<1>13. CASE ReadPumped
  <2>1. pc = "read_pump" /\ out.status_code = 200 /\ Up
    BY <1>13 DEF ReadPumped, Up, IInv, Captured
  <2>2. CASE \E result : Answer(result)
    BY <2>1, <2>2, AnswerKeeps
  <2>3. CASE r_len > 0 /\ Copy
    BY <2>1, <2>3, CopyKeeps
  <2> QED BY <1>13, <2>2, <2>3 DEF ReadPumped
<1>14. CASE Resumed
  BY <1>14, ResumedKeeps
<1>15. CASE UNCHANGED vars
  BY <1>15, StutterKeeps
<1> QED
  BY <1>1, <1>2, <1>3, <1>4, <1>5, <1>6, <1>7, <1>8, <1>9, <1>10, <1>11, <1>12,
     <1>13, <1>14, <1>15 DEF Next, Libcurl, Open

\* The invariant holds of every behaviour of the transport.
THEOREM Invariant == Spec => []IInv
<1>1. Init => IInv
  BY InitIInv
<1>2. IInv /\ [Next]_vars => IInv'
  BY NextKeeps
<1> QED BY <1>1, <1>2, PTL DEF Spec

----------------------------------------------------------------------------
(* What follows from it. *)

\* The ring indices stay within the array and the cast within int32_t.
THEOREM TypeCorrect == Spec => []TypeOK
<1>1. IInv => TypeOK
  BY DEF IInv, Counts
<1> QED BY <1>1, Invariant, PTL

\* A transfer that libcurl has stopped is always one that pump() or read()
\* will resume.
THEOREM PauseIsKnown == Spec => []PauseKnown
<1>1. IInv => PauseKnown
  BY DEF IInv
<1> QED BY <1>1, Invariant, PTL

\* However long the chain of redirects, the caller's headers stay within the
\* origin of the configured URL.
THEOREM OriginIsKept == Spec => []OriginKept
<1>1. IInv => OriginKept
  BY DEF IInv
<1> QED BY <1>1, Invariant, PTL

\* open() reports the status and the Retry-After of one final response: the
\* latest one, not a block of an earlier hop or an informational response.
THEOREM FinalResponseReported == Spec => []ReportsFinalResponse
<1>1. IInv => ReportsFinalResponse
  <2> SUFFICES ASSUME IInv, pc = "open" PROVE
        /\ out.status_code >= 200
        /\ out.status_code = block.status
        /\ out.retry_after_s = IF block.retry_after < 0 THEN -1
                               ELSE ToInt32(block.retry_after)
    BY DEF ReportsFinalResponse
  <2>1. Up /\ header_block_status \in Nat /\ header_block_status >= 200
    BY DEF IInv, Counts, TypeOK, Phases, Up
  <2>2. out = [status_code |-> header_block_status, retry_after_s |-> retry_after_s]
    BY <2>1 DEF IInv, Captured
  <2>3. header_block_status # 0
    BY <2>1
  <2> QED BY <2>1, <2>2, <2>3 DEF IInv, Captured
<1> QED BY <1>1, Invariant, PTL

\* open() spends at most two budgets on each of at most MaxHops + 1 requests.
THEOREM OpenIsBounded == Spec => []OpenBounded
<1>1. IInv => OpenBounded
  <2> SUFFICES ASSUME IInv, Opening
               PROVE  hops <= MaxHops /\ hop_ms <= 2 * (OpenTimeout + PumpMs)
    BY DEF OpenBounded
  <2>1. /\ OpenTimeout \in Nat /\ PumpMs \in Nat /\ waited \in Nat /\ hop_ms \in Nat
        /\ hops <= MaxHops /\ waited <= OpenTimeout + PumpMs
    BY RingAssumption DEF IInv, Counts, TypeOK, Timing
  <2>2. hop_ms <= OpenTimeout + PumpMs + waited
    BY <2>1 DEF IInv, Timing, Opening
  <2> QED BY <2>1, <2>2
<1> QED BY <1>1, Invariant, PTL

----------------------------------------------------------------------------
(* The transport implements ByteStream. *)

\* Before open() returns the client has nothing.
LEMMA StreamStarts == Init => Bytes!SInit
BY DEF Init, Up, Bytes!SInit, Only, Bytes!Only

\* A step of open() that does not return is none of the stream's.
LEMMA OpeningIsSilent ==
    ASSUME ~ Up, ~ Up', UNCHANGED got
    PROVE  UNCHANGED Bytes!svars
BY DEF Bytes!svars, Up

\* A failed open() or a close() is a Disconnect.
LEMMA TeardownDisconnects ==
    ASSUME NEW result \in {"none", "failed"}, Teardown(result)
    PROVE  Bytes!Disconnect
BY DEF Teardown, Clean, Bytes!Disconnect, Up, Only, Bytes!Only

\* open() that returns is a Connect.
LEMMA ReportConnects ==
    ASSUME IInv, Report, ~ Up
    PROVE  Bytes!Connect
<1>1. Up' /\ taken' = 0 /\ got' = Only("open") /\ sent' \in Nat
  BY DEF Report, IInv, Counts, TypeOK, Phases, Up
<1> QED BY <1>1 DEF Bytes!Connect, Only, Bytes!Only

\* What the server sends is a step of the Peer.
LEMMA ServerIsPeer ==
    ASSUME IInv, IInv', Up, Up', stage # "over", sent' >= sent, UNCHANGED <<taken, got>>
    PROVE  Bytes!Peer
BY DEF Bytes!Peer

\* A read without bytes is Quiet, a Break or the End.
LEMMA AnswerIsResult ==
    ASSUME IInv, NEW result, Answer(result), Up,
           \/ result \in {"timeout", "error"}
           \/ /\ result = EndResult /\ transfer_done /\ r_len = 0
              /\ out.status_code = 200
    PROVE  Bytes!Quiet \/ Bytes!Break \/ Bytes!End
<1>1. /\ got' = Only(result) /\ Up'
      /\ UNCHANGED <<sent, taken, stage>>
  BY DEF Answer, Up
<1>2. UNCHANGED <<Up, IF Up THEN sent ELSE 0, Up /\ stage = "over",
                  IF Up THEN taken ELSE 0>>
  BY <1>1
<1>3. CASE result = "timeout"
  BY <1>1, <1>2, <1>3 DEF Bytes!Quiet, Only, Bytes!Only
<1>4. CASE result = "error"
  BY <1>1, <1>2, <1>4 DEF Bytes!Break, Only, Bytes!Only
<1>5. CASE result = "eof" /\ transfer_done /\ r_len = 0 /\ out.status_code = 200
  <2>1. stage = "over" /\ held = 0
    BY <1>5 DEF IInv, Phases
  <2>2. header_block_status = 200
    BY <1>5 DEF IInv, Captured
  <2>3. taken = sent
    BY <1>5, <2>1, <2>2 DEF IInv, Counts, TypeOK, Flow, Redirects
  <2> QED BY <1>1, <1>2, <1>5, <2>1, <2>3 DEF Bytes!End, Only, Bytes!Only
<1> QED BY <1>3, <1>4, <1>5 DEF EndResult

\* A read with bytes is a Deliver.
LEMMA CopyDelivers ==
    ASSUME IInv, Copy, Up, r_len > 0
    PROVE  Bytes!Deliver
<1> DEFINE n == IF r_len < ReadLen THEN r_len ELSE ReadLen
<1>1. /\ taken' = taken + n
      /\ got' = [kind |-> "data",
                 bytes |-> [i \in 1 .. n |-> ring[Slot(r_head + i - 1)]]]
      /\ Up' /\ UNCHANGED <<sent, stage>>
  BY DEF Copy, Up
<1>2. /\ n \in 1 .. r_len /\ r_len \in Nat /\ taken \in Nat /\ sent \in Nat
      /\ held \in Nat /\ r_head \in Nat
  BY RingAssumption, PeerAssumption DEF IInv, Counts, TypeOK
<1> HIDE DEF n
<1>3. taken + r_len + held = sent
  BY <1>2 DEF IInv, Flow
<1>4. taken' \in taken + 1 .. sent /\ taken' - taken = n
  BY <1>1, <1>2, <1>3
<1>5. ASSUME NEW i \in 1 .. n
      PROVE  ring[Slot(r_head + i - 1)] = taken + i - 1
  <2>1. i - 1 \in 0 .. r_len - 1
    BY <1>2
  <2>2. ring[Slot(r_head + (i - 1))] = taken + (i - 1)
    BY <2>1 DEF IInv, InOrder
  <2>3. r_head + (i - 1) = r_head + i - 1 /\ taken + (i - 1) = taken + i - 1
    BY <1>2, <2>1
  <2> QED BY <2>2, <2>3
<1>6. [i \in 1 .. n |-> ring[Slot(r_head + i - 1)]]
        = [i \in 1 .. taken' - taken |-> taken + i - 1]
  BY <1>4, <1>5
<1> QED BY <1>1, <1>4, <1>6 DEF Bytes!Deliver

\* Every step of the transport is a step of the stream or none of its business.
LEMMA StepsAsStream ==
    ASSUME IInv, IInv', [Next]_vars
    PROVE  [Bytes!SNext]_(Bytes!svars)
<1> USE DEF Bytes!SNext
<1>1. CASE Body
  <2>1. /\ stage = "body" /\ UNCHANGED <<pc, taken, got>>
    BY <1>1 DEF Body, seen
  <2>2. sent' >= sent
    BY <1>1, PeerAssumption DEF Body, IInv, Counts, TypeOK
  <2>3. CASE Up
    BY <2>1, <2>2, <2>3, ServerIsPeer DEF Up
  <2>4. CASE ~ Up
    BY <2>1, <2>4, OpeningIsSilent DEF Up
  <2> QED BY <2>3, <2>4
<1>2. CASE (\E s \in Statuses : StatusLine(s)) \/ (\E v \in RetryAfters : RetryAfterLine(v))
           \/ BlankLine
  <2>1. UNCHANGED <<pc, got>> /\ stage \in {"request", "interim", "block"}
    BY <1>2 DEF StatusLine, RetryAfterLine, BlankLine, seen
  <2>2. ~ Up
    BY <2>1 DEF IInv, Phases
  <2> QED BY <2>1, <2>2, OpeningIsSilent DEF Up
<1>3. CASE \E result \in {"ok", "failed"} : TransferEnds(result)
  <2>1. UNCHANGED <<pc, taken, got, sent>> /\ stage # "over"
    BY <1>3 DEF TransferEnds, seen
  <2>2. sent' >= sent
    BY <2>1 DEF IInv, Counts, TypeOK
  <2>3. CASE Up
    BY <2>1, <2>2, <2>3, ServerIsPeer DEF Up
  <2>4. CASE ~ Up
    BY <2>1, <2>4, OpeningIsSilent DEF Up
  <2> QED BY <2>3, <2>4
<1>4. CASE OpenAborts \/ WaitFails \/ DrainFails \/ PumpFails \/ Close
  BY <1>4, TeardownDisconnects DEF OpenAborts, WaitFails, DrainFails, PumpFails, Close
<1>5. CASE OpenBegins
  BY <1>5, OpeningIsSilent DEF OpenBegins, Request, Up
<1>6. CASE WaitMore \/ DrainMore
  BY <1>6, OpeningIsSilent DEF WaitMore, DrainMore, PumpBegins, Up, seen
<1>7. CASE WaitEnds
  <2>1. CASE Report
    BY <1>7, <2>1, ReportConnects DEF WaitEnds, Up
  <2>2. CASE pc' = "drain" /\ UNCHANGED seen
    BY <1>7, <2>2, OpeningIsSilent DEF WaitEnds, Up, seen
  <2> QED BY <1>7, <2>1, <2>2 DEF WaitEnds
<1>8. CASE DrainEnds
  <2>1. CASE Report
    BY <1>8, <2>1, ReportConnects DEF DrainEnds, Up
  <2>2. CASE Request(location)
    BY <1>8, <2>2, OpeningIsSilent DEF DrainEnds, Request, Up
  <2> QED BY <1>8, <2>1, <2>2 DEF DrainEnds
<1>9. CASE \E ms \in 0 .. PumpMs : PumpReturns(ms)
  BY <1>9, OpeningIsSilent DEF PumpReturns, Up, seen
<1>10. CASE Read
  <2>1. pc = "open" /\ Up /\ out.status_code = 200
    BY <1>10 DEF Read, Up
  <2>2. CASE r_len = 0 /\ transfer_done /\ Answer(EndResult)
    BY <2>1, <2>2, AnswerIsResult
  <2>3. CASE PumpBegins("read_pump")
    BY <2>1, <2>3 DEF PumpBegins, Up, call, seen, Bytes!svars
  <2>4. CASE r_len > 0 /\ Copy
    BY <2>1, <2>4, CopyDelivers
  <2> QED BY <1>10, <2>2, <2>3, <2>4 DEF Read, Drained
<1>11. CASE ReadPumped
  <2>1. pc = "read_pump" /\ Up /\ out.status_code = 200
    BY <1>11 DEF ReadPumped, Up, IInv, Captured
  <2>2. CASE Answer("error") \/ Answer("timeout")
    BY <2>1, <2>2, AnswerIsResult
  <2>3. CASE r_len = 0 /\ transfer_done /\ Answer(EndResult)
    BY <2>1, <2>3, AnswerIsResult
  <2>4. CASE r_len > 0 /\ Copy
    BY <2>1, <2>4, CopyDelivers
  <2> QED BY <1>11, <2>2, <2>3, <2>4 DEF ReadPumped
<1>12. CASE Resumed
  BY <1>12 DEF Resumed, Up, seen, Bytes!svars
<1>13. CASE UNCHANGED vars
  BY <1>13 DEF vars, Up, seen, Bytes!svars
<1> QED
  BY <1>1, <1>2, <1>3, <1>4, <1>5, <1>6, <1>7, <1>8, <1>9, <1>10, <1>11, <1>12, <1>13
  DEF Next, Libcurl, Open

\* read() gives the client the body: in order, each byte once, and the end
\* after the last byte, for any ring, chunk and buffer size.
THEOREM StreamIsKept == Spec => StreamKept
<1>1. Init => Bytes!SInit
  BY StreamStarts
<1>2. IInv /\ IInv' /\ [Next]_vars => [Bytes!SNext]_(Bytes!svars)
  BY StepsAsStream
<1> QED BY <1>1, <1>2, Invariant, PTL DEF Spec, StreamKept, Bytes!SSpec
=============================================================================
