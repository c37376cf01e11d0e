--------------------------- MODULE CurlTransport ---------------------------
(***************************************************************************)
(* The libcurl transport of src/ports/posix/sse_transport_curl.c.          *)
(*                                                                         *)
(* Everything runs on the polling task: libcurl calls on_header and        *)
(* on_body while pump() or curl_easy_pause() is running.  pc says where    *)
(* the task is:                                                            *)
(*                                                                         *)
(*   idle                    no connection                                 *)
(*   wait, drain             in open(), at the head of one of its loops    *)
(*   wait_pump, drain_pump   inside pump() in that loop                    *)
(*   open                    connected, between two calls                  *)
(*   read_pump               inside pump() in read()                       *)
(*   resuming                inside curl_easy_pause() at the end of read() *)
(*                                                                         *)
(* libcurl and the server are external: stage, held and stopped are what   *)
(* the program can tell of them.  Bytes of the body are numbered from 0.   *)
(***************************************************************************)
EXTENDS Integers, Sequences

CONSTANTS
    RingCap, MaxHops,
    OpenTimeout,    \* OPEN_TIMEOUT_MS
    PumpMs,         \* what pump() waits for at most in open()
    Half,           \* 2^31
    ReadLen,        \* rx_buf_len
    Home,           \* the URL of the request
    \* what servers and libcurl may do
    MaxChunk,       \* bytes libcurl passes to one on_body call
    BodyMax,        \* bound on the bytes of a response
    Statuses, RetryAfters, Locations

NoUrl == [scheme |-> "none", host |-> "none", port |-> 0]

ASSUME RingAssumption ==
    /\ RingCap \in Nat /\ RingCap > 1
    /\ ReadLen \in Nat /\ ReadLen > 0
    /\ MaxHops \in Nat /\ OpenTimeout \in Nat /\ PumpMs \in Nat \ {0}
    /\ Half \in Nat /\ Half > 1

\* CURL_MAX_WRITE_SIZE is 16 KiB: libcurl passes no chunk the ring cannot hold.
ASSUME PeerAssumption ==
    /\ MaxChunk \in 1 .. RingCap
    /\ BodyMax \in Nat
    /\ Statuses \subseteq Nat /\ RetryAfters \subseteq Nat
    /\ Home # NoUrl

VARIABLES
    \* curl_ctx_t
    ring, r_head, r_len, body_started, headers_done, header_block_status,
    transfer_done, transfer_result, paused, retry_after_s,
    \* open() in progress
    pc, hops, waited, url, out,
    \* libcurl and the server
    stage,      \* of the response: request, block, interim, body, over
    location,   \* CURLINFO_REDIRECT_URL
    held,       \* bytes of a chunk that on_body refused
    stopped,    \* libcurl has paused the transfer
    \* history, read by the properties only
    sent,       \* bytes of the body passed to on_body
    taken,      \* bytes read() has returned
    got,        \* result of the latest call
    block,      \* status and Retry-After of the latest header block
    hop_ms      \* time spent on the current hop

ringv == <<ring, r_head, r_len>>
flags == <<body_started, headers_done, header_block_status, retry_after_s>>
ended == <<transfer_done, transfer_result>>
flow  == <<paused, held, stopped>>
call  == <<hops, waited, url, out, location, hop_ms>>
seen  == <<taken, got>>
vars  == <<pc, ringv, flags, ended, flow, call, stage, sent, seen, block>>

Pumping == pc \in {"wait_pump", "drain_pump", "read_pump"}
Opening == pc \in {"wait", "wait_pump", "drain", "drain_pump"}
Up      == pc \in {"open", "read_pump", "resuming"}

Only(kind) == [kind |-> kind, bytes |-> <<>>]

----------------------------------------------------------------------------
(* Callbacks of libcurl. *)

Slot(i) == i % RingCap
Redirects(status) == status \in 300 .. 399

Faulty_Refuse(n) == UNCHANGED paused /\ stopped' = TRUE /\ held' = n

\* CURL_WRITEFUNC_PAUSE: libcurl keeps the chunk and offers it again later.
Refuse(n) == paused' = TRUE /\ stopped' = TRUE /\ held' = n

Faulty_Fits(n) == TRUE

Fits(n) == n <= RingCap - r_len

\* on_body() with n bytes, the first of them number first.
OnBody(first, n) ==
    IF Redirects(header_block_status)
    THEN held' = 0 /\ UNCHANGED <<ringv, body_started, paused, stopped>>
    ELSE /\ body_started' = TRUE
         /\ \/ /\ ~ Fits(n)
               /\ Refuse(n)
               /\ UNCHANGED ringv
            \/ /\ Fits(n)
               /\ ring' = [j \in 0 .. RingCap - 1 |->
                             LET i == Slot(j + RingCap - Slot(r_head + r_len))
                             IN  IF i < n THEN first + i ELSE ring[j]]
               /\ r_len' = r_len + n
               /\ held' = 0
               /\ UNCHANGED <<r_head, paused, stopped>>

Body ==
    /\ stage = "body" /\ ~ stopped
    /\ \/ /\ Pumping /\ held = 0
          /\ \E n \in 1 .. MaxChunk :
                /\ sent + n <= BodyMax
                /\ sent' = sent + n
                /\ OnBody(sent, n)
       \/ /\ Pumping \/ pc = "resuming"
          /\ held > 0
          /\ OnBody(sent - held, held)
          /\ UNCHANGED sent
    /\ UNCHANGED <<pc, headers_done, header_block_status, retry_after_s, ended,
                   call, stage, seen, block>>

Faulty_NewBlock(status) ==          \* Retry-After survives
    /\ headers_done' = FALSE /\ header_block_status' = status
    /\ UNCHANGED retry_after_s

NewBlock(status) ==
    /\ headers_done' = FALSE /\ header_block_status' = status
    /\ retry_after_s' = -1

\* on_header(): the status line of a response, informational ones included.
StatusLine(status) ==
    /\ Pumping /\ stage \in {"request", "interim"}
    /\ NewBlock(status)
    /\ stage' = "block"
    /\ block' = [status |-> status, retry_after |-> -1]
    /\ UNCHANGED <<pc, ringv, body_started, ended, flow, call, sent, seen>>

\* (int32_t)v
ToInt32(v) == ((v + Half) % (2 * Half)) - Half

\* on_header(): Retry-After in seconds; a date is left as absent.
RetryAfterLine(v) ==
    /\ Pumping /\ stage = "block"
    /\ retry_after_s' = ToInt32(v)
    /\ block' = [block EXCEPT !.retry_after = v]
    /\ UNCHANGED <<pc, ringv, body_started, headers_done, header_block_status,
                   ended, flow, call, stage, sent, seen>>

FinalBlock == header_block_status >= 200

\* on_header(): the blank line after a header block.
BlankLine ==
    /\ Pumping /\ stage = "block"
    /\ headers_done' = (headers_done \/ FinalBlock)
    /\ stage' = IF header_block_status >= 200 THEN "body" ELSE "interim"
    /\ UNCHANGED <<pc, ringv, body_started, header_block_status, retry_after_s,
                   ended, flow, call, sent, seen, block>>

\* The transfer completes, or fails at any point; pump() harvests it.
TransferEnds(result) ==
    /\ Pumping /\ stage # "over" /\ held = 0
    /\ result = "ok" => stage = "body"
    /\ stage' = "over"
    /\ transfer_done' = TRUE /\ transfer_result' = result
    /\ UNCHANGED <<pc, ringv, flags, flow, call, sent, seen, block>>

Libcurl ==
    \/ Body
    \/ \E s \in Statuses : StatusLine(s)
    \/ \E v \in RetryAfters : RetryAfterLine(v)
    \/ BlankLine
    \/ \E result \in {"ok", "failed"} : TransferEnds(result)

----------------------------------------------------------------------------
(* pump(). *)

Resumable == paused /\ r_len < RingCap \div 2

\* paused is cleared before curl_easy_pause(), which may call on_body again.
Resume ==
    IF Resumable THEN paused' = FALSE /\ stopped' = FALSE /\ UNCHANGED held
    ELSE UNCHANGED flow

PumpBegins(there) ==
    /\ pc' = there
    /\ Resume
    /\ UNCHANGED <<ringv, flags, ended, call, stage, sent, seen, block>>

\* pump() returns to a loop of open() after at most PumpMs.
PumpReturns(ms) ==
    /\ pc \in {"wait_pump", "drain_pump"}
    /\ pc' = IF pc = "wait_pump" THEN "wait" ELSE "drain"
    /\ waited' = waited + ms /\ hop_ms' = hop_ms + ms
    /\ UNCHANGED <<ringv, flags, ended, flow, hops, url, out, location, stage,
                   sent, seen, block>>

----------------------------------------------------------------------------
(* open() and close(). *)

\* teardown(), and the fields that open() sets up again for each hop.
Clean ==
    /\ r_head' = 0 /\ r_len' = 0
    /\ body_started' = FALSE /\ headers_done' = FALSE
    /\ transfer_done' = FALSE /\ transfer_result' = "ok"
    /\ paused' = FALSE
    /\ header_block_status' = 0 /\ retry_after_s' = -1
    /\ held' = 0 /\ stopped' = FALSE    \* libcurl's side of the old transfer
    /\ sent' = 0 /\ taken' = 0
    /\ hop_ms' = 0 /\ waited' = 0

NoOut == [status_code |-> 0, retry_after_s |-> -1]

Teardown(result) ==
    /\ Clean
    /\ pc' = "idle" /\ got' = Only(result)
    /\ ring' = [j \in 0 .. RingCap - 1 |-> 0]
    /\ hops' = 0 /\ url' = NoUrl /\ out' = NoOut
    /\ stage' = "none" /\ location' = NoUrl
    /\ block' = [status |-> 0, retry_after |-> -1]

\* A request goes to u; its response may redirect to any location.
Request(u) ==
    /\ Clean
    /\ pc' = "wait" /\ url' = u
    /\ stage' = "request" /\ location' \in Locations
    /\ UNCHANGED <<ring, out, got>>

OpenBegins == pc = "idle" /\ Request(Home) /\ hops' = 0 /\ UNCHANGED block

\* An allocation fails.
OpenAborts == pc = "idle" /\ Teardown("failed")

HeadersSeen == headers_done \/ body_started \/ transfer_done

WaitMore ==
    /\ pc = "wait" /\ ~ HeadersSeen /\ waited < OpenTimeout
    /\ PumpBegins("wait_pump")

WaitFails ==
    /\ pc = "wait"
    /\ \/ ~ HeadersSeen /\ waited >= OpenTimeout
       \/ transfer_done /\ transfer_result # "ok" /\ ~ headers_done /\ ~ body_started
    /\ Teardown("failed")

\* The response is what libcurl saw last and on_header captured.
Report ==
    /\ pc' = "open" /\ got' = Only("open")
    /\ out' = [status_code |-> block.status, retry_after_s |-> retry_after_s]
    /\ UNCHANGED <<ringv, flags, ended, flow, hops, waited, url, location, hop_ms,
                   stage, sent, taken, block>>

WaitEnds ==
    /\ pc = "wait" /\ HeadersSeen
    /\ ~ (transfer_done /\ transfer_result # "ok" /\ ~ headers_done /\ ~ body_started)
    /\ IF Redirects(header_block_status)
       THEN /\ pc' = "drain" /\ waited' = 0
            /\ UNCHANGED <<ringv, flags, ended, flow, hops, url, out, location,
                           hop_ms, stage, sent, seen, block>>
       ELSE Report

DrainMore ==
    /\ pc = "drain" /\ ~ transfer_done /\ waited < OpenTimeout
    /\ PumpBegins("drain_pump")

DrainFails ==
    /\ pc = "drain" /\ ~ transfer_done /\ waited >= OpenTimeout
    /\ Teardown("failed")

PortOf(u) == IF u.port # 0 THEN u.port ELSE IF u.scheme = "https" THEN 443 ELSE 80

Faulty_SameOrigin(a, b) == b # NoUrl /\ a.host = b.host     \* host only

\* same_origin(): ports are compared with defaults filled in.
SameOrigin(a, b) ==
    /\ a # NoUrl /\ b # NoUrl
    /\ a.scheme = b.scheme /\ a.host = b.host /\ PortOf(a) = PortOf(b)

Faulty_NextHop == hops' = hops      \* hops are not counted

NextHop == hops' = hops + 1

Faulty_LastHop == hops > MaxHops     \* off by one

LastHop == hops >= MaxHops

DrainEnds ==
    /\ pc = "drain" /\ transfer_done
    /\ IF LastHop \/ ~ SameOrigin(url, location)
       THEN Report
       ELSE Request(location) /\ NextHop /\ UNCHANGED block

PumpFails ==
    /\ pc \in {"wait_pump", "drain_pump"}
    /\ Teardown("failed")

Open ==
    \/ OpenBegins \/ OpenAborts \/ WaitMore \/ WaitFails \/ WaitEnds
    \/ DrainMore \/ DrainFails \/ DrainEnds \/ PumpFails
    \/ \E ms \in 0 .. PumpMs : PumpReturns(ms)

Close == pc = "open" /\ Teardown("none")

----------------------------------------------------------------------------
(* read(). *)

Answer(result) ==
    /\ pc' = "open" /\ got' = Only(result)
    /\ UNCHANGED <<ringv, flags, ended, flow, call, stage, sent, taken, block>>

EndResult == IF transfer_result = "ok" THEN "eof" ELSE "error"

\* Up to ReadLen bytes out of the ring, then resume a paused transfer.
Copy ==
    LET n == IF r_len < ReadLen THEN r_len ELSE ReadLen
    IN  /\ got' = [kind |-> "data",
                   bytes |-> [i \in 1 .. n |-> ring[Slot(r_head + i - 1)]]]
        /\ r_head' = Slot(r_head + n) /\ r_len' = r_len - n
        /\ taken' = taken + n
        /\ IF paused /\ r_len' < RingCap \div 2
           THEN pc' = "resuming" /\ paused' = FALSE /\ stopped' = FALSE
           ELSE pc' = "open" /\ UNCHANGED <<paused, stopped>>
        /\ UNCHANGED <<ring, flags, ended, held, call, stage, sent, block>>

Faulty_Drained == TRUE              \* the ring is not looked at

Drained == r_len = 0

\* The client closes every response but a 200 without reading it.
Read ==
    /\ pc = "open" /\ out.status_code = 200
    /\ \/ Drained /\ transfer_done /\ Answer(EndResult)
       \/ Drained /\ ~ transfer_done /\ PumpBegins("read_pump")
       \/ r_len > 0 /\ Copy

ReadPumped ==
    /\ pc = "read_pump"
    /\ \/ Answer("error")          \* a libcurl call fails
       \/ r_len = 0 /\ transfer_done /\ Answer(EndResult)
       \/ r_len = 0 /\ ~ transfer_done /\ Answer("timeout")
       \/ r_len > 0 /\ Copy

Resumed ==
    /\ pc = "resuming"
    /\ pc' = "open"
    /\ UNCHANGED <<ringv, flags, ended, flow, call, stage, sent, seen, block>>

----------------------------------------------------------------------------

Init ==
    /\ pc = "idle" /\ got = Only("none")
    /\ ring = [j \in 0 .. RingCap - 1 |-> 0] /\ r_head = 0 /\ r_len = 0
    /\ body_started = FALSE /\ headers_done = FALSE /\ header_block_status = 0
    /\ transfer_done = FALSE /\ transfer_result = "ok"
    /\ paused = FALSE /\ retry_after_s = -1
    /\ hops = 0 /\ waited = 0 /\ url = NoUrl /\ out = NoOut
    /\ stage = "none" /\ location = NoUrl /\ held = 0 /\ stopped = FALSE
    /\ sent = 0 /\ taken = 0 /\ hop_ms = 0
    /\ block = [status |-> 0, retry_after |-> -1]

Next == Libcurl \/ Open \/ Close \/ Read \/ ReadPumped \/ Resumed

Spec == Init /\ [][Next]_vars

\* Loops go round, calls return, the client reads on while the stream is open,
\* libcurl offers a refused chunk again, and time passes in pump().
Fairness ==
    /\ WF_vars(WaitMore \/ WaitFails \/ WaitEnds \/ DrainMore \/ DrainFails \/ DrainEnds)
    /\ WF_vars(Read) /\ WF_vars(ReadPumped) /\ WF_vars(Resumed)
    /\ SF_vars(PumpReturns(PumpMs))
    /\ SF_vars(Body /\ held > 0)

FairSpec == Spec /\ Fairness

----------------------------------------------------------------------------
(* Properties. *)

\* The ring stays within its array and every field within its type.
TypeOK ==
    /\ ring \in [0 .. RingCap - 1 -> Nat]
    /\ r_head \in 0 .. RingCap - 1 /\ r_len \in 0 .. RingCap
    /\ body_started \in BOOLEAN /\ headers_done \in BOOLEAN /\ transfer_done \in BOOLEAN
    /\ paused \in BOOLEAN /\ stopped \in BOOLEAN
    /\ header_block_status \in Nat /\ retry_after_s \in -Half .. Half - 1
    /\ transfer_result \in {"ok", "failed"}
    /\ hops \in Nat /\ waited \in Nat /\ hop_ms \in Nat
    /\ sent \in Nat /\ taken \in Nat /\ held \in 0 .. MaxChunk

\* The client gets the body the server sent: in order, each byte once however
\* the ring wraps and the transfer pauses, the end only after the last byte
\* and only if there is one (this transport implements ByteStream).
Bytes == INSTANCE ByteStream WITH
            up    <- Up,
            sent  <- IF Up THEN sent ELSE 0,
            ended <- Up /\ stage = "over",
            taken <- IF Up THEN taken ELSE 0
StreamKept == Bytes!SSpec

\* A paused transfer is known to be paused: otherwise nobody resumes it.
PauseKnown == stopped => paused

\* open() reports the final response of the chain, never an informational one
\* or a redirect that was followed, and that response's own Retry-After.
ReportsFinalResponse ==
    pc = "open" =>
        /\ out.status_code >= 200
        /\ out.status_code = block.status
        /\ out.retry_after_s = IF block.retry_after < 0 THEN -1
                               ELSE ToInt32(block.retry_after)

\* However redirects are chained, no request leaves the origin of the
\* configured URL: the caller's headers go nowhere else.
OriginKept ==
    pc # "idle" =>
        url.scheme = Home.scheme /\ url.host = Home.host /\ PortOf(url) = PortOf(Home)

\* open() blocks for at most a header budget and a drain budget for each of
\* the MaxHops + 1 requests.
OpenBounded == Opening => hops <= MaxHops /\ hop_ms <= 2 * (OpenTimeout + PumpMs)

\* A Retry-After of v seconds reaches the client as v, or as the longest delay
\* it can represent.
RetryAfterDelivered ==
    (pc = "open" /\ block.retry_after >= 0) =>
        out.retry_after_s = IF block.retry_after < Half THEN block.retry_after
                            ELSE Half - 1

\* open() returns whatever the servers do: redirects for ever, a silent header
\* block, a redirect body without an end.
OpenReturns == Opening ~> ~ Opening

\* Every byte that arrived is read, also after the ring filled up and the
\* transfer was paused, unless the client closes or libcurl breaks.
AllDelivered ==
    \A k \in 1 .. BodyMax :
        (Up /\ out.status_code = 200 /\ sent >= k) ~> (taken >= k \/ ~ Up)
=============================================================================
