---------------------------- MODULE EspTransport ----------------------------
(***************************************************************************)
(* The ESP-IDF transport of src/ports/esp-idf/sse_transport_esp.c, on top  *)
(* of esp_http_client, which is external: handle_tmo, at, body, link and   *)
(* errno are what the program can tell of it and of the server.            *)
(*                                                                         *)
(* A URL is [scheme, host, port] as it is spelled; a Location header is    *)
(* [kind, url], where url counts for the kinds "network" ("//host") and    *)
(* "absolute" only.  Path, query and userinfo take no part in a decision.  *)
(***************************************************************************)
EXTENDS Integers, Sequences

CONSTANTS
    MaxHops,
    HeaderTimeout,  \* timeout_ms of a new handle
    ReadTimeout,    \* what the client passes to read(), never 0
    IntMax,
    ReadLen,        \* rx_buf_len
    Home,           \* the URL of the request
    \* what servers may do
    BodyMax,        \* bound on the bytes of a response
    Statuses, ContentTypes, RetryAfters, Locations

NoPort  == -1       \* no port is spelled out
BadPort == -2       \* ":" without digits, or with other characters

ASSUME EspAssumption ==
    /\ MaxHops \in Nat /\ IntMax \in Nat \ {0}
    /\ ReadTimeout \in Nat \ {0} /\ HeaderTimeout \in 0 .. IntMax
    /\ ReadLen \in Nat \ {0} /\ BodyMax \in Nat
    /\ RetryAfters \subseteq Nat

VARIABLES
    \* esp_ctx_t
    hc, content_type, location, url, retry_after_s, configured_timeout_ms,
    \* open() in progress, and what it reports
    pc, hop, out,
    \* the handle, the server and the C library
    handle_tmo,     \* timeout of the handle
    at,             \* the URL the handle requests
    body,           \* bytes of the body that have arrived
    link,           \* live, complete, shut (no end marker), failed
    errno,
    \* history, read by the properties only
    resp,           \* the latest response
    taken,          \* bytes read() has returned
    got             \* result of the latest call

captured == <<content_type, location, retry_after_s>>
net      == <<body, link>>
vars == <<hc, captured, url, configured_timeout_ms, pc, hop, out, handle_tmo, at,
          net, errno, resp, taken, got>>

Only(kind) == [kind |-> kind, bytes |-> <<>>]

Least(a, b) == IF a < b THEN a ELSE b

----------------------------------------------------------------------------
(* Origins. *)

Lower(s) == CASE s = "HTTPS" -> "https" [] s = "A" -> "a" [] OTHER -> s

NoOrigin == [scheme |-> "none", host |-> "none", port |-> 0]
Default(scheme) == IF scheme = "https" THEN 443 ELSE 80

\* origin_of(): a host is missing or too long for the buffer, a port is
\* malformed or too big, or a scheme without a default port names none.
OriginOf(u) ==
    IF \/ u.host \in {"", "long"} \/ u.port = BadPort \/ u.port > 65535
       \/ u.port = NoPort /\ Lower(u.scheme) \notin {"http", "https"}
    THEN NoOrigin
    ELSE [scheme |-> Lower(u.scheme), host |-> Lower(u.host),
          port |-> IF u.port = NoPort THEN Default(Lower(u.scheme)) ELSE u.port]

SameOriginUrls(a, b) == OriginOf(a) # NoOrigin /\ OriginOf(a) = OriginOf(b)

Faulty_RelativePath(loc) == loc.kind \in {"path", "network"}  \* one slash tested

RelativePath(loc) == loc.kind = "path"

AbsoluteHttp(loc) == loc.kind = "absolute" /\ Lower(loc.url.scheme) \in {"http", "https"}

\* Where a Location leads from base.
Resolve(base, loc) ==
    CASE loc.kind = "absolute" -> loc.url
      [] loc.kind = "network"  -> [loc.url EXCEPT !.scheme = base.scheme]
      [] OTHER                 -> base

----------------------------------------------------------------------------
(* open() and close(). *)

NoLocation == [kind |-> "none", url |-> NoOrigin]
NoResponse == [status |-> 0, content_type |-> "", location |-> NoLocation, retry_after |-> -1]
NoOut      == [status_code |-> 0, content_type |-> "", retry_after_s |-> -1]

\* A response that has not begun: nothing has arrived on this connection.
Quiet0 == body' = 0 /\ link' = "live"

ForgetHeaders == content_type' = "" /\ location' = NoLocation /\ retry_after_s' = -1

Faulty_ResetHeaders ==              \* the redirect's own headers survive
    UNCHANGED captured

\* Between two hops.
ResetHeaders == ForgetHeaders

OpenBegins ==
    /\ pc = "idle"
    /\ ForgetHeaders
    /\ url' = Home
    /\ hop' = 0 /\ out' = NoOut /\ resp' = NoResponse
    /\ \/ /\ hc' = TRUE /\ pc' = "request" /\ got' = Only("none")
          /\ handle_tmo' = HeaderTimeout /\ at' = Home
       \/ /\ hc' = FALSE /\ got' = Only("failed")       \* no memory
          /\ UNCHANGED <<pc, handle_tmo, at>>
    /\ Quiet0 /\ taken' = 0
    /\ UNCHANGED <<configured_timeout_ms, errno>>

\* esp_teardown(): the rest of the context keeps its values.
Teardown(result) ==
    /\ hc' = FALSE /\ pc' = "idle" /\ got' = Only(result)
    /\ Quiet0 /\ taken' = 0
    /\ UNCHANGED <<captured, url, configured_timeout_ms, hop, out, handle_tmo, at,
                   errno, resp>>

\* esp_http_client_open() or _fetch_headers() fails.
RequestFails == pc = "request" /\ Teardown("failed")

\* strtol(): long has 32 bits on the ESP32 and is also the int of the C types.
Strtol(v) == Least(v, IntMax)

\* on_http_event() for each header the response has.
Capture(r) ==
    /\ content_type'  = IF r.content_type = "" THEN content_type ELSE r.content_type
    /\ location'      = IF r.location = NoLocation THEN location ELSE r.location
    /\ retry_after_s' = IF r.retry_after < 0 THEN retry_after_s ELSE Strtol(r.retry_after)

FetchHeaders(r) ==
    /\ pc = "request"
    /\ Capture(r)
    /\ pc' = "decide" /\ resp' = r
    /\ UNCHANGED <<hc, url, configured_timeout_ms, hop, out, handle_tmo, at, net,
                   errno, taken, got>>

IsRedirect(status) == status \in {301, 302, 303, 307, 308}

Faulty_LastHop == hop > MaxHops      \* off by one

LastHop == hop >= MaxHops

Faulty_NextHop == UNCHANGED hop     \* hops are not counted

NextHop == hop' = hop + 1

Follows ==
    /\ IsRedirect(resp.status) /\ ~ LastHop
    /\ location # NoLocation
    /\ \/ RelativePath(location)
       \/ AbsoluteHttp(location) /\ SameOriginUrls(url, location.url)

Faulty_ForgetTimeout == UNCHANGED configured_timeout_ms

\* The next read() must set the timeout of the new handle.
ForgetTimeout == configured_timeout_ms' = 0

\* The loop is left: the response is reported.
Report ==
    /\ pc' = "open" /\ got' = Only("open")
    /\ out' = [status_code |-> resp.status, content_type |-> content_type,
               retry_after_s |-> retry_after_s]
    /\ ForgetTimeout
    /\ UNCHANGED <<hc, captured, hop, handle_tmo, at, net, errno, resp, taken>>

Decide ==
    /\ pc = "decide"
    /\ \/ ~ Follows /\ Report /\ UNCHANGED url
       \/ /\ Follows
          /\ url' = IF RelativePath(location) THEN url ELSE location.url
          /\ \/ Report                                  \* set_redirection() fails
             \/ /\ at' = Resolve(at, location)
                /\ ResetHeaders
                /\ NextHop /\ pc' = "request"
                /\ UNCHANGED <<hc, configured_timeout_ms, out, handle_tmo, net, errno,
                               resp, taken, got>>

Close == pc = "open" /\ Teardown("none")

----------------------------------------------------------------------------
(* The server, and read(). *)

Server ==
    /\ pc = "open" /\ link = "live"
    /\ \/ body < BodyMax /\ body' = body + 1 /\ UNCHANGED link
       \/ link' \in {"complete", "shut", "failed"} /\ UNCHANGED body
    /\ UNCHANGED <<hc, captured, url, configured_timeout_ms, pc, hop, out, handle_tmo,
                   at, errno, resp, taken, got>>

SetTimeout ==
    IF ReadTimeout # configured_timeout_ms
    THEN handle_tmo' = Least(ReadTimeout, IntMax) /\ configured_timeout_ms' = ReadTimeout
    ELSE UNCHANGED <<handle_tmo, configured_timeout_ms>>

Timeouts == {"EAGAIN", "EWOULDBLOCK", "ETIMEDOUT"}

Faulty_Cleared == errno             \* a stale errno decides

\* errno when esp_http_client_read() is called.
Cleared == "0"

\* Results of esp_http_client_read() when no byte is there: its value, and
\* what it leaves in errno.  A failure need not set errno.
NoBytes ==
    CASE link = "live" ->
           {[r |-> "-EAGAIN", e |-> "EAGAIN"], [r |-> "0", e |-> Cleared],
            [r |-> "-1", e |-> "EAGAIN"], [r |-> "-1", e |-> "ETIMEDOUT"]}
      [] link = "failed" ->
           {[r |-> "-1", e |-> "ECONNRESET"], [r |-> "-1", e |-> Cleared]}
      [] OTHER -> {[r |-> "0", e |-> Cleared]}

Faulty_Zero == "eof"                \* a poll timeout ends the stream

\* 0 is the end only if all data has been received.
Zero == IF link = "complete" THEN "eof" ELSE "timeout"

Classify(x) ==
    CASE x.r = "-EAGAIN" -> "timeout"
      [] x.r = "0"       -> Zero
      [] OTHER           -> IF x.e \in Timeouts THEN "timeout" ELSE "error"

Read ==
    /\ pc = "open" /\ out.status_code = 200
    /\ SetTimeout
    /\ \/ /\ taken < body
          /\ \E n \in 1 .. Least(ReadLen, body - taken) :
                /\ taken' = taken + n
                /\ got' = [kind |-> "data", bytes |-> [i \in 1 .. n |-> taken + i - 1]]
          /\ errno' = Cleared
       \/ /\ taken = body
          /\ \E x \in NoBytes : errno' = x.e /\ got' = Only(Classify(x))
          /\ UNCHANGED taken
    /\ UNCHANGED <<hc, captured, url, pc, hop, out, at, net, resp>>

----------------------------------------------------------------------------

Responses ==
    [status : Statuses, content_type : ContentTypes, location : Locations,
     retry_after : RetryAfters \cup {-1}]

Init ==
    /\ hc = FALSE /\ pc = "idle" /\ got = Only("none")
    /\ content_type = "" /\ location = NoLocation /\ retry_after_s = -1
    /\ url = NoOrigin /\ configured_timeout_ms = 0
    /\ hop = 0 /\ out = NoOut
    /\ handle_tmo = HeaderTimeout /\ at = NoOrigin /\ errno = "0"
    /\ body = 0 /\ link = "live" /\ resp = NoResponse /\ taken = 0

Open == OpenBegins \/ RequestFails \/ Decide \/ \E r \in Responses : FetchHeaders(r)

Next == Open \/ Close \/ Server \/ Read

Spec == Init /\ [][Next]_vars

\* esp_http_client's calls return within their timeout, and the code goes on.
FairSpec ==
    /\ Spec
    /\ WF_vars(RequestFails \/ \E r \in Responses : FetchHeaders(r)) /\ WF_vars(Decide)

----------------------------------------------------------------------------
(* Properties. *)

\* What the context caches about the handle matches it.
TypeOK ==
    /\ hc \in BOOLEAN /\ (hc <=> pc # "idle")
    /\ retry_after_s \in -1 .. IntMax
    /\ configured_timeout_ms \in {0, ReadTimeout} /\ handle_tmo \in 0 .. IntMax
    /\ hop \in 0 .. MaxHops /\ taken <= body

\* The headers open() reports are those of the response it reports, however
\* many redirects with other headers came before.
ReportsFinalResponse ==
    pc = "open" =>
        out = [status_code |-> resp.status, content_type |-> resp.content_type,
               retry_after_s |-> IF resp.retry_after < 0 THEN -1
                                 ELSE Strtol(resp.retry_after)]

\* No chain of redirects leads a request, which carries the caller's headers,
\* away from the origin of the configured URL.
OriginKept == hc => OriginOf(at) = OriginOf(Home)

\* A read waits as long as the client asked, on every connection: the cached
\* timeout of an earlier handle is never taken for that of the new one.
ReadTimeoutApplied ==
    got.kind \in {"data", "timeout", "eof", "error"} =>
        handle_tmo = Least(ReadTimeout, IntMax)

\* A connection that failed is never reported as a quiet one, whatever earlier
\* reads left in errno.
FailureReported ==
    [][(Read /\ link = "failed" /\ taken = body) => got'.kind = "error"]_vars

\* Bytes are delivered in order and once, and the end of the stream only after
\* the last one: a quiet read is never taken for it (implements ByteStream).
Bytes == INSTANCE ByteStream WITH
            up    <- pc = "open",
            sent  <- IF pc = "open" THEN body ELSE 0,
            ended <- pc = "open" /\ link # "live"
StreamKept == Bytes!SSpec

\* open() returns also from a server that redirects for ever.
OpenReturns == (pc = "request") ~> (pc \in {"idle", "open"})
=============================================================================
