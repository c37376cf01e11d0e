------------------------ MODULE EspTransportProofs ------------------------
(***************************************************************************)
(* The ESP-IDF transport's safety, for every set of responses, locations   *)
(* and timeouts.  What the context remembers outlives the request, the     *)
(* hop or the handle it was taken from; IInv says of which of them it is.  *)
(***************************************************************************)
EXTENDS EspTransport, TLAPS

Counts ==
    /\ TypeOK
    /\ pc \in {"idle", "request", "decide", "open"}
    /\ body \in Nat /\ taken \in Nat
    /\ link \in {"live", "complete", "shut", "failed"}
    /\ resp.retry_after \in Nat \cup {-1}
    /\ pc # "open" => body = 0 /\ link = "live" /\ taken = 0

\* Nothing is captured while the response is awaited, and then what it said.
Captured ==
    /\ pc = "request" =>
          content_type = "" /\ location = NoLocation /\ retry_after_s = -1
    /\ pc = "decide" =>
          /\ content_type = resp.content_type
          /\ location = resp.location
          /\ retry_after_s = IF resp.retry_after < 0 THEN -1
                             ELSE Strtol(resp.retry_after)

\* Both the URL that redirects are checked against and the one requested.
Origins == hc => OriginOf(url) = OriginOf(Home) /\ OriginOf(at) = OriginOf(Home)

\* What is cached about the handle's timeout is true of this handle.
Cached ==
    (pc = "open" /\ configured_timeout_ms = ReadTimeout) =>
        handle_tmo = Least(ReadTimeout, IntMax)

\* A result of read() is on an open connection whose timeout has been set.
Results ==
    /\ pc # "open" => got \in {Only("none"), Only("failed")}
    /\ pc = "open" =>
          \/ got = Only("open")
          \/ configured_timeout_ms = ReadTimeout

IInv == Counts /\ Captured /\ Origins /\ Cached /\ Results /\ ReportsFinalResponse

----------------------------------------------------------------------------

\* The numbers an int takes.
LEMMA IntRange ==
    /\ IntMax \in Nat /\ -1 \in -1 .. IntMax
    /\ \A v \in Nat : Least(v, IntMax) \in 0 .. IntMax /\ Strtol(v) \in -1 .. IntMax
BY EspAssumption DEF Least, Strtol

\* The context of sse_transport_esp_http_client() satisfies the invariant.
LEMMA InitIInv == Init => IInv
<1> SUFFICES ASSUME Init PROVE IInv
  OBVIOUS
<1>1. /\ hc = FALSE /\ pc = "idle" /\ got = Only("none") /\ hop = 0 /\ body = 0
      /\ taken = 0 /\ link = "live" /\ retry_after_s = -1
      /\ configured_timeout_ms = 0 /\ handle_tmo = HeaderTimeout /\ resp = NoResponse
  BY DEF Init
<1>2. Counts
  <2>1. taken <= body /\ hop \in 0 .. MaxHops
    BY <1>1, EspAssumption
  <2>2. TypeOK
    BY <1>1, <2>1, IntRange, EspAssumption DEF TypeOK
  <2> QED BY <1>1, <2>2 DEF Counts, NoResponse
<1> QED
  BY <1>1, <1>2 DEF IInv, Captured, Origins, Cached, Results, ReportsFinalResponse

\* esp_teardown() leaves stale values, but none that the invariant speaks of.
LEMMA TeardownKeeps ==
    ASSUME IInv, NEW result \in {"none", "failed"}, Teardown(result)
    PROVE  IInv'
<1>1. /\ hc' = FALSE /\ pc' = "idle" /\ got' = Only(result) /\ body' = 0
      /\ taken' = 0 /\ link' = "live"
      /\ UNCHANGED <<retry_after_s, hop, configured_timeout_ms, handle_tmo, resp>>
  BY DEF Teardown, Quiet0, captured
<1>2. Counts'
  <2>1. (taken <= body)'
    BY <1>1
  <2>2. TypeOK'
    BY <1>1, <2>1 DEF IInv, Counts, TypeOK
  <2> QED BY <1>1, <2>2 DEF IInv, Counts
<1> QED
  BY <1>1, <1>2 DEF IInv, Captured, Origins, Cached, Results, ReportsFinalResponse

\* open() begins with a new handle for the configured URL, or fails at once.
LEMMA OpenBeginsKeeps == ASSUME IInv, OpenBegins PROVE IInv'
<1>1. /\ content_type' = "" /\ location' = NoLocation /\ retry_after_s' = -1
      /\ url' = Home /\ hop' = 0 /\ resp' = NoResponse
      /\ body' = 0 /\ taken' = 0 /\ link' = "live" /\ UNCHANGED configured_timeout_ms
  BY DEF OpenBegins, Quiet0, ForgetHeaders
<1>2. \/ /\ hc' = TRUE /\ pc' = "request" /\ got' = Only("none")
         /\ handle_tmo' = HeaderTimeout /\ at' = Home
      \/ /\ hc' = FALSE /\ pc' = "idle" /\ got' = Only("failed")
         /\ UNCHANGED handle_tmo
  BY DEF OpenBegins
<1>3. Counts'
  <2>1. (taken <= body)' /\ hop' \in 0 .. MaxHops /\ -1 \in -1 .. IntMax
    <3>1. taken' = 0 /\ body' = 0 /\ hop' = 0
      BY <1>1
    <3>2. MaxHops \in Nat
      BY EspAssumption
    <3> QED BY <3>1, <3>2, IntRange
  <2>2. handle_tmo' \in 0 .. IntMax
    BY <1>2, EspAssumption DEF IInv, Counts, TypeOK
  <2>3. hc' \in BOOLEAN /\ (hc' <=> pc' # "idle") /\ pc' \in {"idle", "request"}
    BY <1>2
  <2>4. TypeOK'
    BY <1>1, <2>1, <2>2, <2>3 DEF IInv, Counts, TypeOK
  <2> QED BY <1>1, <2>3, <2>4 DEF Counts, NoResponse
<1> QED
  BY <1>1, <1>2, <1>3 DEF IInv, Captured, Origins, Cached, Results, ReportsFinalResponse

\* on_http_event() captures what the response says, onto nothing.
LEMMA FetchHeadersKeeps ==
    ASSUME IInv, NEW r \in Responses, FetchHeaders(r) PROVE IInv'
<1>1. /\ pc = "request" /\ pc' = "decide" /\ resp' = r
      /\ UNCHANGED <<hc, url, configured_timeout_ms, hop, out, handle_tmo, at,
                     body, link, taken, got>>
  BY DEF FetchHeaders, net
<1>2. r.retry_after \in Nat \cup {-1}
  BY EspAssumption DEF Responses
<1>3. /\ content_type' = r.content_type /\ location' = r.location
      /\ retry_after_s' = IF r.retry_after < 0 THEN -1 ELSE Strtol(r.retry_after)
  BY <1>1 DEF FetchHeaders, Capture, IInv, Captured
<1>4. retry_after_s' \in -1 .. IntMax
  <2>1. CASE r.retry_after \in Nat
    BY <1>3, <2>1, IntRange
  <2>2. CASE r.retry_after = -1
    BY <1>3, <2>2, IntRange
  <2> QED BY <1>2, <2>1, <2>2
<1>5. Counts'
  BY <1>1, <1>2, <1>4 DEF IInv, Counts, TypeOK
<1>6. Captured'
  BY <1>1, <1>3 DEF Captured
<1> QED
  BY <1>1, <1>5, <1>6 DEF IInv, Origins, Cached, Results, ReportsFinalResponse

\* open() returns with the response that was captured; its handle's timeout is
\* not that of read().
LEMMA ReportKeeps ==
    ASSUME IInv, pc = "decide", Report,
           OriginOf(url') = OriginOf(Home), OriginOf(at) = OriginOf(Home)
    PROVE  IInv'
<1>1. /\ pc' = "open" /\ got' = Only("open") /\ configured_timeout_ms' = 0
      /\ out' = [status_code |-> resp.status, content_type |-> content_type,
                 retry_after_s |-> retry_after_s]
      /\ UNCHANGED <<hc, hop, handle_tmo, at, body, link, resp, taken,
                     content_type, location, retry_after_s>>
  BY DEF Report, ForgetTimeout, captured, net
<1>2. Counts'
  BY <1>1 DEF IInv, Counts, TypeOK
<1>3. ReportsFinalResponse'
  BY <1>1 DEF IInv, Captured, ReportsFinalResponse
<1> QED
  BY <1>1, <1>2, <1>3, EspAssumption DEF IInv, Captured, Origins, Cached, Results

\* A redirect that is followed stays on the origin it is checked against.
LEMMA RedirectKeepsOrigin ==
    ASSUME Follows, NEW base, OriginOf(base) = OriginOf(url),
           NEW next, next = IF RelativePath(location) THEN url ELSE location.url
    PROVE  OriginOf(next) = OriginOf(url) /\ OriginOf(Resolve(base, location)) = OriginOf(url)
<1>1. CASE RelativePath(location)
  BY <1>1 DEF RelativePath, Resolve
<1>2. CASE ~ RelativePath(location)
  <2>1. location.kind = "absolute" /\ OriginOf(url) = OriginOf(location.url)
    BY <1>2 DEF Follows, AbsoluteHttp, SameOriginUrls
  <2> QED BY <1>2, <2>1 DEF Resolve
<1> QED BY <1>1, <1>2

\* open()'s loop: report this response, or forget it and request the next.
LEMMA DecideKeeps == ASSUME IInv, Decide PROVE IInv'
<1>1. pc = "decide" /\ hc /\ OriginOf(url) = OriginOf(Home) /\ OriginOf(at) = OriginOf(Home)
  BY DEF Decide, IInv, Counts, TypeOK, Origins
<1>2. CASE ~ Follows /\ Report /\ UNCHANGED url
  BY <1>1, <1>2, ReportKeeps
<1>3. CASE Follows /\ url' = (IF RelativePath(location) THEN url ELSE location.url)
  <2>1. /\ OriginOf(url') = OriginOf(Home)
        /\ OriginOf(Resolve(at, location)) = OriginOf(Home)
    BY <1>1, <1>3, RedirectKeepsOrigin
  <2>2. CASE Report
    BY <1>1, <2>1, <2>2, ReportKeeps
  <2>3. CASE /\ at' = Resolve(at, location) /\ ResetHeaders
             /\ NextHop /\ pc' = "request"
             /\ UNCHANGED <<hc, configured_timeout_ms, out, handle_tmo, net, errno,
                            resp, taken, got>>
    <3>1. /\ content_type' = "" /\ location' = NoLocation /\ retry_after_s' = -1
          /\ hop' = hop + 1 /\ pc' = "request" /\ OriginOf(at') = OriginOf(Home)
          /\ UNCHANGED <<hc, configured_timeout_ms, handle_tmo, body, link, resp,
                         taken, got>>
      BY <2>1, <2>3 DEF ResetHeaders, ForgetHeaders, NextHop, net
    <3>2. hop' \in 0 .. MaxHops
      <4>1. MaxHops \in Nat
        BY EspAssumption
      <4>2. hop \in 0 .. MaxHops
        BY DEF IInv, Counts, TypeOK
      <4>3. ~ (hop >= MaxHops)
        BY <1>3 DEF Follows, LastHop
      <4>4. hop' = hop + 1
        BY <3>1
      <4> QED BY <4>1, <4>2, <4>3, <4>4
    <3>3. Counts'
      BY <1>1, <3>1, <3>2, IntRange DEF IInv, Counts, TypeOK
    <3> QED
      BY <1>1, <2>1, <3>1, <3>3 DEF IInv, Captured, Origins, Cached, Results, ReportsFinalResponse
  <2> QED BY <1>1, <1>2, <1>3, <2>2, <2>3 DEF Decide
<1> QED BY <1>2, <1>3 DEF Decide

\* What the server does is not seen before a read.
LEMMA ServerKeeps == ASSUME IInv, Server PROVE IInv'
<1>1. /\ pc = "open" /\ link' \in {"live", "complete", "shut", "failed"}
      /\ body' \in {body, body + 1}
      /\ UNCHANGED <<hc, content_type, location, retry_after_s, url,
                     configured_timeout_ms, pc, hop, out, handle_tmo, at, resp,
                     taken, got>>
  BY DEF Server, captured
<1>2. Counts'
  <2>1. body' \in Nat /\ (taken <= body)'
    BY <1>1 DEF IInv, Counts, TypeOK
  <2> QED BY <1>1, <2>1 DEF IInv, Counts, TypeOK
<1> QED
  BY <1>1, <1>2 DEF IInv, Captured, Origins, Cached, Results, ReportsFinalResponse

\* After the first line of read() the handle waits as long as asked.
LEMMA TimeoutIsSet ==
    ASSUME IInv, SetTimeout, pc = "open"
    PROVE  /\ handle_tmo' = Least(ReadTimeout, IntMax) /\ handle_tmo' \in 0 .. IntMax
           /\ configured_timeout_ms' = ReadTimeout
<1>1. handle_tmo' = Least(ReadTimeout, IntMax) /\ configured_timeout_ms' = ReadTimeout
  BY DEF SetTimeout, IInv, Cached
<1> QED BY <1>1, IntRange, EspAssumption

\* read() changes how much is taken, the timeout and errno only.
LEMMA ReadKeeps == ASSUME IInv, Read PROVE IInv'
<1>1. /\ pc = "open"
      /\ UNCHANGED <<hc, content_type, location, retry_after_s, url, pc, hop, out, at,
                     body, link, resp>>
  BY DEF Read, captured, net
<1>2. handle_tmo' \in 0 .. IntMax /\ handle_tmo' = Least(ReadTimeout, IntMax)
      /\ configured_timeout_ms' = ReadTimeout
  BY <1>1, TimeoutIsSet DEF Read
<1>3. taken' \in Nat /\ (taken <= body)'
  <2>1. CASE UNCHANGED taken
    BY <1>1, <2>1 DEF IInv, Counts, TypeOK
  <2>2. CASE \E n \in 1 .. Least(ReadLen, body - taken) : taken' = taken + n
    BY <1>1, <2>2, EspAssumption DEF IInv, Counts, TypeOK, Least
  <2> QED BY <2>1, <2>2 DEF Read
<1>4. Counts'
  BY <1>1, <1>2, <1>3 DEF IInv, Counts, TypeOK
<1> QED
  BY <1>1, <1>2, <1>4 DEF IInv, Captured, Origins, Cached, Results, ReportsFinalResponse

\* Every step keeps the invariant.
LEMMA NextIInv == IInv /\ [Next]_vars => IInv'
<1> SUFFICES ASSUME IInv, [Next]_vars PROVE IInv'
  OBVIOUS
<1>1. CASE OpenBegins
  BY <1>1, OpenBeginsKeeps
<1>2. CASE RequestFails
  BY <1>2, TeardownKeeps DEF RequestFails
<1>3. CASE Decide
  BY <1>3, DecideKeeps
<1>4. CASE \E r \in Responses : FetchHeaders(r)
  BY <1>4, FetchHeadersKeeps
<1>5. CASE Close
  BY <1>5, TeardownKeeps DEF Close
<1>6. CASE Server
  BY <1>6, ServerKeeps
<1>7. CASE Read
  BY <1>7, ReadKeeps
<1>8. CASE UNCHANGED vars
  BY <1>8 DEF vars, captured, net, IInv, Counts, TypeOK, Captured, Origins, Cached,
              Results, ReportsFinalResponse
<1> QED BY <1>1, <1>2, <1>3, <1>4, <1>5, <1>6, <1>7, <1>8 DEF Next, Open

----------------------------------------------------------------------------
(* What it says to the client. *)

\* The invariant holds for every set of responses, locations and timeouts.
THEOREM Invariant == Spec => []IInv
BY InitIInv, NextIInv, PTL DEF Spec

\* Every variable stays within its type, no byte is taken that has not come.
THEOREM TypeCorrect == Spec => []TypeOK
<1>1. IInv => TypeOK
  BY DEF IInv, Counts
<1> QED BY <1>1, Invariant, PTL

\* The caller's headers never leave the origin of the configured URL.
THEOREM OriginIsKept == Spec => []OriginKept
<1>1. IInv => OriginKept
  BY DEF IInv, Origins, OriginKept
<1> QED BY <1>1, Invariant, PTL

\* Headers of an earlier hop are never reported.
THEOREM FinalResponseReported == Spec => []ReportsFinalResponse
<1>1. IInv => ReportsFinalResponse
  BY DEF IInv
<1> QED BY <1>1, Invariant, PTL

\* The cached timeout is never that of an earlier handle.
THEOREM TimeoutIsApplied == Spec => []ReadTimeoutApplied
<1>1. ASSUME IInv PROVE ReadTimeoutApplied
  <2> SUFFICES ASSUME got.kind \in {"data", "timeout", "eof", "error"}
               PROVE  handle_tmo = Least(ReadTimeout, IntMax)
    BY DEF ReadTimeoutApplied
  <2>1. got # Only("none") /\ got # Only("failed") /\ got # Only("open")
    BY DEF Only
  <2>2. pc = "open" /\ configured_timeout_ms = ReadTimeout
    BY <2>1, <1>1 DEF IInv, Results
  <2> QED BY <2>2, <1>1 DEF IInv, Cached
<1> QED BY <1>1, Invariant, PTL

\* A failed connection is reported as such, whatever errno was left at.
THEOREM FailureIsReported == Spec => FailureReported
<1>1. ASSUME IInv, Read, link = "failed", taken = body PROVE got'.kind = "error"
  <2>1. ~ (taken < body)
    BY <1>1 DEF IInv, Counts
  <2>2. PICK x \in NoBytes : got' = Only(Classify(x))
    BY <1>1, <2>1 DEF Read
  <2>3. x.r = "-1" /\ x.e \in {"ECONNRESET", "0"}
    BY <1>1, <2>2 DEF NoBytes, Cleared
  <2>4. Classify(x) = "error"
    BY <2>3 DEF Classify, Timeouts
  <2> QED BY <2>2, <2>4 DEF Only
<1>2. IInv /\ [Next]_vars =>
        [(Read /\ link = "failed" /\ taken = body) => got'.kind = "error"]_vars
  BY <1>1
<1> QED BY <1>2, Invariant, PTL DEF Spec, FailureReported

----------------------------------------------------------------------------
(* The transport implements ByteStream. *)

\* A failed open() or a close() is a Disconnect.
LEMMA TeardownDisconnects ==
    ASSUME NEW result \in {"none", "failed"}, Teardown(result)
    PROVE  Bytes!Disconnect
BY DEF Teardown, Quiet0, Bytes!Disconnect, Only, Bytes!Only

\* open() that returns is a Connect.
LEMMA ReportConnects ==
    ASSUME IInv, Report, pc = "decide"
    PROVE  Bytes!Connect
<1>1. /\ pc' = "open" /\ got' = Only("open") /\ body' = 0 /\ link' = "live" /\ taken' = 0
  BY DEF Report, net, IInv, Counts
<1> QED BY <1>1 DEF Bytes!Connect, Only, Bytes!Only

\* What read() tells its caller is a result that the stream allows.
LEMMA ReadDelivers ==
    ASSUME IInv, Read
    PROVE  Bytes!Deliver \/ Bytes!Quiet \/ Bytes!Break \/ Bytes!End
<1>1. /\ pc = "open" /\ pc' = "open" /\ UNCHANGED <<body, link>>
      /\ body \in Nat /\ taken \in Nat /\ taken <= body
      /\ link \in {"live", "complete", "shut", "failed"}
  BY DEF Read, net, IInv, Counts, TypeOK
<1>2. CASE \E n \in 1 .. Least(ReadLen, body - taken) :
             /\ taken' = taken + n
             /\ got' = [kind |-> "data", bytes |-> [i \in 1 .. n |-> taken + i - 1]]
  <2>1. PICK n \in 1 .. Least(ReadLen, body - taken) :
             /\ taken' = taken + n
             /\ got' = [kind |-> "data", bytes |-> [i \in 1 .. n |-> taken + i - 1]]
    BY <1>2
  <2>2. n \in Nat /\ taken' \in taken + 1 .. body /\ taken' - taken = n
    BY <1>1, <2>1, EspAssumption DEF Least
  <2>3. got' = [kind |-> "data",
                bytes |-> [i \in 1 .. taken' - taken |-> taken + i - 1]]
    BY <2>1, <2>2
  <2> QED BY <1>1, <2>2, <2>3 DEF Bytes!Deliver
<1>3. CASE /\ taken = body /\ UNCHANGED taken
           /\ \E x \in NoBytes : got' = Only(Classify(x))
  <2>1. PICK x \in NoBytes : got' = Only(Classify(x))
    BY <1>3
  <2>2. Classify(x) \in {"timeout", "error"} \/ Classify(x) = Zero
    BY DEF Classify
  <2>3. Zero = "timeout" \/ (Zero = "eof" /\ link = "complete")
    BY DEF Zero
  <2>4. CASE got' = Only("timeout")
    BY <1>1, <1>3, <2>4 DEF Bytes!Quiet, Only, Bytes!Only
  <2>5. CASE got' = Only("error")
    BY <1>1, <1>3, <2>5 DEF Bytes!Break, Only, Bytes!Only
  <2>6. CASE got' = Only("eof") /\ link = "complete"
    BY <1>1, <1>3, <2>6 DEF Bytes!End, Only, Bytes!Only
  <2> HIDE DEF Zero
  <2>7. CASE Classify(x) = Zero
    BY <2>1, <2>3, <2>4, <2>6, <2>7
  <2> QED BY <2>1, <2>2, <2>4, <2>5, <2>7
<1> QED BY <1>2, <1>3 DEF Read

\* Every step of the transport is a step of the stream or none of its business.
LEMMA StepsAsStream ==
    ASSUME IInv, [Next]_vars
    PROVE  [Bytes!SNext]_(Bytes!svars)
<1> USE DEF Bytes!SNext
<1>1. CASE OpenBegins
  BY <1>1 DEF OpenBegins, Quiet0, Bytes!Disconnect, Only, Bytes!Only
<1>2. CASE RequestFails \/ Close
  BY <1>2, TeardownDisconnects DEF RequestFails, Close
<1>3. CASE \E r \in Responses : FetchHeaders(r)
  BY <1>3 DEF FetchHeaders, Bytes!svars
<1>4. CASE Decide
  <2>1. pc = "decide"
    BY <1>4 DEF Decide
  <2>2. CASE Report
    BY <2>1, <2>2, ReportConnects
  <2>3. CASE pc' = "request" /\ UNCHANGED <<taken, got>>
    BY <2>1, <2>3 DEF Bytes!svars
  <2> QED BY <1>4, <2>2, <2>3 DEF Decide
<1>5. CASE Server
  <2>1. /\ pc = "open" /\ pc' = "open" /\ link = "live" /\ UNCHANGED <<taken, got>>
        /\ body' \in {body, body + 1} /\ body \in Nat
    BY <1>5 DEF Server, IInv, Counts
  <2> QED BY <2>1 DEF Bytes!Peer
<1>6. CASE Read
  BY <1>6, ReadDelivers
<1>7. CASE UNCHANGED vars
  BY <1>7 DEF vars, net, Bytes!svars
<1> QED BY <1>1, <1>2, <1>3, <1>4, <1>5, <1>6, <1>7 DEF Next, Open

\* read() gives the client the body: in order, each byte once, and the end
\* after the last byte, however often it was quiet before.
THEOREM StreamIsKept == Spec => StreamKept
<1>1. Init => Bytes!SInit
  BY DEF Init, Bytes!SInit, Only, Bytes!Only
<1>2. IInv /\ [Next]_vars => [Bytes!SNext]_(Bytes!svars)
  BY StepsAsStream
<1> QED BY <1>1, <1>2, Invariant, PTL DEF Spec, StreamKept, Bytes!SSpec
=============================================================================
