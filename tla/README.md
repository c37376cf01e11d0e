# Formal model of eventsource-c

TLA+ modules, TLC configurations and TLAPS proofs about the Server-Sent Events client in
`src/`. The program is a small C library: a connection state machine driven by polling
(`src/src/sse_client.c`), a byte-at-a-time parser (`src/src/sse_parser.c`), a transport
interface with two implementations (libcurl, ESP-IDF) and a task wrapper.

## Inventory

| Component | State | Operations | Hard behaviour |
|---|---|---|---|
| Client (`sse_client.c`) | `state`, `stop_requested`, `transport_open`, `attempts`, `base_retry_ms`, `retry_deadline`, `last_rx_ms`, `last_event_id` | `init`, `poll`, `close`, `request_stop`, four parser bridges | callbacks that close the client inside `poll`; a stop flag raised by another task at any instant; 32-bit clock wrap; backoff, jitter, clamp; idle detection |
| Parser (`sse_parser.c`) | mode, current field, CR/BOM memory, the block being collected, discard flags, three caller buffers | `init`, `feed`, `reset` | input cut between any two bytes; buffers at their limits; one field of a block failing |
| Transport interface (`sse_transport.h`) | none | `open`, `read`, `close` | blocks for a timeout; may fail at any call |
| curl transport (`ports/posix/sse_transport_curl.c`) | ring buffer, pause flag, header-block status, transfer result | `open` (with redirects), `read`, `close`, libcurl callbacks | pause and resume of a transfer, redirect chains, wall-clock budgets |
| POSIX clock | none | `now_ms` | wraps every 49.7 days |
| ESP-IDF transport (`ports/esp-idf/sse_transport_esp.c`) | handle, captured headers, URL, configured timeout | `open`, `read`, `close` | timeout, EOF and error are reported in overlapping ways |
| ESP-IDF task (`ports/esp-idf/sse_client_task.c`) | none | the poll loop | response time to a stop request |
| Examples, tests, fuzzer, tools, CI | – | – | not part of the running system |

Interaction: the application calls `poll`; `poll` calls the transport, feeds what it read to
the parser, the parser calls the bridges, the bridges call the application's callbacks, and
those may call `sse_client_close()`. Only `sse_client_request_stop()` may come from another
task. What makes each part correct:

* client: callbacks come in the documented order and `on_closed` is last and single; a closed
  client stays closed; no connection is leaked; a stop is obeyed; reconnects are neither
  early nor lost; the request resumes from the last committed id; silence is detected.
* parser: for every cut of the bytes, the callbacks of a block are those of its lines; nothing
  is written outside the buffers; no event disappears without a report.
* transports: the bytes read are the bytes received, in order; end of stream only after
  them; the response reported is the last of a redirect chain; no stall.

## Modules

| Module | What it is |
|---|---|
| `SSEClient` | the client; `poll` cut into steps where something outside it runs |
| `ClientContract` | abstract: the order of callbacks an application is promised |
| `PollTask` | the ESP-IDF task around the client: extends `SSEClient` |
| `SSEParser` | the parser; one operator per C function, on `struct sse_parser` |
| `ParserReference` | the same stream read line by line, as reference, with a recording of what the parser was given and what it called |
| `SSEStream` | composes `SSEClient` and `SSEParser` on the bytes of a server that numbers its events and resumes |
| `ByteStream` | abstract: what the interface promises of a transport's `read` |
| `CurlTransport`, `EspTransport` | the two transports; each implements `ByteStream` |
| `MC…` | constants for TLC |
| `…Proofs` | theorems about the module they are named after |
| `FoldTheorems` | what those proofs need about recursion over the natural numbers and `FlattenSeq` |

```
ClientContract <--implements-- SSEClient <--extends and implements-- PollTask
ParserReference --extends--> SSEParser
SSEStream --composes--> SSEClient, SSEParser; --implements--> SSEClient
ByteStream <--implements-- CurlTransport, EspTransport
```

In `SSEClient` the transport and the parser are sources of any result the interfaces allow, so
what is shown of the client holds over either transport. `SSEStream` replaces the parser's
side by the parser itself; `PollTask` the application's side by the task.

Definitions named `Faulty_X` are plausible slips in the code modelled by `X`. No
specification uses them. Putting one in the place of its original must break the property
that `PROJECT.json` pairs with it ("mutants"): it shows that the property notices.

### SSEClient

`pc` says where the polling task is: outside `poll` (`app`), blocked in the transport (`open`,
`read`), inside `sse_parser_feed()` between two bridges (`feed`), or about to call a callback
(`on_open`, `hook`, `err_stop`, `err_retry`); `stop` is the point between the last `on_error`
and `to_closed()`. At each of these points another task may raise the stop flag
(`RequestStop`) and time may pass (`Tick`). Everything between two points is one action, since
nothing else can observe or change the client there.

* `PollStopped` … `PollRead`: `poll` up to its first blocking call. `OpenFails`,
  `OpenRefused`, `OpenAccepted`, `OnOpen`: the rest of `do_connect()`. `ReadStopped`,
  `ReadData`, `ReadTimedOut`, `ReadOversize`, `ReadEnded`: what `poll` does with each result
  of `read`.
* `FailConn`, `Hook`, `Settle`, `ErrStop`, `Stop`, `ErrRetry`: `fail_conn()`, cut at the policy
  hook and at `on_error`. The 64-bit delay arithmetic is exact (`RawDelay`, `Jittered`,
  `Clamp`); the deadline is 32-bit (`AddU`, `SubU`, `AsSigned`).
* `BridgeOn…`: the four bridges, in any number and order, as the parser may call them. A
  callback is one step with a choice `closes`: whether it calls `sse_client_close()`. A
  callback absent from `Installed` is NULL.
* `err` records the arguments and result of the latest `fail_conn()` and is cleared by the
  next connection attempt. The variables under "history" are read only by the properties
  (and, for `dwell`, by `Tick`).

Abstractions. An id is its length; 0 means the header is not sent. A Content-Type is one of four classes.
The PRNG is any residue modulo `jitter_pct + 1`. `attempts` saturates at `AttemptsCap`, above
the shift limit; its wrap after 2^32 consecutive failures is not modelled. Request headers other than
`Last-Event-ID` never change and are left out. Reports of dropped fields that do not reach the
application change nothing and are left out.

The clock has `2 * Half` values and the program's `Half` is 2^31. Nothing in the model depends on
the value: TLC uses `Half` 2 to 8, so that deadlines beyond the wrap, Retry-After values past
the clamp and differences at the sign boundary all occur in a few ticks; the proofs are for
every `Half > 1`, 2^31 included.

### PollTask

The loop of `sse_client_task.c`: `TaskPoll` begins an invocation of `poll`, `InPoll(step)` is a
client step inside it and, when that step returns from `poll`, what the loop does with the hint
(`Returned`). A hint is cut to `DelayCap` (250 ms) and rounded down to whole ticks (`DelayFor`), and
`vTaskDelay` ends at a tick that may come up to one period early (`Wake`). `CloseBefore` is an
application that closes its client before the task exists. `stop_age` measures the time since
the stop flag went up.

### SSEParser and ParserReference

`p` is the struct plus `out`, the callbacks of the current byte. Field names are one symbol
each (`data`, `event`, `id`, `retry`, `other`): the parser compares whole names, and a name with any
byte before or after it is another name. All other bytes are themselves, as far as the parser
distinguishes them. Buffers have the lengths given as constants; `RetryMax` plays UINT32_MAX.

`sse_parser_feed()` is a loop over bytes with no state of its own, so feeding byte by byte
covers every way of cutting the stream into chunks. `ParserReference` collects the lines of the
block as received, and `RefCallbacks` says what they mean: the event-stream interpretation
of the HTML standard plus the rules for buffers of fixed size. `RReset` is a connection
lost at any byte, followed by a new one. `Inputs` are kinds of streams, each with its own alphabet
and bounds; one run covers all of them.

### SSEStream

Event `k` is an id line, a data line, for the last event a `retry:` line (`IdLine`, `DataLine`,
`RetryLine`), and a blank line. Its id has length `k`; its data has `k` bytes, or one more than fit if it is
in `Big`. A connection accepted with `Last-Event-ID` `k` sends events `k + 1` on
(`StreamAfter`). Each step of the client that touches the stream is joined with what it does
there: `Connected` with `sse_parser_reset()`, `Received` with `rx_buf`, `FeedByte` and `ParserCalls`
with the parser and its bridges. Every other step leaves the stream alone, so that a read
error, an EOF or a stop cuts it between any two bytes. A chunk is at most `RxBufLen` bytes.
`SourceAssumption` says that the ids and the retry field this server sends are among those
`SSEClient` is given; with it, the composition implements `SSEClient` (`StreamIsClient`).

### CurlTransport

libcurl runs only inside `curl_multi_perform()` and `curl_easy_pause()`, so there is one thread and
`pc` says where it is: `wait` and `drain` are the heads of the two loops of `open()`, `…_pump`
is inside `pump()`, `resuming` inside the `curl_easy_pause()` that ends `read()`. While it is inside,
libcurl may deliver a status line, a Retry-After line, the end of a header block or of the transfer, or a
chunk. `ring`, `r_head` and `r_len` are the ring with its bytes, numbered in the order the
server sent them. `paused` is the program's flag, `stopped` libcurl's own state and `held` the
chunk that `on_body` refused, which libcurl offers again when resumed, possibly within
`curl_easy_pause()`, where it may be refused again. That a chunk is never larger than the ring
(`PeerAssumption`) is libcurl's CURL_MAX_WRITE_SIZE of 16 KiB against the ring's own size.

`open()` is the loop of wait, drain and next hop. A hop's budget is counted per loop, as in the
code: `waited` starts again for the drain, so a hop may take two budgets (`OpenBounded`). A Location
is a URL as CURLINFO_REDIRECT_URL gives it, absolute; origins compare scheme, host and port with
defaults filled in.

### EspTransport

`esp_http_client` is external: `handle_tmo`, `at`, `body`, `link` and `errno` are what the
program can tell of it. `FetchHeaders` runs `on_http_event()` for the headers a response has: an absent
header leaves the captured value of an earlier one, which is why the code resets between hops.
A URL is a record of scheme, host and port as spelled; `OriginOf` is `origin_of()`. `Location`
headers have a kind (absolute, `//host`, path, other relative, none). `Resolve` is where
`esp_http_client_set_redirection()` would lead. `NoBytes` lists what `esp_http_client_read()` may answer
when there is nothing to read, and `Classify` is how the code takes it. `strtol()` saturates at
a `long` of 32 bits.

## Runs

| Run | Question | Bounds |
|---|---|---|
| `client_safety` | all control paths, all callbacks installed, each may close | 8 clock values starting 2 before the wrap; 5 statuses (stream, stop, final, two retried); Retry-After absent, 0, 1 and past the clamp; 2 ids incl. the longest; idle timeout off |
| `client_timing` | deadlines, jitter, clamp, idle timeout over the wrap | 10 clock values starting 2 before the wrap; a `retry:` field of 0 and of UINT32_MAX; open and callbacks take up to 1 ms, the application wakes up to 1 ms late |
| `poll_task` | the task: stop latency, end, punctuality, and the client's liveness under it | 16 clock values starting 7 before the wrap; a retry delay of 7 ms against a cap of 2 and a tick of 2, so that delays are cut, rounded and repeated; blocking calls of 2 ms; idle timeout 3 |
| `parser` | every callback of every block against the reference | fields at and past limits of 2 or 3 bytes in lines of 4 symbols, 3 lines per block; CR, LF, CRLF and BOM in lines of 5 symbols, 2 lines; retry numbers up to and past a maximum of 25; any number of blocks and reconnects |
| `stream_resume` | delivery across reconnects | 3 events, the second too large; chunks of up to 8 bytes, so that one chunk spans events and an event spans chunks; any number of reconnects |
| `curl` | ring, pause, redirects, budgets | ring 4, reads of 3, chunks of up to 4, bodies of 8: the ring wraps, refuses, and refuses again while resuming (which needs a chunk over 3 with 1 byte left); 2 hops; 5 kinds of location; statuses 103, 200, 302, 503 |
| `esp` | redirects, captured headers, read results | 12 Locations: spellings of the origin, other origins, malformed ones, each relative kind; 2 hops; with and without each header; a read timeout past the largest int; several connections |
| `idle_hint`, `first_connect`, `redirect_retry`, `retry_after_cast`, `borrowed_buffers` | divergences, below | as small as shows them |

The passing runs establish, on these instances:

* `FinalSignal`, `ClosedIsFinal`, `SameInvocation`, `ContractKept`: whoever closes the client and
  wherever (a callback in the middle of a chunk, the hook that then answers true, `on_error` of a
  final failure, the stop flag), `on_closed` comes once and last, nothing resurrects the client or
  changes what it would resume from, and the `poll` in progress already returns UINT32_MAX.
* `NoTransportLeak`, `StopHonoured`, `ReconnectCounted`, `ResumesFromLastId`.
* `NoEarlyReconnect`, `PunctualReconnect`, `NoOversleep`: a reconnect starts no earlier than
  announced and is noticed before the signed difference wraps back. `NoOversleep` holds with
  the idle timeout off, see `idle_hint`.
* `IdleIsReal`, `SilenceBounded`: an idle timeout means real silence, and silence on an open
  connection is bounded by the timeout plus one sleep and the time of two reads.
* `StopLatency`, `TaskEndsClosed`, `TaskPunctual`, `TaskStops`: a stop request ends the task
  within one blocking call, its callbacks and one capped delay; the task never abandons a live
  client; cutting delays into pieces misses no reconnect. `RetryConnects` and
  `DeadConnectionLeft` are the client's own liveness.
* `BlockMatchesReference`, `NoSilentLoss`, `BuffersSafe` for the parser.
* `InOrderOnce`, `NothingLost`: wherever connections are cut, every event is delivered once and in
  order, or reported; a too-large event is reported and skipped, not fetched for ever.
* `StreamKept`, `PauseKnown`, `AllDelivered` for curl: bytes in order and once, EOF only after the last
  one, no transfer left paused. `ReportsFinalResponse`, `OriginKept`, `OpenBounded`,
  `OpenReturns`: what `open()` reports, where it goes and that it comes back.
* `StreamKept`, `FailureReported`, `ReadTimeoutApplied`, `ReportsFinalResponse`, `OriginKept`,
  `OpenReturns` for ESP-IDF: quiet is not the end, failure is not quiet, and nothing remembered
  from an earlier read, hop or handle is used for a later one.

Deadlock is checked except in `poll_task` (the task ends), `stream_resume` and
`borrowed_buffers` (with time bounded to nothing, a closed client has no step left).

Fairness. `TaskSpec`: weak fairness on the task's steps, since it runs until the client is
CLOSED, `open` and `read` take timeouts, a chunk is finite and callbacks are expected to return.
Strong fairness on `TaskTick`: time passes, though the task's steps switch it off for moments.
None on what the server sends, on callbacks closing the client or on stop requests.
`CurlTransport`: weak fairness on the program's own steps; strong fairness on `pump()` using up its
time, since `curl_multi_wait()` waits when there is nothing to do, and on libcurl offering a refused
chunk again, which is what its documentation promises of `CURLPAUSE_CONT`. `EspTransport`: `esp_http_client`'s calls
return within their timeout. `DeadConnectionLeft` is vacuous without an idle timeout, which is the code's own
default: a peer that vanishes is then never noticed by the client.

## Divergences between documentation and code

With a run:

* `idle_hint`: after an idle timeout `poll` returns `read_timeout_ms` (`sse_client.c:311`), not 0 as
  after every other failure, so the hint can exceed the time to the scheduled reconnect.
* `first_connect`: `reconnect_count` is the number of failures since the last event, so it is not 0
  on a first connect preceded by failed attempts.
* `redirect_retry`: a surfaced 3xx with Retry-After is retried; the README lists only 4xx.
* `retry_after_cast`: a Retry-After of 2^31 or more is cast to `int32_t` after its sign was tested.
* `borrowed_buffers`: after a callback closes the client, the parser stores the rest of the chunk in
  buffers that were to be the caller's again.

Met while modelling, without a run:

* With `read_timeout_ms = UINT32_MAX`, which `init` accepts, a read timeout returns the value
  that means CLOSED. The theorems that need it assume `SentinelFree`.
* curl's `open()` gives each hop its budget twice, once for the headers and once for the redirect's body.
* The ESP transport surfaces relative references without a leading slash and `//host`, which
  curl resolves and follows.
* An invalid `id:` also erases an earlier valid one of the same block.

## Proofs

Every theorem is for all values of the constants that the modules' assumptions allow.

| Module | Proves | By |
|---|---|---|
| `SSEClientProofs` | `TypeOK`, `FinalSignal`, `NoTransportLeak`, `StopHonoured`, `ReconnectCounted`, `ResumesFromLastId`, `NoEarlyReconnect`, `ClosedIsFinal` | `SafetyInv` |
| | `ContractKept` (`SSEClient` implements `ClientContract`), `SameInvocation` | `SafetyInv` and one case per action |
| | `IdleIsReal`, `SilenceBounded`, `PunctualReconnect`, `NoOversleep` | `BaseInv` and a bound for each point of the loop |
| `PollTaskProofs` | `PollTask` implements `SSEClient`, so `ContractKept`, `ClosedIsFinal`, `IdleIsReal`, `NoEarlyReconnect` hold under the task; `TaskEndsClosed`, `StopLatency`, `TaskPunctual` | `DelayInv`, `LatencyInv`, `TaskLateInv` |
| `SSEParserProofs` | `BuffersSafe` | `Good` |
| `ParserReferenceProofs` | `BlockMatchesReference`, `NoSilentLoss` | `RInv` |
| `SSEStreamProofs` | `SSEStream` implements `SSEClient`, `InOrderOnce`, `NothingLost`, the parser's `BuffersSafe` inside the client | `XInv`, `Good` |
| `CurlTransportProofs` | `TypeOK`, `StreamKept` (implements `ByteStream`), `PauseKnown`, `OriginKept`, `ReportsFinalResponse`, `OpenBounded` | `IInv` |
| `EspTransportProofs` | `TypeOK`, `StreamKept` (implements `ByteStream`), `OriginKept`, `ReportsFinalResponse`, `ReadTimeoutApplied`, `FailureReported` | `IInv` |

**The client.** Assumptions: `WidthAssumption`, `ConfigAssumption` (what `sse_client_init()` accepts),
`EnvironmentAssumption` (what the C types of the transport and parser interfaces allow), and
`ShiftAssumption`, that 2^n is a positive integer for the shifts used: the provers do not know
exponentiation; TLC evaluates it in every run. `TypeOK` is inductive alone: the lemmas
`DelayBounds` and `ClockClosed` say that the clamp brings every delay into int32_t and that
`AddU` stays on the clock. The others are not. `SafetyInv` adds

* `ControlInv`: which `state` goes with which `pc`, e.g. `err_retry` only in WAITING_RETRY;
  without it `FinalSignal` fails for an `on_error` reported by a closed client;
* `DeadlineInv`: while waiting, `retry_deadline` is `now + delay - age` on the clock for as long as
  `age` is below the delay, which is at most INT32_MAX. From this the signed remainder
  is positive until the delay has passed (`SignedRemainder`), across the wrap: the heart of
  `NoEarlyReconnect`. `TickDistance` is its preservation by a tick;
* `CountInv`: after a first connection, `attempts > 0` wherever `on_open` can come next;
* `ResumeInv`: `last_event_id = parser_id`, which needs the bound on `id_buf_len` that `init` checks.

Each step lemma (`SettleEffect`, `FailConnEffect`, `CallbackEffect`, `ToClosedEffect`) says once what a shared
piece of C does; `CoreStep` then has one case per action.

**The contract.** The mapping takes `phase` from `state`, `transport_open` and `pc`, and `owed` from the
points where a failure still has to be put to `reconnect_policy` or reported. A step maps to a
callback of the contract or to a stutter. The theorem is for every set of installed callbacks: the
contract takes the turn of a missing callback in silence, and where `on_closed` is missing lets the
callback that closed the client be the last. `PolicyInstalled` (the client is at `hook` only with a policy
installed) is all that `SafetyInv` lacks for it. `SameInvocation` assumes `SentinelFree`.

**Timing.** `StepKinds` sorts the client's steps by what they do to its clocks; each invariant then has
one case per kind. `BaseInv` adds that the task stays in its budget and that `now - last_rx_ms` on the
clock is the real silence while that fits. `QuietInv`, `LateInv` and `SleepInv` bound silence, lateness
and sleep at each point of the loop, `PastInv` extends `DeadlineInv` to deadlines that have passed. The
assumptions are what 32 bits can tell: `SilenceFits` (idle timeout plus slack below 2^32 ms),
`LatenessFits` (the application is less than 2^31 ms late); `NoOversleep` needs the
idle timeout off, as `idle_hint` shows.

**The task.** `TaskStepOfClient`: each step of the task is a step of the client, a millisecond or
neither, so `SafetyInv` carries over. `LatencyInv` bounds `stop_age` by what may have passed when the task
reaches each point (`Before`) plus its stay there (`dwell`): it is inductive since a raised flag lets
no second blocking call begin, which is `StopHonoured` again. `TaskLateInv` is `LateInv` for the task: what is left
of a hint that is slept in pieces counts as passed in advance, and rounding down to ticks
only shortens it. `TaskLatenessFits` (a lateness below 2^31 ms) is its only assumption on sizes.
`TaskIsClient` is the refinement: `DelayInv` says that the delay under way was cut from the last hint,
so that a ms passes for the task only within the
budget `SSEClient` gives its application. Every theorem about `Spec` is then one about `TaskSpec`;
`TaskKeepsPromises` names the ones an application would ask for.

**The parser.** `Good` says that contents fit with room for the terminator, that a committed data line
ends in a newline (`finish_event` drops the last one), and in which modes a value is being read.
Each function has a lemma; `Untouched` carries `Good` over whatever a function leaves alone.

**The parser against its reference.** `RInv` relates the struct to the recording: the fields that collect a
block hold what `RefCallbacks` would make of the lines so far (data is the values of its data lines,
each with a newline, for as long as they fit; the id is the last valid one; and so on), and the rest of
the struct holds what the line begun makes of them. A byte inside a line extends that part (one
`…Reads` lemma per C function), the end of a line turns it into one more line of the block, and a
blank line then calls what the reference lists. `NoSilentLoss` is the same invariant read for the
loss reports. The reference folds over lines (`FlattenSeq`) and digits (a recursive function).
The library's induction theorem takes a predicate, which the provers cannot instantiate;
`FoldTheorems` derives induction for a set in its place from the well-founded order of the natural numbers
(`Induction`), from it the existence of recursively defined functions (`Recursion`), and from that
what `FlattenSeq` does to a sequence with one more element at either end.

**The stream.** `XInv` has three parts. `StreamInv`: while the client is OPEN, the bytes left are those of a
certain place in an event `k` followed by the events after it, and the struct holds what came before
(`AtIdName`, `AtId`, …, `AtBlank`, then `AfterEvent` while the callbacks of the blank line are called one
by one). `HistoryInv`: the events answered for, delivered or reported, are exactly those up to
`last_event_id`, or up to the one before it between an `on_id` and its `on_event`, which is the only
moment at which an event is committed and not delivered; nothing can cut the connection then,
since `feed` runs to its end. `BytesInv`: the chunk is part of what is left. Each place has one lemma
for the byte that comes next there; steps away from the stream keep the id. `StreamIsClient` is
shown with it: a callback that a byte causes is one that `SSEClient` allows, so `SafetyInv` and every other theorem
about `SSEClient` hold here too, with the parser's own callbacks. The number and size of events,
the set `Big`, the buffers and the length of chunks are arbitrary. `StreamBuffersSafe` carries the
parser's `Good` into the composition (`PP` instantiates the parser's proofs): in `PSpec` the callbacks of a
byte are dropped at the next one, here they wait while the client works through them, and bytes are
parsed on after a callback has closed the client. It assumes `WideEnough`, that `UINT32_MAX` holds a digit.

**The transports.** curl's `IInv`: `Phases` (what the flags say of the connection), `Flow` (every byte is
taken, in the ring or held by libcurl), `InOrder` (the ring holds the next bytes, modulo its size),
`Captured` and `Timing`. Copying out of and into a ring that wraps is `SlotValue` and its companions.
Assumptions: `RingAssumption`, `PeerAssumption`. ESP-IDF's `IInv`: what is captured, cached and remembered at
each `pc`, of which request it is. `ByteStream` is then implemented step by step, under `IInv`.

Only model-checked: the liveness properties (`TaskStops`, `RetryConnects`, `DeadConnectionLeft`,
`OpenReturns`, `AllDelivered`), since temporal reasoning under fairness is out of the prover's
reach. Every safety and action property of a passing run is a theorem.

## Not modelled

* Examples, tests, mock transport, fuzzer, fixture server and release tooling: not part of the
  running system. The examples' poll loops are that of `PollTask` or of `SSEClient`'s application.
* libcurl and `esp_http_client` themselves: what they may answer is modelled from how the code uses
  them, and marked external.
* curl: Content-Type, which is passed on unread; chunk trailers, which `on_header` would take for a
  header block; the cast of a `read_timeout_ms` above 2^31 to a negative `int` (what a negative timeout
  does is libcurl's business).
* ESP-IDF: URLs and headers longer than the context's arrays, except hosts; a failed
  `xTaskCreate()`, after which nothing runs.
* The client: request headers other than `Last-Event-ID`, which never change; the wrap of
  `attempts` after 2^32 failures; the UNKNOWN_FIELD report, which changes nothing.
* The non-atomic fallback of the stop flag (`SSE_CLIENT_ALLOW_NONATOMIC_STOP`), a build the
  header itself describes as weaker; the flag is atomic here.

## Plan

1. Header truncation and chunk trailers in the two transports.
2. A stream with several data lines, comments and event types per event in `SSEStream`, by way of
   `RInv` in place of one lemma for each place in an event.
