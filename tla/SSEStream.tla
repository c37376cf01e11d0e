----------------------------- MODULE SSEStream -----------------------------
(***************************************************************************)
(* The client (SSEClient) and its parser (SSEParser) on the byte stream of *)
(* a server that numbers its events and resumes after Last-Event-ID.  In   *)
(* SSEClient the parser is a source of callbacks; here every callback      *)
(* comes from a byte that the server sent, and the connection may be lost  *)
(* between any two of them.                                                *)
(*                                                                         *)
(* Event k has the id of length k, and k data bytes unless it is in Big:   *)
(* then its data does not fit data_buf.                                    *)
(***************************************************************************)
EXTENDS SSEClient, SequencesExt

CONSTANTS
    DataBufLen, EventBufLen,
    RxBufLen,           \* rx_buf_len
    Events,             \* the server has events 1 .. Events
    Big                 \* those too large for the client

\* sse_client_init() refuses buffers of fewer than 2 bytes.
ASSUME StreamAssumption ==
    /\ RxBufLen \in Nat \ {0} /\ Events \in Nat /\ Big \subseteq 1 .. Events
    /\ DataBufLen \in Nat /\ DataBufLen >= 2
    /\ EventBufLen \in Nat /\ EventBufLen >= 2
    /\ Events < IdBufLen                        \* ids fit
    /\ \A k \in (1 .. Events) \ Big : k < DataBufLen

\* What this server and this parser do is among what SSEClient allows them.
ASSUME SourceAssumption ==
    /\ 1 .. Events \subseteq Ids /\ 1 \in RetryFields
    /\ RetryAfters # {}

VARIABLES
    p,                  \* struct sse_parser, see SSEParser
    wire,               \* what the parser has not seen of the connection
    chunk,              \* how many of them are in rx_buf
    \* history, read by the properties only
    current,            \* the event of the byte parsed last
    delivered,          \* numbers of the events passed to on_message
    reported            \* numbers of the events reported as lost

Parser == INSTANCE SSEParser WITH RetryMax <- UINT32_MAX, Letters <- {"a"},
                                  DigitValue <- [d \in {"1"} |-> 1]

stream == <<wire, chunk, current>>
told   == <<delivered, reported>>
xvars  == <<vars, p, stream, told>>

----------------------------------------------------------------------------
(* The server. *)

As(n) == [i \in 1 .. n |-> "a"]

DataLen(k) == IF k \in Big THEN DataBufLen + 1 ELSE k

Line(f, value) == <<f, "COLON">> \o value \o <<"LF">>

\* The last event comes with a retry field.
IdLine(k)    == Line("id", As(k))
DataLine(k)  == Line("data", As(DataLen(k)))
RetryLine(k) == IF k = Events THEN Line("retry", <<"1">>) ELSE <<>>

EventBytes(k) == IdLine(k) \o DataLine(k) \o RetryLine(k) \o <<"LF">>

\* Bytes s of event k, each with that number.
Numbered(k, s) == [i \in DOMAIN s |-> [byte |-> s[i], of |-> k]]

\* What the server sends of the events after k.
StreamAfter(k) ==
    FlattenSeq([e \in 1 .. Events - k |-> Numbered(k + e, EventBytes(k + e))])

----------------------------------------------------------------------------
(* The client's steps that touch the stream. *)

Faulty_ResetParser == UNCHANGED p   \* the parser goes on where it was

ResetParser == p' = Parser!Fresh

Connected ==
    /\ \E status \in Statuses, ct \in ContentTypes : OpenAccepted(status, ct)
    /\ ResetParser
    /\ wire' = StreamAfter(req_id) /\ chunk' = 0 /\ current' = 0
    /\ UNCHANGED told

\* rx_buf takes part of what the server sends.
Received ==
    /\ ReadData
    /\ wire # <<>>
    /\ chunk' \in {n \in 1 .. RxBufLen : n <= Len(wire)}
    /\ UNCHANGED <<p, wire, current, told>>

\* One byte of sse_parser_feed().
FeedByte ==
    /\ pc = "feed" /\ chunk > 0 /\ p.out = <<>>
    /\ Parser!Feed(Head(wire).byte)
    /\ current' = Head(wire).of
    /\ wire' = Tail(wire) /\ chunk' = chunk - 1
    /\ UNCHANGED <<vars, told>>

Losses == {"DATA_TOO_LARGE", "EVENT_TYPE_INVALID", "EVENT_TYPE_TOO_LARGE"}

\* The bridge for callback c; ID_INVALID and INVALID_RETRY go no further.
Bridged(c) ==
    \/ c.cb = "on_id" /\ BridgeOnId(Len(c.id)) /\ UNCHANGED told
    \/ c.cb = "on_retry" /\ BridgeOnRetry(c.ms) /\ UNCHANGED told
    \/ /\ c.cb = "on_event"
       /\ \E closes \in BOOLEAN : BridgeOnEvent(closes)
       /\ delivered' = Append(delivered, Len(c.data))
       /\ UNCHANGED reported
    \/ /\ c.cb = "on_error"
       /\ IF c.err \in Losses
          THEN /\ \E closes \in BOOLEAN : BridgeOnPerr(closes)
               /\ reported' = reported \cup {current}
          ELSE UNCHANGED <<vars, reported>>
       /\ UNCHANGED delivered

\* A callback of the parser, which does nothing once the client is closed.
ParserCalls ==
    /\ pc = "feed" /\ p.out # <<>>
    /\ p' = [p EXCEPT !.out = Tail(@)]
    /\ \/ Dispatching /\ Bridged(Head(p.out))
       \/ ~ Dispatching /\ UNCHANGED <<vars, told>>
    /\ UNCHANGED stream

FedAll ==
    /\ chunk = 0 /\ p.out = <<>>
    /\ FeedDone
    /\ UNCHANGED <<p, stream, told>>

\* Every other step of the client; the connection is lost at any byte.
Elsewhere ==
    /\ \/ Poll \/ Report \/ Close \/ RequestStop \/ Tick
       \/ OpenFails
       \/ \E status \in Statuses, ct \in ContentTypes, ra \in RetryAfters :
             OpenRefused(status, ct, ra)
       \/ ReadStopped \/ ReadTimedOut \/ ReadEnded
    /\ UNCHANGED <<p, stream, told>>

XInit ==
    /\ Init
    /\ p = Parser!Fresh /\ wire = <<>> /\ chunk = 0
    /\ current = 0 /\ delivered = <<>> /\ reported = {}

XNext == Connected \/ Received \/ FeedByte \/ ParserCalls \/ FedAll \/ Elsewhere

XSpec == XInit /\ [][XNext]_xvars

----------------------------------------------------------------------------
(* Properties. *)

\* Each event is delivered at most once and in the server's order, however
\* often the connection is lost between two bytes of it.
InOrderOnce ==
    \A i, j \in DOMAIN delivered : i < j => delivered[i] < delivered[j]

\* Nothing is lost: every event that a request resumes after was delivered,
\* or reported as too large.
NothingLost ==
    pc = "open" =>
        \A k \in 1 .. req_id :
            k \in reported \/ \E i \in DOMAIN delivered : delivered[i] = k

\* The parser's buffers are borrowed until the client reaches CLOSED: they are
\* not written after that.
BorrowedUntilClosed ==
    [][state = "CLOSED" =>
          ~ \/ Len(p'.data) > Len(p.data)
            \/ Len(p'.event) > Len(p.event)
            \/ Len(p'.id) > Len(p.id)]_xvars
=============================================================================
