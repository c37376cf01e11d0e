----------------------------- MODULE SSEParser -----------------------------
(***************************************************************************)
(* The byte-at-a-time event stream parser of src/src/sse_parser.c.         *)
(*                                                                         *)
(* p is struct sse_parser together with out, the callbacks of the current  *)
(* step in the order they are called.  Each operator below is one C        *)
(* function, from the struct before the call to the struct after it.       *)
(*                                                                         *)
(* Bytes are told apart only as far as the parser tells them apart.  A     *)
(* field name that fills the start of a line is one symbol, so that name   *)
(* and name_len become the symbol read so far; every other name, and every *)
(* name with a byte added to it, is "other".  UNKNOWN_FIELD, which the     *)
(* client ignores and which changes no state, is left out.                 *)
(*                                                                         *)
(* Definitions named Faulty_... are what a plausible slip in the code would *)
(* make of the definition after them; no specification uses them.          *)
(***************************************************************************)
EXTENDS Integers, Sequences

CONSTANTS DataBufLen, EventBufLen, IdBufLen,    \* sse_parser_buffers_t
          RetryMax,                             \* UINT32_MAX
          DigitValue,                           \* digit symbol |-> its value
          Letters                               \* other bytes without meaning

Digits  == DOMAIN DigitValue
Names   == {"data", "event", "id", "retry", "other"}
Bom     == <<"EF", "BB", "BF">>
Special == {"CR", "LF", "COLON", "SPACE", "NUL", "EF", "BB", "BF"}
Bytes   == Special \cup Letters \cup Digits \cup Names

\* sse_client_init() refuses buffers of fewer than 2 bytes.
ASSUME BufferAssumption ==
    /\ DataBufLen \in Nat /\ DataBufLen >= 2
    /\ EventBufLen \in Nat /\ EventBufLen >= 2
    /\ IdBufLen \in Nat /\ IdBufLen >= 2
    /\ RetryMax \in Nat /\ RetryMax >= 9
    /\ DigitValue \in [Digits -> 0 .. 9]

VARIABLE p

Modes  == {"BOM", "LINE_START", "FIELD_NAME", "AFTER_COLON", "VALUE", "SKIP_LINE"}
Fields == {"none", "data", "event", "id", "retry"}

\* sse_parser_init() and sse_parser_reset().
Fresh ==
    [state |-> "BOM", field |-> "none", swallow_lf |-> FALSE, bom_n |-> 0,
     name |-> "other", data |-> <<>>, data_lines |-> 0,
     block_discarded |-> FALSE, event |-> <<>>, has_event |-> FALSE,
     id |-> <<>>, has_id |-> FALSE, id_invalid |-> FALSE, retry_acc |-> 0,
     retry_seen_digit |-> FALSE, retry_invalid |-> FALSE, out |-> <<>>]

----------------------------------------------------------------------------
Emit(q, callback) == [q EXCEPT !.out = Append(@, callback)]

EmitPerr(q, e) == Emit(q, [cb |-> "on_error", err |-> e])

\* The data without its trailing newline, the event type or NULL.
TheEvent(q) ==
    [cb |-> "on_event", data |-> SubSeq(q.data, 1, Len(q.data) - 1),
     has_event |-> q.has_event, event |-> IF q.has_event THEN q.event ELSE <<>>]

Faulty_ClearBlock(q) ==                 \* block_discarded is not reset
    [q EXCEPT !.data = <<>>, !.data_lines = 0, !.event = <<>>,
              !.has_event = FALSE, !.id = <<>>, !.has_id = FALSE,
              !.id_invalid = FALSE]

\* What dispatch_block() leaves behind.
ClearBlock(q) ==
    [q EXCEPT !.data = <<>>, !.data_lines = 0, !.block_discarded = FALSE,
              !.event = <<>>, !.has_event = FALSE, !.id = <<>>,
              !.has_id = FALSE, !.id_invalid = FALSE]

DispatchBlock(q) ==
    LET withId    == IF q.has_id THEN Emit(q, [cb |-> "on_id", id |-> q.id]) ELSE q
        withEvent == IF ~ q.block_discarded /\ q.data_lines > 0
                     THEN Emit(withId, TheEvent(q)) ELSE withId
    IN  ClearBlock(withEvent)

StartValue(q) ==
    CASE q.field = "event" -> [q EXCEPT !.event = <<>>]
      [] q.field = "id"    -> [q EXCEPT !.id = <<>>, !.id_invalid = FALSE]
      [] q.field = "retry" -> [q EXCEPT !.retry_acc = 0, !.retry_seen_digit = FALSE,
                                        !.retry_invalid = FALSE]
      [] OTHER             -> q

\* The error fires once per block: the first cause wins.
DiscardBlock(q, e) ==
    IF q.block_discarded THEN q
    ELSE EmitPerr([q EXCEPT !.block_discarded = TRUE], e)

----------------------------------------------------------------------------
(* value_byte(), field by field. *)

Faulty_DataFull(q) == Len(q.data) > DataBufLen          \* off by one
DataFull(q)        == Len(q.data) = DataBufLen

DataByte(q, b) ==
    IF q.block_discarded THEN q
    ELSE IF DataFull(q) THEN DiscardBlock(q, "DATA_TOO_LARGE")
    ELSE [q EXCEPT !.data = Append(@, b)]

EventByte(q, b) ==
    IF q.block_discarded THEN q
    ELSE IF b = "NUL" THEN DiscardBlock(q, "EVENT_TYPE_INVALID")
    ELSE IF Len(q.event) + 1 >= EventBufLen
         THEN DiscardBlock(q, "EVENT_TYPE_TOO_LARGE")
    ELSE [q EXCEPT !.event = Append(@, b)]

IdByte(q, b) ==
    IF q.id_invalid THEN q
    ELSE IF b = "NUL" \/ Len(q.id) + 1 >= IdBufLen
         THEN EmitPerr([q EXCEPT !.id_invalid = TRUE], "ID_INVALID")
    ELSE [q EXCEPT !.id = Append(@, b)]

Faulty_Accumulate(acc, d) ==            \* the test forgets the new digit
    IF acc > RetryMax \div 10 THEN RetryMax ELSE acc * 10 + d

\* acc * 10 + d, tested for overflow before it is computed and clamped.
Accumulate(acc, d) ==
    IF acc > (RetryMax - d) \div 10 THEN RetryMax ELSE acc * 10 + d

RetryByte(q, b) ==
    IF q.retry_invalid THEN q
    ELSE IF b \notin Digits THEN [q EXCEPT !.retry_invalid = TRUE]
    ELSE [q EXCEPT !.retry_seen_digit = TRUE, !.retry_acc = Accumulate(@, DigitValue[b])]

ValueByte(q, b) ==
    CASE q.field = "data"  -> DataByte(q, b)
      [] q.field = "event" -> EventByte(q, b)
      [] q.field = "id"    -> IdByte(q, b)
      [] q.field = "retry" -> RetryByte(q, b)
      [] OTHER             -> q

----------------------------------------------------------------------------
(* commit_value(), field by field. *)

CommitData(q) ==
    IF q.block_discarded THEN q
    ELSE IF DataFull(q) THEN DiscardBlock(q, "DATA_TOO_LARGE")
    ELSE [q EXCEPT !.data = Append(@, "LF"), !.data_lines = @ + 1]

Faulty_CommitId(q) == [q EXCEPT !.has_id = TRUE]        \* validity ignored

Faulty_EarlyId(q) ==                    \* taken before the event is complete
    IF q.id_invalid THEN [q EXCEPT !.id = <<>>, !.has_id = FALSE]
    ELSE Emit(q, [cb |-> "on_id", id |-> q.id])

CommitId(q) ==
    IF q.id_invalid THEN [q EXCEPT !.id = <<>>, !.has_id = FALSE]
    ELSE [q EXCEPT !.has_id = TRUE]

CommitRetry(q) ==
    IF q.retry_invalid \/ ~ q.retry_seen_digit
    THEN EmitPerr(q, "INVALID_RETRY")
    ELSE Emit(q, [cb |-> "on_retry", ms |-> q.retry_acc])

CommitValue(q) ==
    LET committed ==
            CASE q.field = "data"  -> CommitData(q)
              [] q.field = "event" -> [q EXCEPT !.has_event = q.event # <<>>]
              [] q.field = "id"    -> CommitId(q)
              [] q.field = "retry" -> CommitRetry(q)
              [] OTHER             -> q
    IN  [committed EXCEPT !.field = "none"]

ResolveFieldName(q) ==
    IF q.name = "other"
    THEN [q EXCEPT !.field = "none", !.state = "SKIP_LINE"]
    ELSE [StartValue([q EXCEPT !.field = q.name]) EXCEPT !.state = "AFTER_COLON"]

\* A line without a colon is a field name with an empty value.
LineEnd(q) ==
    LET ended ==
            CASE q.state = "LINE_START" -> DispatchBlock(q)
              [] q.state = "FIELD_NAME" ->
                    LET r == ResolveFieldName(q)
                    IN  IF r.state = "AFTER_COLON" THEN CommitValue(r) ELSE r
              [] q.state \in {"AFTER_COLON", "VALUE"} -> CommitValue(q)
              [] OTHER -> q
    IN  [ended EXCEPT !.state = "LINE_START"]

----------------------------------------------------------------------------
(* process_byte(), and sse_parser_feed() as any number of such steps. *)

NameByte(q, b) ==
    IF b = "COLON" THEN ResolveFieldName(q)
    ELSE [q EXCEPT !.name = "other"]

\* A byte that ends no line, in the middle of a stream.
LineByte(q, b) ==
    CASE q.state = "LINE_START" ->
            IF b = "COLON" THEN [q EXCEPT !.state = "SKIP_LINE"]
            ELSE [q EXCEPT !.state = "FIELD_NAME",
                           !.name = IF b \in Names THEN b ELSE "other"]
      [] q.state = "FIELD_NAME" -> NameByte(q, b)
      [] q.state = "AFTER_COLON" ->
            LET r == [q EXCEPT !.state = "VALUE"]
            IN  IF b = "SPACE" THEN r ELSE ValueByte(r, b)
      [] q.state = "VALUE" -> ValueByte(q, b)
      [] OTHER -> q

\* The n bytes that looked like a byte order mark are ordinary bytes after
\* all: none ends a line, and together they start a name that is no field's.
ReplayBom(q, n) ==
    [q EXCEPT !.bom_n = 0, !.name = "other",
              !.state = IF n = 0 THEN "LINE_START" ELSE "FIELD_NAME"]

Faulty_EndsLine(q, b) == LineEnd(q)     \* every CR, LF ends a line

EndsLine(q, b) == [LineEnd(q) EXCEPT !.swallow_lf = (b = "CR")]

ProcessByte(q0, b) ==
    LET swallow == q0.swallow_lf /\ b = "LF"
        q       == [q0 EXCEPT !.swallow_lf = FALSE]
        inBom   == q.state = "BOM" /\ b = Bom[q.bom_n + 1]
        r       == IF q.state = "BOM" THEN ReplayBom(q, q.bom_n) ELSE q
    IN  IF swallow THEN q
        ELSE IF inBom
             THEN IF q.bom_n = 2
                  THEN [q EXCEPT !.bom_n = 0, !.state = "LINE_START"]
                  ELSE [q EXCEPT !.bom_n = @ + 1]
        ELSE IF b \in {"CR", "LF"} THEN EndsLine(r, b)
        ELSE LineByte(r, b)

\* A name symbol stands for a whole name, so it comes first on its line.
CanCome(b) ==
    b \in Names => \/ p.state = "LINE_START"
                   \/ p.state = "BOM" /\ p.bom_n = 0

Feed(b) == CanCome(b) /\ p' = ProcessByte([p EXCEPT !.out = <<>>], b)

\* sse_parser_reset(), for the next connection.
Reset == p' = Fresh

----------------------------------------------------------------------------

PInit == p = Fresh
PNext == Reset \/ \E b \in Bytes : Feed(b)
PSpec == PInit /\ [][PNext]_p

\* No byte is ever written or read outside the caller's buffers: the data, its
\* newlines and the terminator that replaces the last one fit data_buf, type
\* and id leave room for theirs, and when a blank line dispatches data there
\* is a trailing newline to strip.
BuffersSafe ==
    /\ Len(p.data) <= DataBufLen
    /\ Len(p.event) + 1 <= EventBufLen
    /\ Len(p.id) + 1 <= IdBufLen
    /\ p.data_lines <= Len(p.data)
    /\ (p.state = "LINE_START" /\ p.data_lines > 0 /\ ~ p.block_discarded)
          => p.data[Len(p.data)] = "LF"
    /\ p.retry_acc \in 0 .. RetryMax

=============================================================================
