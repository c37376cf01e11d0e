-------------------------- MODULE ParserReference --------------------------
(***************************************************************************)
(* What the parser's callbacks should be for a block of lines, said about  *)
(* whole lines instead of bytes: the event stream interpretation of the    *)
(* HTML standard, plus what the library adds for buffers of fixed size.    *)
(* SSEParser runs with a record of the lines it has been given since the   *)
(* last blank line and of the callbacks it has called for them.            *)
(***************************************************************************)
EXTENDS SSEParser, SequencesExt

CONSTANT Inputs     \* kinds of streams: the bytes fed, and bounds on a block

ASSUME InputAssumption ==
    Inputs \subseteq [bytes : SUBSET Bytes, max_line : Nat, max_lines : Nat]

VARIABLES input,    \* the kind of this stream
          line,     \* the current line as received
          block,    \* the complete lines of the current block
          said,     \* the callbacks called for the current block
          after_cr, \* the last byte was CR
          first,    \* no line has ended yet
          done      \* the block that the last step completed

rvars == <<p, input, line, block, said, after_cr, first, done>>

NoBlock == [lines |-> <<>>, said |-> <<>>]

----------------------------------------------------------------------------
(* The fields of a block. *)

FieldOf(l) == IF l[1] \in Names /\ (Len(l) = 1 \/ l[2] = "COLON") THEN l[1] ELSE "other"

ValueOf(l) ==
    LET v == SubSeq(l, 3, Len(l))
    IN  IF v # <<>> /\ v[1] = "SPACE" THEN Tail(v) ELSE v

LinesOf(lines, f) == {i \in DOMAIN lines : FieldOf(lines[i]) = f}

HasNul(v, upTo) == \E k \in DOMAIN v : k <= upTo /\ v[k] = "NUL"

\* The data fields of the first n lines, each followed by a newline.
DataOf(l) == IF FieldOf(l) = "data" THEN Append(ValueOf(l), "LF") ELSE <<>>
DataUpTo(lines, n) == FlattenSeq([i \in 1 .. n |-> DataOf(lines[i])])

\* The lines that make a block undeliverable, and why.
TooMuchData(lines) ==
    {i \in LinesOf(lines, "data") : Len(DataUpTo(lines, i)) > DataBufLen}
BadEventTypes(lines) ==
    {i \in LinesOf(lines, "event") :
        LET v == ValueOf(lines[i])
        IN  HasNul(v, Len(v)) \/ Len(v) >= EventBufLen}
Causes(lines) == TooMuchData(lines) \cup BadEventTypes(lines)
CauseAt(lines, i) ==
    IF i \in TooMuchData(lines) THEN "DATA_TOO_LARGE"
    ELSE IF HasNul(ValueOf(lines[i]), EventBufLen) THEN "EVENT_TYPE_INVALID"
    ELSE "EVENT_TYPE_TOO_LARGE"

BadId(v) == HasNul(v, Len(v)) \/ Len(v) >= IdBufLen

Number(v) ==
    LET value[i \in 0 .. Len(v)] ==
            IF i = 0 THEN 0 ELSE value[i - 1] * 10 + DigitValue[v[i]]
    IN  value[Len(v)]

Err(e) == <<[cb |-> "on_error", err |-> e]>>

RetryCallback(v) ==
    IF v = <<>> \/ \E k \in DOMAIN v : v[k] \notin Digits THEN Err("INVALID_RETRY")
    ELSE <<[cb |-> "on_retry",
            ms |-> IF Number(v) > RetryMax THEN RetryMax ELSE Number(v)]>>

\* The callbacks of one line: only the first cause of a loss is reported.
LineCallbacks(lines, i) ==
    LET f == FieldOf(lines[i])
        v == ValueOf(lines[i])
    IN  CASE f = "retry" -> RetryCallback(v)
          [] f = "id" /\ BadId(v) -> Err("ID_INVALID")
          [] i \in Causes(lines) /\ \A j \in Causes(lines) : i <= j ->
                Err(CauseAt(lines, i))
          [] OTHER -> <<>>

\* The id of the block is that of its last id field, if that one is valid.
IdCallback(lines) ==
    LET ids == LinesOf(lines, "id")
        v   == ValueOf(lines[Max(ids)])
    IN  IF ids = {} THEN <<>>
        ELSE IF BadId(v) THEN <<>>
        ELSE <<[cb |-> "on_id", id |-> v]>>

EventCallback(lines) ==
    LET types == LinesOf(lines, "event")
        type  == IF types = {} THEN <<>> ELSE ValueOf(lines[Max(types)])
    IN  IF LinesOf(lines, "data") = {} \/ Causes(lines) # {} THEN <<>>
        ELSE <<[cb |-> "on_event", data |-> Front(DataUpTo(lines, Len(lines))),
                has_event |-> type # <<>>, event |-> type]>>

RefCallbacks(lines) ==
    FlattenSeq([i \in DOMAIN lines |-> LineCallbacks(lines, i)])
        \o IdCallback(lines) \o EventCallback(lines)

----------------------------------------------------------------------------
(* Recording. *)

WithoutBom(l) ==
    IF first /\ Len(l) >= 3 /\ SubSeq(l, 1, 3) = Bom THEN SubSeq(l, 4, Len(l)) ELSE l

\* A line that is a comment or no known field, whatever else it holds, is
\* recorded as just "other", and not kept in the block.
Ignored(l) ==
    /\ l # <<>>
    /\ \/ l[1] \notin Names \ {"other"}
       \/ Len(l) > 1 /\ l[2] # "COLON"
    /\ ~ (first /\ IsPrefix(l, Bom))

\* Recording what a byte adds; LF after CR is the rest of a line end.
Record(b) ==
    /\ after_cr' = (b = "CR")
    /\ CASE b = "LF" /\ after_cr ->
              /\ said' = said \o p'.out
              /\ done' = NoBlock
              /\ UNCHANGED <<line, block, first>>
         [] b \notin {"CR", "LF"} ->
              /\ LET l == Append(line, b)
                 IN  IF Ignored(WithoutBom(l)) THEN line' = <<"other">>
                     ELSE Len(line) < input.max_line /\ line' = l
              /\ said' = said \o p'.out
              /\ done' = NoBlock
              /\ UNCHANGED <<block, first>>
         [] OTHER ->
              /\ line' = <<>> /\ first' = FALSE
              /\ IF WithoutBom(line) = <<>>
                 THEN /\ done' = [lines |-> block, said |-> said \o p'.out]
                      /\ block' = <<>> /\ said' = <<>>
                 ELSE /\ Len(block) < input.max_lines
                      /\ block' = IF Ignored(WithoutBom(line)) THEN block
                                  ELSE Append(block, WithoutBom(line))
                      /\ said' = said \o p'.out
                      /\ done' = NoBlock

RInit ==
    /\ PInit /\ input \in Inputs
    /\ line = <<>> /\ block = <<>> /\ said = <<>> /\ after_cr = FALSE
    /\ first = TRUE /\ done = NoBlock

RFeed(b) == Feed(b) /\ Record(b)

\* The connection is lost in the middle of a block, and the next one begins.
RReset ==
    /\ Reset
    /\ line' = <<>> /\ block' = <<>> /\ said' = <<>> /\ after_cr' = FALSE
    /\ first' = TRUE /\ done' = NoBlock

RNext == UNCHANGED input /\ (RReset \/ \E b \in input.bytes : RFeed(b))
RSpec == RInit /\ [][RNext]_rvars

----------------------------------------------------------------------------
(* Properties. *)

\* For every block, wherever its bytes were cut and whatever came before it,
\* the parser calls exactly the callbacks the line-by-line reading gives.
BlockMatchesReference == done.said = RefCallbacks(done.lines)

\* No event is lost in silence: a block with data ends in its event or in
\* exactly one report of the loss, never both and never neither.
Delivered(c) == c.cb = "on_event"
Lost(c) == c.cb = "on_error" /\ c.err \in {"DATA_TOO_LARGE", "EVENT_TYPE_INVALID",
                                           "EVENT_TYPE_TOO_LARGE"}
NoSilentLoss ==
    LinesOf(done.lines, "data") # {} =>
        LET answers == {i \in DOMAIN done.said :
                            Delivered(done.said[i]) \/ Lost(done.said[i])}
        IN  \E i \in answers : answers = {i}
=============================================================================
