-------------------------- MODULE SSEParserProofs --------------------------
(***************************************************************************)
(* The parser never leaves its caller's buffers, whatever their sizes and  *)
(* whatever bytes a server sends.  Good(q) is the invariant of struct      *)
(* sse_parser; each function of the source keeps it.                       *)
(***************************************************************************)
EXTENDS SSEParser, SequenceTheorems, TLAPS

Perrs == {"DATA_TOO_LARGE", "EVENT_TYPE_TOO_LARGE", "EVENT_TYPE_INVALID",
          "ID_INVALID", "INVALID_RETRY"}

Reports == [cb : {"on_error"}, err : Perrs] \cup [cb : {"on_id"}, id : Seq(Bytes)]
             \cup [cb : {"on_retry"}, ms : Nat]
             \cup [cb : {"on_event"}, data : Seq(Bytes), has_event : BOOLEAN,
                   event : Seq(Bytes)]

Structs ==
    [state : Modes, field : Fields, swallow_lf : BOOLEAN, bom_n : 0 .. 2,
     name : Names, data : Seq(Bytes), data_lines : Nat,
     block_discarded : BOOLEAN, event : Seq(Bytes), has_event : BOOLEAN,
     id : Seq(Bytes), has_id : BOOLEAN, id_invalid : BOOLEAN, retry_acc : 0 .. RetryMax,
     retry_seen_digit : BOOLEAN, retry_invalid : BOOLEAN, out : Seq(Reports)]

\* The buffers' contents fit, and every committed data line ends in a newline.
Fits(q) ==
    /\ Len(q.data) <= DataBufLen
    /\ Len(q.event) + 1 <= EventBufLen
    /\ Len(q.id) + 1 <= IdBufLen
    /\ q.data_lines <= Len(q.data)

Terminated(q) ==
    q.data_lines > 0 /\ ~ q.block_discarded => q.data[Len(q.data)] = "LF"

\* A line's value is being read exactly in two modes.
Good(q) ==
    /\ q \in Structs /\ Fits(q)
    /\ q.field # "none" => q.state \in {"AFTER_COLON", "VALUE"}
    /\ q.field # "data" => Terminated(q)

\* What a function leaves alone stays good.
LEMMA Untouched ==
    ASSUME NEW q, Good(q), NEW r \in Structs,
           r.data = q.data, r.event = q.event, r.id = q.id,
           r.data_lines = q.data_lines,
           q.block_discarded => r.block_discarded,
           r.field = q.field, r.state = q.state
    PROVE  Good(r)
BY DEF Good, Fits, Terminated

\* r is still on the line that q is on.
SameLine(q, r) ==
    /\ r.field = q.field /\ r.state = q.state
    /\ r.data = q.data /\ r.block_discarded = q.block_discarded

----------------------------------------------------------------------------
(* The functions that value_byte() and commit_value() call. *)

\* A reset parser is good.
LEMMA FreshGood == Good(Fresh)
<1>1. Fresh \in Structs
  BY BufferAssumption DEF Fresh, Structs, Modes, Fields, Names
<1>2. Fits(Fresh)
  BY BufferAssumption DEF Fits, Fresh
<1> QED BY <1>1, <1>2 DEF Good, Terminated, Fresh

\* A callback changes nothing in the struct.
LEMMA EmitGood ==
    ASSUME NEW q, Good(q), NEW c \in Reports
    PROVE  Good(Emit(q, c)) /\ SameLine(q, Emit(q, c))
<1> DEFINE r == [q EXCEPT !.out = Append(q.out, c)]
<1>1. q \in Structs /\ Append(q.out, c) \in Seq(Reports)
  BY DEF Good, Structs
<1>2. /\ r \in Structs /\ r.data = q.data /\ r.event = q.event /\ r.id = q.id
      /\ r.data_lines = q.data_lines /\ r.block_discarded = q.block_discarded
      /\ r.field = q.field /\ r.state = q.state
  BY <1>1 DEF Structs
<1>3. Emit(q, c) = r
  BY DEF Emit
<1> HIDE DEF r
<1> QED BY <1>2, <1>3, Untouched DEF SameLine

\* An error report is a callback.
LEMMA PerrGood ==
    ASSUME NEW q, Good(q), NEW e \in Perrs
    PROVE  Good(EmitPerr(q, e)) /\ SameLine(q, EmitPerr(q, e))
<1>1. [cb |-> "on_error", err |-> e] \in Reports
  BY DEF Reports
<1> QED BY <1>1, EmitGood DEF EmitPerr

\* A discarded block has no committed line to terminate.
LEMMA DiscardGood ==
    ASSUME NEW q, Good(q), NEW e \in Perrs
    PROVE  /\ Good(DiscardBlock(q, e)) /\ DiscardBlock(q, e).block_discarded
           /\ DiscardBlock(q, e).field = q.field /\ DiscardBlock(q, e).state = q.state
<1>1. CASE q.block_discarded
  BY <1>1 DEF DiscardBlock
<1>2. CASE ~ q.block_discarded
  <2> DEFINE r == [q EXCEPT !.block_discarded = TRUE]
  <2>1. /\ r \in Structs /\ r.data = q.data /\ r.event = q.event /\ r.id = q.id
        /\ r.data_lines = q.data_lines /\ r.block_discarded
        /\ r.field = q.field /\ r.state = q.state
    BY DEF Good, Structs
  <2>2. DiscardBlock(q, e) = EmitPerr(r, e)
    BY <1>2 DEF DiscardBlock
  <2> HIDE DEF r
  <2>3. Good(r)
    BY <2>1, Untouched
  <2>4. Good(EmitPerr(r, e)) /\ SameLine(r, EmitPerr(r, e))
    BY <2>3, PerrGood DEF Perrs
  <2> QED BY <2>1, <2>2, <2>4 DEF SameLine
<1> QED BY <1>1, <1>2

\* A byte fits where there was room for it.
LEMMA Appended ==
    ASSUME NEW q, Good(q), NEW b \in Bytes
    PROVE  /\ Append(q.data, b) \in Seq(Bytes) /\ Len(Append(q.data, b)) = Len(q.data) + 1
           /\ Append(q.event, b) \in Seq(Bytes) /\ Len(Append(q.event, b)) = Len(q.event) + 1
           /\ Append(q.id, b) \in Seq(Bytes) /\ Len(Append(q.id, b)) = Len(q.id) + 1
           /\ Len(q.data) \in Nat /\ Len(q.event) \in Nat /\ Len(q.id) \in Nat
           /\ q.data_lines \in Nat
BY DEF Good, Structs

\* data_byte: refused when the buffer is full.
LEMMA DataByteGood ==
    ASSUME NEW q, Good(q), NEW b \in Bytes, q.field = "data"
    PROVE  Good(DataByte(q, b)) /\ DataByte(q, b).state = q.state
<1>1. CASE q.block_discarded
  BY <1>1 DEF DataByte
<1>2. CASE ~ q.block_discarded /\ DataFull(q)
  <2>1. DataByte(q, b) = DiscardBlock(q, "DATA_TOO_LARGE")
    BY <1>2 DEF DataByte
  <2> QED BY <2>1, DiscardGood DEF Perrs
<1>3. CASE ~ q.block_discarded /\ ~ DataFull(q)
  <2> DEFINE r == [q EXCEPT !.data = Append(q.data, b)]
  <2>1. /\ r \in Structs /\ r.data = Append(q.data, b) /\ r.event = q.event /\ r.id = q.id
        /\ r.data_lines = q.data_lines /\ r.field = q.field /\ r.state = q.state
    BY Appended DEF Good, Structs
  <2>2. DataByte(q, b) = r
    BY <1>3 DEF DataByte
  <2> HIDE DEF r
  <2>3. Len(q.data) < DataBufLen
    BY <1>3, Appended, BufferAssumption DEF Good, Fits, DataFull
  <2>4. Fits(r)
    BY <2>1, <2>3, Appended, BufferAssumption DEF Good, Fits
  <2> QED BY <2>1, <2>2, <2>4 DEF Good
<1> QED BY <1>1, <1>2, <1>3

\* event_byte: one place is kept for the terminator.
LEMMA EventByteGood ==
    ASSUME NEW q, Good(q), NEW b \in Bytes
    PROVE  Good(EventByte(q, b)) /\ EventByte(q, b).state = q.state
<1> DEFINE full == Len(q.event) + 1 >= EventBufLen
<1>1. CASE q.block_discarded
  BY <1>1 DEF EventByte
<1>2. CASE ~ q.block_discarded /\ b = "NUL"
  <2>1. EventByte(q, b) = DiscardBlock(q, "EVENT_TYPE_INVALID")
    BY <1>2 DEF EventByte
  <2> QED BY <2>1, DiscardGood DEF Perrs
<1>3. CASE ~ q.block_discarded /\ b # "NUL" /\ full
  <2>1. EventByte(q, b) = DiscardBlock(q, "EVENT_TYPE_TOO_LARGE")
    BY <1>3 DEF EventByte
  <2> QED BY <2>1, DiscardGood DEF Perrs
<1>4. CASE ~ q.block_discarded /\ b # "NUL" /\ ~ full
  <2> DEFINE r == [q EXCEPT !.event = Append(q.event, b)]
  <2>1. /\ r \in Structs /\ r.event = Append(q.event, b) /\ r.data = q.data /\ r.id = q.id
        /\ r.data_lines = q.data_lines /\ r.field = q.field /\ r.state = q.state
        /\ r.block_discarded = q.block_discarded
    BY Appended DEF Good, Structs
  <2>2. EventByte(q, b) = r
    BY <1>4 DEF EventByte
  <2> HIDE DEF r
  <2>3. Fits(r)
    BY <2>1, <1>4, Appended, BufferAssumption DEF Good, Fits
  <2> QED BY <2>1, <2>2, <2>3 DEF Good, Terminated
<1> QED BY <1>1, <1>2, <1>3, <1>4

\* id_byte: likewise.
LEMMA IdByteGood ==
    ASSUME NEW q, Good(q), NEW b \in Bytes
    PROVE  Good(IdByte(q, b)) /\ IdByte(q, b).state = q.state
<1> DEFINE bad == b = "NUL" \/ Len(q.id) + 1 >= IdBufLen
<1>1. CASE q.id_invalid
  BY <1>1 DEF IdByte
<1>2. CASE ~ q.id_invalid /\ bad
  <2> DEFINE r == [q EXCEPT !.id_invalid = TRUE]
  <2>1. /\ r \in Structs /\ r.data = q.data /\ r.event = q.event /\ r.id = q.id
        /\ r.data_lines = q.data_lines /\ r.block_discarded = q.block_discarded
        /\ r.field = q.field /\ r.state = q.state
    BY DEF Good, Structs
  <2>2. IdByte(q, b) = EmitPerr(r, "ID_INVALID")
    BY <1>2 DEF IdByte
  <2> HIDE DEF r
  <2>3. Good(r)
    BY <2>1, Untouched
  <2>4. Good(EmitPerr(r, "ID_INVALID")) /\ SameLine(r, EmitPerr(r, "ID_INVALID"))
    BY <2>3, PerrGood DEF Perrs
  <2> QED BY <2>1, <2>2, <2>4 DEF SameLine
<1>3. CASE ~ q.id_invalid /\ ~ bad
  <2> DEFINE r == [q EXCEPT !.id = Append(q.id, b)]
  <2>1. /\ r \in Structs /\ r.id = Append(q.id, b) /\ r.data = q.data /\ r.event = q.event
        /\ r.data_lines = q.data_lines /\ r.field = q.field /\ r.state = q.state
        /\ r.block_discarded = q.block_discarded
    BY Appended DEF Good, Structs
  <2>2. IdByte(q, b) = r
    BY <1>3 DEF IdByte
  <2> HIDE DEF r
  <2>3. Fits(r)
    BY <2>1, <1>3, Appended, BufferAssumption DEF Good, Fits
  <2> QED BY <2>1, <2>2, <2>3 DEF Good, Terminated
<1> QED BY <1>1, <1>2, <1>3

\* The accumulator never passes its limit: the test looks one digit ahead.
LEMMA AccumulateBounded ==
    ASSUME NEW acc \in 0 .. RetryMax, NEW d \in 0 .. 9
    PROVE  Accumulate(acc, d) \in 0 .. RetryMax
<1>1. RetryMax \in Nat /\ RetryMax >= 9
  BY BufferAssumption
<1> QED BY <1>1 DEF Accumulate

\* retry_byte.
LEMMA RetryByteGood ==
    ASSUME NEW q, Good(q), NEW b \in Bytes
    PROVE  Good(RetryByte(q, b)) /\ RetryByte(q, b).state = q.state
<1>1. CASE q.retry_invalid
  BY <1>1 DEF RetryByte
<1>2. CASE ~ q.retry_invalid /\ b \notin Digits
  <2>1. RetryByte(q, b) = [q EXCEPT !.retry_invalid = TRUE]
    BY <1>2 DEF RetryByte
  <2>2. [q EXCEPT !.retry_invalid = TRUE] \in Structs
    BY DEF Good, Structs
  <2> QED BY <2>1, <2>2 DEF Good, Fits, Structs, Terminated
<1>3. CASE ~ q.retry_invalid /\ b \in Digits
  <2> DEFINE acc == Accumulate(q.retry_acc, DigitValue[b])
  <2>1. acc \in 0 .. RetryMax
    BY <1>3, AccumulateBounded, BufferAssumption DEF Good, Structs
  <2>2. RetryByte(q, b) = [q EXCEPT !.retry_seen_digit = TRUE, !.retry_acc = acc]
    BY <1>3 DEF RetryByte
  <2> HIDE DEF acc
  <2>3. [q EXCEPT !.retry_seen_digit = TRUE, !.retry_acc = acc] \in Structs
    BY <2>1 DEF Good, Structs
  <2> QED BY <2>2, <2>3 DEF Good, Fits, Structs, Terminated
<1> QED BY <1>1, <1>2, <1>3

\* value_byte().
LEMMA ValueByteGood ==
    ASSUME NEW q, Good(q), NEW b \in Bytes
    PROVE  Good(ValueByte(q, b)) /\ ValueByte(q, b).state = q.state
<1>1. CASE q.field = "data"
  BY <1>1, DataByteGood DEF ValueByte
<1>2. CASE q.field = "event"
  BY <1>2, EventByteGood DEF ValueByte
<1>3. CASE q.field = "id"
  BY <1>3, IdByteGood DEF ValueByte
<1>4. CASE q.field = "retry"
  BY <1>4, RetryByteGood DEF ValueByte
<1>5. CASE q.field \notin {"data", "event", "id", "retry"}
  BY <1>5 DEF ValueByte
<1> QED BY <1>1, <1>2, <1>3, <1>4, <1>5

----------------------------------------------------------------------------
(* Between the values of two lines. *)

\* No value is being read.
Idle(q) == q \in Structs /\ Fits(q) /\ Terminated(q) /\ q.field = "none"

\* In the modes that read no value, good is idle.
LEMMA IdleGood ==
    ASSUME NEW q
    PROVE  /\ Idle(q) => Good(q)
           /\ Good(q) /\ q.state \notin {"AFTER_COLON", "VALUE"} => Idle(q)
BY DEF Idle, Good

\* data_commit: the newline goes where the last byte of the buffer may be.
LEMMA CommitDataIdle ==
    ASSUME NEW q, Good(q), q.field = "data"
    PROVE  CommitData(q) \in Structs /\ Fits(CommitData(q)) /\ Terminated(CommitData(q))
<1>1. CASE q.block_discarded
  BY <1>1 DEF CommitData, Good, Terminated
<1>2. CASE ~ q.block_discarded /\ DataFull(q)
  <2>1. CommitData(q) = DiscardBlock(q, "DATA_TOO_LARGE")
    BY <1>2 DEF CommitData
  <2>2. Good(DiscardBlock(q, "DATA_TOO_LARGE")) /\ DiscardBlock(q, "DATA_TOO_LARGE").block_discarded
    BY DiscardGood DEF Perrs
  <2> QED BY <2>1, <2>2 DEF Good, Terminated
<1>3. CASE ~ q.block_discarded /\ ~ DataFull(q)
  <2> DEFINE r == [q EXCEPT !.data = Append(q.data, "LF"), !.data_lines = q.data_lines + 1]
  <2>1. "LF" \in Bytes
    BY DEF Bytes, Special
  <2>0. Append(q.data, "LF") \in Seq(Bytes) /\ q.data_lines + 1 \in Nat
    BY <2>1, Appended
  <2>2. /\ r \in Structs /\ r.data = Append(q.data, "LF") /\ r.event = q.event
        /\ r.id = q.id /\ r.data_lines = q.data_lines + 1
    BY <2>0 DEF Good, Structs
  <2>3. CommitData(q) = r
    BY <1>3 DEF CommitData
  <2> HIDE DEF r
  <2>4. Len(q.data) < DataBufLen
    BY <1>3, Appended, <2>1, BufferAssumption DEF Good, Fits, DataFull
  <2>5. Fits(r)
    BY <2>1, <2>2, <2>4, Appended, BufferAssumption DEF Good, Fits
  <2>6. r.data[Len(r.data)] = "LF"
    <3>1. q.data \in Seq(Bytes)
      BY DEF Good, Structs
    <3> QED BY <3>1, <2>1, <2>2
  <2> QED BY <2>2, <2>3, <2>5, <2>6 DEF Terminated
<1> QED BY <1>1, <1>2, <1>3

\* event_commit changes no buffer.
LEMMA CommitEventGood ==
    ASSUME NEW q, Good(q)
    PROVE  Good([q EXCEPT !.has_event = q.event # <<>>])
<1> DEFINE r == [q EXCEPT !.has_event = q.event # <<>>]
<1>1. /\ r \in Structs /\ r.data = q.data /\ r.event = q.event /\ r.id = q.id
      /\ r.data_lines = q.data_lines /\ r.block_discarded = q.block_discarded
      /\ r.field = q.field /\ r.state = q.state
  BY DEF Good, Structs
<1> HIDE DEF r
<1>2. Good(r)
  BY <1>1, Untouched
<1> QED BY <1>2 DEF r

\* id_commit drops an invalid id.
LEMMA CommitIdGood ==
    ASSUME NEW q, Good(q)
    PROVE  Good(CommitId(q)) /\ CommitId(q).field = q.field
<1> DEFINE dropped == [q EXCEPT !.id = <<>>, !.has_id = FALSE]
           kept == [q EXCEPT !.has_id = TRUE]
<1>1. /\ kept \in Structs /\ kept.data = q.data /\ kept.event = q.event /\ kept.id = q.id
      /\ kept.data_lines = q.data_lines /\ kept.block_discarded = q.block_discarded
      /\ kept.field = q.field /\ kept.state = q.state
  BY DEF Good, Structs
<1>0. <<>> \in Seq(Bytes) /\ q \in Structs
  BY DEF Good
<1>2. /\ dropped \in Structs /\ dropped.data = q.data /\ dropped.event = q.event
      /\ dropped.id = <<>> /\ dropped.data_lines = q.data_lines
      /\ dropped.block_discarded = q.block_discarded
      /\ dropped.field = q.field /\ dropped.state = q.state
  BY <1>0 DEF Structs
<1>3. CommitId(q) = kept \/ CommitId(q) = dropped
  BY DEF CommitId
<1> HIDE DEF kept, dropped
<1>4. Good(kept)
  BY <1>1, Untouched
<1>5. Good(dropped)
  BY <1>2, BufferAssumption DEF Good, Fits, Terminated
<1> QED BY <1>1, <1>2, <1>3, <1>4, <1>5

\* retry_commit reports, and changes nothing.
LEMMA CommitRetryGood ==
    ASSUME NEW q, Good(q)
    PROVE  Good(CommitRetry(q)) /\ CommitRetry(q).field = q.field
<1>1. q.retry_acc \in Nat
  BY BufferAssumption DEF Good, Structs
<1>2. [cb |-> "on_retry", ms |-> q.retry_acc] \in Reports
  BY <1>1 DEF Reports
<1> QED BY <1>2, EmitGood, PerrGood DEF CommitRetry, SameLine, Perrs

\* commit_value() leaves no value being read.
LEMMA CommitValueIdle ==
    ASSUME NEW q, Good(q)
    PROVE  Idle(CommitValue(q))
<1> DEFINE c == CASE q.field = "data"  -> CommitData(q)
                  [] q.field = "event" -> [q EXCEPT !.has_event = q.event # <<>>]
                  [] q.field = "id"    -> CommitId(q)
                  [] q.field = "retry" -> CommitRetry(q)
                  [] OTHER             -> q
           Done(x) == x \in Structs /\ Fits(x) /\ Terminated(x)
<1>1. ASSUME q.field = "data" PROVE Done(c)
  BY <1>1, CommitDataIdle
<1>2. ASSUME q.field = "event" PROVE Done(c)
  <2>1. c = [q EXCEPT !.has_event = q.event # <<>>]
    BY <1>2
  <2>2. c.field = "event"
    BY <2>1, <1>2 DEF Good, Structs
  <2>3. Good(c)
    BY <2>1, CommitEventGood
  <2> HIDE DEF c
  <2> QED BY <2>2, <2>3 DEF Good
<1>3. ASSUME q.field = "id" PROVE Done(c)
  <2>1. c = CommitId(q)
    BY <1>3
  <2> HIDE DEF c
  <2> QED BY <2>1, <1>3, CommitIdGood DEF Good
<1>4. ASSUME q.field = "retry" PROVE Done(c)
  <2>1. c = CommitRetry(q)
    BY <1>4
  <2> HIDE DEF c
  <2> QED BY <2>1, <1>4, CommitRetryGood DEF Good
<1>5. ASSUME q.field \notin {"data", "event", "id", "retry"} PROVE Done(c)
  BY <1>5 DEF Good
<1>6. Done(c)
  BY <1>1, <1>2, <1>3, <1>4, <1>5
<1>7. CommitValue(q) = [c EXCEPT !.field = "none"]
  BY DEF CommitValue
<1> HIDE DEF c
<1> DEFINE r == [c EXCEPT !.field = "none"]
<1>8. /\ r \in Structs /\ r.data = c.data /\ r.event = c.event /\ r.id = c.id
      /\ r.data_lines = c.data_lines /\ r.block_discarded = c.block_discarded
      /\ r.field = "none"
  BY <1>6 DEF Structs, Fields
<1> HIDE DEF r
<1>9. Idle(r)
  BY <1>6, <1>8 DEF Idle, Fits, Terminated
<1> QED BY <1>7, <1>9 DEF r

----------------------------------------------------------------------------
(* process_byte(). *)

\* An unknown name skips its line; a known one starts a value.
LEMMA ResolveGood ==
    ASSUME NEW q, Idle(q)
    PROVE  /\ Good(ResolveFieldName(q))
           /\ ResolveFieldName(q).state # "AFTER_COLON" => Idle(ResolveFieldName(q))
<1>1. CASE q.name = "other"
  <2> DEFINE r == [q EXCEPT !.field = "none", !.state = "SKIP_LINE"]
  <2>1. /\ r \in Structs /\ r.data = q.data /\ r.event = q.event /\ r.id = q.id
        /\ r.data_lines = q.data_lines /\ r.block_discarded = q.block_discarded
        /\ r.field = "none"
    BY DEF Idle, Structs, Fields, Modes
  <2>2. ResolveFieldName(q) = r
    BY <1>1 DEF ResolveFieldName
  <2> HIDE DEF r
  <2>3. Idle(r)
    BY <2>1 DEF Idle, Fits, Terminated
  <2> QED BY <2>2, <2>3, IdleGood
<1>2. CASE q.name # "other"
  <2> DEFINE n == [q EXCEPT !.field = q.name]
             v == StartValue(n)
             r == [v EXCEPT !.state = "AFTER_COLON"]
  <2>1. q \in Structs /\ q.name \in Fields /\ <<>> \in Seq(Bytes)
    BY <1>2 DEF Idle, Structs, Fields, Names
  <2>2. /\ n \in Structs /\ n.data = q.data /\ n.event = q.event /\ n.id = q.id
        /\ n.data_lines = q.data_lines /\ n.block_discarded = q.block_discarded
    BY <2>1 DEF Structs
  <2> HIDE DEF n
  <2>3. v \in {n, [n EXCEPT !.event = <<>>], [n EXCEPT !.id = <<>>, !.id_invalid = FALSE],
               [n EXCEPT !.retry_acc = 0, !.retry_seen_digit = FALSE,
                         !.retry_invalid = FALSE]}
    BY DEF StartValue
  <2>4. 0 \in 0 .. RetryMax
    BY BufferAssumption
  <2>5. /\ v \in Structs /\ v.data = n.data /\ v.data_lines = n.data_lines
        /\ v.block_discarded = n.block_discarded
        /\ v.event \in {n.event, <<>>} /\ v.id \in {n.id, <<>>}
    BY <2>1, <2>2, <2>3, <2>4, ZenonT(60) DEF Structs
  <2> HIDE DEF v
  <2>6. /\ r \in Structs /\ r.data = v.data /\ r.event = v.event /\ r.id = v.id
        /\ r.data_lines = v.data_lines /\ r.block_discarded = v.block_discarded
        /\ r.state = "AFTER_COLON"
    BY <2>5 DEF Structs, Modes
  <2>7. ResolveFieldName(q) = r
    BY <1>2 DEF ResolveFieldName, v, n
  <2> HIDE DEF r
  <2>8. Fits(r)
    BY <2>2, <2>5, <2>6, BufferAssumption DEF Idle, Fits
  <2>9. Terminated(r)
    BY <2>2, <2>5, <2>6 DEF Idle, Terminated
  <2> QED BY <2>6, <2>7, <2>8, <2>9 DEF Good
<1> QED BY <1>1, <1>2

\* What a blank line reports is made of what the buffers hold.
LEMMA EventReport ==
    ASSUME NEW q \in Structs
    PROVE  TheEvent(q) \in Reports
<1>1. /\ q.data \in Seq(Bytes) /\ q.event \in Seq(Bytes) /\ q.has_event \in BOOLEAN
      /\ <<>> \in Seq(Bytes)
  BY DEF Structs
<1>2. /\ Len(q.data) - 1 \in Int
      /\ \A i \in 1 .. Len(q.data) - 1 : q.data[i] \in Bytes
  BY <1>1
<1>3. SubSeq(q.data, 1, Len(q.data) - 1) \in Seq(Bytes)
  BY <1>2, SubSeqProperties
<1>4. (IF q.has_event THEN q.event ELSE <<>>) \in Seq(Bytes)
  BY <1>1
<1> QED BY <1>1, <1>3, <1>4 DEF TheEvent, Reports

\* dispatch_block() starts the next block with empty buffers.
LEMMA DispatchIdle ==
    ASSUME NEW q, Idle(q)
    PROVE  Idle(DispatchBlock(q))
<1> DEFINE i == IF q.has_id THEN Emit(q, [cb |-> "on_id", id |-> q.id]) ELSE q
           e == IF ~ q.block_discarded /\ q.data_lines > 0 THEN Emit(i, TheEvent(q)) ELSE i
           r == ClearBlock(e)
<1>1. Good(q) /\ q \in Structs
  BY IdleGood DEF Idle
<1>2. [cb |-> "on_id", id |-> q.id] \in Reports
  BY <1>1 DEF Structs, Reports
<1>3. Good(i) /\ SameLine(q, i)
  BY <1>1, <1>2, EmitGood DEF SameLine
<1> HIDE DEF i
<1>6. TheEvent(q) \in Reports
  BY <1>1, EventReport
<1>7. Good(e) /\ SameLine(i, e)
  BY <1>3, <1>6, EmitGood DEF SameLine
<1>8. DispatchBlock(q) = r
  BY DEF DispatchBlock, e, i
<1>9. e.field = "none"
  BY <1>3, <1>7 DEF SameLine, Idle
<1> HIDE DEF e
<1>10. <<>> \in Seq(Bytes) /\ e \in Structs
  BY <1>7 DEF Good
<1>11. /\ r \in Structs /\ r.data = <<>> /\ r.event = <<>> /\ r.id = <<>>
       /\ r.data_lines = 0 /\ r.field = "none"
  BY <1>9, <1>10 DEF ClearBlock, Structs
<1> HIDE DEF r
<1>12. Idle(r)
  BY <1>11, BufferAssumption DEF Idle, Fits, Terminated
<1> QED BY <1>8, <1>12

\* The end of a line commits its value, or dispatches the block.
LEMMA LineEndIdle ==
    ASSUME NEW q, Good(q)
    PROVE  Idle(LineEnd(q))
<1> DEFINE ended ==
             CASE q.state = "LINE_START" -> DispatchBlock(q)
               [] q.state = "FIELD_NAME" ->
                     LET r == ResolveFieldName(q)
                     IN  IF r.state = "AFTER_COLON" THEN CommitValue(r) ELSE r
               [] q.state \in {"AFTER_COLON", "VALUE"} -> CommitValue(q)
               [] OTHER -> q
           r == [ended EXCEPT !.state = "LINE_START"]
<1>1. ASSUME q.state = "LINE_START" PROVE Idle(ended)
  BY <1>1, IdleGood, DispatchIdle
<1>2. ASSUME q.state = "FIELD_NAME" PROVE Idle(ended)
  BY <1>2, IdleGood, ResolveGood, CommitValueIdle
<1>3. ASSUME q.state \in {"AFTER_COLON", "VALUE"} PROVE Idle(ended)
  BY <1>3, CommitValueIdle
<1>4. ASSUME q.state \notin {"LINE_START", "FIELD_NAME", "AFTER_COLON", "VALUE"}
      PROVE  Idle(ended)
  BY <1>4, IdleGood
<1>5. Idle(ended)
  BY <1>1, <1>2, <1>3, <1>4
<1>6. LineEnd(q) = r
  BY DEF LineEnd
<1> HIDE DEF ended
<1>7. /\ r \in Structs /\ r.data = ended.data /\ r.event = ended.event /\ r.id = ended.id
      /\ r.data_lines = ended.data_lines /\ r.block_discarded = ended.block_discarded
      /\ r.field = ended.field
  BY <1>5 DEF Idle, Structs, Modes
<1> HIDE DEF r
<1>8. Idle(r)
  BY <1>5, <1>7 DEF Idle, Fits, Terminated
<1> QED BY <1>6, <1>8

\* A byte within a line.
LEMMA LineByteGood ==
    ASSUME NEW q, Good(q), NEW b \in Bytes
    PROVE  Good(LineByte(q, b))
<1>0. /\ q \in Structs /\ q.state \in Modes /\ q.name \in Names
      /\ q.bom_n \in 0 .. 2 /\ q.swallow_lf \in BOOLEAN
  BY DEF Good, Structs
<1>1. CASE q.state = "LINE_START"
  <2> DEFINE n == IF b \in Names THEN b ELSE "other"
             s1 == [q EXCEPT !.state = "SKIP_LINE"]
             s2 == [q EXCEPT !.state = "FIELD_NAME", !.name = n]
  <2>1. Idle(q)
    BY <1>1, IdleGood
  <2>2. n \in Names
    BY DEF Names
  <2>3. LineByte(q, b) = s1 \/ LineByte(q, b) = s2
    BY <1>1 DEF LineByte
  <2> HIDE DEF n
  <2>4. /\ s1 \in Structs /\ s1.data = q.data /\ s1.event = q.event /\ s1.id = q.id
        /\ s1.data_lines = q.data_lines /\ s1.block_discarded = q.block_discarded
        /\ s1.field = q.field
    BY <1>0 DEF Structs, Modes
  <2>5. /\ s2 \in Structs /\ s2.data = q.data /\ s2.event = q.event /\ s2.id = q.id
        /\ s2.data_lines = q.data_lines /\ s2.block_discarded = q.block_discarded
        /\ s2.field = q.field
    BY <1>0, <2>2 DEF Structs, Modes
  <2> HIDE DEF s1, s2
  <2>6. Idle(s1) /\ Idle(s2)
    BY <2>1, <2>4, <2>5 DEF Idle, Fits, Terminated
  <2> QED BY <2>3, <2>6, IdleGood
<1>2. CASE q.state = "FIELD_NAME"
  <2> DEFINE s1 == [q EXCEPT !.name = "other"]
  <2>1. Idle(q)
    BY <1>2, IdleGood
  <2>2. LineByte(q, b) = ResolveFieldName(q) \/ LineByte(q, b) = s1
    BY <1>2 DEF LineByte, NameByte
  <2>3. /\ s1 \in Structs /\ s1.data = q.data /\ s1.event = q.event /\ s1.id = q.id
        /\ s1.data_lines = q.data_lines /\ s1.block_discarded = q.block_discarded
        /\ s1.field = q.field
    BY <1>0 DEF Structs, Names
  <2> HIDE DEF s1
  <2>4. Idle(s1)
    BY <2>1, <2>3 DEF Idle, Fits, Terminated
  <2> QED BY <2>1, <2>2, <2>4, ResolveGood, IdleGood
<1>3. CASE q.state = "AFTER_COLON"
  <2> DEFINE r == [q EXCEPT !.state = "VALUE"]
  <2>1. /\ r \in Structs /\ r.data = q.data /\ r.event = q.event /\ r.id = q.id
        /\ r.data_lines = q.data_lines /\ r.block_discarded = q.block_discarded
        /\ r.field = q.field /\ r.state = "VALUE"
    BY <1>0 DEF Structs, Modes
  <2>2. LineByte(q, b) = r \/ LineByte(q, b) = ValueByte(r, b)
    BY <1>3 DEF LineByte
  <2> HIDE DEF r
  <2>3. Good(r)
    BY <2>1 DEF Good, Fits, Terminated
  <2> QED BY <2>2, <2>3, ValueByteGood
<1>4. CASE q.state = "VALUE"
  BY <1>4, ValueByteGood DEF LineByte
<1>5. CASE q.state \notin {"LINE_START", "FIELD_NAME", "AFTER_COLON", "VALUE"}
  BY <1>5 DEF LineByte
<1> QED BY <1>1, <1>2, <1>3, <1>4, <1>5

\* process_byte(): the byte order mark, the line ends, the rest.
LEMMA ProcessByteGood ==
    ASSUME NEW q0, Good(q0), NEW b \in Bytes
    PROVE  Good(ProcessByte(q0, b))
<1> DEFINE q == [q0 EXCEPT !.swallow_lf = FALSE]
           swallow == q0.swallow_lf /\ b = "LF"
           inBom == q.state = "BOM" /\ b = Bom[q.bom_n + 1]
           r == IF q.state = "BOM" THEN ReplayBom(q, q.bom_n) ELSE q
           m == [q EXCEPT !.bom_n = 0, !.state = "LINE_START"]
           k == [q EXCEPT !.bom_n = q.bom_n + 1]
<1>1. /\ q \in Structs /\ q.data = q0.data /\ q.event = q0.event /\ q.id = q0.id
      /\ q.data_lines = q0.data_lines /\ q.block_discarded = q0.block_discarded
      /\ q.field = q0.field /\ q.state = q0.state
  BY DEF Good, Structs
<1> DEFINE P == ProcessByte(q0, b)
<1>2. \/ swallow /\ P = q
      \/ q.state = "BOM" /\ q.bom_n = 2 /\ P = m
      \/ q.state = "BOM" /\ q.bom_n # 2 /\ P = k
      \/ P = EndsLine(r, b)
      \/ P = LineByte(r, b)
  BY DEF ProcessByte
<1>3. \/ q.state # "BOM" /\ r = q
      \/ q.state = "BOM" /\ r = ReplayBom(q, q.bom_n)
  OBVIOUS
<1> HIDE DEF q, P, r
<1>4. Good(q)
  BY <1>1, Untouched
<1>5. q \in Structs /\ q.bom_n \in 0 .. 2 /\ 0 \in 0 .. 2
  BY <1>1 DEF Structs
<1>6. ASSUME q.state = "BOM" PROVE Idle(q)
  BY <1>4, <1>6, IdleGood
<1>7. ASSUME q.state = "BOM" PROVE Good(m)
  <2>1. /\ m \in Structs /\ m.data = q.data /\ m.event = q.event /\ m.id = q.id
        /\ m.data_lines = q.data_lines /\ m.block_discarded = q.block_discarded
        /\ m.field = q.field
    BY <1>5 DEF Structs, Modes
  <2> HIDE DEF m
  <2>2. Idle(m)
    BY <1>6, <1>7, <2>1 DEF Idle, Fits, Terminated
  <2> QED BY <2>2, IdleGood
<1>8. ASSUME q.state = "BOM", q.bom_n # 2 PROVE Good(k)
  <2>1. q.bom_n + 1 \in 0 .. 2
    BY <1>5, <1>8
  <2>2. /\ k \in Structs /\ k.data = q.data /\ k.event = q.event /\ k.id = q.id
        /\ k.data_lines = q.data_lines /\ k.block_discarded = q.block_discarded
        /\ k.field = q.field
    BY <1>5, <2>1 DEF Structs
  <2> HIDE DEF k
  <2>3. Idle(k)
    BY <1>6, <1>8, <2>2 DEF Idle, Fits, Terminated
  <2> QED BY <2>3, IdleGood
<1>9. Good(r)
  <2>1. CASE q.state # "BOM"
    BY <1>3, <1>4, <2>1
  <2>2. CASE q.state = "BOM"
    <3> DEFINE s == IF q.bom_n = 0 THEN "LINE_START" ELSE "FIELD_NAME"
               x == [q EXCEPT !.bom_n = 0, !.name = "other", !.state = s]
    <3>1. s \in Modes
      BY DEF Modes
    <3>2. r = x
      BY <1>3, <2>2 DEF ReplayBom
    <3> HIDE DEF s
    <3>3. /\ x \in Structs /\ x.data = q.data /\ x.event = q.event /\ x.id = q.id
          /\ x.data_lines = q.data_lines /\ x.block_discarded = q.block_discarded
          /\ x.field = q.field
      BY <1>5, <3>1 DEF Structs, Names
    <3> HIDE DEF x
    <3>4. Idle(x)
      BY <1>6, <2>2, <3>3 DEF Idle, Fits, Terminated
    <3> QED BY <3>2, <3>4, IdleGood
  <2> QED BY <2>1, <2>2
<1>10. Good(EndsLine(r, b))
  <2> DEFINE e == LineEnd(r)
             x == [e EXCEPT !.swallow_lf = (b = "CR")]
  <2>1. Idle(e)
    BY <1>9, LineEndIdle
  <2>2. EndsLine(r, b) = x
    BY DEF EndsLine
  <2> HIDE DEF e
  <2>3. /\ x \in Structs /\ x.data = e.data /\ x.event = e.event /\ x.id = e.id
        /\ x.data_lines = e.data_lines /\ x.block_discarded = e.block_discarded
        /\ x.field = e.field
    BY <2>1 DEF Idle, Structs
  <2> HIDE DEF x
  <2>4. Idle(x)
    BY <2>1, <2>3 DEF Idle, Fits, Terminated
  <2> QED BY <2>2, <2>4, IdleGood
<1>11. Good(LineByte(r, b))
  BY <1>9, LineByteGood
<1> HIDE DEF m, k
<1>12. Good(P)
  BY <1>2, <1>4, <1>7, <1>8, <1>10, <1>11
<1> QED BY <1>12 DEF P

----------------------------------------------------------------------------
(* The parser as a process. *)

\* Its struct is good between any two bytes.
Inv == Good(p)

\* Every byte, and every reset, keeps the struct good.
LEMMA StepGood == Inv /\ [PNext]_p => Inv'
<1> SUFFICES ASSUME Inv, [PNext]_p PROVE Inv'
  OBVIOUS
<1>1. CASE Reset
  BY <1>1, FreshGood DEF Reset, Inv
<1>2. ASSUME NEW b \in Bytes, Feed(b) PROVE Inv'
  <2> DEFINE x == [p EXCEPT !.out = <<>>]
  <2>1. <<>> \in Seq(Reports) /\ p \in Structs
    BY DEF Inv, Good
  <2>2. /\ x \in Structs /\ x.data = p.data /\ x.event = p.event /\ x.id = p.id
        /\ x.data_lines = p.data_lines /\ x.block_discarded = p.block_discarded
        /\ x.field = p.field /\ x.state = p.state
    BY <2>1 DEF Structs
  <2>3. p' = ProcessByte(x, b)
    BY <1>2 DEF Feed
  <2> HIDE DEF x
  <2>4. Good(x)
    BY <2>2, Untouched DEF Inv
  <2> QED BY <2>3, <2>4, ProcessByteGood DEF Inv
<1>3. CASE UNCHANGED p
  BY <1>3 DEF Inv
<1> QED BY <1>1, <1>2, <1>3 DEF PNext

\* What the parser's operations rely on holds between any two bytes, for every
\* size of the caller's buffers and every sequence of bytes and resets.
THEOREM StructIsGood == PSpec => []Inv
<1>1. PInit => Inv
  BY FreshGood DEF PInit, Inv
<1> QED BY <1>1, StepGood, PTL DEF PSpec

\* A good struct is within its buffers.
LEMMA GoodIsSafe == Inv => BuffersSafe
<1> SUFFICES ASSUME Inv PROVE BuffersSafe
  OBVIOUS
<1>1. Good(p) /\ Fits(p) /\ p \in Structs
  BY DEF Inv, Good
<1>2. p.retry_acc \in 0 .. RetryMax
  BY <1>1 DEF Structs
<1>3. p.state = "LINE_START" => Terminated(p)
  BY <1>1 DEF Good
<1> QED BY <1>1, <1>2, <1>3 DEF BuffersSafe, Fits, Terminated

\* No byte is written or read outside the buffers that sse_client_init()
\* accepted, whatever a server sends.
THEOREM BuffersAreSafe == PSpec => []BuffersSafe
BY GoodIsSafe, StructIsGood, PTL
=============================================================================
