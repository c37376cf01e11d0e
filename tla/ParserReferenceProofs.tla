----------------------- MODULE ParserReferenceProofs -----------------------
(***************************************************************************)
(* The byte-at-a-time parser calls what the line-by-line reading of the    *)
(* same bytes gives, whatever the sizes of its buffers, whatever the       *)
(* stream and wherever it is cut.                                          *)
(***************************************************************************)
EXTENDS ParserReference, SSEParserProofs, FoldTheorems

----------------------------------------------------------------------------
(* The number that a sequence of digits stands for. *)

\* The function that Number defines.
PrefixValues(v) ==
    CHOOSE f : f = [i \in 0 .. Len(v) |-> IF i = 0 THEN 0
                                          ELSE f[i - 1] * 10 + DigitValue[v[i]]]

\* A digit stands for a number below ten.
LEMMA DigitIsNat ==
    ASSUME NEW d \in Digits
    PROVE  DigitValue[d] \in 0 .. 9
BY BufferAssumption

\* It is defined, and is what its definition says it is.
LEMMA NumberUnfolds ==
    ASSUME NEW v \in Seq(Digits)
    PROVE  /\ PrefixValues(v) \in [0 .. Len(v) -> Nat]
           /\ PrefixValues(v)[0] = 0
           /\ \A i \in 1 .. Len(v) :
                 PrefixValues(v)[i] = PrefixValues(v)[i - 1] * 10 + DigitValue[v[i]]
<1> DEFINE n == Len(v)
           step == [k \in Nat |-> [x \in Nat |-> IF k \in 1 .. n THEN x * 10 + DigitValue[v[k]] ELSE x]]
<1>1. n \in Nat /\ \A i \in 1 .. n : DigitValue[v[i]] \in 0 .. 9
  BY DigitIsNat
<1>2. step \in [Nat -> [Nat -> Nat]]
  BY <1>1
<1>3. \A x \in Nat, k \in 1 .. n : step[k][x] = x * 10 + DigitValue[v[k]]
  BY <1>1
<1> HIDE DEF step, n
<1>4. PICK h \in [0 .. n -> Nat] : Recursive(h, 0, step, n)
  BY <1>1, <1>2, Recursion
<1>5. \A i \in 1 .. n : h[i] = h[i - 1] * 10 + DigitValue[v[i]]
  <2>1. SUFFICES ASSUME NEW i \in 1 .. n PROVE h[i] = h[i - 1] * 10 + DigitValue[v[i]]
    OBVIOUS
  <2>2. h[i] = step[i][h[i - 1]]
    BY <1>4 DEF Recursive
  <2>3. h[i - 1] \in Nat
    <3>1. i - 1 \in 0 .. n
      BY <1>1
    <3> QED BY <3>1, <1>4
  <2> QED BY <2>2, <2>3, <1>3
<1>6. h = [i \in 0 .. n |-> IF i = 0 THEN 0 ELSE h[i - 1] * 10 + DigitValue[v[i]]]
  <2>1. h = [i \in 0 .. n |-> h[i]]
    BY <1>4
  <2>2. ASSUME NEW i \in 0 .. n
        PROVE  h[i] = IF i = 0 THEN 0 ELSE h[i - 1] * 10 + DigitValue[v[i]]
    <3>1. CASE i = 0
      BY <3>1, <1>4 DEF Recursive
    <3>2. CASE i # 0
      <4>1. i \in 1 .. n
        BY <3>2, <1>1
      <4> QED BY <4>1, <3>2, <1>5
    <3> QED BY <3>1, <3>2
  <2> QED BY <2>1, <2>2, Zenon
<1>7. PrefixValues(v) = [i \in 0 .. n |-> IF i = 0 THEN 0
                                      ELSE PrefixValues(v)[i - 1] * 10 + DigitValue[v[i]]]
  BY <1>6, Zenon DEF PrefixValues, n
<1> DEFINE g == PrefixValues(v)
<1>8. g = [i \in 0 .. n |-> IF i = 0 THEN 0 ELSE g[i - 1] * 10 + DigitValue[v[i]]]
  BY <1>7
<1> HIDE DEF g
<1>9. /\ g[0] = 0
      /\ \A i \in 1 .. n : g[i] = g[i - 1] * 10 + DigitValue[v[i]]
  <2>1. \A i \in 0 .. n : g[i] = IF i = 0 THEN 0 ELSE g[i - 1] * 10 + DigitValue[v[i]]
    BY <1>8, Zenon
  <2>2. g[0] = 0
    <3>1. 0 \in 0 .. n
      BY <1>1
    <3> QED BY <3>1, <2>1, Zenon
  <2>3. ASSUME NEW i \in 1 .. n PROVE g[i] = g[i - 1] * 10 + DigitValue[v[i]]
    <3>1. i \in 0 .. n /\ i # 0
      BY <1>1
    <3> QED BY <3>1, <2>1, Zenon
  <2> QED BY <2>2, <2>3
<1> DEFINE U == {i \in Nat : i \in 0 .. n => g[i] \in Nat}
<1>10. 0 \in U
  BY <1>9
<1>11. ASSUME NEW i \in Nat, i \in U PROVE i + 1 \in U
  <2>1. CASE i + 1 \in 0 .. n
    <3>1. i + 1 \in 1 .. n /\ (i + 1) - 1 = i /\ i \in 0 .. n
      BY <2>1, <1>1
    <3>2. g[i + 1] = g[i] * 10 + DigitValue[v[i + 1]]
      BY <3>1, <1>9
    <3>3. g[i] \in Nat
      BY <1>11, <3>1
    <3>4. DigitValue[v[i + 1]] \in 0 .. 9
      BY <3>1, <1>1
    <3>5. \A a \in Nat, d \in 0 .. 9 : a * 10 + d \in Nat
      OBVIOUS
    <3>6. g[i + 1] \in Nat
      BY <3>2, <3>3, <3>4, <3>5
    <3> QED BY <3>6
  <2> QED BY <2>1
<1>12. \A i \in Nat : i \in U
  <2> HIDE DEF U
  <2> QED BY <1>10, <1>11, Induction
<1>13. g \in [0 .. n -> Nat]
  <2>1. \A i \in 0 .. n : g[i] \in Nat
    BY <1>12
  <2>2. g = [i \in 0 .. n |-> g[i]]
    BY <1>8, Zenon
  <2> QED BY <2>1, <2>2, Zenon
<1> QED BY <1>9, <1>13 DEF g, n

\* Number gives the last value of that function, a natural number.
LEMMA NumberIs ==
    ASSUME NEW v \in Seq(Digits)
    PROVE  Number(v) = PrefixValues(v)[Len(v)] /\ Number(v) \in Nat
<1>1. Number(v) = PrefixValues(v)[Len(v)]
  BY Zenon DEF Number, PrefixValues
<1>2. Len(v) \in 0 .. Len(v)
  OBVIOUS
<1>3. PrefixValues(v) \in [0 .. Len(v) -> Nat]
  BY NumberUnfolds
<1> QED BY <1>1, <1>2, <1>3

\* No digits stand for zero, where retry_acc starts.
LEMMA NumberEmpty == Number(<<>>) = 0
<1>1. <<>> \in Seq(Digits) /\ Len(<<>>) = 0
  OBVIOUS
<1>2. Number(<<>>) = PrefixValues(<<>>)[0]
  BY <1>1, NumberIs
<1>3. PrefixValues(<<>>)[0] = 0
  BY <1>1, NumberUnfolds
<1> QED BY <1>2, <1>3

\* One more digit is added to ten times the number before it.
LEMMA NumberAppend ==
    ASSUME NEW v \in Seq(Digits), NEW d \in Digits
    PROVE  Number(Append(v, d)) = Number(v) * 10 + DigitValue[d]
<1> DEFINE w == Append(v, d)
           n == Len(v)
<1>1. /\ n \in Nat /\ w \in Seq(Digits) /\ Len(w) = n + 1
      /\ w[n + 1] = d /\ \A i \in 1 .. n : w[i] = v[i]
  OBVIOUS
<1> HIDE DEF w
<1>2. /\ PrefixValues(v)[0] = 0
      /\ \A i \in 1 .. n : PrefixValues(v)[i] = PrefixValues(v)[i - 1] * 10 + DigitValue[v[i]]
  BY NumberUnfolds
<1>3. /\ PrefixValues(w)[0] = 0
      /\ \A i \in 1 .. n + 1 : PrefixValues(w)[i] = PrefixValues(w)[i - 1] * 10 + DigitValue[w[i]]
  <2>1. /\ PrefixValues(w)[0] = 0
        /\ \A i \in 1 .. Len(w) : PrefixValues(w)[i] = PrefixValues(w)[i - 1] * 10 + DigitValue[w[i]]
    BY <1>1, NumberUnfolds
  <2>2. Len(w) = n + 1
    BY <1>1
  <2> HIDE DEF n
  <2> QED BY <2>1, <2>2
<1>4. Number(w) = PrefixValues(w)[n + 1] /\ Number(v) = PrefixValues(v)[n]
  <2>1. Number(w) = PrefixValues(w)[Len(w)] /\ Number(v) = PrefixValues(v)[Len(v)]
    BY <1>1, NumberIs
  <2> QED BY <2>1, <1>1
<1> HIDE DEF n
<1> DEFINE U == {i \in Nat : i \in 0 .. n => PrefixValues(w)[i] = PrefixValues(v)[i]}
<1>5. 0 \in U
  BY <1>2, <1>3
<1>6. ASSUME NEW i \in Nat, i \in U PROVE i + 1 \in U
  <2>1. CASE i + 1 \in 0 .. n
    <3>1. i + 1 \in 1 .. n /\ i + 1 \in 1 .. n + 1 /\ (i + 1) - 1 = i /\ i \in 0 .. n
      BY <2>1, <1>1
    <3>2. PrefixValues(v)[i + 1] = PrefixValues(v)[i] * 10 + DigitValue[v[i + 1]]
      BY <3>1, <1>2
    <3>3. PrefixValues(w)[i + 1] = PrefixValues(w)[i] * 10 + DigitValue[w[i + 1]]
      BY <3>1, <1>3
    <3>4. w[i + 1] = v[i + 1] /\ PrefixValues(w)[i] = PrefixValues(v)[i]
      BY <3>1, <1>1, <1>6
    <3>5. PrefixValues(w)[i + 1] = PrefixValues(v)[i + 1]
      BY <3>2, <3>3, <3>4
    <3> QED BY <3>5
  <2> QED BY <2>1
<1>7. \A i \in Nat : i \in U
  <2> HIDE DEF U
  <2> QED BY <1>5, <1>6, Induction
<1>8. PrefixValues(w)[n] = PrefixValues(v)[n]
  <2>1. n \in 0 .. n
    BY <1>1
  <2> QED BY <2>1, <1>7
<1>9. PrefixValues(w)[n + 1] = PrefixValues(w)[n] * 10 + DigitValue[d]
  <2>1. n + 1 \in 1 .. n + 1 /\ (n + 1) - 1 = n
    BY <1>1
  <2> QED BY <2>1, <1>1, <1>3
<1> QED BY <1>4, <1>8, <1>9 DEF w

----------------------------------------------------------------------------
(* What one more line adds to a block. *)

Lines == {l \in Seq(Bytes) : l # <<>>}

\* The field, the value and the data of a line are what they should be.
LEMMA LineHas ==
    ASSUME NEW l \in Lines
    PROVE  /\ FieldOf(l) \in Names /\ ValueOf(l) \in Seq(Bytes)
           /\ DataOf(l) \in Seq(Bytes)
<1>1. l \in Seq(Bytes) /\ Len(l) \in Nat /\ Len(l) >= 1
  BY DEF Lines
<1>2. FieldOf(l) \in Names
  BY DEF FieldOf, Names
<1> DEFINE v == SubSeq(l, 3, Len(l))
<1>3. v \in Seq(Bytes)
  BY <1>1
<1> HIDE DEF v
<1>4. v # <<>> => Tail(v) \in Seq(Bytes)
  BY <1>3
<1>5. ValueOf(l) \in Seq(Bytes)
  BY <1>3, <1>4 DEF ValueOf, v
<1>6. "LF" \in Bytes /\ <<>> \in Seq(Bytes)
  BY DEF Bytes, Special
<1>7. DataOf(l) \in Seq(Bytes)
  BY <1>5, <1>6 DEF DataOf
<1> QED BY <1>2, <1>5, <1>7

\* The data of a whole block.
Data(B) == DataUpTo(B, Len(B))

\* One more line adds its own data to the data of the block.
LEMMA DataAppend ==
    ASSUME NEW B \in Seq(Lines), NEW L \in Lines
    PROVE  /\ \A i \in 0 .. Len(B) : DataUpTo(Append(B, L), i) = DataUpTo(B, i)
           /\ Data(Append(B, L)) = Data(B) \o DataOf(L)
           /\ \A i \in 0 .. Len(B) : DataUpTo(B, i) \in Seq(Bytes)
<1> DEFINE n == Len(B)
           C == Append(B, L)
           parts(X, i) == [k \in 1 .. i |-> DataOf(X[k])]
<1>1. /\ n \in Nat /\ Len(C) = n + 1 /\ C[n + 1] = L
      /\ \A i \in 1 .. n : C[i] = B[i] /\ B[i] \in Lines
  OBVIOUS
<1> HIDE DEF C
<1>2. \A i \in 1 .. n : DataOf(B[i]) \in Seq(Bytes)
  BY <1>1, LineHas
<1>3. DataOf(L) \in Seq(Bytes)
  BY LineHas
<1> HIDE DEF n
<1>4. ASSUME NEW i \in 0 .. n
      PROVE  /\ parts(B, i) \in Seq(Seq(Bytes)) /\ Len(parts(B, i)) = i
             /\ parts(C, i) = parts(B, i)
  <2>1. \A k \in 1 .. i : k \in 1 .. n
    BY <1>1
  <2>2. parts(B, i) \in [1 .. i -> Seq(Bytes)]
    BY <2>1, <1>2
  <2>3. i \in Nat
    BY <1>1
  <2>4. parts(B, i) \in Seq(Seq(Bytes)) /\ Len(parts(B, i)) = i
    BY <2>2, <2>3
  <2>5. parts(C, i) = parts(B, i)
    BY <2>1, <1>1
  <2> QED BY <2>4, <2>5
<1>5. ASSUME NEW i \in 0 .. n
      PROVE  DataUpTo(C, i) = DataUpTo(B, i) /\ DataUpTo(B, i) \in Seq(Bytes)
  <2>1. DataUpTo(B, i) = FlattenSeq(parts(B, i)) /\ DataUpTo(C, i) = FlattenSeq(parts(C, i))
    BY DEF DataUpTo
  <2>2. FlattenSeq(parts(B, i)) \in Seq(Bytes)
    BY <1>4, FlattenIs
  <2> QED BY <2>1, <2>2, <1>4
<1>6. Data(C) = Data(B) \o DataOf(L)
  <2>1. n \in 0 .. n
    BY <1>1
  <2>2. parts(C, n + 1) = Append(parts(B, n), DataOf(L))
    <3>1. /\ parts(B, n) \in Seq(Seq(Bytes)) /\ Len(parts(B, n)) = n
          /\ \A k \in 1 .. n : parts(B, n)[k] = DataOf(B[k])
      BY <2>1, <1>4
    <3>2. parts(C, n + 1) \in [1 .. n + 1 -> Seq(Bytes)]
      <4>1. ASSUME NEW k \in 1 .. n + 1 PROVE DataOf(C[k]) \in Seq(Bytes)
        <5>1. CASE k = n + 1
          BY <5>1, <1>1, <1>3
        <5>2. CASE k # n + 1
          <6>1. k \in 1 .. n
            BY <5>2, <1>1
          <6> QED BY <6>1, <1>1, <1>2
        <5> QED BY <5>1, <5>2
      <4> QED BY <4>1
    <3>3. parts(C, n + 1) \in Seq(Seq(Bytes)) /\ Len(parts(C, n + 1)) = n + 1
      <4> HIDE DEF parts
      <4>1. n + 1 \in Nat
        BY <1>1
      <4> QED BY <4>1, <3>2
    <3>4. /\ \A k \in 1 .. n : parts(C, n + 1)[k] = DataOf(B[k])
          /\ parts(C, n + 1)[n + 1] = DataOf(L)
      BY <1>1
    <3> HIDE DEF parts
    <3>5. /\ Append(parts(B, n), DataOf(L)) \in Seq(Seq(Bytes))
          /\ Len(Append(parts(B, n), DataOf(L))) = n + 1
          /\ \A k \in 1 .. n : Append(parts(B, n), DataOf(L))[k] = DataOf(B[k])
          /\ Append(parts(B, n), DataOf(L))[n + 1] = DataOf(L)
      BY <3>1, <1>3
    <3>6. \A k \in 1 .. n + 1 : parts(C, n + 1)[k] = Append(parts(B, n), DataOf(L))[k]
      <4>1. \A k \in 1 .. n + 1 : k \in 1 .. n \/ k = n + 1
        BY <1>1
      <4> QED BY <4>1, <3>4, <3>5
    <3> QED BY <3>3, <3>5, <3>6, SeqEqual
  <2>3. Data(C) = FlattenSeq(parts(C, n + 1))
    <3>1. Len(C) = n + 1
      BY <1>1
    <3> QED BY <3>1 DEF Data, DataUpTo
  <2>4. Data(B) = FlattenSeq(parts(B, n))
    BY DEF Data, DataUpTo, n
  <2>5. parts(B, n) \in Seq(Seq(Bytes))
    BY <2>1, <1>4
  <2> HIDE DEF parts
  <2> QED BY <2>2, <2>3, <2>4, <2>5, <1>3, FlattenAppend
<1> QED BY <1>5, <1>6 DEF n, C

\* Why the line L, after the lines B, would make the block undeliverable.
BadType(v) == HasNul(v, Len(v)) \/ Len(v) >= EventBufLen
Spoils(B, L) ==
    \/ FieldOf(L) = "data" /\ Len(Data(B) \o DataOf(L)) > DataBufLen
    \/ FieldOf(L) = "event" /\ BadType(ValueOf(L))
Reason(L) ==
    IF FieldOf(L) = "data" THEN "DATA_TOO_LARGE"
    ELSE IF HasNul(ValueOf(L), EventBufLen) THEN "EVENT_TYPE_INVALID"
    ELSE "EVENT_TYPE_TOO_LARGE"

\* The callbacks of the line L after the lines B.
LineSaid(B, L) ==
    CASE FieldOf(L) = "retry" -> RetryCallback(ValueOf(L))
      [] FieldOf(L) = "id" /\ BadId(ValueOf(L)) -> Err("ID_INVALID")
      [] Causes(B) = {} /\ Spoils(B, L) -> Err(Reason(L))
      [] OTHER -> <<>>

\* One more line is one more of its own field, and of no other.
LEMMA LinesAppend ==
    ASSUME NEW B \in Seq(Lines), NEW L \in Lines, NEW f
    PROVE  /\ LinesOf(Append(B, L), f) =
                 LinesOf(B, f) \cup IF FieldOf(L) = f THEN {Len(B) + 1} ELSE {}
           /\ LinesOf(B, f) \subseteq 1 .. Len(B)
<1> DEFINE n == Len(B)
           C == Append(B, L)
<1>1. /\ n \in Nat /\ DOMAIN C = 1 .. n + 1 /\ DOMAIN B = 1 .. n /\ C[n + 1] = L
      /\ \A i \in 1 .. n : C[i] = B[i]
  OBVIOUS
<1> HIDE DEF C, n
<1>2. LinesOf(C, f) = {i \in 1 .. n + 1 : FieldOf(C[i]) = f} /\ LinesOf(B, f) = {i \in 1 .. n : FieldOf(B[i]) = f}
  BY <1>1 DEF LinesOf
<1>3. \A i : i \in 1 .. n + 1 <=> i \in 1 .. n \/ i = n + 1
  BY <1>1
<1>4. ASSUME NEW i PROVE i \in LinesOf(C, f) <=> i \in LinesOf(B, f) \/ (FieldOf(L) = f /\ i = n + 1)
  <2>1. CASE i \in 1 .. n
    <3>1. C[i] = B[i] /\ i # n + 1
      BY <2>1, <1>1
    <3> QED BY <3>1, <2>1, <1>2, <1>3
  <2>2. CASE i = n + 1
    <3>1. i \notin 1 .. n
      BY <2>2, <1>1
    <3> QED BY <3>1, <2>2, <1>1, <1>2, <1>3
  <2>3. CASE i \notin 1 .. n /\ i # n + 1
    BY <2>3, <1>2, <1>3
  <2> QED BY <2>1, <2>2, <2>3
<1>5. LinesOf(C, f) = LinesOf(B, f) \cup IF FieldOf(L) = f THEN {n + 1} ELSE {}
  BY <1>4
<1> QED BY <1>5, <1>2 DEF C, n

\* One more line is a cause of a loss if it spoils the block; the others stay.
LEMMA CausesAppend ==
    ASSUME NEW B \in Seq(Lines), NEW L \in Lines
    PROVE  /\ Causes(Append(B, L)) =
                 Causes(B) \cup IF Spoils(B, L) THEN {Len(B) + 1} ELSE {}
           /\ Causes(B) \subseteq 1 .. Len(B)
           /\ \A i \in 1 .. Len(B) : i \in TooMuchData(Append(B, L)) <=> i \in TooMuchData(B)
           /\ Len(B) + 1 \in TooMuchData(Append(B, L)) <=> Spoils(B, L) /\ FieldOf(L) = "data"
<1> DEFINE n == Len(B)
           C == Append(B, L)
<1>1. /\ n \in Nat /\ Len(C) = n + 1 /\ C[n + 1] = L
      /\ \A i \in 1 .. n : C[i] = B[i]
  OBVIOUS
<1>2. /\ \A f : LinesOf(C, f) = LinesOf(B, f) \cup IF FieldOf(L) = f THEN {n + 1} ELSE {}
      /\ \A f : LinesOf(B, f) \subseteq 1 .. n
  BY LinesAppend
<1>3. /\ \A i \in 0 .. n : DataUpTo(C, i) = DataUpTo(B, i)
      /\ DataUpTo(C, n + 1) = Data(B) \o DataOf(L)
  <2>1. Data(C) = Data(B) \o DataOf(L) /\ \A i \in 0 .. n : DataUpTo(C, i) = DataUpTo(B, i)
    BY DataAppend
  <2> HIDE DEF C
  <2> QED BY <2>1, <1>1 DEF Data
<1> HIDE DEF C, n
<1>4. \A i \in 1 .. n : i \in TooMuchData(C) <=> i \in TooMuchData(B)
  <2>1. SUFFICES ASSUME NEW i \in 1 .. n PROVE i \in TooMuchData(C) <=> i \in TooMuchData(B)
    OBVIOUS
  <2>2. i \in 0 .. n /\ i # n + 1
    BY <1>1
  <2>3. i \in LinesOf(C, "data") <=> i \in LinesOf(B, "data")
    BY <2>2, <1>2
  <2> QED BY <2>2, <2>3, <1>3 DEF TooMuchData
<1>5. n + 1 \in TooMuchData(C) <=> Spoils(B, L) /\ FieldOf(L) = "data"
  <2>1. n + 1 \notin LinesOf(B, "data")
    BY <1>1, <1>2
  <2>2. n + 1 \in LinesOf(C, "data") <=> FieldOf(L) = "data"
    BY <2>1, <1>2
  <2> QED BY <2>2, <1>3 DEF TooMuchData, Spoils
<1>6. \A i \in 1 .. n : i \in BadEventTypes(C) <=> i \in BadEventTypes(B)
  <2>1. SUFFICES ASSUME NEW i \in 1 .. n PROVE i \in BadEventTypes(C) <=> i \in BadEventTypes(B)
    OBVIOUS
  <2>2. i # n + 1 /\ C[i] = B[i]
    BY <1>1
  <2>3. i \in LinesOf(C, "event") <=> i \in LinesOf(B, "event")
    BY <2>2, <1>2
  <2> QED BY <2>2, <2>3 DEF BadEventTypes
<1>7. n + 1 \in BadEventTypes(C) <=> Spoils(B, L) /\ FieldOf(L) = "event"
  <2>1. n + 1 \notin LinesOf(B, "event")
    BY <1>1, <1>2
  <2>2. n + 1 \in LinesOf(C, "event") <=> FieldOf(L) = "event"
    BY <2>1, <1>2
  <2> QED BY <2>2, <1>1 DEF BadEventTypes, Spoils, BadType
<1>8. /\ TooMuchData(C) \subseteq 1 .. n + 1 /\ BadEventTypes(C) \subseteq 1 .. n + 1
      /\ TooMuchData(B) \subseteq 1 .. n /\ BadEventTypes(B) \subseteq 1 .. n
  <2>1. \A f : LinesOf(C, f) \subseteq 1 .. n + 1
    BY <1>1, <1>2
  <2> QED BY <2>1, <1>2 DEF TooMuchData, BadEventTypes
<1>9. ASSUME NEW i PROVE i \in Causes(C) <=> i \in Causes(B) \/ (Spoils(B, L) /\ i = n + 1)
  <2>1. CASE i \in 1 .. n
    <3>1. i # n + 1
      BY <2>1, <1>1
    <3> QED BY <2>1, <3>1, <1>4, <1>6 DEF Causes
  <2>2. CASE i = n + 1
    <3>1. i \notin Causes(B)
      BY <2>2, <1>1, <1>8 DEF Causes
    <3>2. Spoils(B, L) => FieldOf(L) = "data" \/ FieldOf(L) = "event"
      BY DEF Spoils
    <3> QED BY <2>2, <3>1, <3>2, <1>5, <1>7 DEF Causes
  <2>3. CASE i \notin 1 .. n + 1
    <3>1. i \notin 1 .. n /\ i # n + 1
      BY <2>3, <1>1
    <3> QED BY <2>3, <3>1, <1>8 DEF Causes
  <2> QED BY <2>1, <2>2, <2>3, <1>1
<1>10. Causes(C) = Causes(B) \cup IF Spoils(B, L) THEN {n + 1} ELSE {}
  BY <1>9
<1>11. Causes(B) \subseteq 1 .. n
  BY <1>8 DEF Causes
<1> QED BY <1>4, <1>5, <1>10, <1>11 DEF C, n

\* What the parser may report.
LEMMA RetryCallbackIs ==
    ASSUME NEW v \in Seq(Bytes)
    PROVE  /\ RetryCallback(v) \in Seq(Reports)
           /\ v # <<>> /\ (\A k \in DOMAIN v : v[k] \in Digits) => v \in Seq(Digits)
<1>1. ASSUME v # <<>>, \A k \in DOMAIN v : v[k] \in Digits PROVE v \in Seq(Digits)
  <2>1. v \in [1 .. Len(v) -> Digits] /\ Len(v) \in Nat
    BY <1>1
  <2> QED BY <2>1
<1>2. Err("INVALID_RETRY") \in Seq(Reports)
  BY DEF Err, Reports, Perrs
<1>3. ASSUME v # <<>>, \A k \in DOMAIN v : v[k] \in Digits
      PROVE  RetryCallback(v) \in Seq(Reports)
  <2> DEFINE ms == IF Number(v) > RetryMax THEN RetryMax ELSE Number(v)
  <2>1. Number(v) \in Nat
    BY <1>1, <1>3, NumberIs
  <2>2. ms \in Nat
    BY <2>1, BufferAssumption
  <2>3. RetryCallback(v) = <<[cb |-> "on_retry", ms |-> ms]>>
    BY <1>3 DEF RetryCallback
  <2> HIDE DEF ms
  <2>4. [cb |-> "on_retry", ms |-> ms] \in Reports
    BY <2>2 DEF Reports
  <2> QED BY <2>3, <2>4
<1>4. ASSUME ~ (v # <<>> /\ \A k \in DOMAIN v : v[k] \in Digits)
      PROVE  RetryCallback(v) \in Seq(Reports)
  <2>1. RetryCallback(v) = Err("INVALID_RETRY")
    BY <1>4 DEF RetryCallback
  <2> QED BY <2>1, <1>2
<1> QED BY <1>1, <1>3, <1>4

\* An error is reported by one callback.
LEMMA ErrIs ==
    ASSUME NEW e \in Perrs
    PROVE  Err(e) \in Seq(Reports)
<1>1. [cb |-> "on_error", err |-> e] \in Reports
  BY DEF Reports
<1> QED BY <1>1 DEF Err

\* What is called for one more line is a sequence of reports.
LEMMA LineSaidIs ==
    ASSUME NEW B, NEW L \in Lines
    PROVE  LineSaid(B, L) \in Seq(Reports)
<1>1. ValueOf(L) \in Seq(Bytes)
  BY LineHas
<1>2. RetryCallback(ValueOf(L)) \in Seq(Reports)
  BY <1>1, RetryCallbackIs
<1>3. Err("ID_INVALID") \in Seq(Reports)
  BY ErrIs DEF Perrs
<1>4. Reason(L) \in Perrs
  BY DEF Reason, Perrs
<1>5. Err(Reason(L)) \in Seq(Reports)
  BY <1>4, ErrIs
<1>6. <<>> \in Seq(Reports)
  OBVIOUS
<1> QED BY <1>2, <1>3, <1>5, <1>6 DEF LineSaid

\* The lines before it are not changed by one more line.
LEMMA CallbacksAppend ==
    ASSUME NEW B \in Seq(Lines), NEW L \in Lines
    PROVE  /\ \A i \in 1 .. Len(B) : LineCallbacks(Append(B, L), i) = LineCallbacks(B, i)
           /\ LineCallbacks(Append(B, L), Len(B) + 1) = LineSaid(B, L)
<1> DEFINE n == Len(B)
           C == Append(B, L)
<1>1. /\ n \in Nat /\ Len(C) = n + 1 /\ C[n + 1] = L
      /\ \A i \in 1 .. n : C[i] = B[i]
  OBVIOUS
<1>2. /\ Causes(C) = Causes(B) \cup IF Spoils(B, L) THEN {n + 1} ELSE {}
      /\ Causes(B) \subseteq 1 .. n
      /\ \A i \in 1 .. n : i \in TooMuchData(C) <=> i \in TooMuchData(B)
      /\ n + 1 \in TooMuchData(C) <=> Spoils(B, L) /\ FieldOf(L) = "data"
  BY CausesAppend
<1> HIDE DEF C, n
<1>3. ASSUME NEW i \in 1 .. n PROVE LineCallbacks(C, i) = LineCallbacks(B, i)
  <2>1. C[i] = B[i] /\ i # n + 1 /\ i <= n + 1
    BY <1>1
  <2>2. CauseAt(C, i) = CauseAt(B, i)
    BY <2>1, <1>2 DEF CauseAt
  <2>3. i \in Causes(C) <=> i \in Causes(B)
    BY <2>1, <1>2
  <2>4. (\A j \in Causes(C) : i <= j) <=> (\A j \in Causes(B) : i <= j)
    BY <2>1, <1>2
  <2> QED BY <2>1, <2>2, <2>3, <2>4 DEF LineCallbacks
<1>4. LineCallbacks(C, n + 1) = LineSaid(B, L)
  <2>1. n + 1 \in Causes(C) <=> Spoils(B, L)
    BY <1>1, <1>2
  <2>2. Spoils(B, L) => ((\A j \in Causes(C) : n + 1 <= j) <=> Causes(B) = {})
    BY <1>1, <1>2
  <2>3. Spoils(B, L) => CauseAt(C, n + 1) = Reason(L)
    BY <1>1, <1>2 DEF CauseAt, Reason, Spoils
  <2>4. (n + 1 \in Causes(C) /\ \A j \in Causes(C) : n + 1 <= j) <=> Causes(B) = {} /\ Spoils(B, L)
    BY <2>1, <2>2
  <2> QED BY <2>3, <2>4, <1>1 DEF LineCallbacks, LineSaid
<1> QED BY <1>3, <1>4 DEF C, n

\* The callbacks of the lines of a block, before its end.
SaidFor(B) == FlattenSeq([i \in DOMAIN B |-> LineCallbacks(B, i)])

\* What is called for a line of a block is a sequence of reports.
LEMMA LineCallbacksIs ==
    ASSUME NEW B \in Seq(Lines), NEW i \in 1 .. Len(B)
    PROVE  LineCallbacks(B, i) \in Seq(Reports)
<1>1. ValueOf(B[i]) \in Seq(Bytes)
  BY LineHas
<1>2. RetryCallback(ValueOf(B[i])) \in Seq(Reports)
  BY <1>1, RetryCallbackIs
<1>3. Err("ID_INVALID") \in Seq(Reports)
  BY ErrIs DEF Perrs
<1>4. CauseAt(B, i) \in Perrs
  BY DEF CauseAt, Perrs
<1>5. Err(CauseAt(B, i)) \in Seq(Reports)
  BY <1>4, ErrIs
<1>6. <<>> \in Seq(Reports)
  OBVIOUS
<1> QED BY <1>2, <1>3, <1>5, <1>6 DEF LineCallbacks

\* One more line adds its own callbacks to those of the lines before it.
LEMMA SaidAppend ==
    ASSUME NEW B \in Seq(Lines), NEW L \in Lines
    PROVE  /\ SaidFor(Append(B, L)) = SaidFor(B) \o LineSaid(B, L)
           /\ SaidFor(B) \in Seq(Reports)
<1> DEFINE n == Len(B)
           C == Append(B, L)
           parts == [i \in 1 .. n |-> LineCallbacks(B, i)]
           all == [i \in 1 .. n + 1 |-> LineCallbacks(C, i)]
<1>1. n \in Nat /\ DOMAIN B = 1 .. n /\ DOMAIN C = 1 .. n + 1
  OBVIOUS
<1>2. /\ \A i \in 1 .. n : LineCallbacks(C, i) = LineCallbacks(B, i)
      /\ LineCallbacks(C, n + 1) = LineSaid(B, L)
  BY CallbacksAppend
<1>3. \A i \in 1 .. n : LineCallbacks(B, i) \in Seq(Reports)
  BY LineCallbacksIs
<1>4. LineSaid(B, L) \in Seq(Reports)
  BY LineSaidIs
<1>5. SaidFor(B) = FlattenSeq(parts) /\ SaidFor(C) = FlattenSeq(all)
  BY <1>1, Zenon DEF SaidFor
<1> HIDE DEF C, n
<1>6. parts \in Seq(Seq(Reports)) /\ Len(parts) = n
  <2>1. parts \in [1 .. n -> Seq(Reports)]
    BY <1>3
  <2> HIDE DEF parts
  <2> QED BY <2>1, <1>1
<1>7. all \in Seq(Seq(Reports)) /\ Len(all) = n + 1
  <2>1. ASSUME NEW i \in 1 .. n + 1 PROVE LineCallbacks(C, i) \in Seq(Reports)
    <3>1. i \in 1 .. n \/ i = n + 1
      BY <1>1
    <3> QED BY <3>1, <1>2, <1>3, <1>4
  <2>2. all \in [1 .. n + 1 -> Seq(Reports)]
    BY <2>1
  <2>3. n + 1 \in Nat
    BY <1>1
  <2> HIDE DEF all
  <2> QED BY <2>2, <2>3
<1>8. /\ \A i \in 1 .. n : all[i] = LineCallbacks(B, i) /\ parts[i] = LineCallbacks(B, i)
      /\ all[n + 1] = LineSaid(B, L)
  BY <1>1, <1>2
<1> HIDE DEF parts, all
<1>9. all = Append(parts, LineSaid(B, L))
  <2>1. /\ Append(parts, LineSaid(B, L)) \in Seq(Seq(Reports))
        /\ Len(Append(parts, LineSaid(B, L))) = n + 1
        /\ \A i \in 1 .. n : Append(parts, LineSaid(B, L))[i] = parts[i]
        /\ Append(parts, LineSaid(B, L))[n + 1] = LineSaid(B, L)
    BY <1>4, <1>6
  <2>2. \A i \in 1 .. n + 1 : all[i] = Append(parts, LineSaid(B, L))[i]
    <3>1. \A i \in 1 .. n + 1 : i \in 1 .. n \/ i = n + 1
      BY <1>1
    <3> QED BY <3>1, <2>1, <1>8
  <2> QED BY <2>1, <2>2, <1>7, SeqEqual
<1>10. FlattenSeq(parts) \in Seq(Reports) /\ FlattenSeq(all) = FlattenSeq(parts) \o LineSaid(B, L)
  BY <1>4, <1>6, <1>9, FlattenIs, FlattenAppend
<1> QED BY <1>5, <1>10 DEF C

\* A block without lines.
LEMMA EmptyBlock ==
    /\ SaidFor(<<>>) = <<>> /\ Data(<<>>) = <<>> /\ Causes(<<>>) = {}
    /\ \A f : LinesOf(<<>>, f) = {}
<1>1. \A f : LinesOf(<<>>, f) = {}
  BY DEF LinesOf
<1>2. Causes(<<>>) = {}
  BY <1>1 DEF Causes, TooMuchData, BadEventTypes
<1>3. <<>> \in Seq(Seq(Reports)) /\ Len(<<>>) = 0 /\ <<>> \in Seq(Seq(Bytes))
  OBVIOUS
<1>4. FlattenSeq(<<>>) = <<>>
  BY <1>3, FlattenIs
<1>5. SaidFor(<<>>) = <<>>
  <2>1. [i \in DOMAIN <<>> |-> LineCallbacks(<<>>, i)] = <<>>
    OBVIOUS
  <2> QED BY <2>1, <1>4, Zenon DEF SaidFor
<1>6. Data(<<>>) = <<>>
  <2>1. [i \in 1 .. 0 |-> DataOf(<<>>[i])] = <<>>
    OBVIOUS
  <2>2. Data(<<>>) = FlattenSeq([i \in 1 .. 0 |-> DataOf(<<>>[i])])
    BY <1>3, Zenon DEF Data, DataUpTo
  <2> QED BY <2>1, <2>2, <1>4, Zenon
<1> QED BY <1>1, <1>2, <1>5, <1>6

\* What a block has called and its data are sequences of the right things.
LEMMA SaidIs ==
    ASSUME NEW B \in Seq(Lines)
    PROVE  SaidFor(B) \in Seq(Reports) /\ Data(B) \in Seq(Bytes)
<1>1. <<"LF">> \in Lines
  BY DEF Lines, Bytes, Special
<1>2. Len(B) \in 0 .. Len(B)
  OBVIOUS
<1> QED BY <1>1, <1>2, SaidAppend, DataAppend DEF Data

\* A set of line numbers has a largest one.
LEMMA MaxIs ==
    ASSUME NEW n \in Nat, NEW S \in SUBSET (1 .. n), S # {}
    PROVE  Max(S) \in S /\ \A y \in S : Max(S) >= y
<1> DEFINE U == {k \in Nat : \A R \in SUBSET (1 .. k) : R # {} => \E x \in R : \A y \in R : x >= y}
<1>1. 0 \in U
  <2>1. SUFFICES ASSUME NEW R \in SUBSET (1 .. 0), R # {} PROVE FALSE
    OBVIOUS
  <2>2. PICK x \in R : TRUE
    BY <2>1
  <2>3. x \in 1 .. 0
    BY <2>2
  <2> QED BY <2>3
<1>2. ASSUME NEW k \in Nat, k \in U PROVE k + 1 \in U
  <2>1. SUFFICES ASSUME NEW R \in SUBSET (1 .. k + 1), R # {}
                 PROVE  \E x \in R : \A y \in R : x >= y
    OBVIOUS
  <2>2. CASE k + 1 \in R
    BY <2>2
  <2>3. CASE k + 1 \notin R
    <3>1. R \in SUBSET (1 .. k)
      BY <2>3
    <3> QED BY <3>1, <2>1, <1>2
  <2> QED BY <2>2, <2>3
<1>3. \A k \in Nat : k \in U
  <2> HIDE DEF U
  <2> QED BY <1>1, <1>2, Induction
<1>4. \E x \in S : \A y \in S : x >= y
  BY <1>3
<1> QED BY <1>4, Zenon DEF Max

\* The value of the last line with a field, if there is one.
LastValue(B, f) ==
    IF LinesOf(B, f) = {} THEN <<>> ELSE ValueOf(B[Max(LinesOf(B, f))])

\* One more line replaces the last value of its own field only.
LEMMA LastValueAppend ==
    ASSUME NEW B \in Seq(Lines), NEW L \in Lines, NEW f
    PROVE  LastValue(Append(B, L), f) =
              IF FieldOf(L) = f THEN ValueOf(L) ELSE LastValue(B, f)
<1> DEFINE n == Len(B)
           C == Append(B, L)
<1>1. /\ n \in Nat /\ Len(C) = n + 1 /\ C[n + 1] = L
      /\ \A i \in 1 .. n : C[i] = B[i]
  OBVIOUS
<1>2. /\ LinesOf(C, f) = LinesOf(B, f) \cup IF FieldOf(L) = f THEN {n + 1} ELSE {}
      /\ LinesOf(B, f) \subseteq 1 .. n
  BY LinesAppend
<1> HIDE DEF C, n
<1>3. CASE FieldOf(L) = f
  <2>1. n + 1 \in Nat /\ LinesOf(C, f) \in SUBSET (1 .. n + 1) /\ n + 1 \in LinesOf(C, f)
    BY <1>1, <1>2, <1>3
  <2>2. Max(LinesOf(C, f)) \in LinesOf(C, f) /\ Max(LinesOf(C, f)) >= n + 1
    BY <2>1, MaxIs
  <2>3. Max(LinesOf(C, f)) = n + 1
    BY <2>1, <2>2
  <2> QED BY <2>1, <2>3, <1>1, <1>3 DEF LastValue, C
<1>4. CASE FieldOf(L) # f /\ LinesOf(B, f) # {}
  <2>1. LinesOf(C, f) = LinesOf(B, f)
    BY <1>2, <1>4
  <2>2. Max(LinesOf(B, f)) \in LinesOf(B, f)
    BY <1>1, <1>2, <1>4, MaxIs
  <2>3. C[Max(LinesOf(B, f))] = B[Max(LinesOf(B, f))]
    BY <2>2, <1>1, <1>2
  <2> QED BY <2>1, <2>3, <1>4 DEF LastValue, C
<1>5. CASE FieldOf(L) # f /\ LinesOf(B, f) = {}
  BY <1>2, <1>5 DEF LastValue, C
<1> QED BY <1>3, <1>4, <1>5

----------------------------------------------------------------------------
(* What the struct holds of a block, in the middle of a line or between     *)
(* two: B are the complete lines, v is what has come of the value of the    *)
(* field f; f is "none" when no value is being read.                        *)

\* What has come of the value makes the block undeliverable, and why.
Bad(B, f, v) ==
    \/ f = "data" /\ Len(Data(B) \o v) > DataBufLen
    \/ f = "event" /\ BadType(v)
Why(f, v) ==
    IF f = "data" THEN "DATA_TOO_LARGE"
    ELSE IF HasNul(v, EventBufLen) THEN "EVENT_TYPE_INVALID"
    ELSE "EVENT_TYPE_TOO_LARGE"

\* The errors reported for a line before it is complete.
SoFar(B, f, v) ==
    CASE f = "id" /\ BadId(v) -> Err("ID_INVALID")
      [] Causes(B) = {} /\ Bad(B, f, v) -> Err(Why(f, v))
      [] OTHER -> <<>>

\* The data and the event type, unless the block is lost.
BlockHeld(q, B, f, v) ==
    /\ q.block_discarded <=> (Causes(B) # {} \/ Bad(B, f, v))
    /\ ~ q.block_discarded =>
          /\ q.data = IF f = "data" THEN Data(B) \o v ELSE Data(B)
          /\ q.data_lines > 0 <=> LinesOf(B, "data") # {}
          /\ q.event = IF f = "event" THEN v ELSE LastValue(B, "event")
          /\ f # "event" => (q.has_event <=> q.event # <<>>)

IdHeld(q, B, f, v) ==
    IF f = "id"
    THEN /\ q.id_invalid <=> BadId(v)
         /\ ~ q.id_invalid => q.id = v
    ELSE /\ q.has_id <=> LinesOf(B, "id") # {} /\ ~ BadId(LastValue(B, "id"))
         /\ q.has_id => q.id = LastValue(B, "id")

AtMost(n) == IF n > RetryMax THEN RetryMax ELSE n

RetryHeld(q, f, v) ==
    f = "retry" =>
        /\ q.retry_invalid <=> \E k \in DOMAIN v : v[k] \notin Digits
        /\ ~ q.retry_invalid =>
              /\ q.retry_seen_digit <=> v # <<>>
              /\ q.retry_acc = AtMost(Number(v))

Reading(q, B, f, v) == BlockHeld(q, B, f, v) /\ IdHeld(q, B, f, v) /\ RetryHeld(q, f, v)

\* What one more byte does to the conditions on a value.
LEMMA ValueAppend ==
    ASSUME NEW v \in Seq(Bytes), NEW b \in Bytes
    PROVE  /\ Append(v, b) \in Seq(Bytes) /\ Len(Append(v, b)) = Len(v) + 1
           /\ \A n : HasNul(Append(v, b), n) <=> HasNul(v, n) \/ (Len(v) + 1 <= n /\ b = "NUL")
           /\ (\E k \in DOMAIN Append(v, b) : Append(v, b)[k] \notin Digits)
                 <=> (\E k \in DOMAIN v : v[k] \notin Digits) \/ b \notin Digits
           /\ Append(v, b) # <<>>
<1> DEFINE w == Append(v, b)
           n == Len(v)
<1>1. /\ w \in Seq(Bytes) /\ n \in Nat /\ Len(w) = n + 1 /\ DOMAIN w = 1 .. n + 1
      /\ DOMAIN v = 1 .. n /\ w[n + 1] = b /\ \A k \in 1 .. n : w[k] = v[k]
  OBVIOUS
<1> HIDE DEF w, n
<1>2. \A k : k \in 1 .. n + 1 <=> k \in 1 .. n \/ k = n + 1
  BY <1>1
<1>3. \A m : HasNul(w, m) <=> HasNul(v, m) \/ (n + 1 <= m /\ b = "NUL")
  BY <1>1, <1>2 DEF HasNul
<1>4. (\E k \in DOMAIN w : w[k] \notin Digits) <=> (\E k \in DOMAIN v : v[k] \notin Digits) \/ b \notin Digits
  BY <1>1, <1>2
<1>5. w # <<>>
  BY <1>1
<1> QED BY <1>1, <1>3, <1>4, <1>5 DEF w, n

\* data_byte().
LEMMA DataByteReads ==
    ASSUME NEW B \in Seq(Lines), NEW v \in Seq(Bytes), NEW b \in Bytes,
           NEW q, Good(q), Reading(q, B, "data", v), q.out = <<>>
    PROVE  /\ Reading(DataByte(q, b), B, "data", Append(v, b))
           /\ SoFar(B, "data", v) \o DataByte(q, b).out = SoFar(B, "data", Append(v, b))
<1> DEFINE w == Append(v, b)
<1>1. /\ Data(B) \in Seq(Bytes) /\ w \in Seq(Bytes)
      /\ Data(B) \o v \in Seq(Bytes)
      /\ Data(B) \o w = Append(Data(B) \o v, b)
      /\ Len(Data(B) \o v) \in Nat
      /\ Len(Data(B) \o w) = Len(Data(B) \o v) + 1
  BY SaidIs
<1>2. q \in Structs /\ DataBufLen \in Nat
  BY BufferAssumption DEF Good
<1> SUFFICES /\ Reading(DataByte(q, b), B, "data", w)
             /\ SoFar(B, "data", v) \o DataByte(q, b).out = SoFar(B, "data", w)
  OBVIOUS
<1> HIDE DEF w
<1>3. Bad(B, "data", v) => Bad(B, "data", w)
  BY <1>1, <1>2 DEF Bad
<1>4. Why("data", w) = Why("data", v) /\ "data" # "id" /\ Err(Why("data", v)) \o <<>> = Err(Why("data", v))
  BY DEF Why, Err
<1>5. CASE q.block_discarded
  <2>1. DataByte(q, b) = q
    BY <1>5 DEF DataByte
  <2>2. Causes(B) # {} \/ Bad(B, "data", v)
    BY <1>5 DEF Reading, BlockHeld
  <2>3. Reading(q, B, "data", w)
    BY <1>3, <1>5, <2>2 DEF Reading, BlockHeld, IdHeld, RetryHeld
  <2>4. SoFar(B, "data", v) \o <<>> = SoFar(B, "data", w)
    BY <1>3, <1>4, <2>2 DEF SoFar
  <2> QED BY <2>1, <2>3, <2>4
<1>6. CASE ~ q.block_discarded
  <2>1. /\ Causes(B) = {} /\ ~ Bad(B, "data", v) /\ q.data = Data(B) \o v
        /\ Len(q.data) <= DataBufLen
    BY <1>6 DEF Reading, BlockHeld, Good, Fits
  <2>2. CASE DataFull(q)
    <3> DEFINE s == [q EXCEPT !.block_discarded = TRUE]
               r == [s EXCEPT !.out = Append(s.out, [cb |-> "on_error", err |-> "DATA_TOO_LARGE"])]
    <3>1. DataByte(q, b) = r
      BY <1>6, <2>2 DEF DataByte, DiscardBlock, EmitPerr, Emit
    <3>2. /\ r.block_discarded /\ r.out = Err("DATA_TOO_LARGE")
          /\ r.has_id = q.has_id /\ r.id = q.id
      <4>1. /\ s \in Structs /\ s.out = <<>> /\ s.block_discarded
            /\ s.has_id = q.has_id /\ s.id = q.id
        BY <1>2 DEF Structs
      <4> HIDE DEF s
      <4>2. /\ r.out = <<[cb |-> "on_error", err |-> "DATA_TOO_LARGE"]>>
            /\ r.block_discarded /\ r.has_id = s.has_id /\ r.id = s.id
        BY <4>1 DEF Structs
      <4> QED BY <4>1, <4>2 DEF Err
    <3> HIDE DEF r
    <3>3. Bad(B, "data", w)
      BY <1>1, <2>1, <2>2 DEF Bad, DataFull
    <3>4. Reading(r, B, "data", w)
      BY <3>2, <3>3 DEF Reading, BlockHeld, IdHeld, RetryHeld
    <3>5. SoFar(B, "data", v) = <<>> /\ SoFar(B, "data", w) = Err("DATA_TOO_LARGE")
      BY <2>1, <3>3 DEF SoFar, Why
    <3>6. <<>> \o Err("DATA_TOO_LARGE") = Err("DATA_TOO_LARGE")
      BY DEF Err
    <3> QED BY <3>1, <3>2, <3>4, <3>5, <3>6
  <2>3. CASE ~ DataFull(q)
    <3> DEFINE r == [q EXCEPT !.data = Append(q.data, b)]
    <3>1. DataByte(q, b) = r
      BY <1>6, <2>3 DEF DataByte
    <3>2. /\ r.data = Append(q.data, b) /\ r.out = <<>>
          /\ r.block_discarded = q.block_discarded /\ r.data_lines = q.data_lines
          /\ r.event = q.event /\ r.has_event = q.has_event
          /\ r.has_id = q.has_id /\ r.id = q.id
      BY <1>2 DEF Structs
    <3> HIDE DEF r
    <3>3. ~ Bad(B, "data", w)
      <4>1. Len(Data(B) \o v) <= DataBufLen /\ Len(Data(B) \o v) # DataBufLen
        BY <2>1, <2>3 DEF DataFull
      <4>2. Len(Data(B) \o w) <= DataBufLen
        BY <4>1, <1>1, <1>2
      <4>3. Len(Data(B) \o w) \in Nat
        BY <1>1
      <4> QED BY <4>2, <4>3, <1>2 DEF Bad
    <3>4. r.data = Data(B) \o w
      BY <3>2, <2>1, <1>1
    <3>5. Reading(r, B, "data", w)
      BY <3>2, <3>3, <3>4, <2>1, <1>6 DEF Reading, BlockHeld, IdHeld, RetryHeld
    <3>6. SoFar(B, "data", v) = <<>> /\ SoFar(B, "data", w) = <<>>
      BY <2>1, <3>3 DEF SoFar
    <3> QED BY <3>1, <3>2, <3>5, <3>6
  <2> QED BY <2>2, <2>3
<1> QED BY <1>5, <1>6

\* A report changes nothing that Reading is about.
Alike(q, r) ==
    /\ r.data = q.data /\ r.data_lines = q.data_lines
    /\ r.block_discarded = q.block_discarded
    /\ r.event = q.event /\ r.has_event = q.has_event
    /\ r.id = q.id /\ r.has_id = q.has_id /\ r.id_invalid = q.id_invalid
    /\ r.retry_acc = q.retry_acc /\ r.retry_seen_digit = q.retry_seen_digit
    /\ r.retry_invalid = q.retry_invalid

\* Two structs that agree on the fields Reading is about have read the same.
LEMMA AlikeReads ==
    ASSUME NEW q, NEW r, Alike(q, r), NEW B, NEW f, NEW v
    PROVE  Reading(q, B, f, v) <=> Reading(r, B, f, v)
<1>1. BlockHeld(q, B, f, v) <=> BlockHeld(r, B, f, v)
  BY DEF Alike, BlockHeld
<1>2. IdHeld(q, B, f, v) <=> IdHeld(r, B, f, v)
  BY DEF Alike, IdHeld
<1>3. RetryHeld(q, f, v) <=> RetryHeld(r, f, v)
  BY DEF Alike, RetryHeld
<1> QED BY <1>1, <1>2, <1>3 DEF Reading

\* A callback adds itself to the output and changes nothing else.
LEMMA EmitIs ==
    ASSUME NEW q \in Structs, NEW c
    PROVE  /\ Alike(q, Emit(q, c)) /\ Emit(q, c).field = q.field
           /\ Emit(q, c).state = q.state /\ Emit(q, c).swallow_lf = q.swallow_lf
           /\ Emit(q, c).out = Append(q.out, c)
<1> DEFINE r == [q EXCEPT !.out = Append(q.out, c)]
<1>1. /\ r.out = Append(q.out, c) /\ r.field = q.field /\ r.state = q.state
      /\ r.swallow_lf = q.swallow_lf /\ Alike(q, r)
  BY DEF Structs, Alike
<1>2. Emit(q, c) = r
  BY DEF Emit
<1> QED BY <1>1, <1>2

\* An error that is reported first is the whole output.
LEMMA PerrIs ==
    ASSUME NEW q \in Structs, q.out = <<>>, NEW e
    PROVE  Alike(q, EmitPerr(q, e)) /\ EmitPerr(q, e).out = Err(e)
<1> DEFINE c == [cb |-> "on_error", err |-> e]
<1>1. Append(<<>>, c) = <<c>>
  OBVIOUS
<1> QED BY <1>1, EmitIs DEF EmitPerr, Err

\* A report before or after nothing is the report.
LEMMA ErrConcat ==
    ASSUME NEW e
    PROVE  <<>> \o Err(e) = Err(e) /\ Err(e) \o <<>> = Err(e)
BY DEF Err

\* event_byte().
LEMMA EventByteReads ==
    ASSUME NEW B \in Seq(Lines), NEW v \in Seq(Bytes), NEW b \in Bytes,
           NEW q, Good(q), Reading(q, B, "event", v), q.out = <<>>
    PROVE  /\ Reading(EventByte(q, b), B, "event", Append(v, b))
           /\ SoFar(B, "event", v) \o EventByte(q, b).out = SoFar(B, "event", Append(v, b))
<1> DEFINE w == Append(v, b)
<1> SUFFICES /\ Reading(EventByte(q, b), B, "event", w)
             /\ SoFar(B, "event", v) \o EventByte(q, b).out = SoFar(B, "event", w)
  OBVIOUS
<1>1. /\ w \in Seq(Bytes) /\ Len(w) = Len(v) + 1 /\ Len(v) \in Nat
      /\ \A n : HasNul(w, n) <=> HasNul(v, n) \/ (Len(v) + 1 <= n /\ b = "NUL")
  BY ValueAppend
<1>2. q \in Structs /\ EventBufLen \in Nat
  BY BufferAssumption DEF Good
<1>0. /\ Len(v) <= EventBufLen => (HasNul(v, Len(v)) <=> HasNul(v, EventBufLen))
      /\ HasNul(v, Len(v)) => HasNul(v, Len(v) + 1)
      /\ Len(w) <= EventBufLen => (HasNul(w, Len(w)) <=> HasNul(w, EventBufLen))
      /\ ~ HasNul(v, Len(v)) => ~ HasNul(v, Len(v) + 1) /\ ~ HasNul(v, EventBufLen)
  <2>1. \A k \in DOMAIN v : k <= Len(v) /\ k <= Len(v) + 1
    BY <1>1
  <2>2. Len(w) \in Nat
    BY <1>1
  <2> HIDE DEF w
  <2>3. \A k \in DOMAIN w : k <= Len(w)
    BY <1>1
  <2>4. \A k \in DOMAIN w : k \in Nat
    BY <1>1
  <2>5. \A k \in DOMAIN v : k \in Nat
    BY <1>1
  <2> QED BY <2>1, <2>2, <2>3, <2>4, <2>5, <1>1, <1>2 DEF HasNul
<1> HIDE DEF w
<1>3. Bad(B, "event", v) => Bad(B, "event", w) /\ Why("event", w) = Why("event", v)
  <2>1. Bad(B, "event", v) => Bad(B, "event", w)
    BY <1>0, <1>1, <1>2 DEF Bad, BadType
  <2>2. Bad(B, "event", v) => (HasNul(w, EventBufLen) <=> HasNul(v, EventBufLen))
    BY <1>0, <1>1, <1>2 DEF Bad, BadType
  <2> QED BY <2>1, <2>2 DEF Why
<1>4. CASE q.block_discarded
  <2>1. EventByte(q, b) = q
    BY <1>4 DEF EventByte
  <2>2. Causes(B) # {} \/ Bad(B, "event", v)
    BY <1>4 DEF Reading, BlockHeld
  <2>3. Reading(q, B, "event", w)
    BY <1>3, <1>4, <2>2 DEF Reading, BlockHeld, IdHeld, RetryHeld
  <2>4. SoFar(B, "event", v) \o <<>> = SoFar(B, "event", w)
    <3>1. CASE Causes(B) # {}
      BY <3>1 DEF SoFar
    <3>2. CASE Causes(B) = {}
      BY <3>2, <2>2, <1>3, ErrConcat DEF SoFar
    <3> QED BY <3>1, <3>2
  <2> QED BY <2>1, <2>3, <2>4
<1>5. CASE ~ q.block_discarded
  <2>1. /\ Causes(B) = {} /\ ~ Bad(B, "event", v) /\ q.event = v
        /\ ~ HasNul(v, Len(v)) /\ Len(v) < EventBufLen
    BY <1>1, <1>2, <1>5 DEF Reading, BlockHeld, Bad, BadType
  <2>2. ASSUME NEW e, EventByte(q, b) = DiscardBlock(q, e), Bad(B, "event", w), Why("event", w) = e
        PROVE  /\ Reading(EventByte(q, b), B, "event", w)
               /\ SoFar(B, "event", v) \o EventByte(q, b).out = SoFar(B, "event", w)
    <3> DEFINE s == [q EXCEPT !.block_discarded = TRUE]
               r == EmitPerr(s, e)
    <3>1. EventByte(q, b) = r
      BY <1>5, <2>2 DEF DiscardBlock
    <3>2. s \in Structs /\ s.out = <<>> /\ s.block_discarded /\ s.has_id = q.has_id /\ s.id = q.id
      BY <1>2 DEF Structs
    <3> HIDE DEF s
    <3>3. Alike(s, r) /\ r.out = Err(e)
      BY <3>2, PerrIs
    <3> HIDE DEF r
    <3>4. Reading(r, B, "event", w)
      BY <3>2, <3>3, <2>2 DEF Reading, BlockHeld, IdHeld, RetryHeld, Alike
    <3>5. SoFar(B, "event", v) = <<>> /\ SoFar(B, "event", w) = Err(e)
      BY <2>1, <2>2 DEF SoFar
    <3> QED BY <3>1, <3>3, <3>4, <3>5, ErrConcat
  <2>3. CASE b = "NUL"
    <3>1. EventByte(q, b) = DiscardBlock(q, "EVENT_TYPE_INVALID")
      BY <1>5, <2>3 DEF EventByte
    <3>2. HasNul(w, EventBufLen) /\ HasNul(w, Len(w))
      BY <2>1, <2>3, <1>1, <1>2
    <3>3. Bad(B, "event", w) /\ Why("event", w) = "EVENT_TYPE_INVALID"
      BY <3>2 DEF Bad, BadType, Why
    <3> QED BY <3>1, <3>3, <2>2
  <2>4. CASE b # "NUL" /\ Len(v) + 1 >= EventBufLen
    <3>1. EventByte(q, b) = DiscardBlock(q, "EVENT_TYPE_TOO_LARGE")
      BY <1>5, <2>1, <2>4 DEF EventByte
    <3>2. ~ HasNul(w, EventBufLen)
      BY <2>1, <2>4, <1>0, <1>1
    <3>3. Bad(B, "event", w) /\ Why("event", w) = "EVENT_TYPE_TOO_LARGE"
      BY <3>2, <2>4, <1>1 DEF Bad, BadType, Why
    <3> QED BY <3>1, <3>3, <2>2
  <2>5. CASE b # "NUL" /\ ~ Len(v) + 1 >= EventBufLen
    <3> DEFINE r == [q EXCEPT !.event = Append(q.event, b)]
    <3>1. EventByte(q, b) = r
      BY <1>5, <2>1, <2>5 DEF EventByte
    <3>2. /\ r.event = w /\ r.out = <<>>
          /\ r.block_discarded = q.block_discarded /\ r.data_lines = q.data_lines
          /\ r.data = q.data /\ r.has_id = q.has_id /\ r.id = q.id
      BY <1>2, <2>1 DEF Structs, w
    <3> HIDE DEF r
    <3>3. ~ HasNul(w, Len(w))
      <4>1. ~ HasNul(v, Len(v) + 1)
        BY <2>1, <1>0
      <4> QED BY <4>1, <2>5, <1>1
    <3>4. ~ Bad(B, "event", w)
      BY <3>3, <2>5, <1>1 DEF Bad, BadType
    <3>5. Reading(r, B, "event", w)
      BY <3>2, <3>4, <2>1, <1>5 DEF Reading, BlockHeld, IdHeld, RetryHeld
    <3>6. SoFar(B, "event", v) = <<>> /\ SoFar(B, "event", w) = <<>>
      BY <2>1, <3>4 DEF SoFar
    <3> QED BY <3>1, <3>2, <3>5, <3>6
  <2> QED BY <2>3, <2>4, <2>5
<1> QED BY <1>4, <1>5

\* id_byte().
LEMMA IdByteReads ==
    ASSUME NEW B \in Seq(Lines), NEW v \in Seq(Bytes), NEW b \in Bytes,
           NEW q, Good(q), Reading(q, B, "id", v), q.out = <<>>
    PROVE  /\ Reading(IdByte(q, b), B, "id", Append(v, b))
           /\ SoFar(B, "id", v) \o IdByte(q, b).out = SoFar(B, "id", Append(v, b))
<1> DEFINE w == Append(v, b)
<1> SUFFICES /\ Reading(IdByte(q, b), B, "id", w)
             /\ SoFar(B, "id", v) \o IdByte(q, b).out = SoFar(B, "id", w)
  OBVIOUS
<1>1. /\ w \in Seq(Bytes) /\ Len(w) = Len(v) + 1 /\ Len(v) \in Nat
      /\ \A n : HasNul(w, n) <=> HasNul(v, n) \/ (Len(v) + 1 <= n /\ b = "NUL")
  BY ValueAppend
<1>2. q \in Structs /\ IdBufLen \in Nat
  BY BufferAssumption DEF Good
<1>3. HasNul(v, Len(v)) <=> HasNul(v, Len(v) + 1)
  <2>1. \A k \in DOMAIN v : k <= Len(v) /\ k <= Len(v) + 1
    BY <1>1
  <2> QED BY <2>1, <1>1 DEF HasNul
<1> HIDE DEF w
<1>4. /\ BadId(w) <=> BadId(v) \/ b = "NUL" \/ Len(v) + 1 >= IdBufLen
      /\ \A e : ~ Bad(B, "id", e)
  <2>1. HasNul(w, Len(w)) <=> HasNul(v, Len(v)) \/ b = "NUL"
    BY <1>1, <1>3
  <2> QED BY <2>1, <1>1, <1>2 DEF BadId, Bad
<1>5. /\ \A r : BlockHeld(r, B, "id", w) <=> BlockHeld(r, B, "id", v)
      /\ \A r : RetryHeld(r, "id", w)
      /\ \A e : SoFar(B, "id", e) = IF BadId(e) THEN Err("ID_INVALID") ELSE <<>>
  BY <1>4 DEF BlockHeld, RetryHeld, SoFar
<1>6. CASE q.id_invalid
  <2>1. IdByte(q, b) = q /\ BadId(v)
    BY <1>6 DEF IdByte, Reading, IdHeld
  <2>2. Reading(q, B, "id", w)
    BY <2>1, <1>4, <1>5, <1>6 DEF Reading, IdHeld
  <2> QED BY <2>1, <2>2, <1>4, <1>5, ErrConcat
<1>7. CASE ~ q.id_invalid /\ (b = "NUL" \/ Len(q.id) + 1 >= IdBufLen)
  <2> DEFINE s == [q EXCEPT !.id_invalid = TRUE]
             r == EmitPerr(s, "ID_INVALID")
  <2>1. IdByte(q, b) = r
    BY <1>7 DEF IdByte
  <2>2. ~ BadId(v) /\ q.id = v
    BY <1>7 DEF Reading, IdHeld
  <2>3. BadId(w)
    BY <1>4, <1>7, <2>2
  <2>4. /\ s \in Structs /\ s.out = <<>> /\ s.id_invalid
        /\ s.data = q.data /\ s.data_lines = q.data_lines
        /\ s.block_discarded = q.block_discarded
        /\ s.event = q.event /\ s.has_event = q.has_event
    BY <1>2 DEF Structs
  <2> HIDE DEF s
  <2>5. Alike(s, r) /\ r.out = Err("ID_INVALID")
    BY <2>4, PerrIs
  <2> HIDE DEF r
  <2>6. BlockHeld(r, B, "id", v)
    BY <2>4, <2>5 DEF Reading, BlockHeld, Alike
  <2>7. IdHeld(r, B, "id", w)
    BY <2>3, <2>4, <2>5 DEF IdHeld, Alike
  <2> QED BY <2>1, <2>2, <2>3, <2>5, <2>6, <2>7, <1>5, ErrConcat DEF Reading
<1>8. CASE ~ q.id_invalid /\ ~ (b = "NUL" \/ Len(q.id) + 1 >= IdBufLen)
  <2> DEFINE r == [q EXCEPT !.id = Append(q.id, b)]
  <2>1. IdByte(q, b) = r
    BY <1>8 DEF IdByte
  <2>2. ~ BadId(v) /\ q.id = v
    BY <1>8 DEF Reading, IdHeld
  <2>3. ~ BadId(w)
    BY <1>4, <1>8, <2>2
  <2>4. /\ r.out = <<>> /\ ~ r.id_invalid /\ r.id = w
        /\ r.data = q.data /\ r.data_lines = q.data_lines
        /\ r.block_discarded = q.block_discarded
        /\ r.event = q.event /\ r.has_event = q.has_event
    BY <1>2, <1>8, <2>2 DEF Structs, w
  <2> HIDE DEF r
  <2>5. BlockHeld(r, B, "id", v)
    BY <2>4 DEF Reading, BlockHeld
  <2>6. IdHeld(r, B, "id", w)
    BY <2>3, <2>4 DEF IdHeld
  <2> QED BY <2>1, <2>2, <2>3, <2>4, <2>5, <2>6, <1>5 DEF Reading
<1> QED BY <1>6, <1>7, <1>8

\* The accumulator is the number read so far, clamped.
LEMMA AccumulateIs ==
    ASSUME NEW n \in Nat, NEW d \in 0 .. 9
    PROVE  Accumulate(AtMost(n), d) = AtMost(n * 10 + d)
<1>1. RetryMax \in Nat /\ RetryMax >= 9
  BY BufferAssumption
<1>2. CASE n > RetryMax
  BY <1>1, <1>2 DEF Accumulate, AtMost
<1>3. CASE ~ n > RetryMax
  BY <1>1, <1>3 DEF Accumulate, AtMost
<1> QED BY <1>2, <1>3

\* retry_byte().
LEMMA RetryByteReads ==
    ASSUME NEW B \in Seq(Lines), NEW v \in Seq(Bytes), NEW b \in Bytes,
           NEW q, Good(q), Reading(q, B, "retry", v), q.out = <<>>
    PROVE  /\ Reading(RetryByte(q, b), B, "retry", Append(v, b))
           /\ SoFar(B, "retry", v) \o RetryByte(q, b).out = SoFar(B, "retry", Append(v, b))
<1> DEFINE w == Append(v, b)
           odd(x) == \E k \in DOMAIN x : x[k] \notin Digits
<1> SUFFICES /\ Reading(RetryByte(q, b), B, "retry", w)
             /\ SoFar(B, "retry", v) \o RetryByte(q, b).out = SoFar(B, "retry", w)
  OBVIOUS
<1>1. w # <<>> /\ (odd(w) <=> odd(v) \/ b \notin Digits)
  BY ValueAppend
<1>2. q \in Structs
  BY DEF Good
<1>3. /\ \A e : SoFar(B, "retry", e) = <<>>
      /\ \A e, r : BlockHeld(r, B, "retry", e) <=> BlockHeld(r, B, "retry", v)
      /\ \A e, r : IdHeld(r, B, "retry", e) <=> IdHeld(r, B, "retry", v)
  BY DEF SoFar, Bad, BlockHeld, IdHeld
<1>4. ~ odd(v) /\ b \in Digits => Number(w) = Number(v) * 10 + DigitValue[b] /\ Number(v) \in Nat
  <2>1. ~ odd(v) => v \in Seq(Digits)
    <3>1. CASE v = <<>>
      BY <3>1
    <3>2. CASE v # <<>>
      BY <3>2, RetryCallbackIs
    <3> QED BY <3>1, <3>2
  <2> QED BY <2>1, NumberAppend, NumberIs
<1> HIDE DEF w, odd
<1>5. /\ q.retry_invalid <=> odd(v)
      /\ ~ q.retry_invalid => q.retry_acc = AtMost(Number(v))
  BY DEF Reading, RetryHeld, odd
<1>6. ASSUME NEW r, r.out = <<>>, r.retry_invalid <=> odd(w),
             ~ r.retry_invalid => r.retry_seen_digit /\ r.retry_acc = AtMost(Number(w)),
             r.data = q.data, r.data_lines = q.data_lines,
             r.block_discarded = q.block_discarded,
             r.event = q.event, r.has_event = q.has_event,
             r.id = q.id, r.has_id = q.has_id, RetryByte(q, b) = r
      PROVE  /\ Reading(RetryByte(q, b), B, "retry", w)
             /\ SoFar(B, "retry", v) \o RetryByte(q, b).out = SoFar(B, "retry", w)
  <2>1. BlockHeld(r, B, "retry", v)
    BY <1>6 DEF Reading, BlockHeld
  <2>2. IdHeld(r, B, "retry", v)
    BY <1>6 DEF Reading, IdHeld
  <2>3. RetryHeld(r, "retry", w)
    BY <1>1, <1>6 DEF RetryHeld, odd
  <2>4. BlockHeld(r, B, "retry", w) /\ IdHeld(r, B, "retry", w)
    BY <2>1, <2>2, <1>3
  <2>5. SoFar(B, "retry", v) \o r.out = SoFar(B, "retry", w)
    BY <1>3, <1>6
  <2> QED BY <2>3, <2>4, <2>5, <1>6 DEF Reading
<1>7. CASE q.retry_invalid
  <2>1. RetryByte(q, b) = q
    BY <1>7 DEF RetryByte
  <2> QED BY <2>1, <1>1, <1>5, <1>6, <1>7
<1>8. CASE ~ q.retry_invalid /\ b \notin Digits
  <2> DEFINE r == [q EXCEPT !.retry_invalid = TRUE]
  <2>1. RetryByte(q, b) = r
    BY <1>8 DEF RetryByte
  <2>2. /\ r.out = <<>> /\ r.retry_invalid
        /\ r.data = q.data /\ r.data_lines = q.data_lines
        /\ r.block_discarded = q.block_discarded
        /\ r.event = q.event /\ r.has_event = q.has_event
        /\ r.id = q.id /\ r.has_id = q.has_id
    BY <1>2 DEF Structs
  <2> HIDE DEF r
  <2> QED BY <2>1, <2>2, <1>1, <1>6, <1>8
<1>9. CASE ~ q.retry_invalid /\ b \in Digits
  <2> DEFINE acc == Accumulate(q.retry_acc, DigitValue[b])
             r == [q EXCEPT !.retry_seen_digit = TRUE, !.retry_acc = acc]
  <2>1. RetryByte(q, b) = r
    BY <1>9 DEF RetryByte
  <2>2. acc = AtMost(Number(w))
    <3>1. DigitValue[b] \in 0 .. 9
      BY <1>9, DigitIsNat
    <3> QED BY <3>1, <1>4, <1>5, <1>9, AccumulateIs
  <2> HIDE DEF acc
  <2>3. /\ r.out = <<>> /\ ~ r.retry_invalid /\ r.retry_seen_digit /\ r.retry_acc = acc
        /\ r.data = q.data /\ r.data_lines = q.data_lines
        /\ r.block_discarded = q.block_discarded
        /\ r.event = q.event /\ r.has_event = q.has_event
        /\ r.id = q.id /\ r.has_id = q.has_id
    BY <1>2, <1>9 DEF Structs
  <2> HIDE DEF r
  <2> QED BY <2>1, <2>2, <2>3, <1>1, <1>5, <1>6, <1>9
<1> QED BY <1>7, <1>8, <1>9

Known == {"data", "event", "id", "retry"}

\* value_byte().
LEMMA ValueByteReads ==
    ASSUME NEW B \in Seq(Lines), NEW v \in Seq(Bytes), NEW b \in Bytes, NEW f \in Known,
           NEW q, Good(q), q.field = f, Reading(q, B, f, v), q.out = <<>>
    PROVE  /\ Reading(ValueByte(q, b), B, f, Append(v, b))
           /\ SoFar(B, f, v) \o ValueByte(q, b).out = SoFar(B, f, Append(v, b))
<1>1. CASE f = "data"
  BY <1>1, DataByteReads DEF ValueByte
<1>2. CASE f = "event"
  BY <1>2, EventByteReads DEF ValueByte
<1>3. CASE f = "id"
  BY <1>3, IdByteReads DEF ValueByte
<1>4. CASE f = "retry"
  BY <1>4, RetryByteReads DEF ValueByte
<1> QED BY <1>1, <1>2, <1>3, <1>4 DEF Known

----------------------------------------------------------------------------
(* From one line to the next. *)

\* A line adds to a block only what its field says.
LEMMA BlockAppend ==
    ASSUME NEW B \in Seq(Lines), NEW L \in Lines
    PROVE  LET C == Append(B, L) IN
           /\ Causes(C) = {} <=> Causes(B) = {} /\ ~ Spoils(B, L)
           /\ \A f : LinesOf(C, f) = {} <=> LinesOf(B, f) = {} /\ FieldOf(L) # f
           /\ FieldOf(L) # "data" => Data(C) = Data(B)
           /\ \A f : FieldOf(L) # f => LastValue(C, f) = LastValue(B, f)
           /\ LastValue(C, FieldOf(L)) = ValueOf(L)
<1> DEFINE C == Append(B, L)
<1>1. Causes(C) = {} <=> Causes(B) = {} /\ ~ Spoils(B, L)
  BY CausesAppend
<1>2. \A f : LinesOf(C, f) = {} <=> LinesOf(B, f) = {} /\ FieldOf(L) # f
  <2>1. SUFFICES ASSUME NEW f PROVE LinesOf(C, f) = {} <=> LinesOf(B, f) = {} /\ FieldOf(L) # f
    OBVIOUS
  <2>2. LinesOf(C, f) = LinesOf(B, f) \cup IF FieldOf(L) = f THEN {Len(B) + 1} ELSE {}
    BY LinesAppend
  <2> QED BY <2>2, SMTT(90)
<1>3. ASSUME FieldOf(L) # "data" PROVE Data(C) = Data(B)
  <2>1. DataOf(L) = <<>>
    BY <1>3 DEF DataOf
  <2>2. Data(C) = Data(B) \o <<>>
    BY <2>1, DataAppend
  <2>3. Data(B) \in Seq(Bytes)
    BY SaidIs
  <2> QED BY <2>2, <2>3
<1>4. \A f : LastValue(C, f) = IF FieldOf(L) = f THEN ValueOf(L) ELSE LastValue(B, f)
  BY LastValueAppend
<1> HIDE DEF C
<1>5. /\ \A f : FieldOf(L) # f => LastValue(C, f) = LastValue(B, f)
      /\ LastValue(C, FieldOf(L)) = ValueOf(L)
  BY <1>4
<1> QED BY <1>1, <1>2, <1>3, <1>5 DEF C

\* Where no value is being read there is nothing wrong with it so far.
LEMMA NothingRead ==
    ASSUME NEW B
    PROVE  /\ ~ Bad(B, "none", <<>>) /\ SoFar(B, "none", <<>>) = <<>>
           /\ \A q : RetryHeld(q, "none", <<>>)
BY DEF Bad, SoFar, RetryHeld

\* A line that is neither data nor event leaves them alone, and so on.
LEMMA BlockKept ==
    ASSUME NEW B \in Seq(Lines), NEW L \in Lines, NEW f, NEW v, NEW q,
           FieldOf(L) \notin {"data", "event"}, f \notin {"data", "event"},
           BlockHeld(q, B, f, v)
    PROVE  BlockHeld(q, Append(B, L), "none", <<>>)
<1> DEFINE C == Append(B, L)
<1>1. ~ Spoils(B, L) /\ ~ Bad(B, f, v)
  BY DEF Spoils, Bad
<1>2. /\ Causes(C) = {} <=> Causes(B) = {}
      /\ LinesOf(C, "data") = {} <=> LinesOf(B, "data") = {}
      /\ Data(C) = Data(B) /\ LastValue(C, "event") = LastValue(B, "event")
  BY <1>1, BlockAppend
<1> HIDE DEF C
<1>3. BlockHeld(q, C, "none", <<>>)
  BY <1>1, <1>2, NothingRead DEF BlockHeld
<1> QED BY <1>3 DEF C

\* A line that is no id field leaves the id alone.
LEMMA IdKept ==
    ASSUME NEW B \in Seq(Lines), NEW L \in Lines, NEW f, NEW v, NEW q,
           FieldOf(L) # "id", f # "id", IdHeld(q, B, f, v)
    PROVE  IdHeld(q, Append(B, L), "none", <<>>)
<1> DEFINE C == Append(B, L)
<1>1. /\ LinesOf(C, "id") = {} <=> LinesOf(B, "id") = {}
      /\ LastValue(C, "id") = LastValue(B, "id")
  BY BlockAppend
<1> HIDE DEF C
<1>2. IdHeld(q, C, "none", <<>>)
  BY <1>1 DEF IdHeld
<1> QED BY <1>2 DEF C

\* A comment, or a line with an unknown field name.
LEMMA OtherLineReads ==
    ASSUME NEW B \in Seq(Lines), NEW L \in Lines, FieldOf(L) = "other",
           NEW q, Reading(q, B, "none", <<>>)
    PROVE  /\ Reading(q, Append(B, L), "none", <<>>)
           /\ LineSaid(B, L) = <<>>
<1>1. LineSaid(B, L) = <<>>
  BY DEF LineSaid, Spoils
<1>2. BlockHeld(q, Append(B, L), "none", <<>>)
  BY BlockKept DEF Reading
<1>3. IdHeld(q, Append(B, L), "none", <<>>)
  BY IdKept DEF Reading
<1> QED BY <1>1, <1>2, <1>3, NothingRead DEF Reading

\* The name of a field is complete.
LEMMA StartValueReads ==
    ASSUME NEW B \in Seq(Lines), NEW f \in Known, NEW q \in Structs, Fits(q),
           q.field = f, Reading(q, B, "none", <<>>)
    PROVE  Reading(StartValue(q), B, f, <<>>) /\ SoFar(B, f, <<>>) = <<>>
<1>1. q \in Structs /\ Len(q.data) <= DataBufLen
  BY DEF Fits
<1>2. ~ HasNul(<<>>, 0) /\ Len(<<>>) = 0
  BY DEF HasNul
<1>3. ~ BadType(<<>>) /\ ~ BadId(<<>>)
  BY <1>2, BufferAssumption DEF BadType, BadId
<1>4. Data(B) \in Seq(Bytes) /\ Data(B) \o <<>> = Data(B)
  BY SaidIs
<1>5. Causes(B) = {} => q.data = Data(B) /\ ~ q.block_discarded
  BY NothingRead DEF Reading, BlockHeld
<1>6. Causes(B) = {} => ~ Bad(B, f, <<>>)
  <2>1. Causes(B) = {} => ~ Len(Data(B) \o <<>>) > DataBufLen
    BY <1>1, <1>4, <1>5, BufferAssumption
  <2> QED BY <2>1, <1>3 DEF Bad
<1>7. SoFar(B, f, <<>>) = <<>>
  BY <1>3, <1>6 DEF SoFar
<1> SUFFICES Reading(StartValue(q), B, f, <<>>)
  BY <1>7
<1>8. ASSUME NEW r, r.data = q.data, r.data_lines = q.data_lines,
             r.block_discarded = q.block_discarded,
             f = "event" => r.event = <<>>,
             f # "event" => r.event = q.event /\ r.has_event = q.has_event,
             f = "id" => ~ r.id_invalid /\ r.id = <<>>,
             f # "id" => r.id = q.id /\ r.has_id = q.has_id,
             f = "retry" => ~ r.retry_invalid /\ ~ r.retry_seen_digit /\ r.retry_acc = 0
      PROVE  Reading(r, B, f, <<>>)
  <2>1. r.block_discarded <=> Causes(B) # {}
    BY <1>8, NothingRead DEF Reading, BlockHeld
  <2>2. BlockHeld(r, B, f, <<>>)
    BY <2>1, <1>4, <1>6, <1>8, NothingRead DEF Reading, BlockHeld
  <2>3. IdHeld(r, B, f, <<>>)
    BY <1>3, <1>8 DEF Reading, IdHeld
  <2>4. AtMost(Number(<<>>)) = 0
    BY NumberEmpty, BufferAssumption DEF AtMost
  <2>5. RetryHeld(r, f, <<>>)
    <3>1. DOMAIN <<>> = {}
      OBVIOUS
    <3> QED BY <3>1, <2>4, <1>8 DEF RetryHeld
  <2> QED BY <2>2, <2>3, <2>5 DEF Reading
<1>9. CASE f = "event"
  <2> DEFINE r == [q EXCEPT !.event = <<>>]
  <2>1. StartValue(q) = r
    BY <1>9 DEF StartValue
  <2>2. /\ r.data = q.data /\ r.data_lines = q.data_lines
        /\ r.block_discarded = q.block_discarded /\ r.event = <<>>
        /\ r.id = q.id /\ r.has_id = q.has_id
    BY <1>1 DEF Structs
  <2> HIDE DEF r
  <2> QED BY <2>1, <2>2, <1>8, <1>9
<1>10. CASE f = "id"
  <2> DEFINE r == [q EXCEPT !.id = <<>>, !.id_invalid = FALSE]
  <2>1. StartValue(q) = r
    BY <1>10 DEF StartValue
  <2>2. /\ r.data = q.data /\ r.data_lines = q.data_lines
        /\ r.block_discarded = q.block_discarded /\ r.event = q.event
        /\ r.has_event = q.has_event /\ r.id = <<>> /\ ~ r.id_invalid
    BY <1>1 DEF Structs
  <2> HIDE DEF r
  <2> QED BY <2>1, <2>2, <1>8, <1>10
<1>11. CASE f = "retry"
  <2> DEFINE r == [q EXCEPT !.retry_acc = 0, !.retry_seen_digit = FALSE, !.retry_invalid = FALSE]
  <2>1. StartValue(q) = r
    BY <1>11 DEF StartValue
  <2>2. /\ r.data = q.data /\ r.data_lines = q.data_lines
        /\ r.block_discarded = q.block_discarded /\ r.event = q.event
        /\ r.has_event = q.has_event /\ r.id = q.id /\ r.has_id = q.has_id
        /\ r.retry_acc = 0 /\ ~ r.retry_seen_digit /\ ~ r.retry_invalid
    BY <1>1 DEF Structs
  <2> HIDE DEF r
  <2> QED BY <2>1, <2>2, <1>8, <1>11
<1>12. CASE f = "data"
  <2>1. StartValue(q) = q
    BY <1>12 DEF StartValue
  <2> QED BY <2>1, <1>8, <1>12
<1> QED BY <1>9, <1>10, <1>11, <1>12 DEF Known

\* data_commit().
LEMMA CommitDataReads ==
    ASSUME NEW B \in Seq(Lines), NEW L \in Lines, FieldOf(L) = "data",
           NEW q, Good(q), Reading(q, B, "data", ValueOf(L)), q.out = <<>>
    PROVE  /\ Reading(CommitData(q), Append(B, L), "none", <<>>)
           /\ SoFar(B, "data", ValueOf(L)) \o CommitData(q).out = LineSaid(B, L)
<1> DEFINE C == Append(B, L)
           v == ValueOf(L)
<1> SUFFICES /\ Reading(CommitData(q), C, "none", <<>>)
             /\ SoFar(B, "data", v) \o CommitData(q).out = LineSaid(B, L)
  OBVIOUS
<1>1. /\ v \in Seq(Bytes) /\ Data(B) \in Seq(Bytes) /\ "LF" \in Bytes
  BY LineHas, SaidIs DEF Bytes, Special
<1>2. DataOf(L) = Append(v, "LF")
  BY DEF DataOf
<1>3. /\ Data(B) \o DataOf(L) = Append(Data(B) \o v, "LF")
      /\ Len(Data(B) \o DataOf(L)) = Len(Data(B) \o v) + 1
      /\ Len(Data(B) \o v) \in Nat
  BY <1>1, <1>2
<1>4. /\ Causes(C) = {} <=> Causes(B) = {} /\ ~ Spoils(B, L)
      /\ LinesOf(C, "data") # {}
      /\ Data(C) = Data(B) \o DataOf(L)
      /\ LastValue(C, "event") = LastValue(B, "event")
  <2>1. Data(C) = Data(B) \o DataOf(L)
    BY DataAppend
  <2>2. /\ Causes(C) = {} <=> Causes(B) = {} /\ ~ Spoils(B, L)
        /\ LinesOf(C, "data") # {}
        /\ LastValue(C, "event") = LastValue(B, "event")
    BY BlockAppend
  <2> QED BY <2>1, <2>2
<1>5. q \in Structs /\ DataBufLen \in Nat /\ q.data_lines \in Nat
  BY BufferAssumption DEF Good, Structs
<1> HIDE DEF C, v
<1>6. Spoils(B, L) <=> Len(Data(B) \o v) + 1 > DataBufLen
  BY <1>3 DEF Spoils
<1>7. Bad(B, "data", v) <=> Len(Data(B) \o v) > DataBufLen
  BY DEF Bad
<1>8. /\ LineSaid(B, L) = IF Causes(B) = {} /\ Spoils(B, L) THEN Err("DATA_TOO_LARGE") ELSE <<>>
      /\ SoFar(B, "data", v) = IF Causes(B) = {} /\ Bad(B, "data", v)
                               THEN Err("DATA_TOO_LARGE") ELSE <<>>
  BY DEF LineSaid, SoFar, Reason, Why
<1>9. IdHeld(q, C, "none", <<>>)
  BY IdKept DEF Reading, C
<1>10. ASSUME NEW r, r.id = q.id, r.has_id = q.has_id, BlockHeld(r, C, "none", <<>>)
       PROVE  Reading(r, C, "none", <<>>)
  BY <1>9, <1>10, NothingRead DEF Reading, IdHeld
<1>11. CASE q.block_discarded
  <2>1. CommitData(q) = q
    BY <1>11 DEF CommitData
  <2>2. Causes(B) # {} \/ Bad(B, "data", v)
    BY <1>11 DEF Reading, BlockHeld, v
  <2>3. Bad(B, "data", v) => Spoils(B, L)
    BY <1>3, <1>5, <1>6, <1>7
  <2>4. BlockHeld(q, C, "none", <<>>)
    BY <2>2, <2>3, <1>4, <1>11 DEF BlockHeld
  <2>5. SoFar(B, "data", v) \o q.out = LineSaid(B, L)
    <3>1. CASE Causes(B) # {}
      BY <3>1, <1>8
    <3>2. CASE Causes(B) = {}
      BY <3>2, <2>2, <2>3, <1>8, ErrConcat
    <3> QED BY <3>1, <3>2
  <2> QED BY <2>1, <2>4, <2>5, <1>10
<1>12. CASE ~ q.block_discarded
  <2>1. /\ Causes(B) = {} /\ ~ Bad(B, "data", v) /\ q.data = Data(B) \o v
        /\ q.event = LastValue(B, "event") /\ (q.has_event <=> q.event # <<>>)
        /\ Len(q.data) <= DataBufLen
    BY <1>12 DEF Reading, BlockHeld, v, Good, Fits
  <2>2. Spoils(B, L) <=> DataFull(q)
    BY <2>1, <1>3, <1>5, <1>6 DEF DataFull
  <2>3. CASE DataFull(q)
    <3> DEFINE s == [q EXCEPT !.block_discarded = TRUE]
               r == EmitPerr(s, "DATA_TOO_LARGE")
    <3>1. CommitData(q) = r
      BY <1>12, <2>3 DEF CommitData, DiscardBlock
    <3>2. s \in Structs /\ s.out = <<>> /\ s.block_discarded /\ s.has_id = q.has_id /\ s.id = q.id
      BY <1>5 DEF Structs
    <3> HIDE DEF s
    <3>3. Alike(s, r) /\ r.out = Err("DATA_TOO_LARGE")
      BY <3>2, PerrIs
    <3> HIDE DEF r
    <3>4. r.block_discarded /\ r.id = q.id /\ r.has_id = q.has_id
      BY <3>2, <3>3 DEF Alike
    <3>5. BlockHeld(r, C, "none", <<>>)
      BY <3>4, <2>2, <2>3, <1>4 DEF BlockHeld
    <3>6. <<>> \o r.out = LineSaid(B, L) /\ SoFar(B, "data", v) = <<>>
      BY <3>3, <2>1, <2>2, <2>3, <1>8, ErrConcat
    <3> QED BY <3>1, <3>4, <3>5, <3>6, <1>10
  <2>4. CASE ~ DataFull(q)
    <3> DEFINE r == [q EXCEPT !.data = Append(q.data, "LF"), !.data_lines = q.data_lines + 1]
    <3>1. CommitData(q) = r
      BY <1>12, <2>4 DEF CommitData
    <3>2. /\ r.data = Append(q.data, "LF") /\ r.data_lines = q.data_lines + 1
          /\ ~ r.block_discarded /\ r.event = q.event /\ r.has_event = q.has_event
          /\ r.id = q.id /\ r.has_id = q.has_id /\ r.out = <<>>
      BY <1>5, <1>12 DEF Structs
    <3> HIDE DEF r
    <3>3. r.data = Data(C) /\ r.data_lines > 0
      BY <3>2, <2>1, <1>3, <1>4, <1>5
    <3>4. Causes(C) = {} /\ ~ Bad(C, "none", <<>>)
      BY <2>1, <2>2, <2>4, <1>4, NothingRead
    <3>5. BlockHeld(r, C, "none", <<>>)
      BY <3>2, <3>3, <3>4, <2>1, <1>4 DEF BlockHeld
    <3>6. SoFar(B, "data", v) = <<>> /\ LineSaid(B, L) = <<>>
      BY <2>1, <2>2, <2>4, <1>8
    <3> QED BY <3>1, <3>2, <3>5, <3>6, <1>10
  <2> QED BY <2>3, <2>4
<1> QED BY <1>11, <1>12

\* event_commit().
LEMMA CommitEventReads ==
    ASSUME NEW B \in Seq(Lines), NEW L \in Lines, FieldOf(L) = "event",
           NEW q, Good(q), Reading(q, B, "event", ValueOf(L)), q.out = <<>>
    PROVE  LET r == [q EXCEPT !.has_event = q.event # <<>>] IN
           /\ Reading(r, Append(B, L), "none", <<>>)
           /\ SoFar(B, "event", ValueOf(L)) \o r.out = LineSaid(B, L)
<1> DEFINE C == Append(B, L)
           v == ValueOf(L)
           r == [q EXCEPT !.has_event = q.event # <<>>]
<1> SUFFICES /\ Reading(r, C, "none", <<>>)
             /\ SoFar(B, "event", v) \o r.out = LineSaid(B, L)
  OBVIOUS
<1>1. /\ Causes(C) = {} <=> Causes(B) = {} /\ ~ Spoils(B, L)
      /\ LinesOf(C, "data") = {} <=> LinesOf(B, "data") = {}
      /\ Data(C) = Data(B) /\ LastValue(C, "event") = v
  BY BlockAppend
<1>2. /\ r.data = q.data /\ r.data_lines = q.data_lines
      /\ r.block_discarded = q.block_discarded /\ r.event = q.event
      /\ (r.has_event <=> q.event # <<>>) /\ r.id = q.id /\ r.has_id = q.has_id
      /\ r.out = <<>>
  BY DEF Good, Structs
<1> HIDE DEF C, v, r
<1>3. Spoils(B, L) <=> Bad(B, "event", v)
  BY DEF Spoils, Bad, v
<1>4. BlockHeld(r, C, "none", <<>>)
  BY <1>1, <1>2, <1>3, NothingRead DEF BlockHeld, Reading, v
<1>5. IdHeld(q, C, "none", <<>>)
  BY IdKept DEF Reading, C
<1>6. Reading(r, C, "none", <<>>)
  BY <1>2, <1>4, <1>5, NothingRead DEF Reading, IdHeld
<1>7. Why("event", v) = Reason(L)
  BY DEF Why, Reason, v
<1>8. SoFar(B, "event", v) = LineSaid(B, L)
  BY <1>3, <1>7 DEF SoFar, LineSaid
<1>9. LineSaid(B, L) \in Seq(Reports)
  BY LineSaidIs
<1> QED BY <1>2, <1>6, <1>8, <1>9

\* id_commit().
LEMMA CommitIdReads ==
    ASSUME NEW B \in Seq(Lines), NEW L \in Lines, FieldOf(L) = "id",
           NEW q, Good(q), Reading(q, B, "id", ValueOf(L)), q.out = <<>>
    PROVE  /\ Reading(CommitId(q), Append(B, L), "none", <<>>)
           /\ SoFar(B, "id", ValueOf(L)) \o CommitId(q).out = LineSaid(B, L)
<1> DEFINE C == Append(B, L)
           v == ValueOf(L)
<1> SUFFICES /\ Reading(CommitId(q), C, "none", <<>>)
             /\ SoFar(B, "id", v) \o CommitId(q).out = LineSaid(B, L)
  OBVIOUS
<1>1. LinesOf(C, "id") # {} /\ LastValue(C, "id") = v
  BY BlockAppend
<1>2. BlockHeld(q, C, "none", <<>>)
  BY BlockKept DEF Reading
<1>3. LineSaid(B, L) \in Seq(Reports)
  BY LineSaidIs
<1> HIDE DEF C, v
<1>4. (q.id_invalid <=> BadId(v)) /\ (~ q.id_invalid => q.id = v)
  BY DEF Reading, IdHeld, v
<1>5. SoFar(B, "id", v) = LineSaid(B, L)
  BY DEF SoFar, LineSaid, Bad, Spoils, v
<1>6. ASSUME NEW r, r.data = q.data, r.data_lines = q.data_lines,
             r.block_discarded = q.block_discarded, r.event = q.event,
             r.has_event = q.has_event, r.out = <<>>,
             r.has_id <=> ~ BadId(v), r.has_id => r.id = v, CommitId(q) = r
      PROVE  /\ Reading(CommitId(q), C, "none", <<>>)
             /\ SoFar(B, "id", v) \o CommitId(q).out = LineSaid(B, L)
  <2>1. BlockHeld(r, C, "none", <<>>)
    BY <1>2, <1>6 DEF BlockHeld
  <2>2. IdHeld(r, C, "none", <<>>)
    BY <1>1, <1>6 DEF IdHeld
  <2>3. SoFar(B, "id", v) \o r.out = LineSaid(B, L)
    BY <1>3, <1>5, <1>6
  <2> QED BY <2>1, <2>2, <2>3, <1>6, NothingRead DEF Reading
<1>7. CASE q.id_invalid
  <2> DEFINE r == [q EXCEPT !.id = <<>>, !.has_id = FALSE]
  <2>1. CommitId(q) = r
    BY <1>7 DEF CommitId
  <2>2. /\ r.data = q.data /\ r.data_lines = q.data_lines
        /\ r.block_discarded = q.block_discarded /\ r.event = q.event
        /\ r.has_event = q.has_event /\ r.out = <<>> /\ ~ r.has_id
    BY DEF Good, Structs
  <2> HIDE DEF r
  <2> QED BY <2>1, <2>2, <1>4, <1>6, <1>7
<1>8. CASE ~ q.id_invalid
  <2> DEFINE r == [q EXCEPT !.has_id = TRUE]
  <2>1. CommitId(q) = r
    BY <1>8 DEF CommitId
  <2>2. /\ r.data = q.data /\ r.data_lines = q.data_lines
        /\ r.block_discarded = q.block_discarded /\ r.event = q.event
        /\ r.has_event = q.has_event /\ r.out = <<>> /\ r.has_id /\ r.id = q.id
    BY DEF Good, Structs
  <2> HIDE DEF r
  <2> QED BY <2>1, <2>2, <1>4, <1>6, <1>8
<1> QED BY <1>7, <1>8

\* retry_commit().
LEMMA CommitRetryReads ==
    ASSUME NEW B \in Seq(Lines), NEW L \in Lines, FieldOf(L) = "retry",
           NEW q, Good(q), Reading(q, B, "retry", ValueOf(L)), q.out = <<>>
    PROVE  /\ Reading(CommitRetry(q), Append(B, L), "none", <<>>)
           /\ SoFar(B, "retry", ValueOf(L)) \o CommitRetry(q).out = LineSaid(B, L)
<1> DEFINE C == Append(B, L)
           v == ValueOf(L)
           odd == \E k \in DOMAIN v : v[k] \notin Digits
<1>1. BlockHeld(q, C, "none", <<>>) /\ IdHeld(q, C, "none", <<>>)
  BY BlockKept, IdKept DEF Reading
<1>2. Reading(q, C, "none", <<>>)
  BY <1>1, NothingRead DEF Reading
<1>3. SoFar(B, "retry", v) = <<>>
  BY DEF SoFar, Bad
<1>4. LineSaid(B, L) = RetryCallback(v) /\ LineSaid(B, L) \in Seq(Reports)
  <2>1. LineSaid(B, L) = RetryCallback(v)
    BY DEF LineSaid, Spoils
  <2>2. LineSaid(B, L) \in Seq(Reports)
    BY LineSaidIs
  <2> QED BY <2>1, <2>2
<1>5. /\ q.retry_invalid <=> odd
      /\ ~ q.retry_invalid => (q.retry_seen_digit <=> v # <<>>) /\ q.retry_acc = AtMost(Number(v))
  BY DEF Reading, RetryHeld
<1>6. q \in Structs
  BY DEF Good
<1>7. CASE q.retry_invalid \/ ~ q.retry_seen_digit
  <2>1. CommitRetry(q) = EmitPerr(q, "INVALID_RETRY")
    BY <1>7 DEF CommitRetry
  <2>2. Alike(q, CommitRetry(q)) /\ CommitRetry(q).out = Err("INVALID_RETRY")
    BY <2>1, <1>6, PerrIs
  <2>3. RetryCallback(v) = Err("INVALID_RETRY")
    BY <1>5, <1>7 DEF RetryCallback
  <2>4. Reading(CommitRetry(q), C, "none", <<>>)
    BY <2>2, <1>2, AlikeReads
  <2> QED BY <2>2, <2>3, <2>4, <1>3, <1>4, ErrConcat
<1>8. CASE ~ (q.retry_invalid \/ ~ q.retry_seen_digit)
  <2> DEFINE c == [cb |-> "on_retry", ms |-> q.retry_acc]
  <2>1. CommitRetry(q) = Emit(q, c)
    BY <1>8 DEF CommitRetry
  <2>2. Alike(q, CommitRetry(q)) /\ CommitRetry(q).out = Append(<<>>, c)
    BY <2>1, <1>6, EmitIs
  <2>3. RetryCallback(v) = <<c>>
    BY <1>5, <1>8 DEF RetryCallback, AtMost
  <2>4. Reading(CommitRetry(q), C, "none", <<>>)
    BY <2>2, <1>2, AlikeReads
  <2>5. <<>> \o Append(<<>>, c) = <<c>>
    OBVIOUS
  <2> QED BY <2>2, <2>3, <2>4, <2>5, <1>3, <1>4
<1> QED BY <1>7, <1>8

\* commit_value(): the line is complete.
LEMMA CommitValueReads ==
    ASSUME NEW B \in Seq(Lines), NEW L \in Lines, NEW f \in Known, FieldOf(L) = f,
           NEW q, Good(q), q.field = f, Reading(q, B, f, ValueOf(L)), q.out = <<>>
    PROVE  /\ Reading(CommitValue(q), Append(B, L), "none", <<>>)
           /\ SoFar(B, f, ValueOf(L)) \o CommitValue(q).out = LineSaid(B, L)
<1> DEFINE C == Append(B, L)
           s == SoFar(B, f, ValueOf(L))
<1>1. ASSUME NEW c \in Structs, CommitValue(q) = [c EXCEPT !.field = "none"],
             Reading(c, C, "none", <<>>), s \o c.out = LineSaid(B, L)
      PROVE  /\ Reading(CommitValue(q), C, "none", <<>>)
             /\ s \o CommitValue(q).out = LineSaid(B, L)
  <2> DEFINE r == [c EXCEPT !.field = "none"]
  <2>1. r.out = c.out /\ Alike(c, r)
    BY DEF Structs, Alike
  <2> HIDE DEF r
  <2>2. CommitValue(q) = r
    BY <1>1 DEF r
  <2> QED BY <2>1, <2>2, <1>1, AlikeReads
<1> HIDE DEF C, s
<1>2. CASE f = "data"
  <2>1. CommitValue(q) = [CommitData(q) EXCEPT !.field = "none"]
    BY <1>2 DEF CommitValue
  <2>2. CommitData(q) \in Structs
    BY <1>2, CommitDataIdle
  <2>3. Reading(CommitData(q), C, "none", <<>>) /\ s \o CommitData(q).out = LineSaid(B, L)
    BY <1>2, CommitDataReads DEF C, s
  <2> QED BY <2>1, <2>2, <2>3, <1>1 DEF C, s
<1>3. CASE f = "event"
  <2> DEFINE c == [q EXCEPT !.has_event = q.event # <<>>]
  <2>1. CommitValue(q) = [c EXCEPT !.field = "none"]
    BY <1>3 DEF CommitValue
  <2>2. c \in Structs
    BY DEF Good, Structs
  <2>3. Reading(c, C, "none", <<>>) /\ s \o c.out = LineSaid(B, L)
    BY <1>3, CommitEventReads DEF C, s
  <2> HIDE DEF c
  <2> QED BY <2>1, <2>2, <2>3, <1>1 DEF C, s
<1>4. CASE f = "id"
  <2>1. CommitValue(q) = [CommitId(q) EXCEPT !.field = "none"]
    BY <1>4 DEF CommitValue
  <2>2. CommitId(q) \in Structs
    BY CommitIdGood DEF Good
  <2>3. Reading(CommitId(q), C, "none", <<>>) /\ s \o CommitId(q).out = LineSaid(B, L)
    BY <1>4, CommitIdReads DEF C, s
  <2> QED BY <2>1, <2>2, <2>3, <1>1 DEF C, s
<1>5. CASE f = "retry"
  <2>1. CommitValue(q) = [CommitRetry(q) EXCEPT !.field = "none"]
    BY <1>5 DEF CommitValue
  <2>2. CommitRetry(q) \in Structs
    BY CommitRetryGood DEF Good
  <2>3. Reading(CommitRetry(q), C, "none", <<>>) /\ s \o CommitRetry(q).out = LineSaid(B, L)
    BY <1>5, CommitRetryReads DEF C, s
  <2> QED BY <2>1, <2>2, <2>3, <1>1 DEF C, s
<1> QED BY <1>2, <1>3, <1>4, <1>5 DEF Known, C, s

\* dispatch_block(): the blank line.
LEMMA DispatchReads ==
    ASSUME NEW B \in Seq(Lines), NEW q, Idle(q), Reading(q, B, "none", <<>>), q.out = <<>>
    PROVE  /\ DispatchBlock(q).out = IdCallback(B) \o EventCallback(B)
           /\ Reading(DispatchBlock(q), <<>>, "none", <<>>)
           /\ DispatchBlock(q).state = q.state /\ DispatchBlock(q).field = "none"
<1> DEFINE i == IF q.has_id THEN Emit(q, [cb |-> "on_id", id |-> q.id]) ELSE q
           e == IF ~ q.block_discarded /\ q.data_lines > 0 THEN Emit(i, TheEvent(q)) ELSE i
           r == ClearBlock(e)
<1>1. q \in Structs /\ q.field = "none" /\ Good(q)
  BY IdleGood DEF Idle
<1>2. DispatchBlock(q) = r
  BY DEF DispatchBlock
<1>3. i.out = IdCallback(B) /\ i \in Structs /\ i.state = q.state /\ i.field = "none"
  <2>1. CASE ~ q.has_id
    <3>1. IdCallback(B) = <<>>
      BY <2>1 DEF Reading, IdHeld, IdCallback, LastValue
    <3> QED BY <3>1, <2>1, <1>1
  <2>2. CASE q.has_id
    <3> DEFINE c == [cb |-> "on_id", id |-> q.id]
    <3>1. LinesOf(B, "id") # {} /\ ~ BadId(LastValue(B, "id")) /\ q.id = LastValue(B, "id")
      BY <2>2 DEF Reading, IdHeld
    <3>2. IdCallback(B) = <<c>>
      BY <3>1 DEF IdCallback, LastValue
    <3>3. c \in Reports
      BY <1>1 DEF Structs, Reports
    <3>4. i = Emit(q, c)
      BY <2>2
    <3> HIDE DEF i, c
    <3>5. i \in Structs
      BY <3>3, <3>4, <1>1, EmitGood DEF Good
    <3>6. i.out = Append(<<>>, c) /\ i.state = q.state /\ i.field = q.field
      BY <3>4, <1>1, EmitIs
    <3> QED BY <3>2, <3>5, <3>6, <1>1
  <2> QED BY <2>1, <2>2
<1> HIDE DEF i
<1>4. e.out = IdCallback(B) \o EventCallback(B) /\ e \in Structs /\ e.state = q.state /\ e.field = "none"
  <2>0. i.out \in Seq(Reports)
    BY <1>3 DEF Structs
  <2>1. CASE ~ (~ q.block_discarded /\ q.data_lines > 0)
    <3>1. EventCallback(B) = <<>>
      BY <2>1, NothingRead DEF Reading, BlockHeld, EventCallback
    <3>2. e = i
      BY <2>1
    <3> QED BY <3>1, <3>2, <2>0, <1>3
  <2>2. CASE ~ q.block_discarded /\ q.data_lines > 0
    <3> DEFINE type == LastValue(B, "event")
               c == [cb |-> "on_event", data |-> Front(Data(B)),
                     has_event |-> type # <<>>, event |-> type]
    <3>1. /\ q.data = Data(B) /\ LinesOf(B, "data") # {} /\ q.event = type
          /\ (q.has_event <=> q.event # <<>>) /\ Causes(B) = {}
      BY <2>2, NothingRead DEF Reading, BlockHeld
    <3>2. q.has_event = (type # <<>>)
      BY <3>1, <1>1 DEF Structs
    <3>3. TheEvent(q) = c
      BY <3>1, <3>2 DEF TheEvent, Front
    <3>4. EventCallback(B) = <<c>>
      BY <3>1 DEF EventCallback, LastValue, Data
    <3>5. c \in Reports
      BY <3>3, <1>1, EventReport
    <3>6. e = Emit(i, c)
      BY <2>2, <3>3
    <3> HIDE DEF e, c
    <3>7. e.out = Append(i.out, c) /\ e.state = i.state /\ e.field = i.field
      BY <3>6, <1>3, EmitIs
    <3>8. Append(i.out, c) = i.out \o <<c>>
      BY <2>0, <3>5, SMTT(90)
    <3>9. e \in Structs
      <4>1. Append(i.out, c) \in Seq(Reports)
        BY <2>0, <3>5
      <4> QED BY <4>1, <3>6, <1>3 DEF Emit, Structs
    <3> QED BY <3>4, <3>7, <3>8, <3>9, <1>3
  <2> QED BY <2>1, <2>2
<1> HIDE DEF e
<1>5. /\ r.out = e.out /\ r.state = e.state /\ r.field = e.field
      /\ r.data = <<>> /\ r.data_lines = 0 /\ ~ r.block_discarded
      /\ r.event = <<>> /\ ~ r.has_event /\ r.id = <<>> /\ ~ r.has_id
  BY <1>4 DEF ClearBlock, Structs
<1> HIDE DEF r
<1>6. Reading(r, <<>>, "none", <<>>)
  <2>1. LastValue(<<>>, "event") = <<>>
    BY EmptyBlock DEF LastValue
  <2>2. BlockHeld(r, <<>>, "none", <<>>)
    BY <2>1, <1>5, EmptyBlock, NothingRead DEF BlockHeld
  <2>3. IdHeld(r, <<>>, "none", <<>>)
    BY <1>5, EmptyBlock DEF IdHeld
  <2> QED BY <2>2, <2>3, NothingRead DEF Reading
<1> QED BY <1>2, <1>4, <1>5, <1>6

----------------------------------------------------------------------------
(* Where the struct is on the current line. *)

\* L is the current line so far, without a byte order mark.
Reads(q, L) ==
    CASE q.state = "LINE_START"  -> q.field = "none" /\ L = <<>>
      [] q.state = "FIELD_NAME"  ->
            /\ q.field = "none" /\ L # <<>>
            /\ IF q.name = "other" THEN FieldOf(L) = "other" ELSE L = <<q.name>>
      [] q.state = "SKIP_LINE"   -> q.field = "none" /\ L # <<>> /\ FieldOf(L) = "other"
      [] q.state = "AFTER_COLON" -> q.field \in Known /\ L = <<q.field, "COLON">>
      [] q.state = "VALUE"       ->
            q.field \in Known /\ Len(L) >= 3 /\ L[1] = q.field /\ L[2] = "COLON"
      [] OTHER                   -> FALSE

ValueSoFar(q, L) == IF q.field = "none" THEN <<>> ELSE ValueOf(L)

\* S are the callbacks called for the block so far.
OnLine(q, B, L, S) ==
    /\ Reads(q, L)
    /\ Reading(q, B, q.field, ValueSoFar(q, L))
    /\ S = SaidFor(B) \o SoFar(B, q.field, ValueSoFar(q, L))

\* Between lines, and on a line that has no value, nothing is pending.
LEMMA OnLineIdle ==
    ASSUME NEW q, NEW B \in Seq(Lines), NEW L, NEW S, q.field = "none"
    PROVE  OnLine(q, B, L, S) <=>
              Reads(q, L) /\ Reading(q, B, "none", <<>>) /\ S = SaidFor(B)
<1>1. SaidFor(B) \in Seq(Reports)
  BY SaidIs
<1>2. SaidFor(B) \o <<>> = SaidFor(B)
  BY <1>1
<1> QED BY <1>2, NothingRead DEF OnLine, ValueSoFar

\* Two structs that agree on those fields and on the mode are on the same line.
LEMMA OnLineAlike ==
    ASSUME NEW q, NEW r, NEW B, NEW L, NEW S, Alike(q, r), r.state = q.state,
           r.field = q.field, r.name = q.name, OnLine(q, B, L, S)
    PROVE  OnLine(r, B, L, S)
<1>1. Reads(r, L) /\ ValueSoFar(r, L) = ValueSoFar(q, L)
  BY DEF OnLine, Reads, ValueSoFar
<1>2. Reading(r, B, q.field, ValueSoFar(q, L))
  BY AlikeReads DEF OnLine
<1> QED BY <1>1, <1>2 DEF OnLine

\* What is on a line that no field begins does not matter.
LEMMA OnLineOther ==
    ASSUME NEW q \in Structs, NEW B \in Seq(Lines), NEW L \in Lines, NEW S,
           OnLine(q, B, L, S), FieldOf(L) = "other"
    PROVE  /\ OnLine(q, B, <<"other">>, S)
           /\ q.field = "none" /\ q.state \in {"FIELD_NAME", "SKIP_LINE"}
           /\ q.state = "FIELD_NAME" => q.name = "other"
<1>1. FieldOf(<<"other">>) = "other" /\ <<"other">> # <<>>
  BY DEF FieldOf, Names
<1>2. ASSUME NEW f \in Known PROVE FieldOf(<<f>>) = f /\ f # "other"
  BY DEF FieldOf, Names, Known
<1>3. ASSUME L[1] \in Known, L[2] = "COLON" PROVE FieldOf(L) # "other"
  BY <1>3 DEF FieldOf, Names, Known
<1>4. q.state \notin {"AFTER_COLON", "VALUE", "LINE_START"}
  <2>1. q.state # "LINE_START"
    BY DEF OnLine, Reads, Lines
  <2>2. q.state = "AFTER_COLON" => L[1] \in Known /\ L[2] = "COLON"
    BY DEF OnLine, Reads
  <2>3. q.state = "VALUE" => L[1] \in Known /\ L[2] = "COLON"
    BY DEF OnLine, Reads
  <2> QED BY <2>1, <2>2, <2>3, <1>3
<1>5. q.state \in {"FIELD_NAME", "SKIP_LINE"} /\ q.field = "none"
  BY <1>4 DEF OnLine, Reads
<1>6. q.state = "FIELD_NAME" => q.name = "other"
  <2>1. SUFFICES ASSUME q.state = "FIELD_NAME", q.name # "other" PROVE FALSE
    OBVIOUS
  <2>2. L = <<q.name>>
    BY <2>1 DEF OnLine, Reads
  <2>3. L[1] \in Bytes /\ L[1] = q.name
    BY <2>2 DEF Lines
  <2>4. FieldOf(L) = "other" => L[1] \notin Names \/ L[1] = "other"
    BY <2>2 DEF FieldOf
  <2>5. q.name \in Names
    BY DEF Structs
  <2> QED BY <2>1, <2>2, <2>3, <2>4, <2>5
<1>7. Reads(q, <<"other">>)
  BY <1>1, <1>5, <1>6 DEF Reads
<1>8. OnLine(q, B, <<"other">>, S)
  BY <1>5, <1>7, OnLineIdle
<1> QED BY <1>5, <1>6, <1>8

\* The value of a line grows with the line.
LEMMA ValueGrows ==
    ASSUME NEW L \in Lines, NEW b \in Bytes
    PROVE  /\ Append(L, b) \in Lines /\ Len(Append(L, b)) = Len(L) + 1
           /\ Append(L, b)[1] = L[1]
           /\ Len(L) >= 2 => Append(L, b)[2] = L[2]
           /\ Len(L) >= 3 => ValueOf(Append(L, b)) = Append(ValueOf(L), b)
           /\ Len(L) = 2 => /\ ValueOf(L) = <<>>
                            /\ ValueOf(Append(L, b)) = IF b = "SPACE" THEN <<>> ELSE <<b>>
           /\ Len(L) = 1 => ValueOf(L) = <<>> /\ Append(L, b)[2] = b
<1> DEFINE M == Append(L, b)
           n == Len(L)
           v == SubSeq(L, 3, n)
           w == SubSeq(M, 3, n + 1)
<1>1. /\ L \in Seq(Bytes) /\ n \in Nat /\ n >= 1 /\ M \in Seq(Bytes) /\ Len(M) = n + 1
      /\ M[n + 1] = b /\ \A k \in 1 .. n : M[k] = L[k]
  BY DEF Lines
<1>2. M \in Lines
  BY <1>1 DEF Lines
<1> HIDE DEF M
<1>3. M[1] = L[1] /\ (n >= 2 => M[2] = L[2]) /\ (n = 1 => M[2] = b)
  BY <1>1
<1>4. n < 3 => v = <<>>
  BY <1>1
<1>5. n = 2 => w = <<b>>
  <2>1. SUFFICES ASSUME n = 2 PROVE w = <<b>>
    OBVIOUS
  <2>2. Len(M) = 3 /\ M[3] = b
    BY <2>1, <1>1
  <2>3. n + 1 = 3
    BY <2>1
  <2>4. SubSeq(M, 3, 3) = <<M[3]>>
    <3>1. SubSeq(M, 3, 3) \in Seq(Bytes) /\ Len(SubSeq(M, 3, 3)) = 1 /\ SubSeq(M, 3, 3)[1] = M[3]
      BY <2>2, <1>1, SubSeqProperties
    <3>2. <<M[3]>> \in Seq(Bytes) /\ Len(<<M[3]>>) = 1 /\ <<M[3]>>[1] = M[3]
      BY <2>2
    <3>3. \A i \in 1 .. 1 : SubSeq(M, 3, 3)[i] = <<M[3]>>[i]
      BY <3>1, <3>2
    <3> QED BY <3>1, <3>2, <3>3, SeqEqual
  <2> QED BY <2>2, <2>3, <2>4
<1>6. n >= 3 => /\ v \in Seq(Bytes) /\ v # <<>> /\ v[1] = L[3]
                /\ w = Append(v, b) /\ w # <<>> /\ w[1] = L[3]
  <2>1. SUFFICES ASSUME n >= 3 PROVE
                   /\ v \in Seq(Bytes) /\ v # <<>> /\ v[1] = L[3]
                   /\ w = Append(v, b) /\ w # <<>> /\ w[1] = L[3]
    OBVIOUS
  <2>2. v \in Seq(Bytes) /\ Len(v) = n - 2 /\ \A k \in 1 .. n - 2 : v[k] = L[k + 2]
    BY <2>1, <1>1
  <2>3. w \in Seq(Bytes) /\ Len(w) = n - 1 /\ \A k \in 1 .. n - 1 : w[k] = M[k + 2]
    BY <2>1, <1>1
  <2> DEFINE x == Append(v, b)
  <2>4. /\ x \in Seq(Bytes) /\ Len(x) = n - 1 /\ x[n - 1] = b
        /\ \A k \in 1 .. n - 2 : x[k] = v[k]
    <3> HIDE DEF v
    <3> QED BY <2>1, <2>2, <1>1
  <2> HIDE DEF v, w, x
  <2>5. \A k \in 1 .. n - 1 : w[k] = x[k]
    <3>1. SUFFICES ASSUME NEW k \in 1 .. n - 1 PROVE w[k] = x[k]
      OBVIOUS
    <3>2. CASE k = n - 1
      <4>1. w[k] = M[n + 1]
        BY <3>2, <2>3, <1>1
      <4> QED BY <4>1, <3>2, <2>4, <1>1
    <3>3. CASE k # n - 1
      <4>1. k \in 1 .. n - 2 /\ k + 2 \in 1 .. n
        BY <3>3, <1>1
      <4> QED BY <4>1, <2>2, <2>3, <2>4, <1>1
    <3> QED BY <3>2, <3>3
  <2>6. w = x
    BY <2>3, <2>4, <2>5, SeqEqual
  <2>7. v # <<>> /\ w # <<>>
    BY <2>1, <2>2, <2>3, <1>1
  <2>8. v[1] = L[3] /\ w[1] = L[3]
    <3>1. 1 \in 1 .. n - 2 /\ 1 \in 1 .. n - 1 /\ 3 \in 1 .. n
      BY <2>1, <1>1
    <3> QED BY <3>1, <2>2, <2>3, <1>1
  <2> QED BY <2>2, <2>6, <2>7, <2>8 DEF x
<1>7. /\ ValueOf(L) = IF v # <<>> /\ v[1] = "SPACE" THEN Tail(v) ELSE v
      /\ ValueOf(M) = IF w # <<>> /\ w[1] = "SPACE" THEN Tail(w) ELSE w
  <2>1. Len(M) = n + 1
    BY <1>1
  <2> QED BY <2>1 DEF ValueOf
<1> HIDE DEF v, w
<1>8. n >= 3 => ValueOf(M) = Append(ValueOf(L), b)
  <2>1. SUFFICES ASSUME n >= 3 PROVE ValueOf(M) = Append(ValueOf(L), b)
    OBVIOUS
  <2>2. Tail(Append(v, b)) = Append(Tail(v), b)
    BY <2>1, <1>6
  <2> QED BY <2>1, <2>2, <1>6, <1>7
<1>9. n = 2 => ValueOf(L) = <<>> /\ ValueOf(M) = IF b = "SPACE" THEN <<>> ELSE <<b>>
  <2>1. Tail(<<b>>) = <<>> /\ <<b>> # <<>> /\ <<b>>[1] = b
    OBVIOUS
  <2>2. SUFFICES ASSUME n = 2 PROVE ValueOf(L) = <<>> /\ ValueOf(M) = IF b = "SPACE" THEN <<>> ELSE <<b>>
    OBVIOUS
  <2>3. ValueOf(L) = <<>>
    BY <2>2, <1>4, <1>7
  <2>4. ValueOf(M) = IF <<b>> # <<>> /\ <<b>>[1] = "SPACE" THEN Tail(<<b>>) ELSE <<b>>
    BY <2>2, <1>5, <1>7
  <2> QED BY <2>1, <2>3, <2>4
<1>10. n = 1 => ValueOf(L) = <<>>
  BY <1>4, <1>7
<1> QED BY <1>1, <1>2, <1>3, <1>8, <1>9, <1>10 DEF M

\* A line without a known field name keeps none, and a longer name is no known one.
LEMMA OtherGrows ==
    ASSUME NEW L \in Lines, NEW b \in Bytes,
           FieldOf(L) = "other" \/ (Len(L) = 1 /\ b # "COLON")
    PROVE  FieldOf(Append(L, b)) = "other"
<1> DEFINE M == Append(L, b)
<1>1. /\ Len(L) \in Nat /\ Len(L) >= 1 /\ Len(M) = Len(L) + 1 /\ M[1] = L[1]
      /\ (Len(L) >= 2 => M[2] = L[2]) /\ (Len(L) = 1 => M[2] = b)
  BY ValueGrows DEF Lines
<1> HIDE DEF M
<1>2. Len(M) # 1
  BY <1>1
<1>3. CASE Len(L) = 1
  <2>1. b = "COLON" => L[1] \notin Names \/ L[1] = "other"
    BY <1>3 DEF FieldOf
  <2> QED BY <2>1, <1>1, <1>2, <1>3 DEF FieldOf, M
<1>4. CASE Len(L) # 1
  <2>0. \A n \in Nat : n >= 1 /\ n # 1 => n >= 2
    OBVIOUS
  <2>1. M[2] = L[2]
    BY <2>0, <1>1, <1>4
  <2>2. FieldOf(M) = FieldOf(L)
    BY <2>1, <1>1, <1>2, <1>4 DEF FieldOf
  <2> QED BY <2>2, <1>4 DEF M
<1> QED BY <1>3, <1>4

\* What was called for the value being read is a sequence of reports.
LEMMA SoFarIs ==
    ASSUME NEW B, NEW f, NEW v
    PROVE  SoFar(B, f, v) \in Seq(Reports)
<1>1. Err("ID_INVALID") \in Seq(Reports)
  BY ErrIs DEF Perrs
<1>2. Why(f, v) \in Perrs
  BY DEF Why, Perrs
<1>3. Err(Why(f, v)) \in Seq(Reports) /\ <<>> \in Seq(Reports)
  BY <1>2, ErrIs
<1> QED BY <1>1, <1>3 DEF SoFar

\* r is still reading the field that q reads, and treats an LF as q does.
Stays(q, r) == r.field = q.field /\ r.swallow_lf = q.swallow_lf

\* Reading a value leaves the field as it is.
LEMMA DiscardField ==
    ASSUME NEW q \in Structs, NEW e
    PROVE  Stays(q, DiscardBlock(q, e))
<1> DEFINE r == [q EXCEPT !.block_discarded = TRUE]
<1>1. r \in Structs /\ Stays(q, r)
  BY DEF Structs, Stays
<1> HIDE DEF r
<1>2. Stays(r, EmitPerr(r, e))
  BY <1>1, EmitIs DEF EmitPerr, Stays
<1> QED BY <1>1, <1>2 DEF DiscardBlock, Stays, r

\* So does value_byte().
LEMMA ValueByteField ==
    ASSUME NEW q \in Structs, NEW b
    PROVE  Stays(q, ValueByte(q, b))
<1>1. \A e : Stays(q, DiscardBlock(q, e))
  BY DiscardField
<1>2. Stays(q, DataByte(q, b))
  <2>1. Stays(q, [q EXCEPT !.data = Append(q.data, b)])
    BY DEF Structs, Stays
  <2> QED BY <2>1, <1>1 DEF DataByte, Stays
<1>3. Stays(q, EventByte(q, b))
  <2>1. Stays(q, [q EXCEPT !.event = Append(q.event, b)])
    BY DEF Structs, Stays
  <2> QED BY <2>1, <1>1 DEF EventByte, Stays
<1>4. Stays(q, IdByte(q, b))
  <2>1. Stays(q, [q EXCEPT !.id = Append(q.id, b)])
    BY DEF Structs, Stays
  <2> DEFINE r == [q EXCEPT !.id_invalid = TRUE]
  <2>2. r \in Structs /\ Stays(q, r)
    BY DEF Structs, Stays
  <2> HIDE DEF r
  <2>3. Stays(q, EmitPerr(r, "ID_INVALID"))
    BY <2>2, EmitIs DEF EmitPerr, Stays
  <2> QED BY <2>1, <2>3 DEF IdByte, Stays, r
<1>5. Stays(q, RetryByte(q, b))
  BY DEF RetryByte, Structs, Stays
<1> QED BY <1>2, <1>3, <1>4, <1>5 DEF ValueByte, Stays

\* So does start_value(), which calls nothing back.
LEMMA StartValueField ==
    ASSUME NEW q \in Structs
    PROVE  Stays(q, StartValue(q)) /\ StartValue(q).out = q.out /\ StartValue(q) \in Structs
<1>1. [q EXCEPT !.event = <<>>] \in Structs /\ [q EXCEPT !.id = <<>>, !.id_invalid = FALSE] \in Structs
  <2>1. <<>> \in Seq(Bytes)
    OBVIOUS
  <2> QED BY <2>1 DEF Structs, Stays
<1>2. [q EXCEPT !.retry_acc = 0, !.retry_seen_digit = FALSE, !.retry_invalid = FALSE] \in Structs
  <2>1. 0 \in 0 .. RetryMax
    BY BufferAssumption
  <2> QED BY <2>1 DEF Structs, Stays
<1>3. StartValue(q) \in Structs
  BY <1>1, <1>2 DEF StartValue
<1>4. Stays(q, StartValue(q)) /\ StartValue(q).out = q.out
  BY DEF StartValue, Structs, Stays
<1> QED BY <1>3, <1>4

\* resolve_field_name(): the name of a known field is complete.
LEMMA ResolveReads ==
    ASSUME NEW B \in Seq(Lines), NEW q, Idle(q), q.name # "other", q.out = <<>>,
           Reading(q, B, "none", <<>>)
    PROVE  LET r == ResolveFieldName(q) IN
           /\ Good(r) /\ r.state = "AFTER_COLON" /\ r.field = q.name /\ q.name \in Known
           /\ r.out = <<>> /\ Reading(r, B, q.name, <<>>)
           /\ SoFar(B, q.name, <<>>) = <<>>
<1> DEFINE s == [q EXCEPT !.field = q.name]
           t == StartValue(s)
           r == [t EXCEPT !.state = "AFTER_COLON"]
<1>1. q \in Structs /\ Fits(q) /\ q.name \in Known
  BY DEF Idle, Structs, Names, Known
<1>2. s \in Structs /\ s.field = q.name /\ Alike(q, s) /\ s.out = <<>>
  BY <1>1 DEF Structs, Known, Fields, Alike
<1>3. Fits(s)
  BY <1>1, <1>2 DEF Fits, Alike
<1>4. ResolveFieldName(q) = r
  BY DEF ResolveFieldName
<1>5. Good(ResolveFieldName(q))
  BY ResolveGood
<1> HIDE DEF s
<1>6. Reading(s, B, "none", <<>>)
  BY <1>2, AlikeReads
<1>7. Reading(t, B, q.name, <<>>) /\ SoFar(B, q.name, <<>>) = <<>>
  BY <1>1, <1>2, <1>3, <1>6, StartValueReads
<1>8. t \in Structs /\ t.field = q.name /\ t.out = <<>>
  BY <1>2, StartValueField DEF Stays
<1> HIDE DEF t
<1>9. Alike(t, r) /\ r.state = "AFTER_COLON" /\ r.field = q.name /\ r.out = <<>>
  BY <1>8 DEF Structs, Alike
<1> HIDE DEF r
<1>10. Reading(r, B, q.name, <<>>)
  BY <1>7, <1>9, AlikeReads
<1> QED BY <1>1, <1>4, <1>5, <1>7, <1>9, <1>10

\* Two symbols in a row.
LEMMA PairIs ==
    ASSUME NEW x, NEW y
    PROVE  Append(<<x>>, y) = <<x, y>>
<1>1. /\ <<x>> \in Seq({x, y}) /\ <<x, y>> \in Seq({x, y}) /\ Len(<<x>>) = 1
      /\ Len(<<x, y>>) = 2 /\ <<x>>[1] = x /\ <<x, y>>[1] = x /\ <<x, y>>[2] = y
  OBVIOUS
<1>2. /\ Append(<<x>>, y) \in Seq({x, y}) /\ Len(Append(<<x>>, y)) = 2
      /\ Append(<<x>>, y)[1] = x /\ Append(<<x>>, y)[2] = y
  BY <1>1, AppendProperties
<1>3. \A i \in 1 .. 2 : Append(<<x>>, y)[i] = <<x, y>>[i]
  BY <1>1, <1>2
<1> QED BY <1>1, <1>2, <1>3, SeqEqual

\* A struct agrees with itself.
LEMMA AlikeSelf ==
    ASSUME NEW q
    PROVE  Alike(q, q)
BY DEF Alike

\* A byte of a value.
LEMMA ValueByteOnLine ==
    ASSUME NEW q, Good(q), q.out = <<>>, q.state = "VALUE", q.field \in Known,
           NEW B \in Seq(Lines), NEW M \in Lines, NEW S, NEW v \in Seq(Bytes), NEW b \in Bytes,
           Reading(q, B, q.field, v), S = SaidFor(B) \o SoFar(B, q.field, v),
           Len(M) >= 3, M[1] = q.field, M[2] = "COLON", ValueOf(M) = Append(v, b)
    PROVE  LET r == ValueByte(q, b) IN OnLine(r, B, M, S \o r.out)
<1> DEFINE r == ValueByte(q, b)
           f == q.field
<1>1. q \in Structs
  BY DEF Good
<1>2. r.field = f /\ r.state = "VALUE" /\ Good(r)
  BY <1>1, ValueByteField, ValueByteGood DEF Stays
<1>3. /\ Reading(r, B, f, Append(v, b))
      /\ SoFar(B, f, v) \o r.out = SoFar(B, f, Append(v, b))
  BY ValueByteReads
<1>4. r.out \in Seq(Reports) /\ SoFar(B, f, v) \in Seq(Reports) /\ SaidFor(B) \in Seq(Reports)
  BY <1>2, SoFarIs, SaidIs DEF Good, Structs
<1> HIDE DEF r
<1>5. S \o r.out = SaidFor(B) \o (SoFar(B, f, v) \o r.out)
  <2>1. (SaidFor(B) \o SoFar(B, f, v)) \o r.out = SaidFor(B) \o (SoFar(B, f, v) \o r.out)
    <3> DEFINE x == SaidFor(B)
               y == SoFar(B, f, v)
               z == r.out
    <3>1. x \in Seq(Reports) /\ y \in Seq(Reports) /\ z \in Seq(Reports)
      BY <1>4
    <3> HIDE DEF x, y, z
    <3>2. (x \o y) \o z = x \o (y \o z)
      BY <3>1, ConcatAssociative, SMTT(90)
    <3> QED BY <3>2 DEF x, y, z
  <2> QED BY <2>1
<1>6. ValueSoFar(r, M) = Append(v, b)
  BY <1>2 DEF ValueSoFar, Known
<1>7. Reads(r, M)
  BY <1>2 DEF Reads
<1> QED BY <1>2, <1>3, <1>5, <1>6, <1>7 DEF OnLine, r

\* A byte that ends no line.
LEMMA LineByteOnLine ==
    ASSUME NEW q, Good(q), q.out = <<>>, q.state # "BOM",
           NEW B \in Seq(Lines), NEW L \in Seq(Bytes), NEW S, OnLine(q, B, L, S),
           NEW b \in Bytes, b \in Names => q.state = "LINE_START"
    PROVE  LET r == LineByte(q, b) IN
           r.state # "BOM" /\ OnLine(r, B, Append(L, b), S \o r.out)
<1> DEFINE M == Append(L, b)
           r == LineByte(q, b)
<1>1. /\ q \in Structs /\ q.state \in Modes /\ q.name \in Names
      /\ (q.state \notin {"AFTER_COLON", "VALUE"} => Idle(q) /\ q.field = "none")
  BY IdleGood DEF Good, Structs, Idle
<1>2. M \in Lines /\ M # <<>> /\ (L # <<>> => L \in Lines)
  <2>1. M \in Seq(Bytes) /\ M # <<>>
    BY ValueAppend
  <2> QED BY <2>1 DEF Lines
<1>3. S \in Seq(Reports) /\ S \o <<>> = S
  <2>1. SaidFor(B) \in Seq(Reports) /\ SoFar(B, q.field, ValueSoFar(q, L)) \in Seq(Reports)
    BY SoFarIs, SaidIs
  <2>2. S \in Seq(Reports)
    BY <2>1 DEF OnLine
  <2> QED BY <2>2
<1>4. ASSUME NEW x, Alike(q, x), x.out = <<>>, x.field = "none", q.field = "none",
             x.state # "BOM", Reads(x, M), r = x
      PROVE  r.state # "BOM" /\ OnLine(r, B, M, S \o r.out)
  <2>1. Reading(q, B, "none", <<>>) /\ S = SaidFor(B)
    BY <1>4, OnLineIdle
  <2>2. Reading(x, B, "none", <<>>)
    BY <1>4, <2>1, AlikeReads
  <2> QED BY <1>3, <1>4, <2>1, <2>2, OnLineIdle
<1> HIDE DEF M, r
<1>5. CASE q.state = "LINE_START"
  <2>1. L = <<>> /\ M = <<b>> /\ M[1] = b /\ Len(M) = 1
    BY <1>5 DEF OnLine, Reads, M
  <2>2. CASE b = "COLON"
    <3> DEFINE x == [q EXCEPT !.state = "SKIP_LINE"]
    <3>1. r = x
      BY <1>5, <2>2 DEF LineByte, r
    <3>2. Alike(q, x) /\ x.out = <<>> /\ x.field = q.field /\ x.state = "SKIP_LINE"
      BY <1>1 DEF Structs, Alike
    <3> HIDE DEF x
    <3>3. FieldOf(M) = "other"
      BY <2>1, <2>2 DEF FieldOf, Names
    <3>4. Reads(x, M)
      BY <3>2, <3>3, <1>1, <1>2, <1>5 DEF Reads
    <3> QED BY <3>1, <3>2, <3>4, <1>1, <1>4, <1>5 DEF r, M
  <2>3. CASE b # "COLON"
    <3> DEFINE n == IF b \in Names THEN b ELSE "other"
               x == [q EXCEPT !.state = "FIELD_NAME", !.name = n]
    <3>1. r = x
      BY <1>5, <2>3 DEF LineByte, r
    <3>2. Alike(q, x) /\ x.out = <<>> /\ x.field = q.field /\ x.state = "FIELD_NAME" /\ x.name = n
      BY <1>1 DEF Structs, Alike
    <3> HIDE DEF x
    <3>3. IF n = "other" THEN FieldOf(M) = "other" ELSE M = <<n>>
      BY <2>1 DEF FieldOf
    <3> HIDE DEF n
    <3>4. Reads(x, M)
      BY <3>2, <3>3, <1>1, <1>2, <1>5 DEF Reads
    <3> QED BY <3>1, <3>2, <3>4, <1>1, <1>4, <1>5 DEF r, M
  <2> QED BY <2>2, <2>3
<1>6. CASE q.state = "FIELD_NAME"
  <2>1. L \in Lines /\ (IF q.name = "other" THEN FieldOf(L) = "other" ELSE L = <<q.name>>)
    BY <1>2, <1>6 DEF OnLine, Reads
  <2>2. r = NameByte(q, b)
    BY <1>6 DEF LineByte, r
  <2>3. CASE b = "COLON" /\ q.name = "other"
    <3> DEFINE x == [q EXCEPT !.field = "none", !.state = "SKIP_LINE"]
    <3>1. r = x
      BY <2>2, <2>3 DEF NameByte, ResolveFieldName
    <3>2. Alike(q, x) /\ x.out = <<>> /\ x.field = "none" /\ x.state = "SKIP_LINE"
      BY <1>1 DEF Structs, Alike
    <3> HIDE DEF x
    <3>3. FieldOf(M) = "other"
      BY <2>1, <2>3, OtherGrows DEF M
    <3>4. Reads(x, M)
      BY <3>2, <3>3, <1>2 DEF Reads, M
    <3> QED BY <3>1, <3>2, <3>4, <1>1, <1>4, <1>6 DEF r, M
  <2>4. CASE b = "COLON" /\ q.name # "other"
    <3>1. r = ResolveFieldName(q)
      BY <2>2, <2>4 DEF NameByte
    <3>2. Reading(q, B, "none", <<>>) /\ S = SaidFor(B)
      BY <1>1, <1>6, OnLineIdle
    <3>3. /\ r.state = "AFTER_COLON" /\ r.field = q.name /\ q.name \in Known
          /\ r.out = <<>> /\ Reading(r, B, q.name, <<>>)
          /\ SoFar(B, q.name, <<>>) = <<>>
      BY <3>1, <3>2, <2>4, <1>1, <1>6, ResolveReads
    <3>4. M = <<q.name, "COLON">> /\ ValueOf(M) = <<>>
      <4>1. L = <<q.name>> /\ Len(L) = 1
        BY <2>1, <2>4
      <4>2. Append(<<q.name>>, "COLON") = <<q.name, "COLON">>
        BY PairIs
      <4>3. M = <<q.name, "COLON">> /\ Len(M) = 2
        BY <4>1, <4>2, <2>4 DEF M
      <4>4. ValueOf(M) = <<>>
        BY <4>3, <1>2, ValueGrows DEF M
      <4> QED BY <4>3, <4>4
    <3>5. ValueSoFar(r, M) = <<>>
      BY <3>3, <3>4 DEF ValueSoFar
    <3>6. Reads(r, M)
      BY <3>3, <3>4 DEF Reads
    <3>7. S \o r.out = SaidFor(B) \o <<>>
      BY <3>2, <3>3
    <3> QED BY <3>3, <3>5, <3>6, <3>7 DEF OnLine, r, M
  <2>5. CASE b # "COLON"
    <3> DEFINE x == [q EXCEPT !.name = "other"]
    <3>1. r = x
      BY <2>2, <2>5 DEF NameByte
    <3>2. Alike(q, x) /\ x.out = <<>> /\ x.field = q.field /\ x.state = "FIELD_NAME" /\ x.name = "other"
      BY <1>1, <1>6 DEF Structs, Alike
    <3> HIDE DEF x
    <3>3. FieldOf(M) = "other"
      BY <2>1, <2>5, OtherGrows DEF M
    <3>4. Reads(x, M)
      BY <3>2, <3>3, <1>1, <1>2, <1>6 DEF Reads, M
    <3> QED BY <3>1, <3>2, <3>4, <1>1, <1>4, <1>6 DEF r, M
  <2> QED BY <2>3, <2>4, <2>5
<1>7. CASE q.state = "AFTER_COLON"
  <2> DEFINE x == [q EXCEPT !.state = "VALUE"]
  <2>1. q.field \in Known /\ L = <<q.field, "COLON">> /\ L \in Lines /\ Len(L) = 2
    <3>1. q.field \in Known /\ L = <<q.field, "COLON">>
      BY <1>7 DEF OnLine, Reads
    <3>2. Len(L) = 2 /\ L # <<>>
      BY <3>1
    <3> QED BY <3>1, <3>2, <1>2
  <2>2. r = IF b = "SPACE" THEN x ELSE ValueByte(x, b)
    BY <1>7 DEF LineByte, r
  <2>3. /\ Alike(q, x) /\ x.out = <<>> /\ x.field = q.field /\ x.state = "VALUE"
        /\ x \in Structs
    BY <1>1 DEF Structs, Alike, Modes
  <2> HIDE DEF x
  <2>4. Good(x)
    BY <2>3, <1>7 DEF Good, Fits, Terminated, Alike
  <2>5. /\ Len(M) = 3 /\ M[1] = q.field /\ M[2] = "COLON" /\ ValueOf(L) = <<>>
        /\ ValueOf(M) = IF b = "SPACE" THEN <<>> ELSE <<b>>
    <3>1. /\ Len(M) = Len(L) + 1 /\ M[1] = L[1] /\ M[2] = L[2] /\ ValueOf(L) = <<>>
          /\ ValueOf(M) = IF b = "SPACE" THEN <<>> ELSE <<b>>
      <4>1. 2 >= 2
        OBVIOUS
      <4> QED BY <4>1, <2>1, ValueGrows, Zenon DEF M
    <3> QED BY <3>1, <2>1
  <2>6. Reading(q, B, q.field, <<>>) /\ S = SaidFor(B) \o SoFar(B, q.field, <<>>)
    BY <2>1, <2>5 DEF OnLine, ValueSoFar, Known
  <2>7. Reading(x, B, x.field, <<>>)
    BY <2>3, <2>6, AlikeReads
  <2>8. CASE b = "SPACE"
    <3>1. r = x /\ ValueSoFar(x, M) = <<>>
      BY <2>1, <2>2, <2>3, <2>5, <2>8 DEF ValueSoFar, Known
    <3>2. Reads(x, M)
      BY <2>1, <2>3, <2>5 DEF Reads
    <3>3. OnLine(x, B, M, S)
      BY <3>1, <3>2, <2>3, <2>6, <2>7 DEF OnLine
    <3> QED BY <3>1, <3>3, <2>3, <1>3 DEF r, M
  <2>9. CASE b # "SPACE"
    <3>1. r = ValueByte(x, b) /\ ValueOf(M) = Append(<<>>, b)
      BY <2>2, <2>5, <2>9
    <3>2. Len(M) >= 3 /\ M \in Lines /\ <<>> \in Seq(Bytes)
      BY <2>5, <1>2 DEF M
    <3>3. OnLine(r, B, M, S \o r.out)
      BY <3>1, <3>2, <2>1, <2>3, <2>4, <2>5, <2>6, <2>7, ValueByteOnLine
    <3>4. r.state = "VALUE"
      BY <3>1, <2>3, <2>4, ValueByteGood
    <3> QED BY <3>3, <3>4 DEF r, M
  <2> QED BY <2>8, <2>9
<1>8. CASE q.state = "VALUE"
  <2>1. /\ q.field \in Known /\ Len(L) >= 3 /\ L[1] = q.field /\ L[2] = "COLON" /\ L \in Lines
    <3>1. /\ q.field \in Known /\ Len(L) >= 3 /\ L[1] = q.field /\ L[2] = "COLON"
      BY <1>8 DEF OnLine, Reads
    <3>2. L # <<>>
      BY <3>1
    <3> QED BY <3>1, <3>2, <1>2
  <2>2. r = ValueByte(q, b)
    BY <1>8 DEF LineByte, r
  <2>3. /\ Len(M) >= 3 /\ M[1] = q.field /\ M[2] = "COLON"
        /\ ValueOf(M) = Append(ValueOf(L), b) /\ ValueOf(L) \in Seq(Bytes)
    <3>1. /\ Len(M) = Len(L) + 1 /\ M[1] = L[1] /\ M[2] = L[2]
          /\ ValueOf(M) = Append(ValueOf(L), b)
      <4>1. Len(L) >= 2
        BY <2>1
      <4> QED BY <4>1, <2>1, ValueGrows, Zenon DEF M
    <3>2. ValueOf(L) \in Seq(Bytes)
      BY <2>1, LineHas
    <3> QED BY <3>1, <3>2, <2>1
  <2>4. Reading(q, B, q.field, ValueOf(L)) /\ S = SaidFor(B) \o SoFar(B, q.field, ValueOf(L))
    BY <2>1 DEF OnLine, ValueSoFar, Known
  <2>5. OnLine(r, B, M, S \o r.out)
    BY <2>1, <2>2, <2>3, <2>4, <1>2, <1>8, ValueByteOnLine DEF M
  <2>6. r.state = "VALUE"
    BY <2>2, <1>8, ValueByteGood
  <2> QED BY <2>5, <2>6 DEF r, M
<1>9. CASE q.state = "SKIP_LINE"
  <2>1. L \in Lines /\ FieldOf(L) = "other" /\ q.field = "none"
    BY <1>2, <1>9 DEF OnLine, Reads
  <2>2. r = q
    BY <1>9 DEF LineByte, r
  <2>3. FieldOf(M) = "other"
    BY <2>1, OtherGrows DEF M
  <2>4. Reads(q, M)
    BY <2>1, <2>3, <1>2, <1>9 DEF Reads, M
  <2> QED BY <2>1, <2>2, <2>4, <1>4, AlikeSelf DEF r, M
<1> QED BY <1>1, <1>5, <1>6, <1>7, <1>8, <1>9 DEF Modes

\* The callbacks of the blank line that ends a block: at most an id and an event.
IdReports == [cb : {"on_id"}, id : Seq(Bytes)]
EventReports ==
    [cb : {"on_event"}, data : Seq(Bytes), has_event : BOOLEAN, event : Seq(Bytes)]

\* IdCallback gives at most an id, and EventCallback an event exactly when the block
\* has data and no cause of a loss.
LEMMA EndCallbacksAre ==
    ASSUME NEW B \in Seq(Lines)
    PROVE  /\ IdCallback(B) \in Seq(Reports) /\ EventCallback(B) \in Seq(Reports)
           /\ IdCallback(B) = <<>> \/ \E c \in IdReports : IdCallback(B) = <<c>>
           /\ IF LinesOf(B, "data") # {} /\ Causes(B) = {}
              THEN \E c \in EventReports : EventCallback(B) = <<c>>
              ELSE EventCallback(B) = <<>>
<1>1. ASSUME NEW f, LinesOf(B, f) # {}
      PROVE  ValueOf(B[Max(LinesOf(B, f))]) \in Seq(Bytes)
  <2> DEFINE S == LinesOf(B, f)
  <2>1. <<"LF">> \in Lines
    BY DEF Lines, Bytes, Special
  <2>2. S \in SUBSET (1 .. Len(B)) /\ S # {}
    BY <2>1, <1>1, LinesAppend
  <2>3. Len(B) \in Nat
    OBVIOUS
  <2> HIDE DEF S
  <2>4. Max(S) \in 1 .. Len(B)
    BY <2>2, <2>3, MaxIs
  <2>5. B[Max(S)] \in Lines
    BY <2>4
  <2> QED BY <2>5, LineHas DEF S
<1>2. \A c \in Reports : <<c>> \in Seq(Reports) /\ <<>> \in Seq(Reports)
  OBVIOUS
<1>3. IdReports \subseteq Reports /\ EventReports \subseteq Reports
  BY DEF IdReports, EventReports, Reports
<1>4. <<>> \in Seq(Reports)
  OBVIOUS
<1>5. IdCallback(B) = <<>> \/ \E c \in IdReports : IdCallback(B) = <<c>>
  <2> DEFINE v == ValueOf(B[Max(LinesOf(B, "id"))])
  <2>1. CASE LinesOf(B, "id") = {} \/ BadId(v)
    BY <2>1 DEF IdCallback
  <2>2. CASE LinesOf(B, "id") # {} /\ ~ BadId(v)
    <3> DEFINE c == [cb |-> "on_id", id |-> v]
    <3>1. c \in IdReports
      BY <2>2, <1>1 DEF IdReports
    <3>2. IdCallback(B) = <<c>>
      BY <2>2 DEF IdCallback
    <3> QED BY <3>1, <3>2
  <2> QED BY <2>1, <2>2
<1>6. IF LinesOf(B, "data") # {} /\ Causes(B) = {}
      THEN \E c \in EventReports : EventCallback(B) = <<c>>
      ELSE EventCallback(B) = <<>>
  <2> DEFINE type == IF LinesOf(B, "event") = {} THEN <<>>
                     ELSE ValueOf(B[Max(LinesOf(B, "event"))])
             has == type # <<>>
             data == Front(Data(B))
             c == [cb |-> "on_event", data |-> data, has_event |-> has, event |-> type]
  <2>1. type \in Seq(Bytes)
    BY <1>1
  <2>2. data \in Seq(Bytes)
    <3>1. Data(B) \in Seq(Bytes)
      BY SaidIs
    <3> DEFINE d == Data(B)
    <3> HIDE DEF d
    <3>2. d \in Seq(Bytes) => SubSeq(d, 1, Len(d) - 1) \in Seq(Bytes)
      <4>1. SUFFICES ASSUME d \in Seq(Bytes) PROVE SubSeq(d, 1, Len(d) - 1) \in Seq(Bytes)
        OBVIOUS
      <4>2. Len(d) - 1 \in Int /\ \A i \in 1 .. Len(d) - 1 : d[i] \in Bytes
        BY <4>1
      <4> QED BY <4>2, SubSeqProperties
    <3> QED BY <3>1, <3>2 DEF d, Front
  <2>3. has \in BOOLEAN
    OBVIOUS
  <2>4. EventCallback(B) = IF LinesOf(B, "data") = {} \/ Causes(B) # {} THEN <<>> ELSE <<c>>
    BY DEF EventCallback, Data
  <2> HIDE DEF type, has, data
  <2>5. c \in EventReports
    BY <2>1, <2>2, <2>3 DEF EventReports
  <2> HIDE DEF c
  <2> QED BY <2>4, <2>5
<1>7. IdCallback(B) \in Seq(Reports)
  BY <1>2, <1>3, <1>4, <1>5
<1>8. EventCallback(B) \in Seq(Reports)
  BY <1>2, <1>3, <1>4, <1>6
<1> QED BY <1>5, <1>6, <1>7, <1>8

\* The end of a line whose field has a value.
LEMMA CommitOnLine ==
    ASSUME NEW q, Good(q), q.out = <<>>, q.field \in Known,
           NEW B \in Seq(Lines), NEW L \in Lines, NEW S, FieldOf(L) = q.field,
           Reading(q, B, q.field, ValueOf(L)), S = SaidFor(B) \o SoFar(B, q.field, ValueOf(L))
    PROVE  LET r == [CommitValue(q) EXCEPT !.state = "LINE_START"] IN
           OnLine(r, Append(B, L), <<>>, S \o r.out)
<1> DEFINE c == CommitValue(q)
           r == [c EXCEPT !.state = "LINE_START"]
           C == Append(B, L)
<1>1. c \in Structs /\ c.field = "none"
  BY CommitValueIdle DEF Idle
<1>2. Reading(c, C, "none", <<>>) /\ SoFar(B, q.field, ValueOf(L)) \o c.out = LineSaid(B, L)
  BY CommitValueReads
<1> HIDE DEF c
<1>3. Alike(c, r) /\ r.state = "LINE_START" /\ r.field = "none" /\ r.out = c.out
  BY <1>1 DEF Structs, Alike
<1> HIDE DEF r
<1>4. Reading(r, C, "none", <<>>) /\ Reads(r, <<>>)
  BY <1>2, <1>3, AlikeReads DEF Reads
<1>5. S \o r.out = SaidFor(C)
  <2> DEFINE x == SaidFor(B)
             y == SoFar(B, q.field, ValueOf(L))
             z == r.out
  <2>1. x \in Seq(Reports) /\ y \in Seq(Reports) /\ z \in Seq(Reports)
    BY <1>1, <1>3, SaidIs, SoFarIs DEF Structs
  <2>2. y \o z = LineSaid(B, L)
    BY <1>2, <1>3
  <2> HIDE DEF x, y, z
  <2>3. (x \o y) \o z = x \o (y \o z)
    BY <2>1, ConcatAssociative
  <2>4. SaidFor(C) = x \o LineSaid(B, L)
    BY SaidAppend DEF x
  <2> QED BY <2>2, <2>3, <2>4 DEF x, y, z
<1>6. C \in Seq(Lines)
  OBVIOUS
<1> HIDE DEF C
<1>7. OnLine(r, C, <<>>, S \o r.out)
  BY <1>3, <1>4, <1>5, <1>6, OnLineIdle
<1> QED BY <1>7 DEF r, c, C

\* line_end(): the end of a line that is not blank.
LEMMA LineEndOnLine ==
    ASSUME NEW q, Good(q), q.out = <<>>,
           NEW B \in Seq(Lines), NEW L \in Lines, NEW S, OnLine(q, B, L, S)
    PROVE  LET r == LineEnd(q) IN
           /\ OnLine(r, Append(B, L), <<>>, S \o r.out)
           /\ FieldOf(L) = "other" => OnLine(r, B, <<>>, S \o r.out)
<1> DEFINE C == Append(B, L)
           r == LineEnd(q)
<1>1. /\ q \in Structs /\ q.state \in Modes /\ C \in Seq(Lines)
      /\ (q.state \notin {"AFTER_COLON", "VALUE"} => Idle(q) /\ q.field = "none")
  BY IdleGood DEF Good, Structs, Idle
<1>2. S \in Seq(Reports) /\ S \o <<>> = S
  <2>1. SaidFor(B) \in Seq(Reports) /\ SoFar(B, q.field, ValueSoFar(q, L)) \in Seq(Reports)
    BY SoFarIs, SaidIs
  <2>2. S \in Seq(Reports)
    BY <2>1 DEF OnLine
  <2> QED BY <2>2
<1>3. ASSUME FieldOf(L) = "other"
      PROVE  OnLine(r, C, <<>>, S \o r.out) /\ OnLine(r, B, <<>>, S \o r.out)
  <2>1. q.field = "none" /\ q.state \in {"FIELD_NAME", "SKIP_LINE"} /\ (q.state = "FIELD_NAME" => q.name = "other")
    BY <1>1, <1>3, OnLineOther
  <2>2. Reading(q, B, "none", <<>>) /\ S = SaidFor(B)
    BY <2>1, OnLineIdle
  <2>3. Reading(q, C, "none", <<>>) /\ SaidFor(C) = S
    <3>1. Reading(q, C, "none", <<>>) /\ LineSaid(B, L) = <<>>
      BY <2>2, <1>3, OtherLineReads
    <3>2. SaidFor(C) = SaidFor(B) \o LineSaid(B, L)
      BY SaidAppend
    <3> QED BY <3>1, <3>2, <2>2, <1>2
  <2> DEFINE x == [q EXCEPT !.field = "none", !.state = "SKIP_LINE"]
             y == IF q.state = "FIELD_NAME" THEN x ELSE q
             z == [y EXCEPT !.state = "LINE_START"]
  <2>4. x.state = "SKIP_LINE" /\ x \in Structs /\ Alike(q, x) /\ x.out = <<>> /\ x.field = "none"
    BY <1>1 DEF Structs, Alike, Modes, Fields
  <2>5. r = z
    <3>1. CASE q.state = "FIELD_NAME"
      <4>1. ResolveFieldName(q) = x
        BY <3>1, <2>1 DEF ResolveFieldName
      <4>2. x.state # "AFTER_COLON"
        BY <2>4
      <4> HIDE DEF x
      <4> QED BY <4>1, <4>2, <3>1 DEF LineEnd
    <3>2. CASE q.state = "SKIP_LINE"
      BY <3>2 DEF LineEnd
    <3> QED BY <3>1, <3>2, <2>1
  <2> HIDE DEF x
  <2>6. y \in Structs /\ Alike(q, y) /\ y.out = <<>> /\ y.field = "none"
    BY <2>1, <2>4, <1>1, AlikeSelf
  <2> HIDE DEF y
  <2>7. Alike(q, z) /\ z.out = <<>> /\ z.state = "LINE_START" /\ z.field = "none"
    BY <2>6 DEF Structs, Alike
  <2> HIDE DEF z
  <2>8. Reading(z, B, "none", <<>>) /\ Reading(z, C, "none", <<>>) /\ Reads(z, <<>>)
    BY <2>2, <2>3, <2>7, AlikeReads DEF Reads
  <2>9. OnLine(z, B, <<>>, S) /\ OnLine(z, C, <<>>, S)
    BY <2>2, <2>3, <2>7, <2>8, <1>1, OnLineIdle
  <2> QED BY <2>5, <2>7, <2>9, <1>2
<1>4. ASSUME FieldOf(L) # "other"
      PROVE  OnLine(r, C, <<>>, S \o r.out)
  <2>1. q.state \in {"FIELD_NAME", "AFTER_COLON", "VALUE"}
    BY <1>1, <1>4 DEF OnLine, Reads, Lines, Modes
  <2>2. CASE q.state = "FIELD_NAME"
    <3> DEFINE t == ResolveFieldName(q)
    <3>1. q.name # "other" /\ L = <<q.name>>
      BY <2>2, <1>4 DEF OnLine, Reads
    <3>2. Reading(q, B, "none", <<>>) /\ S = SaidFor(B)
      BY <1>1, <2>2, OnLineIdle
    <3>3. /\ Good(t) /\ t.state = "AFTER_COLON" /\ t.field = q.name /\ q.name \in Known
          /\ t.out = <<>> /\ Reading(t, B, q.name, <<>>) /\ SoFar(B, q.name, <<>>) = <<>>
      BY <3>1, <3>2, <1>1, <2>2, ResolveReads
    <3>4. r = [CommitValue(t) EXCEPT !.state = "LINE_START"]
      BY <3>3, <2>2 DEF LineEnd
    <3> HIDE DEF t
    <3>5. FieldOf(L) = q.name /\ ValueOf(L) = <<>>
      <4>1. Len(L) = 1 /\ L[1] = q.name
        BY <3>1
      <4>2. "LF" \in Bytes
        BY DEF Bytes, Special
      <4>3. ValueOf(L) = <<>>
        BY <4>1, <4>2, ValueGrows
      <4>4. FieldOf(L) = q.name
        BY <4>1, <1>1 DEF FieldOf, Structs
      <4> QED BY <4>3, <4>4
    <3>6. S = SaidFor(B) \o SoFar(B, q.name, <<>>)
      <4>1. SaidFor(B) \in Seq(Reports)
        BY SaidIs
      <4> QED BY <4>1, <3>2, <3>3
    <3>7. t.field \in Known /\ FieldOf(L) = t.field
      BY <3>3, <3>5
    <3>8. /\ Reading(t, B, t.field, ValueOf(L)) /\ Good(t) /\ t.out = <<>>
          /\ S = SaidFor(B) \o SoFar(B, t.field, ValueOf(L))
      BY <3>3, <3>5, <3>6
    <3> DEFINE u == [CommitValue(t) EXCEPT !.state = "LINE_START"]
    <3>9. OnLine(u, Append(B, L), <<>>, S \o u.out)
      BY <3>7, <3>8, CommitOnLine
    <3> QED BY <3>4, <3>9
  <2>3. CASE q.state \in {"AFTER_COLON", "VALUE"}
    <3>1. /\ q.field \in Known /\ L[1] = q.field /\ Len(L) >= 2 /\ L[2] = "COLON"
      <4>1. CASE q.state = "AFTER_COLON"
        <5>1. q.field \in Known /\ L = <<q.field, "COLON">>
          BY <4>1 DEF OnLine, Reads
        <5> QED BY <5>1
      <4>2. CASE q.state = "VALUE"
        <5>1. q.field \in Known /\ Len(L) >= 3 /\ L[1] = q.field /\ L[2] = "COLON"
          BY <4>2 DEF OnLine, Reads
        <5> QED BY <5>1 DEF Lines
      <4> QED BY <4>1, <4>2, <2>3
    <3>2. FieldOf(L) = q.field
      BY <3>1 DEF FieldOf, Names, Known
    <3>3. r = [CommitValue(q) EXCEPT !.state = "LINE_START"]
      BY <2>3 DEF LineEnd
    <3>4. Reading(q, B, q.field, ValueOf(L)) /\ S = SaidFor(B) \o SoFar(B, q.field, ValueOf(L))
      BY <3>1 DEF OnLine, ValueSoFar, Known
    <3> DEFINE u == [CommitValue(q) EXCEPT !.state = "LINE_START"]
    <3>5. OnLine(u, Append(B, L), <<>>, S \o u.out)
      BY <3>1, <3>2, <3>4, CommitOnLine
    <3> QED BY <3>3, <3>5
  <2> QED BY <2>1, <2>2, <2>3
<1> QED BY <1>3, <1>4

\* line_end(): a blank line.
LEMMA BlankLineEnds ==
    ASSUME NEW q, Good(q), q.out = <<>>, NEW B \in Seq(Lines), NEW S,
           OnLine(q, B, <<>>, S), q.state = "LINE_START"
    PROVE  LET r == LineEnd(q) IN
           /\ S \o r.out = RefCallbacks(B)
           /\ OnLine(r, <<>>, <<>>, <<>>)
<1> DEFINE d == DispatchBlock(q)
           r == [d EXCEPT !.state = "LINE_START"]
<1>1. Idle(q) /\ q.field = "none"
  BY IdleGood DEF Idle
<1>2. Reading(q, B, "none", <<>>) /\ S = SaidFor(B)
  BY <1>1, OnLineIdle
<1>3. /\ d.out = IdCallback(B) \o EventCallback(B) /\ d.field = "none"
      /\ Reading(d, <<>>, "none", <<>>)
  BY <1>1, <1>2, DispatchReads
<1>4. d \in Structs
  BY <1>1, DispatchIdle DEF Idle
<1>5. LineEnd(q) = r
  BY DEF LineEnd
<1> HIDE DEF d
<1>6. Alike(d, r) /\ r.out = d.out /\ r.state = "LINE_START" /\ r.field = "none"
  BY <1>3, <1>4 DEF Structs, Alike
<1> HIDE DEF r
<1>7. OnLine(r, <<>>, <<>>, <<>>)
  <2>1. Reading(r, <<>>, "none", <<>>) /\ Reads(r, <<>>)
    BY <1>3, <1>6, AlikeReads DEF Reads
  <2>2. <<>> \in Seq(Lines)
    OBVIOUS
  <2> QED BY <2>1, <2>2, <1>6, OnLineIdle, EmptyBlock
<1>8. RefCallbacks(B) = (SaidFor(B) \o IdCallback(B)) \o EventCallback(B)
  BY DEF RefCallbacks, SaidFor
<1>9. SaidFor(B) \in Seq(Reports) /\ IdCallback(B) \in Seq(Reports) /\ EventCallback(B) \in Seq(Reports)
  BY SaidIs, EndCallbacksAre
<1>10. S \o r.out = RefCallbacks(B)
  <2> DEFINE x == SaidFor(B)
             y == IdCallback(B)
             z == EventCallback(B)
  <2>1. x \in Seq(Reports) /\ y \in Seq(Reports) /\ z \in Seq(Reports)
    BY <1>9
  <2>2. r.out = y \o z /\ S = x /\ RefCallbacks(B) = (x \o y) \o z
    BY <1>2, <1>3, <1>6, <1>8
  <2> HIDE DEF x, y, z
  <2>3. (x \o y) \o z = x \o (y \o z)
    BY <2>1, ConcatAssociative
  <2> QED BY <2>2, <2>3
<1> QED BY <1>5, <1>7, <1>10

----------------------------------------------------------------------------
(* The steps of the parser, with the record of lines beside it. *)

\* A line that is recorded as just "other" is one that means nothing.
LEMMA IgnoredIs ==
    ASSUME NEW l \in Seq(Bytes), Ignored(l)
    PROVE  l \in Lines /\ FieldOf(l) = "other"
<1>1. l \in Lines /\ Len(l) \in Nat /\ Len(l) # 0
  BY DEF Ignored, Lines
<1>2. CASE l[1] \notin Names \ {"other"}
  BY <1>1, <1>2 DEF FieldOf
<1>3. CASE Len(l) > 1 /\ l[2] # "COLON"
  <2>1. Len(l) # 1
    BY <1>3, <1>1
  <2> QED BY <2>1, <1>1, <1>3 DEF FieldOf
<1> QED BY <1>1, <1>2, <1>3 DEF Ignored

\* The line l without the byte order mark that may come before the first one.
Bare(f, l) == IF f /\ Len(l) >= 3 /\ SubSeq(l, 1, 3) = Bom THEN SubSeq(l, 4, Len(l)) ELSE l

\* What a line may be while its bytes may still be the byte order mark.
Marks == {<<>>, <<"EF">>, <<"EF", "BB">>}

\* A line that is too short to have had its byte order mark removed.
LEMMA ShortIsBare ==
    ASSUME NEW f, NEW l \in Seq(Bytes), Len(l) < 3
    PROVE  Bare(f, l) = l
<1>1. Len(l) \in Nat /\ ~ (Len(l) >= 3)
  OBVIOUS
<1> QED BY <1>1 DEF Bare

\* Once a line is past the byte order mark, another byte is just one more.
LEMMA BareGrows ==
    ASSUME NEW f, NEW l \in Seq(Bytes), NEW b \in Bytes, f => l \notin Marks
    PROVE  /\ Bare(f, Append(l, b)) = Append(Bare(f, l), b)
           /\ f => Append(l, b) \notin Marks
           /\ Bare(f, l) \in Seq(Bytes)
<1> DEFINE M == Append(l, b)
           n == Len(l)
<1>1. /\ M \in Seq(Bytes) /\ Len(M) = n + 1 /\ M[n + 1] = b /\ n \in Nat
      /\ \A k \in 1 .. n : M[k] = l[k]
  OBVIOUS
<1> HIDE DEF M, n
<1>2. f => Append(l, b) \notin Marks
  <2>1. M # <<>>
    BY <1>1
  <2>2. M = <<"EF">> => ~ f
    <3>1. SUFFICES ASSUME M = <<"EF">> PROVE ~ f
      OBVIOUS
    <3>2. n = 0
      BY <3>1, <1>1
    <3>3. l = <<>>
      BY <3>2 DEF n
    <3> QED BY <3>3 DEF Marks
  <2>3. M = <<"EF", "BB">> => ~ f
    <3>1. SUFFICES ASSUME M = <<"EF", "BB">> PROVE ~ f
      OBVIOUS
    <3>2. n = 1 /\ l[1] = "EF"
      BY <3>1, <1>1
    <3>3. l = <<"EF">>
      BY <3>2 DEF n
    <3> QED BY <3>3 DEF Marks
  <2> QED BY <2>1, <2>2, <2>3 DEF Marks, M
<1>3. ASSUME n >= 3
      PROVE  SubSeq(M, 1, 3) = SubSeq(l, 1, 3) /\ SubSeq(M, 4, n + 1) = Append(SubSeq(l, 4, n), b)
  <2>1. /\ \A k \in 1 .. 3 : l[k] \in Bytes /\ M[k] = l[k]
        /\ \A k \in 4 .. n : l[k] \in Bytes
        /\ \A k \in 4 .. n + 1 : M[k] \in Bytes
    BY <1>1, <1>3 DEF n
  <2>2. /\ SubSeq(M, 1, 3) \in Seq(Bytes) /\ SubSeq(l, 1, 3) \in Seq(Bytes)
        /\ Len(SubSeq(M, 1, 3)) = 3 /\ Len(SubSeq(l, 1, 3)) = 3
        /\ \A k \in 1 .. 3 : SubSeq(M, 1, 3)[k] = M[k] /\ SubSeq(l, 1, 3)[k] = l[k]
    BY <2>1, SubSeqProperties
  <2>3. SubSeq(M, 1, 3) = SubSeq(l, 1, 3)
    BY <2>1, <2>2, SeqEqual
  <2> DEFINE v == SubSeq(l, 4, n)
             w == SubSeq(M, 4, n + 1)
             x == Append(v, b)
  <2>4. /\ v \in Seq(Bytes) /\ Len(v) = n - 3 /\ \A k \in 1 .. n - 3 : v[k] = l[k + 3]
    BY <1>1, <1>3, <2>1, SubSeqProperties
  <2>5. /\ w \in Seq(Bytes) /\ Len(w) = n - 2 /\ \A k \in 1 .. n - 2 : w[k] = M[k + 3]
    BY <1>1, <1>3, <2>1, SubSeqProperties
  <2> HIDE DEF v, w
  <2>6. /\ x \in Seq(Bytes) /\ Len(x) = n - 2 /\ x[n - 2] = b
        /\ \A k \in 1 .. n - 3 : x[k] = v[k]
    BY <1>1, <1>3, <2>4
  <2> HIDE DEF x
  <2>7. \A k \in 1 .. n - 2 : w[k] = x[k]
    <3>1. SUFFICES ASSUME NEW k \in 1 .. n - 2 PROVE w[k] = x[k]
      OBVIOUS
    <3>2. CASE k = n - 2
      <4>1. w[k] = M[n + 1]
        BY <3>2, <2>5, <1>1
      <4> QED BY <4>1, <3>2, <2>6, <1>1
    <3>3. CASE k # n - 2
      <4>1. k \in 1 .. n - 3 /\ k + 3 \in 1 .. n
        BY <3>3, <1>1
      <4> QED BY <4>1, <2>4, <2>5, <2>6, <1>1
    <3> QED BY <3>2, <3>3
  <2>8. w = x
    BY <2>5, <2>6, <2>7, SeqEqual
  <2> QED BY <2>3, <2>8 DEF v, w, x
<1>4. SubSeq(l, 4, n) \in Seq(Bytes)
  <2>1. \A k \in 4 .. n : l[k] \in Bytes
    BY <1>1 DEF n
  <2> QED BY <2>1, <1>1, SubSeqProperties
<1>5. Bare(f, l) \in Seq(Bytes)
  BY <1>4 DEF Bare, n
<1>6. ASSUME f, n = 2 PROVE SubSeq(M, 1, 3) # Bom
  <2>1. SUFFICES ASSUME SubSeq(M, 1, 3) = Bom PROVE FALSE
    OBVIOUS
  <2>2. \A k \in 1 .. 3 : M[k] \in Bytes
    BY <1>1, <1>6, SMTT(90)
  <2>3. SubSeq(M, 1, 3)[1] = M[1] /\ SubSeq(M, 1, 3)[2] = M[2]
    BY <2>2, SubSeqProperties
  <2>4. M[1] = "EF" /\ M[2] = "BB"
    <3>1. Bom[1] = "EF" /\ Bom[2] = "BB"
      BY DEF Bom
    <3> QED BY <2>1, <2>3, <3>1
  <2>5. l[1] = "EF" /\ l[2] = "BB" /\ Len(l) = 2
    BY <2>4, <1>1, <1>6 DEF n
  <2>6. <<"EF", "BB">> \in Seq(Bytes) /\ Len(<<"EF", "BB">>) = 2
    BY DEF Bytes, Special
  <2>7. l = <<"EF", "BB">>
    BY <2>5, <2>6, SeqEqual
  <2> QED BY <2>7, <1>6 DEF Marks
<1>7. Bare(f, M) = Append(Bare(f, l), b)
  <2>1. CASE f /\ n >= 3 /\ SubSeq(l, 1, 3) = Bom
    <3>1. Bare(f, l) = SubSeq(l, 4, n)
      BY <2>1 DEF Bare, n
    <3>2. Bare(f, M) = SubSeq(M, 4, n + 1)
      BY <2>1, <1>1, <1>3 DEF Bare
    <3> QED BY <3>1, <3>2, <2>1, <1>3
  <2>2. CASE ~ (f /\ n >= 3 /\ SubSeq(l, 1, 3) = Bom)
    <3>1. Bare(f, l) = l
      BY <2>2 DEF Bare, n
    <3>2. Bare(f, M) = M
      <4>1. CASE ~ f
        BY <4>1 DEF Bare
      <4>2. CASE f /\ n >= 3
        BY <4>2, <2>2, <1>3 DEF Bare
      <4>3. CASE f /\ n = 2
        BY <4>3, <1>6 DEF Bare
      <4>4. CASE n < 2
        <5>1. ~ (Len(M) >= 3)
          BY <4>4, <1>1
        <5> QED BY <5>1 DEF Bare
      <4> QED BY <4>1, <4>2, <4>3, <4>4, <1>1
    <3> QED BY <3>1, <3>2 DEF M
  <2> QED BY <2>1, <2>2
<1> QED BY <1>2, <1>5, <1>7 DEF M

\* A byte that ends no line does not touch the flag for the LF after a CR.
LEMMA LineByteStays ==
    ASSUME NEW q \in Structs, NEW b
    PROVE  LineByte(q, b).swallow_lf = q.swallow_lf
<1>1. CASE q.state = "LINE_START"
  <2>1. /\ [q EXCEPT !.state = "SKIP_LINE"].swallow_lf = q.swallow_lf
        /\ \A n : [q EXCEPT !.state = "FIELD_NAME", !.name = n].swallow_lf = q.swallow_lf
    BY DEF Structs
  <2> QED BY <2>1, <1>1 DEF LineByte
<1>2. CASE q.state = "FIELD_NAME"
  <2>1. /\ [q EXCEPT !.name = "other"].swallow_lf = q.swallow_lf
        /\ [q EXCEPT !.field = "none", !.state = "SKIP_LINE"].swallow_lf = q.swallow_lf
    BY DEF Structs
  <2>2. q.name # "other" => ResolveFieldName(q).swallow_lf = q.swallow_lf
    <3>1. SUFFICES ASSUME q.name # "other" PROVE ResolveFieldName(q).swallow_lf = q.swallow_lf
      OBVIOUS
    <3> DEFINE s == [q EXCEPT !.field = q.name]
               t == StartValue(s)
               r == [t EXCEPT !.state = "AFTER_COLON"]
    <3>2. q.name \in Fields
      BY <3>1 DEF Structs, Names, Fields
    <3>3. s \in Structs /\ s.swallow_lf = q.swallow_lf
      BY <3>2 DEF Structs
    <3>4. ResolveFieldName(q) = r
      BY <3>1 DEF ResolveFieldName
    <3> HIDE DEF s
    <3>5. t \in Structs /\ t.swallow_lf = s.swallow_lf
      BY <3>3, StartValueField DEF Stays
    <3> HIDE DEF t
    <3>6. r.swallow_lf = t.swallow_lf
      BY <3>5 DEF Structs
    <3> QED BY <3>3, <3>4, <3>5, <3>6
  <2>3. ResolveFieldName(q).swallow_lf = q.swallow_lf
    BY <2>1, <2>2 DEF ResolveFieldName
  <2>4. LineByte(q, b) = NameByte(q, b)
    BY <1>2 DEF LineByte
  <2> QED BY <2>1, <2>3, <2>4 DEF NameByte
<1>3. CASE q.state = "AFTER_COLON"
  <2> DEFINE r == [q EXCEPT !.state = "VALUE"]
  <2>1. r \in Structs /\ r.swallow_lf = q.swallow_lf
    BY DEF Structs, Modes
  <2>2. LineByte(q, b) = IF b = "SPACE" THEN r ELSE ValueByte(r, b)
    BY <1>3 DEF LineByte
  <2> HIDE DEF r
  <2>3. ValueByte(r, b).swallow_lf = r.swallow_lf
    BY <2>1, ValueByteField DEF Stays
  <2> QED BY <2>1, <2>2, <2>3
<1>4. CASE q.state = "VALUE"
  <2>1. LineByte(q, b) = ValueByte(q, b)
    BY <1>4 DEF LineByte
  <2> QED BY <2>1, ValueByteField DEF Stays
<1>5. CASE q.state \notin {"LINE_START", "FIELD_NAME", "AFTER_COLON", "VALUE"}
  BY <1>5 DEF LineByte
<1> QED BY <1>1, <1>2, <1>3, <1>4, <1>5

\* The byte order mark is made of bytes.
LEMMA BomBytes == \A k \in 1 .. 3 : Bom[k] \in Bytes
<1>1. Bom[1] = "EF" /\ Bom[2] = "BB" /\ Bom[3] = "BF"
  BY DEF Bom
<1>2. {"EF", "BB", "BF"} \subseteq Bytes
  BY DEF Bytes, Special
<1>3. ASSUME NEW k \in 1 .. 3 PROVE k = 1 \/ k = 2 \/ k = 3
  OBVIOUS
<1> QED BY <1>1, <1>2, <1>3

\* The byte order mark and its prefixes.
LEMMA BomIs ==
    /\ Bom \in Seq(Bytes) /\ Len(Bom) = 3 /\ Bom[1] = "EF" /\ Bom[2] = "BB" /\ Bom[3] = "BF"
    /\ SubSeq(Bom, 1, 0) = <<>> /\ SubSeq(Bom, 1, 1) = <<"EF">>
    /\ SubSeq(Bom, 1, 2) = <<"EF", "BB">> /\ SubSeq(Bom, 1, 3) = Bom
    /\ SubSeq(Bom, 4, 3) = <<>>
<1>1. /\ Bom \in Seq(Bytes) /\ Len(Bom) = 3 /\ Bom[1] = "EF" /\ Bom[2] = "BB" /\ Bom[3] = "BF"
  BY DEF Bom, Bytes, Special
<1>2. /\ <<"EF">> \in Seq(Bytes) /\ Len(<<"EF">>) = 1 /\ <<"EF">>[1] = "EF"
      /\ <<"EF", "BB">> \in Seq(Bytes) /\ Len(<<"EF", "BB">>) = 2
      /\ <<"EF", "BB">>[1] = "EF" /\ <<"EF", "BB">>[2] = "BB"
  BY DEF Bytes, Special
<1>3. SubSeq(Bom, 1, 0) = <<>> /\ SubSeq(Bom, 4, 3) = <<>>
  BY SubSeqEmpty
<1>4. ASSUME NEW n \in 1 .. 3
      PROVE  /\ SubSeq(Bom, 1, n) \in Seq(Bytes) /\ Len(SubSeq(Bom, 1, n)) = n
             /\ \A k \in 1 .. n : SubSeq(Bom, 1, n)[k] = Bom[k]
  <2>1. \A k \in 1 .. n : Bom[k] \in Bytes
    BY <1>1
  <2> QED BY <2>1, SubSeqProperties
<1>5. SubSeq(Bom, 1, 1) = <<"EF">>
  <2>1. SubSeq(Bom, 1, 1) \in Seq(Bytes) /\ Len(SubSeq(Bom, 1, 1)) = 1 /\ SubSeq(Bom, 1, 1)[1] = "EF"
    BY <1>1, <1>4
  <2>2. \A i \in 1 .. 1 : SubSeq(Bom, 1, 1)[i] = <<"EF">>[i]
    BY <1>2, <2>1
  <2> QED BY <1>2, <2>1, <2>2, SeqEqual
<1>6. SubSeq(Bom, 1, 2) = <<"EF", "BB">>
  <2>1. /\ SubSeq(Bom, 1, 2) \in Seq(Bytes) /\ Len(SubSeq(Bom, 1, 2)) = 2
        /\ SubSeq(Bom, 1, 2)[1] = "EF" /\ SubSeq(Bom, 1, 2)[2] = "BB"
    BY <1>1, <1>4
  <2>2. \A i \in 1 .. 2 : SubSeq(Bom, 1, 2)[i] = <<"EF", "BB">>[i]
    BY <1>2, <2>1
  <2> QED BY <1>2, <2>1, <2>2, SeqEqual
<1>7. SubSeq(Bom, 1, 3) = Bom
  BY <1>1, <1>4, SeqEqual
<1> QED BY <1>1, <1>3, <1>5, <1>6, <1>7

\* The first bytes of a stream look like the byte order mark, and the next one
\* does too, or does not.
LEMMA MarkGrows ==
    ASSUME NEW f \in BOOLEAN, NEW n \in 0 .. 2, NEW b \in Bytes
    PROVE  LET l == SubSeq(Bom, 1, n) IN
           /\ l \in Seq(Bytes) /\ Bare(f, l) = l /\ (n = 0 <=> l = <<>>)
           /\ n > 0 => FieldOf(l) = "other"
           /\ b = Bom[n + 1] => IF n = 2 THEN Append(l, b) = Bom
                               ELSE Append(l, b) = SubSeq(Bom, 1, n + 1)
           /\ b # Bom[n + 1] => /\ Append(l, b) \notin Marks
                               /\ Bare(f, Append(l, b)) = Append(l, b)
<1> DEFINE l == SubSeq(Bom, 1, n)
           M == Append(l, b)
<1>1. /\ l \in Seq(Bytes) /\ Len(l) = n
      /\ (n > 0 => l[1] = "EF") /\ (n = 2 => l[2] = "BB")
  <2>1. CASE n = 0
    BY <2>1, BomIs
  <2>2. CASE n = 1
    <3>1. l = <<"EF">> /\ "EF" \in Bytes
      BY <2>2, BomIs DEF Bytes, Special
    <3> HIDE DEF l
    <3> QED BY <3>1, <2>2
  <2>3. CASE n = 2
    <3>1. l = <<"EF", "BB">> /\ "EF" \in Bytes /\ "BB" \in Bytes
      BY <2>3, BomIs DEF Bytes, Special
    <3> HIDE DEF l
    <3> QED BY <3>1, <2>3
  <2> QED BY <2>1, <2>2, <2>3
<1> HIDE DEF l
<1>2. /\ M \in Seq(Bytes) /\ Len(M) = n + 1 /\ M[n + 1] = b
      /\ \A k \in 1 .. n : M[k] = l[k]
  BY <1>1
<1> HIDE DEF M
<1>3. Bare(f, l) = l /\ (n = 0 <=> l = <<>>)
  BY <1>1, ShortIsBare
<1>4. n > 0 => FieldOf(l) = "other"
  BY <1>1 DEF FieldOf, Names
<1>5. ASSUME b = Bom[n + 1]
      PROVE  IF n = 2 THEN M = Bom ELSE M = SubSeq(Bom, 1, n + 1)
  <2>1. M[n + 1] = Bom[n + 1]
    BY <1>2, <1>5
  <2>2. CASE n = 0
    <3>1. M \in Seq(Bytes) /\ Len(M) = 1 /\ M[1] = "EF"
      BY <2>1, <2>2, <1>2, BomIs
    <3>2. M = <<"EF">>
      BY <3>1
    <3> QED BY <3>2, <2>2, BomIs
  <2>3. CASE n = 1
    <3>1. M \in Seq(Bytes) /\ Len(M) = 2 /\ M[1] = "EF" /\ M[2] = "BB"
      BY <2>1, <2>3, <1>1, <1>2, BomIs
    <3>2. M = <<"EF", "BB">>
      BY <3>1
    <3> QED BY <3>2, <2>3, BomIs
  <2>4. CASE n = 2
    <3>1. M \in Seq(Bytes) /\ Len(M) = 3 /\ M[1] = "EF" /\ M[2] = "BB" /\ M[3] = Bom[3]
      BY <2>1, <2>4, <1>1, <1>2
    <3>2. \A k \in 1 .. 3 : M[k] = Bom[k]
      BY <3>1, BomIs
    <3>3. M = Bom
      BY <3>1, <3>2, BomIs, SeqEqual
    <3> QED BY <3>3, <2>4
  <2> QED BY <2>2, <2>3, <2>4
<1>6. ASSUME b # Bom[n + 1]
      PROVE  M \notin Marks /\ Bare(f, M) = M
  <2>1. CASE n = 0
    <3>1. Len(M) = 1 /\ M[1] # "EF"
      BY <2>1, <1>2, <1>6, BomIs
    <3>2. M \notin Marks
      BY <3>1 DEF Marks
    <3>3. M \in Seq(Bytes) /\ Len(M) < 3
      BY <3>1, <1>2
    <3>4. Bare(f, M) = M
      BY <3>3, ShortIsBare
    <3> QED BY <3>2, <3>4
  <2>2. CASE n = 1
    <3>1. Len(M) = 2 /\ M[2] # "BB"
      BY <2>2, <1>2, <1>6, BomIs
    <3>2. M \notin Marks
      BY <3>1 DEF Marks
    <3>3. M \in Seq(Bytes) /\ Len(M) < 3
      BY <3>1, <1>2
    <3>4. Bare(f, M) = M
      BY <3>3, ShortIsBare
    <3> QED BY <3>2, <3>4
  <2>3. CASE n = 2
    <3>1. Len(M) = 3 /\ M[3] = b /\ b # Bom[3]
      BY <2>3, <1>2, <1>6
    <3>2. M \notin Marks
      BY <3>1 DEF Marks
    <3>3. \A k \in 1 .. 3 : M[k] \in Bytes
      BY <3>1, <1>2
    <3>4. SubSeq(M, 1, 3)[3] = M[3]
      BY <3>3, SubSeqProperties
    <3>5. Bare(f, M) = M
      BY <3>1, <3>4 DEF Bare
    <3> QED BY <3>2, <3>5
  <2>4. n = 0 \/ n = 1 \/ n = 2
    OBVIOUS
  <2> QED BY <2>1, <2>2, <2>3, <2>4, Zenon
<1> QED BY <1>1, <1>3, <1>4, <1>5, <1>6 DEF l, M

\* How the parser q stands to the record beside it: f, no line has ended yet;
\* l, the line as received; B, the lines of the block; S, what was said of them.
LineRead(q, f, l, B, S) ==
    IF q.state = "BOM"
    THEN /\ f /\ l = SubSeq(Bom, 1, q.bom_n) /\ B = <<>> /\ S = <<>>
         /\ q.field = "none" /\ Reading(q, <<>>, "none", <<>>)
    ELSE /\ f => l \notin Marks
         /\ OnLine(q, B, Bare(f, l), S)

\* What was said so far is a sequence of reports.
LEMMA SaidSoFarIs ==
    ASSUME NEW q, NEW B \in Seq(Lines), NEW L, NEW S, OnLine(q, B, L, S)
    PROVE  S \in Seq(Reports) /\ S \o <<>> = S
<1>1. SaidFor(B) \in Seq(Reports) /\ SoFar(B, q.field, ValueSoFar(q, L)) \in Seq(Reports)
  BY SoFarIs, SaidIs
<1>2. S \in Seq(Reports)
  BY <1>1 DEF OnLine
<1> QED BY <1>2

\* sse_parser_reset(): nothing is read yet.
LEMMA FreshReads == LineRead(Fresh, TRUE, <<>>, <<>>, <<>>)
<1> DEFINE q == Fresh
<1>1. /\ q.state = "BOM" /\ q.bom_n = 0 /\ q.field = "none" /\ q.data = <<>>
      /\ q.data_lines = 0 /\ ~ q.block_discarded /\ q.event = <<>> /\ ~ q.has_event
      /\ q.id = <<>> /\ ~ q.has_id
  BY DEF Fresh
<1> HIDE DEF q
<1>2. LastValue(<<>>, "event") = <<>>
  BY EmptyBlock DEF LastValue
<1>3. BlockHeld(q, <<>>, "none", <<>>) /\ IdHeld(q, <<>>, "none", <<>>)
  BY <1>1, <1>2, EmptyBlock, NothingRead DEF BlockHeld, IdHeld
<1>4. Reading(q, <<>>, "none", <<>>)
  BY <1>3, NothingRead DEF Reading
<1> QED BY <1>1, <1>4, BomIs DEF LineRead, q

\* The bytes that looked like the byte order mark begin the first line after all.
LEMMA AfterBom ==
    ASSUME NEW q, Good(q), q.out = <<>>, NEW f \in BOOLEAN, NEW l \in Seq(Bytes),
           NEW B \in Seq(Lines), NEW S, LineRead(q, f, l, B, S),
           NEW b \in Bytes, ~ (q.state = "BOM" /\ b = Bom[q.bom_n + 1])
    PROVE  LET r == IF q.state = "BOM" THEN ReplayBom(q, q.bom_n) ELSE q IN
           /\ Good(r) /\ r.out = <<>> /\ r.state # "BOM" /\ r.swallow_lf = q.swallow_lf
           /\ OnLine(r, B, Bare(f, l), S)
           /\ q.state = "BOM" /\ q.bom_n = 0 => r.state = "LINE_START"
           /\ q.state # "BOM" => r.state = q.state
           /\ f => Append(l, b) \notin Marks
           /\ Bare(f, Append(l, b)) = Append(Bare(f, l), b)
           /\ Bare(f, l) \in Seq(Bytes)
<1> DEFINE r == IF q.state = "BOM" THEN ReplayBom(q, q.bom_n) ELSE q
           n == q.bom_n
<1>1. q \in Structs /\ n \in 0 .. 2
  BY DEF Good, Structs
<1>2. CASE q.state # "BOM"
  BY <1>2, BareGrows DEF LineRead
<1>3. CASE q.state = "BOM"
  <2> DEFINE s == IF n = 0 THEN "LINE_START" ELSE "FIELD_NAME"
             x == [q EXCEPT !.bom_n = 0, !.name = "other", !.state = s]
  <2>1. r = x
    BY <1>3 DEF ReplayBom
  <2>2. s \in Modes /\ s # "BOM" /\ s \in {"LINE_START", "FIELD_NAME"} /\ (n = 0 <=> s = "LINE_START")
    BY DEF Modes
  <2>3. /\ f /\ l = SubSeq(Bom, 1, n) /\ B = <<>> /\ S = <<>>
        /\ q.field = "none" /\ Reading(q, <<>>, "none", <<>>)
    BY <1>3 DEF LineRead
  <2> HIDE DEF s, n
  <2>4. /\ x \in Structs /\ Alike(q, x) /\ x.out = <<>> /\ x.field = "none"
        /\ x.state = s /\ x.name = "other" /\ x.swallow_lf = q.swallow_lf
    <3>1. 0 \in 0 .. 2 /\ "other" \in Names
      BY DEF Names
    <3> QED BY <3>1, <2>2, <2>3, <1>1 DEF Structs, Alike
  <2> HIDE DEF x
  <2>5. Good(x)
    <3>1. Idle(q)
      BY <1>3, IdleGood
    <3>2. Idle(x)
      BY <3>1, <2>4 DEF Idle, Fits, Terminated, Alike
    <3> QED BY <3>2, IdleGood
  <2>6. /\ l \in Seq(Bytes) /\ Bare(f, l) = l /\ (n = 0 <=> l = <<>>)
        /\ (n > 0 => FieldOf(l) = "other")
        /\ Append(l, b) \notin Marks /\ Bare(f, Append(l, b)) = Append(l, b)
    <3>1. b # Bom[n + 1]
      BY <1>3 DEF n
    <3> QED BY <3>1, <2>3, <1>1, MarkGrows
  <2>7. Reads(x, l)
    <3>1. CASE n = 0
      BY <3>1, <2>2, <2>4, <2>6 DEF Reads
    <3>2. CASE n # 0
      <4>1. n > 0 /\ x.state = "FIELD_NAME"
        BY <3>2, <2>2, <2>4, <1>1
      <4> QED BY <4>1, <3>2, <2>4, <2>6 DEF Reads
    <3> QED BY <3>1, <3>2
  <2>8. OnLine(x, B, l, S)
    <3>1. Reading(x, <<>>, "none", <<>>) /\ <<>> \in Seq(Lines)
      BY <2>3, <2>4, AlikeReads
    <3> QED BY <3>1, <2>3, <2>4, <2>7, OnLineIdle, EmptyBlock
  <2> QED BY <1>3, <2>1, <2>2, <2>4, <2>5, <2>6, <2>8 DEF n
<1> QED BY <1>2, <1>3

\* Fields that no line is about may change.
LEMMA LineReadAlike ==
    ASSUME NEW q, NEW r, Alike(q, r), r.state = q.state, r.field = q.field,
           r.name = q.name, r.bom_n = q.bom_n,
           NEW f, NEW l, NEW B, NEW S, LineRead(q, f, l, B, S)
    PROVE  LineRead(r, f, l, B, S)
<1>1. CASE q.state = "BOM"
  <2>1. Reading(r, <<>>, "none", <<>>)
    BY <1>1, AlikeReads DEF LineRead
  <2> QED BY <1>1, <2>1 DEF LineRead
<1>2. CASE q.state # "BOM"
  <2>1. OnLine(q, B, Bare(f, l), S) /\ (f => l \notin Marks)
    BY <1>2 DEF LineRead
  <2>2. OnLine(r, B, Bare(f, l), S)
    BY <2>1, OnLineAlike
  <2> QED BY <1>2, <2>1, <2>2 DEF LineRead
<1> QED BY <1>1, <1>2

\* process_byte(): forgetting that a CR came is all that an LF after it does.
LEMMA SwallowReads ==
    ASSUME NEW q0, Good(q0), q0.out = <<>>, NEW f, NEW l,
           NEW B \in Seq(Lines), NEW S, LineRead(q0, f, l, B, S)
    PROVE  LET q == [q0 EXCEPT !.swallow_lf = FALSE] IN
           /\ Good(q) /\ q.out = <<>> /\ ~ q.swallow_lf /\ q.state = q0.state
           /\ q.bom_n = q0.bom_n /\ LineRead(q, f, l, B, S) /\ S \o <<>> = S
<1> DEFINE q == [q0 EXCEPT !.swallow_lf = FALSE]
<1>1. q0 \in Structs
  BY DEF Good
<1>2. /\ q \in Structs /\ q.data = q0.data /\ q.event = q0.event /\ q.id = q0.id
      /\ q.data_lines = q0.data_lines /\ q.block_discarded = q0.block_discarded
      /\ q.field = q0.field /\ q.state = q0.state /\ q.name = q0.name
      /\ q.bom_n = q0.bom_n /\ q.out = q0.out /\ ~ q.swallow_lf /\ Alike(q0, q)
  BY <1>1 DEF Structs, Alike
<1> HIDE DEF q
<1>3. Good(q)
  BY <1>2, Untouched
<1>4. LineRead(q, f, l, B, S)
  BY <1>2, LineReadAlike
<1>5. S \o <<>> = S
  <2>1. CASE q0.state = "BOM"
    <3>1. S = <<>>
      BY <2>1 DEF LineRead
    <3>2. <<>> \o <<>> = <<>>
      OBVIOUS
    <3> QED BY <3>1, <3>2
  <2>2. CASE q0.state # "BOM"
    BY <2>2, SaidSoFarIs DEF LineRead
  <2> QED BY <2>1, <2>2
<1> QED BY <1>2, <1>3, <1>4, <1>5 DEF q

\* process_byte(): a byte that ends no line.
LEMMA ByteReads ==
    ASSUME NEW q0, Good(q0), q0.out = <<>>, NEW f \in BOOLEAN, NEW l \in Seq(Bytes),
           NEW B \in Seq(Lines), NEW S, LineRead(q0, f, l, B, S),
           NEW b \in Bytes, b \notin {"CR", "LF"},
           b \in Names => q0.state = "LINE_START" \/ (q0.state = "BOM" /\ q0.bom_n = 0)
    PROVE  LET r == ProcessByte(q0, b)
               M == Append(l, b)
           IN  /\ ~ r.swallow_lf /\ LineRead(r, f, M, B, S \o r.out)
               /\ /\ Bare(f, M) \in Lines /\ FieldOf(Bare(f, M)) = "other"
                  /\ ~ (f /\ IsPrefix(Bare(f, M), Bom))
                  => LineRead(r, f, <<"other">>, B, S \o r.out)
<1> DEFINE q == [q0 EXCEPT !.swallow_lf = FALSE]
           r == ProcessByte(q0, b)
           M == Append(l, b)
           n == q.bom_n
<1>1. /\ Good(q) /\ q.out = <<>> /\ ~ q.swallow_lf /\ q.state = q0.state
      /\ q.bom_n = q0.bom_n /\ LineRead(q, f, l, B, S) /\ S \o <<>> = S
  BY SwallowReads
<1>2. r = IF q.state = "BOM" /\ b = Bom[q.bom_n + 1]
          THEN IF q.bom_n = 2 THEN [q EXCEPT !.bom_n = 0, !.state = "LINE_START"]
               ELSE [q EXCEPT !.bom_n = q.bom_n + 1]
          ELSE LineByte(IF q.state = "BOM" THEN ReplayBom(q, q.bom_n) ELSE q, b)
  BY DEF ProcessByte
<1>3. q \in Structs /\ n \in 0 .. 2
  BY <1>1 DEF Good, Structs
<1> HIDE DEF q, r, M
<1>4. CASE q.state = "BOM" /\ b = Bom[n + 1]
  <2>1. /\ f /\ l = SubSeq(Bom, 1, n) /\ B = <<>> /\ S = <<>>
        /\ q.field = "none" /\ Reading(q, <<>>, "none", <<>>)
    BY <1>1, <1>4 DEF LineRead
  <2>2. n = 2 => M = Bom
    BY <2>1, <1>3, <1>4, MarkGrows DEF M
  <2>3. n # 2 => M = SubSeq(Bom, 1, n + 1)
    BY <2>1, <1>3, <1>4, MarkGrows DEF M
  <2>4. CASE n = 2
    <3> DEFINE x == [q EXCEPT !.bom_n = 0, !.state = "LINE_START"]
    <3>1. r = x
      BY <1>2, <1>4, <2>4
    <3>2. /\ Alike(q, x) /\ x.out = <<>> /\ x.field = "none" /\ x.state = "LINE_START"
          /\ ~ x.swallow_lf
      BY <1>1, <1>3, <2>1 DEF Structs, Alike
    <3> HIDE DEF x
    <3>3. Bare(f, Bom) = <<>> /\ Bom \notin Marks
      <4>1. Bare(f, Bom) = <<>>
        BY <2>1, BomIs DEF Bare
      <4>3. Bom # <<>> /\ Bom # <<"EF">> /\ Bom # <<"EF", "BB">>
        BY DEF Bom
      <4> QED BY <4>1, <4>3 DEF Marks
    <3>4. Reading(x, <<>>, "none", <<>>) /\ Reads(x, <<>>) /\ <<>> \in Seq(Lines)
      BY <2>1, <3>2, AlikeReads DEF Reads
    <3>5. OnLine(x, <<>>, <<>>, <<>>)
      BY <3>2, <3>4, OnLineIdle, EmptyBlock
    <3>6. LineRead(x, f, Bom, B, S)
      BY <2>1, <3>2, <3>3, <3>5 DEF LineRead
    <3>7. <<>> \notin Lines
      BY DEF Lines
    <3> QED BY <1>1, <2>2, <2>4, <3>1, <3>2, <3>3, <3>6, <3>7 DEF r, M
  <2>5. CASE n # 2
    <3> DEFINE x == [q EXCEPT !.bom_n = q.bom_n + 1]
    <3>1. r = x
      BY <1>2, <1>4, <2>5
    <3>2. /\ Alike(q, x) /\ x.out = <<>> /\ x.field = "none" /\ x.state = "BOM"
          /\ ~ x.swallow_lf /\ x.bom_n = n + 1
      BY <1>1, <1>3, <1>4, <2>1 DEF Structs, Alike
    <3> HIDE DEF x
    <3>3. Reading(x, <<>>, "none", <<>>)
      BY <2>1, <3>2, AlikeReads
    <3>4. LineRead(x, f, M, B, S)
      BY <2>1, <2>3, <2>5, <3>2, <3>3 DEF LineRead
    <3>5. IsPrefix(Bare(f, M), Bom)
      <4>1. M \in Seq(Bytes) /\ Len(M) = n + 1 /\ n + 1 < 3
        <5>1. SubSeq(Bom, 1, n) \in Seq(Bytes) /\ Len(SubSeq(Bom, 1, n)) = n
          <6>0. n \in 0 .. 2
            BY <1>3
          <6> HIDE DEF n
          <6>1. \A k \in 1 .. n : Bom[k] \in Bytes
            BY <6>0, BomBytes
          <6>2. SubSeq(Bom, 1, n) \in Seq(Bytes) /\ Len(SubSeq(Bom, 1, n)) = IF 1 <= n THEN n - 1 + 1 ELSE 0
            BY <6>0, <6>1, SubSeqProperties
          <6> QED BY <6>0, <6>2
        <5> QED BY <5>1, <2>1, <2>5, <1>3 DEF M
      <4>2. Bare(f, M) = M
        BY <4>1, ShortIsBare
      <4>3. SubSeq(M, 1, Len(M)) = M /\ Len(M) <= 3
        BY <4>1, SubSeqFull
      <4> QED BY <2>3, <2>5, <4>1, <4>2, <4>3, BomIs DEF IsPrefix
    <3> QED BY <1>1, <2>1, <3>1, <3>2, <3>4, <3>5 DEF r, M
  <2> QED BY <2>4, <2>5
<1>5. CASE ~ (q.state = "BOM" /\ b = Bom[n + 1])
  <2> DEFINE y == IF q.state = "BOM" THEN ReplayBom(q, q.bom_n) ELSE q
             L == Bare(f, l)
  <2>0. /\ Good(y) /\ y.out = <<>> /\ y.state # "BOM" /\ y.swallow_lf = q.swallow_lf
        /\ OnLine(y, B, L, S) /\ L \in Seq(Bytes)
    BY <1>1, <1>5, AfterBom
  <2>1. /\ (q.state = "BOM" /\ q.bom_n = 0 => y.state = "LINE_START")
        /\ (q.state # "BOM" => y.state = q.state)
    BY <1>1, <1>5, AfterBom
  <2>8. /\ (f => Append(l, b) \notin Marks)
        /\ Bare(f, Append(l, b)) = Append(L, b)
    BY <1>1, <1>5, AfterBom
  <2>2. r = LineByte(y, b)
    BY <1>2, <1>5
  <2> HIDE DEF y
  <2>3. b \in Names => y.state = "LINE_START"
    BY <1>1, <2>1
  <2>4. r.state # "BOM" /\ OnLine(r, B, Append(L, b), S \o r.out)
    BY <2>0, <2>2, <2>3, LineByteOnLine
  <2>5. y \in Structs /\ r.swallow_lf = y.swallow_lf
    BY <2>0, <2>2, LineByteStays DEF Good
  <2>6. LineRead(r, f, M, B, S \o r.out)
    BY <2>8, <2>4 DEF LineRead, M
  <2>7. ASSUME Bare(f, M) \in Lines, FieldOf(Bare(f, M)) = "other"
        PROVE  LineRead(r, f, <<"other">>, B, S \o r.out)
    <3>1. r \in Structs
      BY <2>0, <2>2, LineByteGood DEF Good
    <3>2. OnLine(r, B, <<"other">>, S \o r.out)
      BY <2>8, <2>4, <2>7, <3>1, OnLineOther DEF M
    <3>3. <<"other">> \in Seq(Bytes) /\ Len(<<"other">>) = 1 /\ <<"other">> \notin Marks
      BY DEF Bytes, Names, Marks
    <3>4. Bare(f, <<"other">>) = <<"other">>
      <4>1. Len(<<"other">>) < 3
        BY <3>3
      <4> QED BY <3>3, <4>1, ShortIsBare
    <3> QED BY <2>4, <3>2, <3>3, <3>4 DEF LineRead
  <2> QED BY <1>1, <2>0, <2>5, <2>6, <2>7 DEF r, M
<1> QED BY <1>4, <1>5

\* What the parser r has made of the line L that ended the block B or is its next.
LineEnded(r, L, B, S) ==
    IF L = <<>>
    THEN S \o r.out = RefCallbacks(B) /\ LineRead(r, FALSE, <<>>, <<>>, <<>>)
    ELSE /\ LineRead(r, FALSE, <<>>, Append(B, L), S \o r.out)
         /\ FieldOf(L) = "other" => LineRead(r, FALSE, <<>>, B, S \o r.out)

\* process_byte(): the end of a line.
LEMMA EndReads ==
    ASSUME NEW q0, Good(q0), q0.out = <<>>, NEW f \in BOOLEAN, NEW l \in Seq(Bytes),
           NEW B \in Seq(Lines), NEW S, LineRead(q0, f, l, B, S),
           NEW b \in {"CR", "LF"}, ~ (q0.swallow_lf /\ b = "LF")
    PROVE  /\ ProcessByte(q0, b).swallow_lf = (b = "CR")
           /\ Bare(f, l) \in Seq(Bytes)
           /\ LineEnded(ProcessByte(q0, b), Bare(f, l), B, S)
<1> DEFINE q == [q0 EXCEPT !.swallow_lf = FALSE]
           r == ProcessByte(q0, b)
           L == Bare(f, l)
           y == IF q.state = "BOM" THEN ReplayBom(q, q.bom_n) ELSE q
           e == LineEnd(y)
<1>1. /\ Good(q) /\ q.out = <<>> /\ LineRead(q, f, l, B, S)
  BY SwallowReads
<1>2. q.bom_n \in 0 .. 2
  BY <1>1 DEF Good, Structs
<1>3. b \in Bytes /\ b # "EF" /\ b # "BB" /\ b # "BF"
  BY DEF Bytes, Special
<1>4. ~ (q.state = "BOM" /\ b = Bom[q.bom_n + 1])
  <2>1. q.bom_n = 0 \/ q.bom_n = 1 \/ q.bom_n = 2
    BY <1>2
  <2>2. b # Bom[q.bom_n + 1]
    BY <2>1, <1>3, BomIs
  <2> QED BY <2>2
<1>5. r = [e EXCEPT !.swallow_lf = (b = "CR")]
  BY <1>4 DEF ProcessByte, EndsLine
<1>6. /\ Good(y) /\ y.out = <<>> /\ y.state # "BOM" /\ OnLine(y, B, L, S) /\ L \in Seq(Bytes)
  BY <1>1, <1>3, <1>4, AfterBom
<1> HIDE DEF q, y, r
<1>7. Idle(e) /\ e.state = "LINE_START"
  <2>1. Idle(e)
    BY <1>6, LineEndIdle
  <2> QED BY <2>1 DEF LineEnd, Idle
<1> HIDE DEF e, L
<1>8. /\ Alike(e, r) /\ r.state = e.state /\ r.field = e.field /\ r.name = e.name
      /\ r.out = e.out /\ r.swallow_lf = (b = "CR")
  BY <1>5, <1>7 DEF Idle, Structs, Alike
<1>9. ASSUME NEW C, NEW T, OnLine(e, C, <<>>, T)
      PROVE  LineRead(r, FALSE, <<>>, C, T)
  <2>1. OnLine(r, C, <<>>, T)
    BY <1>8, <1>9, OnLineAlike
  <2>2. Bare(FALSE, <<>>) = <<>> /\ r.state # "BOM"
    BY <1>7, <1>8 DEF Bare
  <2> QED BY <2>1, <2>2 DEF LineRead
<1>10. ASSUME L = <<>>
       PROVE  S \o r.out = RefCallbacks(B) /\ LineRead(r, FALSE, <<>>, <<>>, <<>>)
  <2>1. Len(<<>>) = 0 /\ \A x : <<x, "COLON">> # <<>>
    OBVIOUS
  <2>2. ~ (Len(L) >= 3)
    BY <2>1, <1>10
  <2>3. y.state \in Modes
    BY <1>6 DEF Good, Structs
  <2>4. y.state = "LINE_START"
    BY <2>1, <2>2, <2>3, <1>6, <1>10 DEF OnLine, Reads, Modes
  <2>5. S \o e.out = RefCallbacks(B) /\ OnLine(e, <<>>, <<>>, <<>>)
    BY <2>4, <1>6, <1>10, BlankLineEnds DEF e
  <2> QED BY <2>5, <1>8, <1>9
<1>11. ASSUME L # <<>>
       PROVE  /\ LineRead(r, FALSE, <<>>, Append(B, L), S \o r.out)
              /\ FieldOf(L) = "other" => LineRead(r, FALSE, <<>>, B, S \o r.out)
  <2>1. L \in Lines
    BY <1>6, <1>11 DEF Lines
  <2>2. /\ OnLine(e, Append(B, L), <<>>, S \o e.out)
        /\ FieldOf(L) = "other" => OnLine(e, B, <<>>, S \o e.out)
    BY <2>1, <1>6, LineEndOnLine DEF e
  <2> QED BY <2>2, <1>8, <1>9
<1>12. LineEnded(r, L, B, S)
  BY <1>10, <1>11 DEF LineEnded
<1> QED BY <1>6, <1>8, <1>12 DEF r, L

\* A block of no lines is answered by no callbacks.
LEMMA NoBlockMatches == RefCallbacks(<<>>) = <<>>
<1>1. <<>> \in Seq(Lines)
  OBVIOUS
<1>2. RefCallbacks(<<>>) = (SaidFor(<<>>) \o IdCallback(<<>>)) \o EventCallback(<<>>)
  BY DEF RefCallbacks, SaidFor
<1>3. SaidFor(<<>>) = <<>> /\ IdCallback(<<>>) = <<>> /\ EventCallback(<<>>) = <<>>
  BY EmptyBlock DEF IdCallback, EventCallback
<1>4. <<>> \o <<>> = <<>>
  OBVIOUS
<1> QED BY <1>2, <1>3, <1>4

----------------------------------------------------------------------------
(* The parser and the record as one process. *)

\* Between any two bytes the parser's struct is what the lines recorded so far,
\* and the part of a line after them, make of it.
RInv ==
    /\ Good(p) /\ p.swallow_lf = after_cr
    /\ input \in Inputs /\ first \in BOOLEAN
    /\ line \in Seq(Bytes) /\ block \in Seq(Lines) /\ done.lines \in Seq(Lines)
    /\ LineRead(p, first, line, block, said)
    /\ BlockMatchesReference

\* A byte keeps it: the LF after a CR, a byte of a line, the end of a line.
LEMMA FeedKeeps ==
    ASSUME RInv, NEW b \in Bytes, RFeed(b), UNCHANGED input
    PROVE  RInv'
<1> DEFINE q == [p EXCEPT !.out = <<>>]
<1>1. <<>> \in Seq(Reports) /\ p \in Structs
  BY DEF RInv, Good
<1>2. /\ q \in Structs /\ q.data = p.data /\ q.event = p.event /\ q.id = p.id
      /\ q.data_lines = p.data_lines /\ q.block_discarded = p.block_discarded
      /\ q.field = p.field /\ q.state = p.state /\ q.name = p.name /\ q.bom_n = p.bom_n
      /\ q.swallow_lf = p.swallow_lf /\ q.out = <<>> /\ Alike(p, q)
  BY <1>1 DEF Structs, Alike
<1>3. p' = ProcessByte(q, b) /\ Record(b)
  BY DEF RFeed, Feed
<1>4. b \in Names => q.state = "LINE_START" \/ (q.state = "BOM" /\ q.bom_n = 0)
  BY <1>2 DEF RFeed, Feed, CanCome
<1> HIDE DEF q
<1>5. Good(q) /\ LineRead(q, first, line, block, said) /\ q.swallow_lf = after_cr
  BY <1>2, Untouched, LineReadAlike DEF RInv
<1>6. Good(p')
  BY <1>3, <1>5, ProcessByteGood
<1>7. NoBlock.said = RefCallbacks(NoBlock.lines) /\ NoBlock.lines \in Seq(Lines)
  <2>1. NoBlock.said = <<>> /\ NoBlock.lines = <<>>
    BY DEF NoBlock
  <2> QED BY <2>1, NoBlockMatches
<1>8. CASE b = "LF" /\ after_cr
  <2> DEFINE r == [q EXCEPT !.swallow_lf = FALSE]
  <2>1. /\ after_cr' = (b = "CR") /\ said' = said \o p'.out /\ done' = NoBlock
        /\ line' = line /\ block' = block /\ first' = first
    BY <1>3, <1>8 DEF Record
  <2>2. p' = r
    BY <1>3, <1>5, <1>8 DEF ProcessByte
  <2>3. r.out = <<>> /\ ~ r.swallow_lf /\ LineRead(r, first, line, block, said) /\ said \o <<>> = said
    BY <1>2, <1>5, SwallowReads DEF RInv
  <2> HIDE DEF r
  <2>4. p'.swallow_lf = after_cr'
    BY <2>1, <2>2, <2>3, <1>6, <1>8 DEF Good, Structs
  <2>5. LineRead(p', first', line', block', said')
    BY <2>1, <2>2, <2>3
  <2> QED BY <1>6, <1>7, <2>1, <2>4, <2>5 DEF RInv, BlockMatchesReference
<1>9. CASE b \notin {"CR", "LF"}
  <2> DEFINE M == Append(line, b)
  <2>1. /\ after_cr' = (b = "CR") /\ said' = said \o p'.out /\ done' = NoBlock
        /\ block' = block /\ first' = first
        /\ IF Ignored(WithoutBom(M)) THEN line' = <<"other">> ELSE line' = M
    BY <1>3, <1>9 DEF Record
  <2>2. /\ ~ p'.swallow_lf /\ LineRead(p', first, M, block, said \o p'.out)
        /\ /\ Bare(first, M) \in Lines /\ FieldOf(Bare(first, M)) = "other"
           /\ ~ (first /\ IsPrefix(Bare(first, M), Bom))
           => LineRead(p', first, <<"other">>, block, said \o p'.out)
    BY <1>2, <1>3, <1>4, <1>5, <1>9, ByteReads DEF RInv
  <2>3. M \in Seq(Bytes) /\ <<"other">> \in Seq(Bytes)
    BY DEF RInv, Bytes, Names
  <2>4. Bare(first, M) \in Seq(Bytes)
    <3>1. \A k \in 4 .. Len(M) : M[k] \in Bytes
      BY <2>3
    <3>2. SubSeq(M, 4, Len(M)) \in Seq(Bytes)
      BY <2>3, <3>1, SubSeqProperties
    <3> QED BY <2>3, <3>2 DEF Bare
  <2>5. WithoutBom(M) = Bare(first, M)
    BY DEF WithoutBom, Bare
  <2> HIDE DEF M
  <2>6. Ignored(WithoutBom(M)) =>
           /\ Bare(first, M) \in Lines /\ FieldOf(Bare(first, M)) = "other"
           /\ ~ (first /\ IsPrefix(Bare(first, M), Bom))
    BY <2>4, <2>5, IgnoredIs DEF Ignored
  <2>7. LineRead(p', first', line', block', said') /\ line' \in Seq(Bytes)
    BY <2>1, <2>2, <2>3, <2>6
  <2>8. p'.swallow_lf = after_cr'
    BY <2>1, <2>2, <1>6, <1>9 DEF Good, Structs
  <2> QED BY <1>6, <1>7, <2>1, <2>7, <2>8 DEF RInv, BlockMatchesReference
<1>10. CASE b \in {"CR", "LF"} /\ ~ (b = "LF" /\ after_cr)
  <2> DEFINE L == Bare(first, line)
  <2>1. /\ after_cr' = (b = "CR") /\ line' = <<>> /\ first' = FALSE
        /\ IF WithoutBom(line) = <<>>
           THEN /\ done' = [lines |-> block, said |-> said \o p'.out]
                /\ block' = <<>> /\ said' = <<>>
           ELSE /\ block' = IF Ignored(WithoutBom(line)) THEN block
                            ELSE Append(block, WithoutBom(line))
                /\ said' = said \o p'.out
                /\ done' = NoBlock
    BY <1>3, <1>10 DEF Record
  <2>2. p'.swallow_lf = (b = "CR") /\ L \in Seq(Bytes) /\ LineEnded(p', L, block, said)
    <3>1. first \in BOOLEAN /\ line \in Seq(Bytes) /\ block \in Seq(Lines)
      BY DEF RInv
    <3>2. b \in {"CR", "LF"} /\ ~ (q.swallow_lf /\ b = "LF")
      BY <1>5, <1>10
    <3>3. q.out = <<>> /\ Good(q) /\ LineRead(q, first, line, block, said)
      BY <1>2, <1>5
    <3> QED BY <3>1, <3>2, <3>3, <1>3, EndReads
  <2>3. WithoutBom(line) = L
    BY DEF WithoutBom, Bare
  <2> HIDE DEF L
  <2>4. <<>> \in Seq(Bytes) /\ <<>> \in Seq(Lines) /\ block \in Seq(Lines)
    BY DEF RInv
  <2>7. p'.swallow_lf = after_cr'
    BY <2>1, <2>2
  <2>5. CASE L = <<>>
    <3>1. done'.said = RefCallbacks(done'.lines) /\ done'.lines \in Seq(Lines)
      <4>1. done' = [lines |-> block, said |-> said \o p'.out]
        BY <2>1, <2>3, <2>5
      <4>2. done'.lines = block /\ done'.said = said \o p'.out
        BY <4>1
      <4> QED BY <4>2, <2>2, <2>4, <2>5 DEF LineEnded
    <3>2. LineRead(p', first', line', block', said')
      BY <2>1, <2>2, <2>3, <2>5 DEF LineEnded
    <3> QED BY <1>6, <2>1, <2>3, <2>4, <2>5, <2>7, <3>1, <3>2 DEF RInv, BlockMatchesReference
  <2>6. CASE L # <<>>
    <3>1. L \in Lines
      BY <2>2, <2>6 DEF Lines
    <3>2. Ignored(L) => FieldOf(L) = "other"
      BY <2>2, IgnoredIs
    <3>3. LineRead(p', first', line', block', said') /\ block' \in Seq(Lines)
      <4>0. said' = said \o p'.out /\ line' = <<>> /\ first' = FALSE
        BY <2>1, <2>3, <2>6
      <4>1. CASE Ignored(L)
        <5>1. block' = block
          BY <4>1, <2>1, <2>3, <2>6
        <5>2. LineRead(p', FALSE, <<>>, block, said \o p'.out)
          BY <4>1, <2>2, <2>6, <3>2 DEF LineEnded
        <5> QED BY <5>1, <5>2, <4>0, <2>4
      <4>2. CASE ~ Ignored(L)
        <5>1. block' = Append(block, L)
          BY <4>2, <2>1, <2>3, <2>6
        <5>2. LineRead(p', FALSE, <<>>, Append(block, L), said \o p'.out)
          BY <2>2, <2>6 DEF LineEnded
        <5>3. Append(block, L) \in Seq(Lines)
          BY <2>4, <3>1
        <5> QED BY <5>1, <5>2, <5>3, <4>0
      <4> QED BY <4>1, <4>2
    <3> QED BY <1>6, <1>7, <2>1, <2>3, <2>4, <2>6, <2>7, <3>3 DEF RInv, BlockMatchesReference
  <2> QED BY <2>5, <2>6
<1> QED BY <1>8, <1>9, <1>10

\* So does a reset.
LEMMA ResetKeeps ==
    ASSUME RInv, RReset, UNCHANGED input
    PROVE  RInv'
<1>1. /\ p' = Fresh /\ line' = <<>> /\ block' = <<>> /\ said' = <<>> /\ after_cr' = FALSE
      /\ first' = TRUE /\ done' = NoBlock
  BY DEF RReset, Reset
<1>2. Fresh.swallow_lf = FALSE /\ NoBlock.said = <<>> /\ NoBlock.lines = <<>>
  BY DEF Fresh, NoBlock
<1>3. <<>> \in Seq(Bytes) /\ <<>> \in Seq(Lines)
  OBVIOUS
<1> QED BY <1>1, <1>2, <1>3, FreshGood, FreshReads, NoBlockMatches DEF RInv, BlockMatchesReference

\* The invariant of the parser and the record.
THEOREM RecordIsRead == RSpec => []RInv
<1>1. RInit => RInv
  <2>1. Fresh.swallow_lf = FALSE /\ NoBlock.said = <<>> /\ NoBlock.lines = <<>>
    BY DEF Fresh, NoBlock
  <2>2. <<>> \in Seq(Bytes) /\ <<>> \in Seq(Lines)
    OBVIOUS
  <2> QED BY <2>1, <2>2, FreshGood, FreshReads, NoBlockMatches
          DEF RInit, PInit, RInv, BlockMatchesReference
<1>2. RInv /\ [RNext]_rvars => RInv'
  <2> SUFFICES ASSUME RInv, [RNext]_rvars PROVE RInv'
    OBVIOUS
  <2>1. CASE UNCHANGED input /\ RReset
    BY <2>1, ResetKeeps
  <2>2. CASE UNCHANGED input /\ \E b \in input.bytes : RFeed(b)
    <3>1. input.bytes \subseteq Bytes
      BY InputAssumption DEF RInv
    <3> QED BY <2>2, <3>1, FeedKeeps
  <2>3. CASE UNCHANGED rvars
    BY <2>3 DEF rvars, RInv, BlockMatchesReference
  <2> QED BY <2>1, <2>2, <2>3 DEF RNext
<1> QED BY <1>1, <1>2, PTL DEF RSpec

\* Whatever the stream and wherever it is cut, the parser calls exactly the
\* callbacks that the line-by-line reading of each block gives.
THEOREM BlockMatchesReferenceHolds == RSpec => []BlockMatchesReference
<1>1. RInv => BlockMatchesReference
  BY DEF RInv
<1> QED BY <1>1, RecordIsRead, PTL

----------------------------------------------------------------------------
(* Events and reports of a loss among the callbacks of a block. *)

\* An event, or the report that one is lost.
Answering(c) == Delivered(c) \/ Lost(c)
Answers(s) == {i \in DOMAIN s : Answering(s[i])}

\* The answers of two sequences one after the other.
LEMMA AnswersConcat ==
    ASSUME NEW s \in Seq(Reports), NEW t \in Seq(Reports)
    PROVE  /\ s \o t \in Seq(Reports)
           /\ Answers(s \o t) = Answers(s) \cup {Len(s) + i : i \in Answers(t)}
<1> DEFINE u == s \o t
           m == Len(s)
           n == Len(t)
<1>1. /\ m \in Nat /\ n \in Nat /\ DOMAIN s = 1 .. m /\ DOMAIN t = 1 .. n
      /\ u \in Seq(Reports) /\ DOMAIN u = 1 .. m + n
      /\ \A i \in 1 .. m : u[i] = s[i]
      /\ \A i \in 1 .. n : u[m + i] = t[i]
  <2>1. u \in Seq(Reports) /\ Len(u) = m + n
    BY ConcatProperties
  <2>2. \A i \in 1 .. m + n : u[i] = IF i <= m THEN s[i] ELSE t[i - m]
    BY ConcatProperties
  <2>3. \A i \in 1 .. m : i \in 1 .. m + n /\ i <= m
    OBVIOUS
  <2>4. \A i \in 1 .. n : m + i \in 1 .. m + n /\ ~ (m + i <= m) /\ (m + i) - m = i
    OBVIOUS
  <2> HIDE DEF u
  <2> QED BY <2>1, <2>2, <2>3, <2>4
<1> HIDE DEF u, m, n
<1>2. ASSUME NEW i PROVE i \in Answers(u) <=> i \in Answers(s) \/ \E j \in Answers(t) : i = m + j
  <2>1. CASE i \in 1 .. m
    <3>1. u[i] = s[i] /\ i \in 1 .. m + n /\ \A j \in 1 .. n : i # m + j
      BY <2>1, <1>1
    <3> QED BY <3>1, <2>1, <1>1 DEF Answers
  <2>2. CASE i \in m + 1 .. m + n
    <3>1. /\ i - m \in 1 .. n /\ i = m + (i - m) /\ i \notin 1 .. m /\ i \in 1 .. m + n
          /\ \A j \in 1 .. n : i = m + j => j = i - m
      BY <2>2, <1>1
    <3>2. u[i] = t[i - m]
      BY <3>1, <1>1
    <3> QED BY <3>1, <3>2, <1>1 DEF Answers
  <2>3. CASE i \notin 1 .. m /\ i \notin m + 1 .. m + n
    <3>1. i \notin 1 .. m + n /\ \A j \in 1 .. n : i # m + j
      BY <2>3, <1>1
    <3> QED BY <3>1, <2>3, <1>1 DEF Answers
  <2> QED BY <2>1, <2>2, <2>3
<1>3. Answers(u) = Answers(s) \cup {m + i : i \in Answers(t)}
  BY <1>2
<1> QED BY <1>1, <1>3 DEF u, m

\* The answers of a sequence of at most one callback.
LEMMA AnswersOne ==
    /\ Answers(<<>>) = {}
    /\ \A c : Answers(<<c>>) = IF Answering(c) THEN {1} ELSE {}
<1>1. DOMAIN <<>> = {} /\ \A c : DOMAIN <<c>> = {1} /\ <<c>>[1] = c
  OBVIOUS
<1> QED BY <1>1 DEF Answers

\* A report of an error is an answer when it is the report of a loss.
LEMMA AnswersErr ==
    ASSUME NEW e
    PROVE  Answers(Err(e)) = IF e \in {"DATA_TOO_LARGE", "EVENT_TYPE_INVALID", "EVENT_TYPE_TOO_LARGE"}
                             THEN {1} ELSE {}
<1> DEFINE c == [cb |-> "on_error", err |-> e]
<1>1. c.cb = "on_error" /\ c.err = e
  OBVIOUS
<1> HIDE DEF c
<1>2. Answering(c) <=> e \in {"DATA_TOO_LARGE", "EVENT_TYPE_INVALID", "EVENT_TYPE_TOO_LARGE"}
  BY <1>1 DEF Answering, Delivered, Lost
<1>3. Err(e) = <<c>>
  BY DEF Err, c
<1> QED BY <1>2, <1>3, AnswersOne

\* A line is an answer when it is the first to make the block undeliverable.
LEMMA LineAnswers ==
    ASSUME NEW B \in Seq(Lines), NEW L \in Lines
    PROVE  Answers(LineSaid(B, L)) = IF Causes(B) = {} /\ Spoils(B, L) THEN {1} ELSE {}
<1>1. CASE FieldOf(L) = "retry"
  <2>1. ~ Spoils(B, L)
    BY <1>1 DEF Spoils
  <2>2. LineSaid(B, L) = RetryCallback(ValueOf(L))
    BY <1>1, <2>1 DEF LineSaid
  <2>3. Answers(Err("INVALID_RETRY")) = {}
    BY AnswersErr
  <2>4. \A ms : Answers(<<[cb |-> "on_retry", ms |-> ms]>>) = {}
    <3>1. SUFFICES ASSUME NEW ms PROVE Answers(<<[cb |-> "on_retry", ms |-> ms]>>) = {}
      OBVIOUS
    <3> DEFINE c == [cb |-> "on_retry", ms |-> ms]
    <3>2. c.cb = "on_retry"
      OBVIOUS
    <3> HIDE DEF c
    <3>3. ~ Answering(c)
      BY <3>2 DEF Answering, Delivered, Lost
    <3>4. Answers(<<c>>) = {}
      BY <3>3, AnswersOne
    <3> QED BY <3>4 DEF c
  <2>5. Answers(RetryCallback(ValueOf(L))) = {}
    BY <2>3, <2>4 DEF RetryCallback
  <2> QED BY <2>1, <2>2, <2>5
<1>2. CASE FieldOf(L) # "retry" /\ FieldOf(L) = "id" /\ BadId(ValueOf(L))
  <2>1. ~ Spoils(B, L) /\ LineSaid(B, L) = Err("ID_INVALID")
    BY <1>2 DEF Spoils, LineSaid
  <2> QED BY <2>1, AnswersErr
<1>3. CASE FieldOf(L) # "retry" /\ ~ (FieldOf(L) = "id" /\ BadId(ValueOf(L)))
  <2>1. LineSaid(B, L) = IF Causes(B) = {} /\ Spoils(B, L) THEN Err(Reason(L)) ELSE <<>>
    BY <1>3 DEF LineSaid
  <2>2. Answers(Err(Reason(L))) = {1}
    BY AnswersErr DEF Reason
  <2> QED BY <2>1, <2>2, AnswersOne
<1> QED BY <1>1, <1>2, <1>3

\* The lines of a block report a loss once if there is a cause, else never.
LEMMA LossesReported ==
    ASSUME NEW B \in Seq(Lines)
    PROVE  IF Causes(B) = {} THEN Answers(SaidFor(B)) = {}
           ELSE \E i \in 1 .. Len(SaidFor(B)) : Answers(SaidFor(B)) = {i}
<1> DEFINE Once(C) == IF Causes(C) = {} THEN Answers(SaidFor(C)) = {}
                      ELSE \E i \in 1 .. Len(SaidFor(C)) : Answers(SaidFor(C)) = {i}
           T == {n \in Nat : \A C \in Seq(Lines) : Len(C) = n => Once(C)}
<1>1. 0 \in T
  <2>1. ASSUME NEW C \in Seq(Lines), Len(C) = 0 PROVE Once(C)
    <3>1. C = <<>>
      BY <2>1
    <3> QED BY <3>1, EmptyBlock, AnswersOne
  <2> HIDE DEF Once
  <2> QED BY <2>1
<1>2. ASSUME NEW n \in Nat, n \in T PROVE n + 1 \in T
  <2>1. ASSUME NEW C \in Seq(Lines), Len(C) = n + 1 PROVE Once(C)
    <3>1. C # <<>>
      BY <2>1
    <3>2. PICK A \in Seq(Lines), L \in Lines : C = Append(A, L)
      BY <3>1, SequenceEmptyOrAppend
    <3>3. Len(A) = n /\ Len(A) \in Nat
      BY <2>1, <3>2
    <3>4. Once(A)
      <4> HIDE DEF Once
      <4> QED BY <1>2, <3>3
    <3> DEFINE s == SaidFor(A)
               t == LineSaid(A, L)
               m == Len(s)
    <3>5. SaidFor(C) = s \o t /\ s \in Seq(Reports)
      BY <3>2, SaidAppend
    <3>6. t \in Seq(Reports) /\ Answers(t) = IF Causes(A) = {} /\ Spoils(A, L) THEN {1} ELSE {}
      BY LineSaidIs, LineAnswers
    <3>7. Causes(C) = Causes(A) \cup IF Spoils(A, L) THEN {n + 1} ELSE {}
      BY <3>2, <3>3, CausesAppend
    <3>8. IF Causes(A) = {} THEN Answers(s) = {} ELSE \E i \in 1 .. m : Answers(s) = {i}
      BY <3>4
    <3> HIDE DEF s, t
    <3>9. /\ m \in Nat /\ Len(s \o t) = m + Len(t) /\ Len(t) \in Nat
          /\ Answers(s \o t) = Answers(s) \cup {m + i : i \in Answers(t)}
      BY <3>5, <3>6, AnswersConcat, ConcatProperties
    <3>10. 1 \in Answers(t) => Len(t) >= 1
      BY <3>6 DEF Answers
    <3>11. IF Causes(C) = {} THEN Answers(s \o t) = {}
           ELSE \E i \in 1 .. Len(s \o t) : Answers(s \o t) = {i}
      <4>1. CASE Causes(A) = {} /\ ~ Spoils(A, L)
        <5>1. Causes(C) = {} /\ Answers(s) = {} /\ Answers(t) = {}
          BY <4>1, <3>6, <3>7, <3>8
        <5> QED BY <5>1, <3>9
      <4>2. CASE Causes(A) = {} /\ Spoils(A, L)
        <5>1. Causes(C) # {} /\ Answers(s) = {} /\ Answers(t) = {1}
          BY <4>2, <3>6, <3>7, <3>8
        <5>2. Answers(s \o t) = {m + 1} /\ m + 1 \in 1 .. Len(s \o t)
          BY <5>1, <3>9, <3>10
        <5> QED BY <5>1, <5>2
      <4>3. CASE Causes(A) # {}
        <5>1. Causes(C) # {} /\ Answers(t) = {}
          BY <4>3, <3>6, <3>7
        <5>2. PICK i \in 1 .. m : Answers(s) = {i}
          BY <4>3, <3>8
        <5>3. Answers(s \o t) = {i} /\ i \in 1 .. Len(s \o t)
          BY <5>1, <5>2, <3>9
        <5> QED BY <5>1, <5>3
      <4> QED BY <4>1, <4>2, <4>3
    <3> QED BY <3>5, <3>11
  <2> HIDE DEF Once
  <2> QED BY <2>1
<1>3. \A n \in Nat : n \in T
  <2> HIDE DEF T
  <2> QED BY <1>1, <1>2, Induction
<1>4. Once(B)
  <2>1. Len(B) \in Nat
    OBVIOUS
  <2> HIDE DEF Once
  <2> QED BY <2>1, <1>3
<1> QED BY <1>4

\* A block with data is answered once: by its event, or by the report of a loss.
LEMMA BlockAnswered ==
    ASSUME NEW B \in Seq(Lines), LinesOf(B, "data") # {}
    PROVE  \E i \in Answers(RefCallbacks(B)) : Answers(RefCallbacks(B)) = {i}
<1> DEFINE s == SaidFor(B)
           d == IdCallback(B)
           e == EventCallback(B)
<1>1. RefCallbacks(B) = (s \o d) \o e
  BY DEF RefCallbacks, SaidFor
<1>2. s \in Seq(Reports) /\ d \in Seq(Reports) /\ e \in Seq(Reports)
  BY SaidIs, EndCallbacksAre
<1>3. Answers(d) = {}
  <2>1. \A c \in IdReports : ~ Answering(c)
    BY DEF IdReports, Answering, Delivered, Lost
  <2> QED BY <2>1, AnswersOne, EndCallbacksAre
<1>4. Answers(e) = IF Causes(B) = {} THEN {1} ELSE {}
  <2>1. \A c \in EventReports : Answering(c)
    BY DEF EventReports, Answering, Delivered
  <2>2. IF Causes(B) = {} THEN \E c \in EventReports : e = <<c>> ELSE e = <<>>
    BY EndCallbacksAre
  <2> HIDE DEF e
  <2> QED BY <2>1, <2>2, AnswersOne
<1>5. IF Causes(B) = {} THEN Answers(s) = {} ELSE \E i \in 1 .. Len(s) : Answers(s) = {i}
  BY LossesReported
<1> HIDE DEF s, d, e
<1>6. /\ s \o d \in Seq(Reports) /\ Answers(s \o d) = Answers(s)
  <2>1. Answers(s \o d) = Answers(s) \cup {Len(s) + i : i \in Answers(d)}
    BY <1>2, AnswersConcat
  <2>2. {Len(s) + i : i \in Answers(d)} = {}
    BY <1>3
  <2> QED BY <2>1, <2>2, <1>2, AnswersConcat
<1>7. Answers((s \o d) \o e) = Answers(s) \cup {Len(s \o d) + i : i \in Answers(e)}
  BY <1>2, <1>6, AnswersConcat
<1>8. \E i : Answers((s \o d) \o e) = {i}
  <2>1. CASE Causes(B) = {}
    <3>1. {Len(s \o d) + i : i \in Answers(e)} = {Len(s \o d) + 1}
      BY <2>1, <1>4
    <3> QED BY <3>1, <2>1, <1>5, <1>7
  <2>2. CASE Causes(B) # {}
    <3>1. {Len(s \o d) + i : i \in Answers(e)} = {}
      BY <2>2, <1>4
    <3> QED BY <3>1, <2>2, <1>5, <1>7
  <2> QED BY <2>1, <2>2
<1> QED BY <1>1, <1>8

\* No event is lost in silence: whatever the stream, every block with data ends
\* in its event or in exactly one report of the loss.
THEOREM NoSilentLossHolds == RSpec => []NoSilentLoss
<1>1. ASSUME RInv PROVE NoSilentLoss
  <2>1. done.lines \in Seq(Lines) /\ done.said = RefCallbacks(done.lines)
    BY <1>1 DEF RInv, BlockMatchesReference
  <2>2. LinesOf(done.lines, "data") # {} =>
            \E i \in Answers(done.said) : Answers(done.said) = {i}
    BY <2>1, BlockAnswered
  <2> QED BY <2>2 DEF NoSilentLoss, Answers, Answering
<1> QED BY <1>1, RecordIsRead, PTL
=============================================================================
