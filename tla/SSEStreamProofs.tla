-------------------------- MODULE SSEStreamProofs --------------------------
(***************************************************************************)
(* Client and parser on the stream of a server that resumes: no event is   *)
(* lost or delivered twice, for any number of events of any size, chunks   *)
(* of any length and connections cut anywhere.                             *)
(***************************************************************************)
EXTENDS SSEStream, SSEClientProofs, FoldTheorems

----------------------------------------------------------------------------
(* What is left of the stream at each point of an event. *)

Symbols == {"id", "data", "retry", "COLON", "LF", "a", "1"}
Sent    == [byte : Symbols, of : 1 .. Events]

\* Bytes s of event k, and the events after it.
Rest(k, s) == Numbered(k, s) \o StreamAfter(k)

\* Bytes x of its id line, data line or retry line, and what follows them.
FromId(k, x)    == Rest(k, x \o DataLine(k) \o RetryLine(k) \o <<"LF">>)
FromData(k, x)  == Rest(k, x \o RetryLine(k) \o <<"LF">>)
FromRetry(k, x) == Rest(k, x \o <<"LF">>)

\* A line with value v after its name, and after its colon.
Named(v)  == <<"COLON">> \o v \o <<"LF">>
Ending(v) == v \o <<"LF">>

\* x begins with b and goes on with y.
Begins(x, b, y) == x # <<>> /\ Head(x) = b /\ Tail(x) = y

\* What comes first in a sequence comes first in a longer one.
LEMMA ConcatBegins ==
    ASSUME NEW T, NEW x \in Seq(T), NEW y \in Seq(T), NEW z \in Seq(T), NEW b,
           Begins(x, b, y)
    PROVE  Begins(x \o z, b, y \o z) /\ x \o z \in Seq(T)
<1>1. /\ Len(x) \in Nat \ {0} /\ b = x[1] /\ Len(y) = Len(x) - 1
      /\ \A i \in 1 .. Len(y) : y[i] = x[i + 1]
  <2>1. x # <<>> /\ b = Head(x) /\ y = Tail(x)
    BY DEF Begins
  <2>2. Len(x) \in Nat \ {0} /\ b = x[1]
    BY <2>1
  <2>3. Len(Tail(x)) = Len(x) - 1 /\ \A i \in 1 .. Len(Tail(x)) : Tail(x)[i] = x[i + 1]
    BY <2>1, HeadTailProperties
  <2> QED BY <2>1, <2>2, <2>3
<1>2. x \o z \in Seq(T) /\ Len(x \o z) = Len(x) + Len(z) /\ x \o z # <<>>
  BY <1>1
<1>3. Head(x \o z) = b
  BY <1>1, <1>2
<1>4. Tail(x \o z) \in Seq(T) /\ y \o z \in Seq(T)
  BY <1>2
<1>5. Len(Tail(x \o z)) = Len(y \o z)
  <2>1. Len(Tail(x \o z)) = Len(x \o z) - 1
    BY <1>2, HeadTailProperties
  <2>2. Len(y \o z) = Len(y) + Len(z) /\ Len(z) \in Nat
    OBVIOUS
  <2> QED BY <2>1, <2>2, <1>1, <1>2
<1>6. \A i \in 1 .. Len(Tail(x \o z)) : Tail(x \o z)[i] = (y \o z)[i]
  <2>1. SUFFICES ASSUME NEW i \in 1 .. Len(Tail(x \o z)) PROVE Tail(x \o z)[i] = (y \o z)[i]
    OBVIOUS
  <2>2. Tail(x \o z)[i] = (x \o z)[i + 1] /\ i + 1 \in 1 .. Len(x) + Len(z)
    BY <1>2, HeadTailProperties
  <2>3. CASE i <= Len(y)
    BY <2>2, <2>3, <1>1
  <2>4. CASE i > Len(y)
    BY <2>2, <2>4, <1>1
  <2> QED BY <2>3, <2>4, <1>1
<1>7. Tail(x \o z) = y \o z
  BY <1>4, <1>5, <1>6, SeqEqual
<1> QED BY <1>2, <1>3, <1>7 DEF Begins

\* A line begins with its name, and goes on with a colon and the value.
LEMMA LineBegins ==
    ASSUME NEW v \in Seq(Symbols), NEW f \in Symbols
    PROVE  /\ Line(f, v) \in Seq(Symbols) /\ Begins(Line(f, v), f, Named(v))
           /\ Named(v) \in Seq(Symbols) /\ Begins(Named(v), "COLON", Ending(v))
           /\ Ending(v) \in Seq(Symbols)
<1> DEFINE C == <<"COLON">>
           F == <<f, "COLON">>
           L == <<"LF">>
<1>1. C \in Seq(Symbols) /\ F \in Seq(Symbols) /\ L \in Seq(Symbols) /\ <<>> \in Seq(Symbols)
  BY DEF Symbols
<1>2. Begins(F, f, C) /\ Begins(C, "COLON", <<>>) /\ <<>> \o v = v
  BY DEF Begins
<1> HIDE DEF C, F, L
<1>3. F \o v \in Seq(Symbols) /\ Begins(F \o v, f, C \o v)
  BY <1>1, <1>2, ConcatBegins
<1>4. C \o v \in Seq(Symbols) /\ Begins(C \o v, "COLON", v)
  <2>1. C \o v \in Seq(Symbols) /\ Begins(C \o v, "COLON", <<>> \o v)
    BY <1>1, <1>2, ConcatBegins
  <2> QED BY <2>1, <1>2, Zenon
<1>5. (F \o v) \o L \in Seq(Symbols) /\ Begins((F \o v) \o L, f, (C \o v) \o L)
  BY <1>1, <1>3, <1>4, ConcatBegins
<1>6. (C \o v) \o L \in Seq(Symbols) /\ Begins((C \o v) \o L, "COLON", v \o L)
  BY <1>1, <1>4, ConcatBegins
<1>7. v \o L \in Seq(Symbols)
  BY <1>1
<1> QED BY <1>5, <1>6, <1>7 DEF Line, Named, Ending, C, F, L

\* A run of letters, and the end of a line that holds one.
LEMMA LettersAre ==
    ASSUME NEW n \in Nat
    PROVE  /\ As(n) \in Seq(Symbols)
           /\ Begins(Ending(As(n + 1)), "a", Ending(As(n)))
           /\ Begins(Ending(As(0)), "LF", <<>>)
<1>1. As(n) \in Seq(Symbols) /\ As(n + 1) \in Seq(Symbols) /\ <<"LF">> \in Seq(Symbols)
  BY DEF As, Symbols
<1>2. Begins(As(n + 1), "a", As(n))
  <2>1. As(n + 1) # <<>> /\ Head(As(n + 1)) = "a"
    BY DEF As
  <2>2. Tail(As(n + 1)) \in Seq(Symbols) /\ Len(Tail(As(n + 1))) = n /\ Len(As(n)) = n
    BY <1>1, <2>1 DEF As
  <2>3. \A i \in 1 .. n : Tail(As(n + 1))[i] = As(n)[i]
    BY <2>1 DEF As
  <2>4. Tail(As(n + 1)) = As(n)
    BY <1>1, <2>2, <2>3, SeqEqual
  <2> QED BY <2>1, <2>4 DEF Begins
<1>3. Begins(Ending(As(n + 1)), "a", Ending(As(n)))
  BY <1>1, <1>2, ConcatBegins DEF Ending
<1>4. Begins(Ending(As(0)), "LF", <<>>)
  BY DEF Ending, As, Begins
<1> QED BY <1>1, <1>3, <1>4

\* The one digit of the retry field.
LEMMA DigitIs ==
    /\ <<"1">> \in Seq(Symbols) /\ <<>> \in Seq(Symbols)
    /\ Begins(Ending(<<"1">>), "1", Ending(<<>>))
    /\ Begins(Ending(<<>>), "LF", <<>>)
<1>1. <<"1">> \in Seq(Symbols) /\ <<"LF">> \in Seq(Symbols) /\ <<>> \in Seq(Symbols)
  BY DEF Symbols
<1>2. Begins(<<"1">>, "1", <<>>)
  BY DEF Begins
<1>3. Begins(Ending(<<"1">>), "1", Ending(<<>>))
  BY <1>1, <1>2, ConcatBegins DEF Ending
<1>4. Begins(Ending(<<>>), "LF", <<>>)
  BY DEF Ending, Begins
<1> QED BY <1>1, <1>3, <1>4

\* The lines of an event.
LEMMA LinesAre ==
    ASSUME NEW k \in 1 .. Events
    PROVE  /\ k \in Nat /\ DataLen(k) \in Nat
           /\ IdLine(k) \in Seq(Symbols) /\ Begins(IdLine(k), "id", Named(As(k)))
           /\ DataLine(k) \in Seq(Symbols) /\ Begins(DataLine(k), "data", Named(As(DataLen(k))))
           /\ RetryLine(k) \in Seq(Symbols)
           /\ k # Events => RetryLine(k) = <<>>
           /\ k = Events => Begins(RetryLine(k), "retry", Named(<<"1">>))
<1>1. DataLen(k) \in Nat /\ k \in Nat
  BY StreamAssumption DEF DataLen
<1>2. "id" \in Symbols /\ "data" \in Symbols /\ "retry" \in Symbols
  BY DEF Symbols
<1>3. As(k) \in Seq(Symbols) /\ As(DataLen(k)) \in Seq(Symbols)
  BY <1>1, LettersAre
<1>4. IdLine(k) \in Seq(Symbols) /\ Begins(IdLine(k), "id", Named(As(k)))
  BY <1>2, <1>3, LineBegins DEF IdLine
<1>5. DataLine(k) \in Seq(Symbols) /\ Begins(DataLine(k), "data", Named(As(DataLen(k))))
  BY <1>2, <1>3, LineBegins DEF DataLine
<1>6. /\ Line("retry", <<"1">>) \in Seq(Symbols)
      /\ Begins(Line("retry", <<"1">>), "retry", Named(<<"1">>))
  BY <1>2, DigitIs, LineBegins
<1>7. /\ RetryLine(k) \in Seq(Symbols) /\ (k # Events => RetryLine(k) = <<>>)
      /\ (k = Events => Begins(RetryLine(k), "retry", Named(<<"1">>)))
  BY <1>6, DigitIs DEF RetryLine
<1> QED BY <1>1, <1>4, <1>5, <1>7

\* Numbering keeps the bytes in place.
LEMMA NumberedHas ==
    ASSUME NEW k \in 1 .. Events, NEW s \in Seq(Symbols)
    PROVE  /\ Numbered(k, s) \in Seq(Sent)
           /\ Len(Numbered(k, s)) = Len(s)
           /\ \A i \in 1 .. Len(s) : Numbered(k, s)[i] = [byte |-> s[i], of |-> k]
<1> DEFINE n == Len(s)
           f == [i \in 1 .. n |-> [byte |-> s[i], of |-> k]]
<1>1. n \in Nat /\ DOMAIN s = 1 .. n /\ \A i \in 1 .. n : s[i] \in Symbols
  OBVIOUS
<1>2. Numbered(k, s) = f
  BY <1>1, Zenon DEF Numbered
<1>3. \A i \in 1 .. n : f[i] = [byte |-> s[i], of |-> k]
  OBVIOUS
<1>4. \A i \in 1 .. n : [byte |-> s[i], of |-> k] \in Sent
  BY <1>1 DEF Sent
<1>5. f \in [1 .. n -> Sent]
  BY <1>4
<1> HIDE DEF f, n
<1>6. f \in Seq(Sent) /\ Len(f) = n
  BY <1>1, <1>5
<1> QED BY <1>2, <1>3, <1>6 DEF n

\* The numbered bytes begin with the first of the bytes.
LEMMA NumberedBegins ==
    ASSUME NEW k \in 1 .. Events, NEW s \in Seq(Symbols), NEW b, NEW y, Begins(s, b, y)
    PROVE  Begins(Numbered(k, s), [byte |-> b, of |-> k], Numbered(k, y)) /\ y \in Seq(Symbols)
<1>1. s # <<>> /\ b = Head(s) /\ y = Tail(s)
  BY DEF Begins
<1>2. Len(s) \in Nat \ {0} /\ b = s[1]
  BY <1>1
<1>3. y \in Seq(Symbols) /\ Len(y) = Len(s) - 1 /\ \A i \in 1 .. Len(y) : y[i] = s[i + 1]
  BY <1>1, HeadTailProperties
<1> DEFINE f == Numbered(k, s)
           g == Numbered(k, y)
<1>4. /\ f \in Seq(Sent) /\ Len(f) = Len(s)
      /\ \A i \in 1 .. Len(s) : f[i] = [byte |-> s[i], of |-> k]
  BY NumberedHas
<1>5. /\ g \in Seq(Sent) /\ Len(g) = Len(y)
      /\ \A i \in 1 .. Len(y) : g[i] = [byte |-> y[i], of |-> k]
  BY <1>3, NumberedHas
<1> HIDE DEF f, g
<1>6. f # <<>> /\ Head(f) = [byte |-> b, of |-> k]
  <2>1. Len(f) > 0 /\ f[1] = [byte |-> b, of |-> k]
    BY <1>2, <1>4
  <2> QED BY <2>1, <1>4
<1>7. /\ Tail(f) \in Seq(Sent) /\ Len(Tail(f)) = Len(s) - 1
      /\ \A i \in 1 .. Len(s) - 1 : Tail(f)[i] = f[i + 1]
  BY <1>4, <1>6, HeadTailProperties
<1>8. ASSUME NEW i \in 1 .. Len(s) - 1 PROVE Tail(f)[i] = g[i]
  <2>1. i + 1 \in 1 .. Len(s) /\ i \in 1 .. Len(y)
    BY <1>2, <1>3
  <2>2. f[i + 1] = [byte |-> s[i + 1], of |-> k] /\ s[i + 1] = y[i]
    BY <2>1, <1>3, <1>4
  <2>3. g[i] = [byte |-> y[i], of |-> k] /\ Tail(f)[i] = f[i + 1]
    BY <2>1, <1>5, <1>7
  <2> QED BY <2>2, <2>3
<1>9. Tail(f) = g
  BY <1>3, <1>5, <1>7, <1>8, SeqEqual
<1> QED BY <1>3, <1>6, <1>9 DEF Begins, f, g

\* The stream after event k: the next event, then the stream after that.
LEMMA StreamIs ==
    /\ StreamAfter(Events) = <<>>
    /\ \A k \in 1 .. Events : StreamAfter(k - 1) = FromId(k, IdLine(k))
    /\ \A k \in 0 .. Events : StreamAfter(k) \in Seq(Sent)
<1> DEFINE All(k) == [e \in 1 .. Events - k |-> Numbered(k + e, EventBytes(k + e))]
<1>1. \A k \in 1 .. Events : EventBytes(k) \in Seq(Symbols)
  <2> SUFFICES ASSUME NEW k \in 1 .. Events PROVE EventBytes(k) \in Seq(Symbols)
    OBVIOUS
  <2>1. IdLine(k) \in Seq(Symbols) /\ DataLine(k) \in Seq(Symbols)
        /\ RetryLine(k) \in Seq(Symbols) /\ <<"LF">> \in Seq(Symbols)
    BY LinesAre DEF Symbols
  <2> QED BY <2>1 DEF EventBytes
<1>2. ASSUME NEW k \in 0 .. Events
      PROVE  /\ All(k) \in Seq(Seq(Sent)) /\ Len(All(k)) = Events - k
             /\ \A e \in 1 .. Events - k : All(k)[e] = Numbered(k + e, EventBytes(k + e))
  <2>1. Events \in Nat /\ k \in Nat /\ Events - k \in Nat
    BY StreamAssumption
  <2>2. \A e \in 1 .. Events - k : k + e \in 1 .. Events
    BY <2>1
  <2>3. \A e \in 1 .. Events - k : Numbered(k + e, EventBytes(k + e)) \in Seq(Sent)
    BY <2>2, <1>1, NumberedHas
  <2> DEFINE n == Events - k
  <2>4. All(k) \in [1 .. n -> Seq(Sent)]
    BY <2>3
  <2>5. \A e \in 1 .. Events - k : All(k)[e] = Numbered(k + e, EventBytes(k + e))
    OBVIOUS
  <2>6. n \in Nat
    BY <2>1
  <2> HIDE DEF All, n
  <2>7. All(k) \in Seq(Seq(Sent)) /\ Len(All(k)) = n
    BY <2>4, <2>6
  <2> QED BY <2>5, <2>7 DEF n
<1>3. \A k \in 0 .. Events : StreamAfter(k) = FlattenSeq(All(k))
  BY DEF StreamAfter
<1> HIDE DEF All
<1>4. \A k \in 0 .. Events : StreamAfter(k) \in Seq(Sent)
  BY <1>2, <1>3, FlattenIs
<1>5. StreamAfter(Events) = <<>>
  <2>1. Events \in 0 .. Events /\ Events - Events = 0
    BY StreamAssumption
  <2> QED BY <2>1, <1>2, <1>3, FlattenIs
<1>6. ASSUME NEW k \in 1 .. Events PROVE StreamAfter(k - 1) = FromId(k, IdLine(k))
  <2>1. k \in 0 .. Events /\ k - 1 \in 0 .. Events /\ Events \in Nat
    BY StreamAssumption
  <2> DEFINE first == Numbered(k, EventBytes(k))
  <2>2. first \in Seq(Sent) /\ <<first>> \in Seq(Seq(Sent))
    BY <1>1, NumberedHas
  <2>3. All(k - 1) = <<first>> \o All(k)
    <3>1. <<first>> \o All(k) \in Seq(Seq(Sent)) /\ Len(<<first>> \o All(k)) = 1 + (Events - k)
      <4>1. All(k) \in Seq(Seq(Sent)) /\ Len(All(k)) = Events - k
        BY <2>1, <1>2
      <4> HIDE DEF first
      <4> QED BY <4>1, <2>2
    <3>2. All(k - 1) \in Seq(Seq(Sent)) /\ Len(All(k - 1)) = Events - (k - 1)
      BY <2>1, <1>2
    <3>3. ASSUME NEW e \in 1 .. Events - (k - 1) PROVE All(k - 1)[e] = (<<first>> \o All(k))[e]
      <4>1. All(k - 1)[e] = Numbered((k - 1) + e, EventBytes((k - 1) + e))
        BY <2>1, <1>2
      <4>2. CASE e = 1
        <5>1. (k - 1) + e = k
          BY <4>2
        <5>2. (<<first>> \o All(k))[e] = first
          BY <4>2, <2>1, <2>2, <1>2
        <5> QED BY <5>1, <5>2, <4>1
      <4>3. CASE e # 1
        <5>1. (k - 1) + e = k + (e - 1) /\ e - 1 \in 1 .. Events - k
          BY <4>3, <2>1
        <5>2. All(k)[e - 1] = Numbered(k + (e - 1), EventBytes(k + (e - 1)))
          BY <5>1, <2>1, <1>2
        <5>3. (<<first>> \o All(k))[e] = All(k)[e - 1]
          <6> HIDE DEF first
          <6>1. All(k) \in Seq(Seq(Sent)) /\ Len(All(k)) = Events - k
            BY <2>1, <1>2
          <6> QED BY <6>1, <5>1, <2>2
        <5> QED BY <5>1, <5>2, <5>3, <4>1
      <4> QED BY <4>2, <4>3
    <3>4. 1 + (Events - k) = Events - (k - 1)
      BY <2>1
    <3> HIDE DEF first
    <3> QED BY <3>1, <3>2, <3>3, <3>4, SeqEqual
  <2>4. FlattenSeq(<<first>> \o All(k)) = first \o FlattenSeq(All(k))
    BY <2>1, <2>2, <1>2, FlattenPrepend
  <2>5. StreamAfter(k - 1) = first \o StreamAfter(k)
    BY <2>1, <2>3, <2>4, <1>3
  <2> QED BY <2>5 DEF FromId, Rest, EventBytes
<1> QED BY <1>4, <1>5, <1>6

\* Bytes x of event k, then what follows: x comes first.
LEMMA RestBegins ==
    ASSUME NEW k \in 1 .. Events, NEW x \in Seq(Symbols), NEW b, NEW y, Begins(x, b, y)
    PROVE  /\ Begins(Rest(k, x), [byte |-> b, of |-> k], Rest(k, y))
           /\ Rest(k, x) \in Seq(Sent)
<1>1. StreamAfter(k) \in Seq(Sent)
  BY StreamIs
<1>2. /\ Begins(Numbered(k, x), [byte |-> b, of |-> k], Numbered(k, y))
      /\ y \in Seq(Symbols)
  BY NumberedBegins
<1>3. Numbered(k, x) \in Seq(Sent) /\ Numbered(k, y) \in Seq(Sent)
  BY <1>2, NumberedHas
<1> QED BY <1>1, <1>2, <1>3, ConcatBegins DEF Rest

\* The same of the lines of an event.
LEMMA LinesBegin ==
    ASSUME NEW k \in 1 .. Events, NEW x \in Seq(Symbols), NEW b, NEW y, Begins(x, b, y)
    PROVE  /\ Begins(FromId(k, x), [byte |-> b, of |-> k], FromId(k, y))
           /\ Begins(FromData(k, x), [byte |-> b, of |-> k], FromData(k, y))
           /\ Begins(FromRetry(k, x), [byte |-> b, of |-> k], FromRetry(k, y))
<1> DEFINE L == <<"LF">>
           D == DataLine(k)
           R == RetryLine(k)
<1>1. D \in Seq(Symbols) /\ R \in Seq(Symbols) /\ L \in Seq(Symbols)
  BY LinesAre DEF Symbols
<1>2. y \in Seq(Symbols)
  BY NumberedBegins
<1> HIDE DEF L, D, R
<1>3. Begins(x \o L, b, y \o L) /\ x \o L \in Seq(Symbols)
  BY <1>1, <1>2, ConcatBegins
<1>4. /\ Begins(x \o R, b, y \o R) /\ x \o R \in Seq(Symbols)
      /\ Begins(x \o D, b, y \o D) /\ x \o D \in Seq(Symbols)
  BY <1>1, <1>2, ConcatBegins
<1>5. y \o R \in Seq(Symbols) /\ y \o D \in Seq(Symbols)
  BY <1>1, <1>2
<1>6. /\ Begins((x \o R) \o L, b, (y \o R) \o L) /\ (x \o R) \o L \in Seq(Symbols)
      /\ Begins((x \o D) \o R, b, (y \o D) \o R) /\ (x \o D) \o R \in Seq(Symbols)
  BY <1>1, <1>4, <1>5, ConcatBegins
<1>7. (y \o D) \o R \in Seq(Symbols)
  BY <1>1, <1>5
<1>8. /\ Begins(((x \o D) \o R) \o L, b, ((y \o D) \o R) \o L)
      /\ ((x \o D) \o R) \o L \in Seq(Symbols)
  BY <1>1, <1>6, <1>7, ConcatBegins
<1>9. /\ Begins(Rest(k, ((x \o D) \o R) \o L), [byte |-> b, of |-> k],
                 Rest(k, ((y \o D) \o R) \o L))
      /\ Begins(Rest(k, (x \o R) \o L), [byte |-> b, of |-> k], Rest(k, (y \o R) \o L))
      /\ Begins(Rest(k, x \o L), [byte |-> b, of |-> k], Rest(k, y \o L))
  BY <1>3, <1>6, <1>8, RestBegins
<1> QED BY <1>9 DEF FromId, FromData, FromRetry, L, D, R

\* Where one line ends, the next begins.
LEMMA NextLine ==
    ASSUME NEW k \in 1 .. Events
    PROVE  /\ FromId(k, <<>>) = FromData(k, DataLine(k))
           /\ FromData(k, <<>>) = FromRetry(k, RetryLine(k))
           /\ Begins(FromRetry(k, <<>>), [byte |-> "LF", of |-> k], StreamAfter(k))
           /\ Begins(StreamAfter(k - 1), [byte |-> "id", of |-> k], FromId(k, Named(As(k))))
<1> DEFINE L == <<"LF">>
           D == DataLine(k)
           R == RetryLine(k)
           A == StreamAfter(k)
<1>1. D \in Seq(Symbols) /\ R \in Seq(Symbols) /\ L \in Seq(Symbols) /\ A \in Seq(Sent)
  BY LinesAre, StreamIs DEF Symbols
<1>2. Begins(L, "LF", <<>>) /\ Numbered(k, <<>>) = <<>>
  BY DEF Begins, Numbered
<1> HIDE DEF L, D, R, A
<1>3. <<>> \o D = D /\ <<>> \o R = R /\ <<>> \o L = L /\ <<>> \o A = A
  BY <1>1
<1>4. FromId(k, <<>>) = FromData(k, DataLine(k))
  BY <1>3, Zenon DEF FromId, FromData, D
<1>5. FromData(k, <<>>) = FromRetry(k, RetryLine(k))
  BY <1>3, Zenon DEF FromData, FromRetry, R
<1>6. Begins(Rest(k, L), [byte |-> "LF", of |-> k], Rest(k, <<>>))
  BY <1>1, <1>2, RestBegins
<1>7. Rest(k, <<>>) = A /\ FromRetry(k, <<>>) = Rest(k, L)
  BY <1>2, <1>3, Zenon DEF Rest, FromRetry, L, A
<1>8. Begins(FromId(k, IdLine(k)), [byte |-> "id", of |-> k], FromId(k, Named(As(k))))
  BY LinesAre, LinesBegin
<1>9. StreamAfter(k - 1) = FromId(k, IdLine(k))
  BY StreamIs
<1> QED BY <1>4, <1>5, <1>6, <1>7, <1>8, <1>9, Zenon DEF A

----------------------------------------------------------------------------
(* What the parser does with each symbol of the stream. *)

\* struct sse_parser on this stream, with the callbacks not yet called.
Structs(calls) ==
    [state : {"BOM", "LINE_START", "FIELD_NAME", "AFTER_COLON", "VALUE"},
     field : {"none", "id", "data", "retry"}, swallow_lf : {FALSE}, bom_n : {0},
     name : {"other", "id", "data", "retry"}, data : Seq({"a", "LF"}),
     data_lines : {0, 1}, block_discarded : BOOLEAN, event : {<<>>},
     has_event : {FALSE}, id : Seq({"a"}), has_id : BOOLEAN, id_invalid : {FALSE},
     retry_acc : {0, 1}, retry_seen_digit : BOOLEAN, retry_invalid : {FALSE},
     out : {calls}]

InValue(q, f) == q.state \in {"AFTER_COLON", "VALUE"} /\ q.field = f

Overflow == [cb |-> "on_error", err |-> "DATA_TOO_LARGE"]
TheRetry == [cb |-> "on_retry", ms |-> 1]

\* The first and the second callback of a step.
LEMMA CallsAre ==
    ASSUME NEW c, NEW d
    PROVE  /\ Append(<<>>, c) = <<c>> /\ Append(<<c>>, d) = <<c, d>>
           /\ <<c>> # <<>> /\ Head(<<c>>) = c /\ Tail(<<c>>) = <<>>
           /\ <<c, d>> # <<>> /\ Head(<<c, d>>) = c /\ Tail(<<c, d>>) = <<d>>
<1> DEFINE T == {c, d}
<1>1. c \in T /\ d \in T
  OBVIOUS
<1> HIDE DEF T
<1>2. <<>> \in Seq(T) /\ <<c>> \in Seq(T) /\ <<c, d>> \in Seq(T)
  BY <1>1
<1>3. Append(<<>>, c) \in Seq(T) /\ Len(Append(<<>>, c)) = 1 /\ Append(<<>>, c)[1] = c
  BY <1>1, <1>2
<1>4. Append(<<>>, c) = <<c>>
  <2>1. \A i \in 1 .. Len(<<c>>) : Append(<<>>, c)[i] = <<c>>[i]
    BY <1>3
  <2> QED BY <1>2, <1>3, <2>1, SeqEqual
<1>5. /\ Append(<<c>>, d) \in Seq(T) /\ Len(Append(<<c>>, d)) = 2
      /\ Append(<<c>>, d)[1] = c /\ Append(<<c>>, d)[2] = d
  BY <1>1, <1>2
<1>6. Append(<<c>>, d) = <<c, d>>
  <2>1. \A i \in 1 .. Len(<<c, d>>) : Append(<<c>>, d)[i] = <<c, d>>[i]
    BY <1>5
  <2> QED BY <1>2, <1>5, <2>1, SeqEqual
<1>7. <<c>> # <<>> /\ Head(<<c>>) = c /\ <<c, d>> # <<>> /\ Head(<<c, d>>) = c
  OBVIOUS
<1>8. Tail(<<c>>) = <<>>
  BY <1>2, HeadTailProperties
<1>9. Tail(<<c, d>>) = <<d>>
  <2>1. /\ Tail(<<c, d>>) \in Seq(T) /\ Len(Tail(<<c, d>>)) = 1
        /\ Tail(<<c, d>>)[1] = <<c, d>>[2]
    BY <1>2, HeadTailProperties
  <2>2. <<d>> \in Seq(T) /\ \A i \in 1 .. Len(<<d>>) : Tail(<<c, d>>)[i] = <<d>>[i]
    BY <1>1, <2>1
  <2> QED BY <2>1, <2>2, SeqEqual
<1> QED BY <1>4, <1>6, <1>7, <1>8, <1>9

\* process_byte() hands a byte to the line, or ends the line.
LEMMA StreamByte ==
    ASSUME NEW q \in Structs(<<>>), NEW b, b \in Symbols
    PROVE  LET r == [q EXCEPT !.state = IF @ = "BOM" THEN "LINE_START" ELSE @,
                              !.name = IF q.state = "BOM" THEN "other" ELSE @]
           IN  Parser!ProcessByte(q, b) =
                   IF b = "LF" THEN [Parser!LineEnd(r) EXCEPT !.swallow_lf = FALSE]
                   ELSE Parser!LineByte(r, b)
<1> DEFINE r == [q EXCEPT !.state = IF @ = "BOM" THEN "LINE_START" ELSE @,
                          !.name = IF q.state = "BOM" THEN "other" ELSE @]
<1>1. b \notin {"EF", "BB", "BF", "CR"}
  BY DEF Symbols
<1>2. q.swallow_lf = FALSE /\ q.bom_n = 0 /\ [q EXCEPT !.swallow_lf = FALSE] = q
  BY DEF Structs
<1>3. Parser!Bom[q.bom_n + 1] = "EF"
  BY <1>2 DEF Parser!Bom
<1>4. (IF q.state = "BOM" THEN Parser!ReplayBom(q, q.bom_n) ELSE q) = r
  BY <1>2 DEF Parser!ReplayBom, Structs
<1> HIDE DEF r
<1>5. Parser!ProcessByte(q, b) =
          IF b \in {"CR", "LF"} THEN Parser!EndsLine(r, b) ELSE Parser!LineByte(r, b)
  <2> DEFINE q1 == [q EXCEPT !.swallow_lf = FALSE]
             r1 == IF q1.state = "BOM" THEN Parser!ReplayBom(q1, q1.bom_n) ELSE q1
  <2>1. Parser!ProcessByte(q, b) =
            IF q.swallow_lf /\ b = "LF" THEN q1
            ELSE IF q1.state = "BOM" /\ b = Parser!Bom[q1.bom_n + 1]
                 THEN IF q1.bom_n = 2
                      THEN [q1 EXCEPT !.bom_n = 0, !.state = "LINE_START"]
                      ELSE [q1 EXCEPT !.bom_n = @ + 1]
            ELSE IF b \in {"CR", "LF"} THEN Parser!EndsLine(r1, b)
            ELSE Parser!LineByte(r1, b)
    BY DEF Parser!ProcessByte
  <2>2. q1 = q
    BY <1>2
  <2> HIDE DEF q1
  <2>3. r1 = r
    BY <1>4, <2>2
  <2> HIDE DEF r1
  <2>4. Parser!Bom[q1.bom_n + 1] = "EF"
    BY <1>3, <2>2
  <2> QED BY <1>1, <1>2, <2>1, <2>2, <2>3, <2>4
<1>6. b = "LF" => Parser!EndsLine(r, b) = [Parser!LineEnd(r) EXCEPT !.swallow_lf = FALSE]
  BY DEF Parser!EndsLine
<1> QED BY <1>1, <1>5, <1>6 DEF r

\* A name starts a line.
LEMMA NameRead ==
    ASSUME NEW q \in Structs(<<>>), q.state \in {"BOM", "LINE_START"},
           NEW b \in {"id", "data", "retry"}
    PROVE  Parser!ProcessByte(q, b) = [q EXCEPT !.state = "FIELD_NAME", !.name = b]
<1> DEFINE r == [q EXCEPT !.state = IF @ = "BOM" THEN "LINE_START" ELSE @,
                          !.name = IF q.state = "BOM" THEN "other" ELSE @]
<1>1. Parser!ProcessByte(q, b) = Parser!LineByte(r, b)
  BY StreamByte DEF Symbols
<1>2. r.state = "LINE_START" /\ b \in Parser!Names /\ b # "COLON"
  BY DEF Structs, Parser!Names
<1>3. Parser!LineByte(r, b) = [r EXCEPT !.state = "FIELD_NAME", !.name = b]
  BY <1>2 DEF Parser!LineByte
<1> QED BY <1>1, <1>3, ZenonT(60) DEF Structs

\* Inside a line, process_byte() is the line's own step.
LEMMA InLine ==
    ASSUME NEW q \in Structs(<<>>), q.state # "BOM", NEW b \in Symbols
    PROVE  Parser!ProcessByte(q, b) =
               IF b = "LF" THEN [Parser!LineEnd(q) EXCEPT !.swallow_lf = FALSE]
               ELSE Parser!LineByte(q, b)
<1>1. [q EXCEPT !.state = IF @ = "BOM" THEN "LINE_START" ELSE @,
                !.name = IF q.state = "BOM" THEN "other" ELSE @] = q
  BY DEF Structs
<1> QED BY <1>1, StreamByte

\* The colon after a name starts the value.
LEMMA ColonRead ==
    ASSUME NEW q \in Structs(<<>>), q.state = "FIELD_NAME"
    PROVE  LET r == Parser!ProcessByte(q, "COLON")
           IN  /\ q.name = "id" =>
                     r = [q EXCEPT !.state = "AFTER_COLON", !.field = "id", !.id = <<>>]
               /\ q.name = "data" => r = [q EXCEPT !.state = "AFTER_COLON", !.field = "data"]
               /\ q.name = "retry" =>
                     r = [q EXCEPT !.state = "AFTER_COLON", !.field = "retry",
                                   !.retry_acc = 0, !.retry_seen_digit = FALSE]
<1>1. Parser!ProcessByte(q, "COLON") = Parser!ResolveFieldName(q)
  BY InLine DEF Symbols, Parser!LineByte, Parser!NameByte
<1>2. q.name = "id" => Parser!ResolveFieldName(q) =
          [q EXCEPT !.state = "AFTER_COLON", !.field = "id", !.id = <<>>]
  BY DEF Parser!ResolveFieldName, Parser!StartValue, Structs
<1>3. q.name = "data" => Parser!ResolveFieldName(q) =
          [q EXCEPT !.state = "AFTER_COLON", !.field = "data"]
  BY DEF Parser!ResolveFieldName, Parser!StartValue, Structs
<1>4. q.name = "retry" => Parser!ResolveFieldName(q) =
          [q EXCEPT !.state = "AFTER_COLON", !.field = "retry",
                    !.retry_acc = 0, !.retry_seen_digit = FALSE]
  BY DEF Parser!ResolveFieldName, Parser!StartValue, Structs
<1> QED BY <1>1, <1>2, <1>3, <1>4

\* A byte of a value is its field's, the space after the colon apart.
LEMMA ValueRead ==
    ASSUME NEW q \in Structs(<<>>), q.state \in {"AFTER_COLON", "VALUE"},
           NEW b \in {"a", "1"}
    PROVE  Parser!ProcessByte(q, b) = Parser!ValueByte([q EXCEPT !.state = "VALUE"], b)
<1>1. Parser!ProcessByte(q, b) = Parser!LineByte(q, b)
  BY InLine DEF Symbols
<1>2. q.state = "VALUE" => q = [q EXCEPT !.state = "VALUE"]
  BY DEF Structs
<1>3. b # "SPACE"
  OBVIOUS
<1> QED BY <1>1, <1>2, <1>3 DEF Parser!LineByte

\* The end of a value commits it.
LEMMA ValueEnds ==
    ASSUME NEW q \in Structs(<<>>), q.state \in {"AFTER_COLON", "VALUE"}
    PROVE  Parser!ProcessByte(q, "LF") =
               [Parser!CommitValue(q) EXCEPT !.state = "LINE_START", !.swallow_lf = FALSE]
<1>1. Parser!ProcessByte(q, "LF") = [Parser!LineEnd(q) EXCEPT !.swallow_lf = FALSE]
  BY InLine DEF Symbols
<1>2. Parser!LineEnd(q) = [Parser!CommitValue(q) EXCEPT !.state = "LINE_START"]
  BY DEF Parser!LineEnd
<1> QED BY <1>1, <1>2

\* The id: each letter is kept, the end of the line keeps the id.
LEMMA IdRead ==
    ASSUME NEW q \in Structs(<<>>), InValue(q, "id")
    PROVE  /\ Len(q.id) + 1 < IdBufLen => Parser!ProcessByte(q, "a") =
                  [q EXCEPT !.state = "VALUE", !.id = Append(@, "a")]
           /\ Parser!ProcessByte(q, "LF") =
                  [q EXCEPT !.state = "LINE_START", !.field = "none", !.has_id = TRUE]
<1> DEFINE r == [q EXCEPT !.state = "VALUE"]
<1>1. r.field = "id" /\ r.id = q.id /\ r.id_invalid = FALSE /\ q.id_invalid = FALSE
  BY DEF InValue, Structs
<1>2. Len(q.id) + 1 < IdBufLen => ~ (Len(q.id) + 1 >= IdBufLen)
  BY ConfigAssumption DEF Structs
<1>3. Len(q.id) + 1 < IdBufLen => Parser!ValueByte(r, "a") = [r EXCEPT !.id = Append(@, "a")]
  BY <1>1, <1>2 DEF Parser!ValueByte, Parser!IdByte
<1>4. Parser!ProcessByte(q, "a") = Parser!ValueByte(r, "a")
  BY ValueRead DEF InValue
<1>5. Len(q.id) + 1 < IdBufLen => Parser!ProcessByte(q, "a") =
          [q EXCEPT !.state = "VALUE", !.id = Append(@, "a")]
  BY <1>3, <1>4 DEF Structs
<1>6. Parser!CommitValue(q) = [q EXCEPT !.has_id = TRUE, !.field = "none"]
  BY <1>1 DEF Parser!CommitValue, Parser!CommitId, InValue
<1>7. Parser!ProcessByte(q, "LF") =
          [q EXCEPT !.state = "LINE_START", !.field = "none", !.has_id = TRUE]
  <2>1. Parser!ProcessByte(q, "LF") =
            [Parser!CommitValue(q) EXCEPT !.state = "LINE_START", !.swallow_lf = FALSE]
    BY ValueEnds DEF InValue
  <2> QED BY <1>6, <2>1, ZenonT(60) DEF Structs
<1> QED BY <1>5, <1>7

\* The data: a letter is kept while it fits, and the first that does not is
\* the end of the block; so is the newline that the end of the line adds.
LEMMA DataRead ==
    ASSUME NEW q \in Structs(<<>>), InValue(q, "data")
    PROVE  LET r == Parser!ProcessByte(q, "a")
               s == Parser!ProcessByte(q, "LF")
           IN  /\ q.block_discarded => r = [q EXCEPT !.state = "VALUE"]
               /\ (~ q.block_discarded /\ Len(q.data) = DataBufLen) => r =
                     [q EXCEPT !.state = "VALUE", !.block_discarded = TRUE,
                               !.out = <<Overflow>>]
               /\ (~ q.block_discarded /\ Len(q.data) # DataBufLen) => r =
                     [q EXCEPT !.state = "VALUE", !.data = Append(@, "a")]
               /\ q.block_discarded => s = [q EXCEPT !.state = "LINE_START", !.field = "none"]
               /\ (~ q.block_discarded /\ Len(q.data) # DataBufLen) => s =
                     [q EXCEPT !.state = "LINE_START", !.field = "none",
                               !.data = Append(@, "LF"), !.data_lines = @ + 1]
<1> DEFINE v == [q EXCEPT !.state = "VALUE"]
<1>1. /\ v.field = "data" /\ v.data = q.data /\ v.block_discarded = q.block_discarded
      /\ v.out = <<>> /\ q.field = "data"
  BY DEF InValue, Structs
<1>2. Parser!ProcessByte(q, "a") = Parser!DataByte(v, "a")
  <2>1. Parser!ProcessByte(q, "a") = Parser!ValueByte(v, "a")
    BY ValueRead DEF InValue
  <2> QED BY <1>1, <2>1 DEF Parser!ValueByte
<1>3. q.block_discarded => Parser!DataByte(v, "a") = v
  BY <1>1 DEF Parser!DataByte
<1>4. (~ q.block_discarded /\ Len(q.data) = DataBufLen) =>
          Parser!DataByte(v, "a") =
              [q EXCEPT !.state = "VALUE", !.block_discarded = TRUE, !.out = <<Overflow>>]
  <2>1. Append(v.out, Overflow) = <<Overflow>>
    BY <1>1, CallsAre
  <2> QED BY <1>1, <2>1 DEF Parser!DataByte, Parser!DataFull, Parser!DiscardBlock,
             Parser!EmitPerr, Parser!Emit, Overflow, Structs
<1>5. (~ q.block_discarded /\ Len(q.data) # DataBufLen) =>
          Parser!DataByte(v, "a") = [q EXCEPT !.state = "VALUE", !.data = Append(@, "a")]
  BY <1>1 DEF Parser!DataByte, Parser!DataFull, Structs
<1>6. Parser!ProcessByte(q, "LF") =
          [Parser!CommitValue(q) EXCEPT !.state = "LINE_START", !.swallow_lf = FALSE]
  BY ValueEnds DEF InValue
<1>7. Parser!CommitValue(q) = [Parser!CommitData(q) EXCEPT !.field = "none"]
  BY <1>1 DEF Parser!CommitValue
<1>8. q.block_discarded => Parser!CommitData(q) = q
  BY DEF Parser!CommitData
<1>9. (~ q.block_discarded /\ Len(q.data) # DataBufLen) =>
          Parser!CommitData(q) = [q EXCEPT !.data = Append(@, "LF"), !.data_lines = @ + 1]
  BY DEF Parser!CommitData, Parser!DataFull
<1>10. q.block_discarded => Parser!ProcessByte(q, "LF") =
          [q EXCEPT !.state = "LINE_START", !.field = "none"]
  <2>1. [[q EXCEPT !.field = "none"] EXCEPT !.state = "LINE_START", !.swallow_lf = FALSE] =
        [q EXCEPT !.state = "LINE_START", !.field = "none"]
    BY DEF Structs
  <2> QED BY <1>6, <1>7, <1>8, <2>1, Zenon
<1>11. (~ q.block_discarded /\ Len(q.data) # DataBufLen) => Parser!ProcessByte(q, "LF") =
          [q EXCEPT !.state = "LINE_START", !.field = "none",
                    !.data = Append(@, "LF"), !.data_lines = @ + 1]
  <2>1. [[[q EXCEPT !.data = Append(@, "LF"), !.data_lines = @ + 1] EXCEPT !.field = "none"]
            EXCEPT !.state = "LINE_START", !.swallow_lf = FALSE] =
        [q EXCEPT !.state = "LINE_START", !.field = "none",
                  !.data = Append(@, "LF"), !.data_lines = @ + 1]
    BY DEF Structs
  <2> QED BY <1>6, <1>7, <1>9, <2>1, Zenon
<1> QED BY <1>2, <1>3, <1>4, <1>5, <1>10, <1>11, Zenon

\* The retry field: its digit is its value, the end of the line reports it.
LEMMA RetryRead ==
    ASSUME NEW q \in Structs(<<>>), InValue(q, "retry")
    PROVE  /\ q.retry_acc = 0 => Parser!ProcessByte(q, "1") =
                  [q EXCEPT !.state = "VALUE", !.retry_seen_digit = TRUE, !.retry_acc = 1]
           /\ (q.retry_acc = 1 /\ q.retry_seen_digit) => Parser!ProcessByte(q, "LF") =
                  [q EXCEPT !.state = "LINE_START", !.field = "none", !.out = <<TheRetry>>]
<1> DEFINE v == [q EXCEPT !.state = "VALUE"]
           dv == [d \in {"1"} |-> 1]
<1>1. /\ v.field = "retry" /\ v.retry_acc = q.retry_acc /\ v.retry_invalid = FALSE
      /\ q.field = "retry" /\ q.retry_invalid = FALSE /\ q.out = <<>>
  BY DEF InValue, Structs
<1>2. "1" \in Parser!Digits /\ dv["1"] = 1
  BY DEF Parser!Digits
<1>3. q.retry_acc = 0 => Parser!Accumulate(v.retry_acc, 1) = 1
  <2>1. UINT32_MAX \in Nat /\ UINT32_MAX >= 3
    BY WidthAssumption DEF UINT32_MAX, Modulus
  <2> DEFINE m == UINT32_MAX - 1
  <2>2. m \in Nat
    BY <2>1
  <2> HIDE DEF m
  <2>3. m \div 10 \in Nat /\ ~ (0 > m \div 10)
    BY <2>2
  <2> QED BY <1>1, <2>3 DEF Parser!Accumulate, m
<1>4. q.retry_acc = 0 => Parser!RetryByte(v, "1") =
          [q EXCEPT !.state = "VALUE", !.retry_seen_digit = TRUE, !.retry_acc = 1]
  <2>1. Parser!RetryByte(v, "1") =
            [v EXCEPT !.retry_seen_digit = TRUE,
                      !.retry_acc = Parser!Accumulate(v.retry_acc, dv["1"])]
    BY <1>1, <1>2 DEF Parser!RetryByte, Structs
  <2> QED BY <1>2, <1>3, <2>1 DEF Structs
<1>5. Parser!ProcessByte(q, "1") = Parser!RetryByte(v, "1")
  <2>1. Parser!ProcessByte(q, "1") = Parser!ValueByte(v, "1")
    BY ValueRead DEF InValue
  <2> QED BY <1>1, <2>1 DEF Parser!ValueByte
<1>6. Parser!ProcessByte(q, "LF") =
          [Parser!CommitValue(q) EXCEPT !.state = "LINE_START", !.swallow_lf = FALSE]
  BY ValueEnds DEF InValue
<1>7. Parser!CommitValue(q) = [Parser!CommitRetry(q) EXCEPT !.field = "none"]
  BY <1>1 DEF Parser!CommitValue
<1>8. (q.retry_acc = 1 /\ q.retry_seen_digit) =>
          Parser!CommitRetry(q) = [q EXCEPT !.out = <<TheRetry>>]
  <2>1. Append(q.out, TheRetry) = <<TheRetry>>
    BY <1>1, CallsAre
  <2> QED BY <1>1, <2>1 DEF Parser!CommitRetry, Parser!Emit, TheRetry, Structs
<1>9. (q.retry_acc = 1 /\ q.retry_seen_digit) => Parser!ProcessByte(q, "LF") =
          [q EXCEPT !.state = "LINE_START", !.field = "none", !.out = <<TheRetry>>]
  <2>1. [[[q EXCEPT !.out = <<TheRetry>>] EXCEPT !.field = "none"]
            EXCEPT !.state = "LINE_START", !.swallow_lf = FALSE] =
        [q EXCEPT !.state = "LINE_START", !.field = "none", !.out = <<TheRetry>>]
    BY DEF Structs
  <2> QED BY <1>6, <1>7, <1>8, <2>1, Zenon
<1> QED BY <1>4, <1>5, <1>9

\* What a blank line calls, for the id and data that the block holds.
IdCall(q)    == [cb |-> "on_id", id |-> q.id]
EventCall(q) == [cb |-> "on_event", data |-> SubSeq(q.data, 1, Len(q.data) - 1),
                 has_event |-> FALSE, event |-> <<>>]

\* The blank line dispatches the block and clears it.
LEMMA BlankRead ==
    ASSUME NEW q \in Structs(<<>>), q.state = "LINE_START", q.has_id
    PROVE  Parser!ProcessByte(q, "LF") =
               [q EXCEPT !.data = <<>>, !.data_lines = 0, !.block_discarded = FALSE,
                         !.id = <<>>, !.has_id = FALSE,
                         !.out = IF ~ q.block_discarded /\ q.data_lines > 0
                                 THEN <<IdCall(q), EventCall(q)>> ELSE <<IdCall(q)>>]
<1> DEFINE w == [q EXCEPT !.out = <<IdCall(q)>>]
           c == IF ~ q.block_discarded /\ q.data_lines > 0
                THEN <<IdCall(q), EventCall(q)>> ELSE <<IdCall(q)>>
<1>1. Parser!ProcessByte(q, "LF") = [Parser!LineEnd(q) EXCEPT !.swallow_lf = FALSE]
  BY InLine DEF Symbols
<1>2. Parser!LineEnd(q) = [Parser!DispatchBlock(q) EXCEPT !.state = "LINE_START"]
  BY DEF Parser!LineEnd
<1>3. Parser!Emit(q, [cb |-> "on_id", id |-> q.id]) = w
  BY DEF Parser!Emit, IdCall, Structs
<1>4. Parser!TheEvent(q) = EventCall(q)
  BY DEF Parser!TheEvent, EventCall, Structs
<1>5. Parser!Emit(w, EventCall(q)) = [q EXCEPT !.out = <<IdCall(q), EventCall(q)>>]
  <2>1. w.out = <<IdCall(q)>>
    BY DEF Structs
  <2>2. Append(w.out, EventCall(q)) = <<IdCall(q), EventCall(q)>>
    BY <2>1, CallsAre, ZenonT(60)
  <2> QED BY <2>2 DEF Parser!Emit, Structs
<1>6. Parser!DispatchBlock(q) = Parser!ClearBlock([q EXCEPT !.out = c])
  BY <1>3, <1>4, <1>5 DEF Parser!DispatchBlock
<1> HIDE DEF c
<1>7. [[Parser!ClearBlock([q EXCEPT !.out = c]) EXCEPT !.state = "LINE_START"]
          EXCEPT !.swallow_lf = FALSE] =
      [q EXCEPT !.data = <<>>, !.data_lines = 0, !.block_discarded = FALSE,
                !.id = <<>>, !.has_id = FALSE, !.out = c]
  BY ZenonT(120) DEF Parser!ClearBlock, Structs
<1> QED BY <1>1, <1>2, <1>6, <1>7 DEF c

----------------------------------------------------------------------------
(* The inductive invariant.  Where the parser is in an event is where the   *)
(* stream is, and the fields of struct sse_parser hold what came before.    *)

TheId(k)      == [cb |-> "on_id", id |-> As(k)]
TheMessage(k) == [cb |-> "on_event", data |-> As(k), has_event |-> FALSE, event |-> <<>>]

NoId     == p.id = <<>> /\ ~ p.has_id
NoData   == p.data = <<>> /\ p.data_lines = 0 /\ ~ p.block_discarded
HasId(k) == p.id = As(k) /\ p.has_id
HasData(k) ==
    IF k \in Big THEN p.block_discarded /\ k \in reported
    ELSE p.data = Append(As(k), "LF") /\ p.data_lines = 1 /\ ~ p.block_discarded

AtIdName(k) ==
    /\ wire = FromId(k, Named(As(k)))
    /\ p.state = "FIELD_NAME" /\ p.name = "id"
    /\ NoId /\ NoData /\ p.out = <<>>

AtId(k, n) ==
    /\ wire = FromId(k, Ending(As(k - n)))
    /\ InValue(p, "id") /\ p.id = As(n) /\ ~ p.has_id
    /\ NoData /\ p.out = <<>>

AtDataLine(k) ==
    /\ wire = FromData(k, DataLine(k))
    /\ p.state = "LINE_START"
    /\ HasId(k) /\ NoData /\ p.out = <<>>

AtDataName(k) ==
    /\ wire = FromData(k, Named(As(DataLen(k))))
    /\ p.state = "FIELD_NAME" /\ p.name = "data"
    /\ HasId(k) /\ NoData /\ p.out = <<>>

\* The letter that does not fit is reported, and the rest of the data skipped.
AtData(k, n) ==
    /\ wire = FromData(k, Ending(As(DataLen(k) - n)))
    /\ InValue(p, "data") /\ HasId(k) /\ p.data_lines = 0
    /\ IF n <= DataBufLen
       THEN p.data = As(n) /\ ~ p.block_discarded /\ p.out = <<>>
       ELSE /\ p.block_discarded
            /\ p.out = <<Overflow>> \/ (p.out = <<>> /\ k \in reported)

AtRetryLine(k) ==
    /\ wire = FromRetry(k, RetryLine(k))
    /\ p.state = "LINE_START"
    /\ HasId(k) /\ HasData(k) /\ p.out = <<>>

AtRetryName(k) ==
    /\ wire = FromRetry(k, Named(<<"1">>))
    /\ p.state = "FIELD_NAME" /\ p.name = "retry"
    /\ HasId(k) /\ HasData(k) /\ p.out = <<>>

AtRetry(k) ==
    /\ wire = FromRetry(k, Ending(<<"1">>))
    /\ InValue(p, "retry") /\ p.retry_acc = 0
    /\ HasId(k) /\ HasData(k) /\ p.out = <<>>

AtRetryEnd(k) ==
    /\ wire = FromRetry(k, Ending(<<>>))
    /\ InValue(p, "retry") /\ p.retry_acc = 1 /\ p.retry_seen_digit
    /\ HasId(k) /\ HasData(k) /\ p.out = <<>>

AtBlank(k) ==
    /\ wire = FromRetry(k, <<>>)
    /\ p.state = "LINE_START"
    /\ HasId(k) /\ HasData(k) /\ p.out \in {<<>>, <<TheRetry>>}

OnLine(k) ==
    \/ AtIdName(k)   \/ \E n \in 0 .. k : AtId(k, n)
    \/ AtDataLine(k) \/ AtDataName(k) \/ \E n \in 0 .. DataLen(k) : AtData(k, n)
    \/ AtRetryLine(k) \/ AtRetryName(k) \/ AtRetry(k) \/ AtRetryEnd(k)
    \/ AtBlank(k)

\* Inside event k the client has not moved on to it yet.
InEvent(k) == current = k /\ last_event_id = k - 1 /\ OnLine(k)

\* Event k is complete: its id is committed, then its message is delivered.
Committed(k) ==
    \/ last_event_id = k /\ p.out = <<>>
    \/ /\ k \in Big /\ k \in reported
       /\ last_event_id = k - 1 /\ p.out = <<TheId(k)>>
    \/ /\ k \in (1 .. Events) \ Big
       /\ \/ last_event_id = k - 1 /\ p.out = <<TheId(k), TheMessage(k)>>
          \/ last_event_id = k /\ p.out = <<TheMessage(k)>>

AfterEvent(k) ==
    /\ wire = StreamAfter(k)
    /\ p.state \in {"BOM", "LINE_START"} /\ NoId /\ NoData
    /\ Committed(k)

StreamInv ==
    state = "OPEN" =>
        /\ p \in Structs(p.out)
        /\ \/ \E k \in 0 .. Events : AfterEvent(k)
           \/ \E k \in 1 .. Events : InEvent(k)

BytesInv ==
    /\ wire \in Seq(Sent) /\ chunk \in Nat /\ chunk <= Len(wire)
    /\ pc # "feed" => p.out = <<>>

Answered(k) == k \in reported \/ \E i \in DOMAIN delivered : delivered[i] = k

\* Exactly the events up to n are answered for.
Told(n) ==
    /\ \A i \in DOMAIN delivered : delivered[i] <= n
    /\ \A k \in 1 .. n : Answered(k)

\* Between its id and its message, an event is committed and not delivered.
MessagePending == p.out # <<>> /\ Head(p.out).cb = "on_event"
LastTold       == IF MessagePending THEN last_event_id - 1 ELSE last_event_id

HistoryInv ==
    /\ delivered \in Seq(Nat) /\ last_event_id \in 0 .. Events
    /\ InOrderOnce
    /\ state # "CLOSED" => Told(LastTold)

XInv == StreamInv /\ BytesInv /\ HistoryInv

----------------------------------------------------------------------------
(* A byte of the stream, one lemma for each place in an event. *)

\* The facts of the letters that the phases speak of.
LEMMA LettersGrow ==
    ASSUME NEW n \in Nat
    PROVE  /\ As(n) \in Seq({"a"}) /\ Len(As(n)) = n /\ As(0) = <<>>
           /\ Append(As(n), "a") = As(n + 1)
           /\ Append(As(n), "LF") \in Seq({"a", "LF"})
           /\ SubSeq(Append(As(n), "LF"), 1, Len(Append(As(n), "LF")) - 1) = As(n)
<1>1. As(n) \in Seq({"a"}) /\ Len(As(n)) = n /\ \A i \in 1 .. n : As(n)[i] = "a"
  BY DEF As
<1>2. As(0) = <<>>
  BY DEF As
<1>3. /\ As(n + 1) \in Seq({"a"}) /\ Len(As(n + 1)) = n + 1
      /\ \A i \in 1 .. n + 1 : As(n + 1)[i] = "a"
  BY DEF As
<1>4. Append(As(n), "a") = As(n + 1)
  <2> DEFINE s == As(n)
             t == As(n + 1)
  <2>1. /\ s \in Seq({"a"}) /\ Len(s) = n /\ \A i \in 1 .. n : s[i] = "a"
        /\ t \in Seq({"a"}) /\ Len(t) = n + 1 /\ \A i \in 1 .. n + 1 : t[i] = "a"
    BY <1>1, <1>3
  <2> HIDE DEF s, t
  <2>2. Append(s, "a") \in Seq({"a"}) /\ Len(Append(s, "a")) = n + 1
    BY <2>1
  <2>3. \A i \in 1 .. n + 1 : Append(s, "a")[i] = t[i]
    BY <2>1
  <2>4. Append(s, "a") = t
    BY <2>1, <2>2, <2>3, SeqEqual
  <2> QED BY <2>4 DEF s, t
<1> DEFINE s == As(n)
           d == Append(s, "LF")
           b == SubSeq(d, 1, n)
<1>5. s \in Seq({"a", "LF"}) /\ Len(s) = n
  BY <1>1
<1> HIDE DEF s
<1>6. /\ d \in Seq({"a", "LF"}) /\ Len(d) = n + 1
      /\ \A i \in 1 .. n : d[i] = s[i]
  BY <1>5
<1> HIDE DEF d
<1>7. b = s
  <2>1. b \in Seq({"a", "LF"}) /\ Len(b) = n /\ \A i \in 1 .. n : b[i] = d[i]
    BY <1>6, SubSeqProperties
  <2> HIDE DEF b
  <2> QED BY <2>1, <1>5, <1>6, SeqEqual
<1>8. SubSeq(d, 1, Len(d) - 1) = s
  BY <1>6, <1>7
<1> QED BY <1>1, <1>2, <1>4, <1>6, <1>8 DEF d, s

\* What a step of sse_parser_feed() does when the next byte is known.
LEMMA ByteFed ==
    ASSUME FeedByte, p \in Structs(p.out), NEW b, NEW k, NEW y,
           Begins(wire, [byte |-> b, of |-> k], y)
    PROVE  /\ p \in Structs(<<>>) /\ p.out = <<>> /\ p' = Parser!ProcessByte(p, b)
           /\ wire' = y /\ current' = k
           /\ last_event_id' = last_event_id /\ reported' = reported
<1>1. p.out = <<>> /\ p \in Structs(<<>>)
  BY DEF FeedByte
<1>2. [p EXCEPT !.out = <<>>] = p
  BY <1>1 DEF Structs
<1>3. Head(wire) = [byte |-> b, of |-> k] /\ Tail(wire) = y
  BY DEF Begins
<1>4. p' = Parser!ProcessByte([p EXCEPT !.out = <<>>], Head(wire).byte)
  BY DEF FeedByte, Parser!Feed
<1> QED BY <1>1, <1>2, <1>3, <1>4 DEF FeedByte, vars, client, told

\* The next event begins with its id field.
LEMMA EventBegins ==
    ASSUME FeedByte, p \in Structs(p.out), NEW k \in 1 .. Events, AfterEvent(k - 1)
    PROVE  /\ p' \in Structs(p'.out)
           /\ current' = k /\ last_event_id = k - 1 /\ AtIdName(k)'
<1>1. Begins(wire, [byte |-> "id", of |-> k], FromId(k, Named(As(k))))
  BY NextLine DEF AfterEvent
<1>2. /\ p \in Structs(<<>>) /\ p.out = <<>> /\ p' = Parser!ProcessByte(p, "id")
      /\ wire' = FromId(k, Named(As(k))) /\ current' = k
  BY <1>1, ByteFed
<1>3. p' = [p EXCEPT !.state = "FIELD_NAME", !.name = "id"]
  BY <1>2, NameRead DEF AfterEvent
<1>4. p' \in Structs(<<>>) /\ p'.out = <<>>
  BY <1>2, <1>3 DEF Structs
<1>5. p'.state = "FIELD_NAME" /\ p'.name = "id" /\ NoId' /\ NoData'
  BY <1>2, <1>3 DEF Structs, AfterEvent, NoId, NoData
<1>6. last_event_id = k - 1
  BY <1>2 DEF AfterEvent, Committed
<1> QED BY <1>2, <1>4, <1>5, <1>6 DEF AtIdName

\* The colon of the id line.
LEMMA IdNamed ==
    ASSUME FeedByte, p \in Structs(p.out), NEW k \in 1 .. Events, AtIdName(k)
    PROVE  p' \in Structs(p'.out) /\ current' = k /\ AtId(k, 0)'
<1>1. Begins(wire, [byte |-> "COLON", of |-> k], FromId(k, Ending(As(k))))
  <2>1. As(k) \in Seq(Symbols) /\ "id" \in Symbols
    BY LinesAre, LettersAre DEF Symbols
  <2>2. Named(As(k)) \in Seq(Symbols) /\ Begins(Named(As(k)), "COLON", Ending(As(k)))
    BY <2>1, LineBegins
  <2> QED BY <2>2, LinesBegin DEF AtIdName
<1>2. /\ p \in Structs(<<>>) /\ p.out = <<>> /\ p' = Parser!ProcessByte(p, "COLON")
      /\ wire' = FromId(k, Ending(As(k))) /\ current' = k
  BY <1>1, ByteFed
<1>3. p' = [p EXCEPT !.state = "AFTER_COLON", !.field = "id", !.id = <<>>]
  BY <1>2, ColonRead DEF AtIdName
<1>4. p' \in Structs(<<>>) /\ p'.out = <<>>
  <2>1. <<>> \in Seq({"a"})
    OBVIOUS
  <2> QED BY <1>2, <1>3, <2>1, ZenonT(60) DEF Structs
<1>5. InValue(p', "id") /\ p'.id = <<>> /\ ~ p'.has_id /\ NoData'
  BY <1>2, <1>3 DEF Structs, AtIdName, NoId, NoData, InValue
<1>6. As(0) = <<>> /\ k - 0 = k
  BY DEF As
<1> QED BY <1>2, <1>4, <1>5, <1>6 DEF AtId

\* A letter of the id, and the end of its line.
LEMMA IdFed ==
    ASSUME FeedByte, p \in Structs(p.out), NEW k \in 1 .. Events, NEW n \in 0 .. k,
           AtId(k, n)
    PROVE  /\ p' \in Structs(p'.out) /\ current' = k
           /\ n < k => AtId(k, n + 1)'
           /\ n = k => AtDataLine(k)'
<1>1. k \in Nat /\ n \in Nat /\ k - n \in Nat /\ Len(p.id) = n
  BY LinesAre, LettersGrow DEF AtId
<1>2. CASE n < k
  <2> DEFINE m == k - (n + 1)
  <2>1. m \in Nat /\ m + 1 = k - n
    BY <1>1, <1>2
  <2> HIDE DEF m
  <2>2. Begins(Ending(As(m + 1)), "a", Ending(As(m))) /\ Ending(As(m + 1)) \in Seq(Symbols)
    <3>1. As(m + 1) \in Seq(Symbols) /\ "id" \in Symbols
      BY <2>1, LettersAre DEF Symbols
    <3> QED BY <3>1, <2>1, LettersAre, LineBegins
  <2>3. Begins(wire, [byte |-> "a", of |-> k], FromId(k, Ending(As(m))))
    BY <2>1, <2>2, LinesBegin DEF AtId
  <2>4. /\ p \in Structs(<<>>) /\ p.out = <<>> /\ p' = Parser!ProcessByte(p, "a")
        /\ wire' = FromId(k, Ending(As(m))) /\ current' = k
    BY <2>3, ByteFed
  <2>5. Len(p.id) + 1 < IdBufLen
    BY <1>1, <1>2, StreamAssumption, ConfigAssumption
  <2>6. p' = [p EXCEPT !.state = "VALUE", !.id = Append(@, "a")]
    BY <2>4, <2>5, IdRead DEF AtId
  <2> DEFINE i == As(n + 1)
  <2>7. Append(p.id, "a") = i /\ i \in Seq({"a"})
    <3>1. Append(As(n), "a") = As(n + 1) /\ n + 1 \in Nat
      BY <1>1, LettersGrow
    <3>2. As(n + 1) \in Seq({"a"})
      BY <3>1, LettersGrow
    <3> QED BY <3>1, <3>2 DEF AtId
  <2> HIDE DEF i
  <2>12. p' = [p EXCEPT !.state = "VALUE", !.id = i]
    BY <2>6, <2>7, Zenon
  <2>8. p' \in Structs(<<>>) /\ p'.out = <<>> /\ p'.id = i
    BY <2>4, <2>7, <2>12 DEF Structs
  <2>9. InValue(p', "id") /\ ~ p'.has_id /\ NoData'
    BY <2>4, <2>6 DEF Structs, AtId, NoData, InValue
  <2>10. AtId(k, n + 1)'
    BY <2>4, <2>8, <2>9 DEF AtId, m, i
  <2> QED BY <1>2, <2>4, <2>8, <2>10
<1>3. CASE n = k
  <2>1. k - n = 0
    BY <1>1, <1>3
  <2>2. Begins(Ending(As(0)), "LF", <<>>) /\ Ending(As(0)) \in Seq(Symbols)
    <3>1. As(0) \in Seq(Symbols) /\ "id" \in Symbols
      BY LettersAre DEF Symbols
    <3> QED BY <3>1, LettersAre, LineBegins
  <2>3. Begins(wire, [byte |-> "LF", of |-> k], FromId(k, <<>>))
    BY <2>1, <2>2, LinesBegin DEF AtId
  <2>4. /\ p \in Structs(<<>>) /\ p.out = <<>> /\ p' = Parser!ProcessByte(p, "LF")
        /\ wire' = FromId(k, <<>>) /\ current' = k
    BY <2>3, ByteFed
  <2>5. p' = [p EXCEPT !.state = "LINE_START", !.field = "none", !.has_id = TRUE]
    BY <2>4, IdRead DEF AtId
  <2>6. p' \in Structs(<<>>) /\ p'.out = <<>> /\ p'.state = "LINE_START"
    BY <2>4, <2>5 DEF Structs
  <2>7. HasId(k)' /\ NoData'
    BY <1>3, <2>4, <2>5 DEF Structs, AtId, HasId, NoData
  <2>8. wire' = FromData(k, DataLine(k))
    BY <2>4, NextLine
  <2> QED BY <1>1, <1>3, <2>4, <2>6, <2>7, <2>8 DEF AtDataLine
<1> QED BY <1>1, <1>2, <1>3

\* The name of the data field.
LEMMA DataStarts ==
    ASSUME FeedByte, p \in Structs(p.out), NEW k \in 1 .. Events, AtDataLine(k)
    PROVE  p' \in Structs(p'.out) /\ current' = k /\ AtDataName(k)'
<1>1. Begins(wire, [byte |-> "data", of |-> k], FromData(k, Named(As(DataLen(k)))))
  BY LinesAre, LinesBegin DEF AtDataLine
<1>2. /\ p \in Structs(<<>>) /\ p.out = <<>> /\ p' = Parser!ProcessByte(p, "data")
      /\ wire' = FromData(k, Named(As(DataLen(k)))) /\ current' = k
  BY <1>1, ByteFed
<1>3. p' = [p EXCEPT !.state = "FIELD_NAME", !.name = "data"]
  BY <1>2, NameRead DEF AtDataLine
<1>4. p' \in Structs(<<>>) /\ p'.out = <<>>
  BY <1>2, <1>3 DEF Structs
<1>5. p'.state = "FIELD_NAME" /\ p'.name = "data" /\ HasId(k)' /\ NoData'
  BY <1>2, <1>3 DEF Structs, AtDataLine, HasId, NoData
<1> QED BY <1>2, <1>4, <1>5 DEF AtDataName

\* The colon of the data line.
LEMMA DataNamed ==
    ASSUME FeedByte, p \in Structs(p.out), NEW k \in 1 .. Events, AtDataName(k)
    PROVE  p' \in Structs(p'.out) /\ current' = k /\ AtData(k, 0)'
<1> DEFINE d == DataLen(k)
<1>1. d \in Nat /\ d - 0 = d
  BY LinesAre
<1> HIDE DEF d
<1>2. Begins(wire, [byte |-> "COLON", of |-> k], FromData(k, Ending(As(d))))
  <2>1. As(d) \in Seq(Symbols) /\ "data" \in Symbols
    BY <1>1, LettersAre DEF Symbols
  <2>2. Named(As(d)) \in Seq(Symbols) /\ Begins(Named(As(d)), "COLON", Ending(As(d)))
    BY <2>1, LineBegins
  <2> QED BY <2>2, LinesBegin DEF AtDataName, d
<1>3. /\ p \in Structs(<<>>) /\ p.out = <<>> /\ p' = Parser!ProcessByte(p, "COLON")
      /\ wire' = FromData(k, Ending(As(d))) /\ current' = k
  BY <1>2, ByteFed
<1>4. p' = [p EXCEPT !.state = "AFTER_COLON", !.field = "data"]
  BY <1>3, ColonRead DEF AtDataName
<1>5. p' \in Structs(<<>>) /\ p'.out = <<>>
  BY <1>3, <1>4 DEF Structs
<1>6. InValue(p', "data") /\ HasId(k)' /\ NoData'
  BY <1>3, <1>4 DEF Structs, AtDataName, HasId, NoData, InValue
<1>7. As(0) = <<>> /\ 0 <= DataBufLen
  BY StreamAssumption DEF As
<1> QED BY <1>1, <1>3, <1>5, <1>6, <1>7 DEF AtData, NoData, d

\* A letter of the data that fits, and the first that does not.
LEMMA DataFed ==
    ASSUME FeedByte, p \in Structs(p.out), NEW k \in 1 .. Events,
           NEW n \in 0 .. DataLen(k), n < DataLen(k), AtData(k, n)
    PROVE  p' \in Structs(p'.out) /\ current' = k /\ AtData(k, n + 1)'
<1> DEFINE m == DataLen(k) - (n + 1)
<1>1. /\ DataLen(k) \in Nat /\ n \in Nat /\ m \in Nat /\ m + 1 = DataLen(k) - n
      /\ DataBufLen \in Nat
  BY LinesAre, StreamAssumption
<1>2. n <= DataBufLen
  BY <1>1, StreamAssumption DEF DataLen
<1> HIDE DEF m
<1>3. Begins(Ending(As(m + 1)), "a", Ending(As(m))) /\ Ending(As(m + 1)) \in Seq(Symbols)
  <2>1. As(m + 1) \in Seq(Symbols) /\ "data" \in Symbols
    BY <1>1, LettersAre DEF Symbols
  <2> QED BY <2>1, <1>1, LettersAre, LineBegins
<1>4. Begins(wire, [byte |-> "a", of |-> k], FromData(k, Ending(As(m))))
  BY <1>1, <1>3, LinesBegin DEF AtData
<1>5. /\ p \in Structs(<<>>) /\ p.out = <<>> /\ p' = Parser!ProcessByte(p, "a")
      /\ wire' = FromData(k, Ending(As(m))) /\ current' = k
  BY <1>4, ByteFed
<1>6. InValue(p, "data") /\ HasId(k) /\ p.data_lines = 0 /\ p.data = As(n) /\ ~ p.block_discarded
  BY <1>2 DEF AtData
<1>7. Len(p.data) = n
  BY <1>1, <1>6, LettersGrow
<1>8. CASE n = DataBufLen
  <2>1. p' = [p EXCEPT !.state = "VALUE", !.block_discarded = TRUE, !.out = <<Overflow>>]
    BY <1>5, <1>6, <1>7, <1>8, DataRead
  <2>2. p' \in Structs(<<Overflow>>) /\ p'.out = <<Overflow>>
    BY <1>5, <2>1 DEF Structs
  <2>3. InValue(p', "data") /\ HasId(k)' /\ p'.data_lines = 0 /\ p'.block_discarded
    BY <1>5, <1>6, <2>1 DEF Structs, HasId, InValue
  <2>4. ~ (n + 1 <= DataBufLen)
    BY <1>1, <1>8
  <2> QED BY <1>5, <2>2, <2>3, <2>4 DEF AtData, m
<1>9. CASE n # DataBufLen
  <2> DEFINE i == As(n + 1)
  <2>1. Append(p.data, "a") = i /\ i \in Seq({"a", "LF"})
    <3>1. Append(As(n), "a") = As(n + 1) /\ n + 1 \in Nat
      BY <1>1, LettersGrow
    <3>2. As(n + 1) \in Seq({"a"})
      BY <3>1, LettersGrow
    <3> QED BY <1>6, <3>1, <3>2
  <2> HIDE DEF i
  <2>2. p' = [p EXCEPT !.state = "VALUE", !.data = Append(@, "a")]
    BY <1>5, <1>6, <1>7, <1>9, DataRead
  <2>3. p' = [p EXCEPT !.state = "VALUE", !.data = i]
    BY <2>1, <2>2, Zenon
  <2>4. p' \in Structs(<<>>) /\ p'.out = <<>> /\ p'.data = i
    BY <1>5, <2>1, <2>3, ZenonT(60) DEF Structs
  <2>5. InValue(p', "data") /\ HasId(k)' /\ p'.data_lines = 0 /\ ~ p'.block_discarded
    BY <1>5, <1>6, <2>3 DEF Structs, HasId, InValue
  <2>6. n + 1 <= DataBufLen
    BY <1>1, <1>2, <1>9
  <2> QED BY <1>5, <2>4, <2>5, <2>6 DEF AtData, m, i
<1> QED BY <1>8, <1>9

\* The end of the data line.
LEMMA DataEnds ==
    ASSUME FeedByte, p \in Structs(p.out), NEW k \in 1 .. Events, AtData(k, DataLen(k))
    PROVE  p' \in Structs(p'.out) /\ current' = k /\ AtRetryLine(k)'
<1>1. /\ DataLen(k) \in Nat /\ DataLen(k) - DataLen(k) = 0 /\ k \in Nat
      /\ DataBufLen \in Nat
  BY LinesAre, StreamAssumption
<1>2. Begins(Ending(As(0)), "LF", <<>>) /\ Ending(As(0)) \in Seq(Symbols)
  <2>1. As(0) \in Seq(Symbols) /\ "data" \in Symbols
    BY LettersAre DEF Symbols
  <2> QED BY <2>1, LettersAre, LineBegins
<1>3. Begins(wire, [byte |-> "LF", of |-> k], FromData(k, <<>>))
  BY <1>1, <1>2, LinesBegin DEF AtData
<1>4. /\ p \in Structs(<<>>) /\ p.out = <<>> /\ p' = Parser!ProcessByte(p, "LF")
      /\ wire' = FromData(k, <<>>) /\ current' = k /\ reported' = reported
  BY <1>3, ByteFed
<1>5. wire' = FromRetry(k, RetryLine(k))
  BY <1>4, NextLine
<1>6. InValue(p, "data") /\ HasId(k) /\ p.data_lines = 0
  BY DEF AtData
<1>7. CASE k \in Big
  <2>1. ~ (DataLen(k) <= DataBufLen)
    BY <1>1, <1>7 DEF DataLen
  <2>2. p.block_discarded /\ k \in reported
    BY <1>4, <2>1 DEF AtData, Overflow
  <2>3. p' = [p EXCEPT !.state = "LINE_START", !.field = "none"]
    BY <1>4, <1>6, <2>2, DataRead
  <2>4. p' \in Structs(<<>>) /\ p'.out = <<>> /\ p'.state = "LINE_START"
    BY <1>4, <2>3 DEF Structs
  <2>5. HasId(k)' /\ HasData(k)'
    BY <1>4, <1>6, <1>7, <2>2, <2>3 DEF Structs, HasId, HasData
  <2> QED BY <1>4, <1>5, <2>4, <2>5 DEF AtRetryLine
<1>8. CASE k \notin Big
  <2>1. DataLen(k) = k /\ k <= DataBufLen /\ k # DataBufLen
    BY <1>1, <1>8, StreamAssumption DEF DataLen
  <2>2. p.data = As(k) /\ ~ p.block_discarded
    BY <2>1 DEF AtData
  <2>3. Len(p.data) # DataBufLen
    BY <1>1, <2>1, <2>2, LettersGrow
  <2> DEFINE i == Append(As(k), "LF")
  <2>4. i \in Seq({"a", "LF"})
    BY <1>1, LettersGrow
  <2> HIDE DEF i
  <2>5. p' = [p EXCEPT !.state = "LINE_START", !.field = "none",
                       !.data = Append(@, "LF"), !.data_lines = @ + 1]
    BY <1>4, <1>6, <2>2, <2>3, DataRead
  <2>6. p' = [p EXCEPT !.state = "LINE_START", !.field = "none", !.data = i, !.data_lines = 1]
    <3>1. Append(p.data, "LF") = i /\ p.data_lines + 1 = 1
      BY <1>6, <2>2 DEF i
    <3> QED BY <2>5, <3>1, Zenon
  <2>7. p' \in Structs(<<>>) /\ p'.out = <<>> /\ p'.state = "LINE_START"
    BY <1>4, <2>4, <2>6, ZenonT(60) DEF Structs
  <2>8. HasId(k)' /\ p'.data = i /\ p'.data_lines = 1 /\ ~ p'.block_discarded
    BY <1>4, <1>6, <2>2, <2>6, ZenonT(60) DEF Structs, HasId
  <2>9. HasData(k)'
    BY <1>8, <2>8 DEF HasData, i
  <2> QED BY <1>4, <1>5, <2>7, <2>8, <2>9 DEF AtRetryLine
<1> QED BY <1>7, <1>8

\* The name of the retry field, when there is one.
LEMMA RetryStarts ==
    ASSUME FeedByte, p \in Structs(p.out), NEW k \in 1 .. Events, k = Events,
           AtRetryLine(k)
    PROVE  p' \in Structs(p'.out) /\ current' = k /\ AtRetryName(k)'
<1>1. Begins(wire, [byte |-> "retry", of |-> k], FromRetry(k, Named(<<"1">>)))
  BY LinesAre, LinesBegin DEF AtRetryLine
<1>2. /\ p \in Structs(<<>>) /\ p.out = <<>> /\ p' = Parser!ProcessByte(p, "retry")
      /\ wire' = FromRetry(k, Named(<<"1">>)) /\ current' = k /\ reported' = reported
  BY <1>1, ByteFed
<1>3. p' = [p EXCEPT !.state = "FIELD_NAME", !.name = "retry"]
  BY <1>2, NameRead DEF AtRetryLine
<1>4. p' \in Structs(<<>>) /\ p'.out = <<>> /\ p'.state = "FIELD_NAME" /\ p'.name = "retry"
  BY <1>2, <1>3 DEF Structs
<1>5. HasId(k)' /\ HasData(k)'
  BY <1>2, <1>3, ZenonT(60) DEF Structs, AtRetryLine, HasId, HasData
<1> QED BY <1>2, <1>4, <1>5 DEF AtRetryName

\* The colon of the retry line.
LEMMA RetryNamed ==
    ASSUME FeedByte, p \in Structs(p.out), NEW k \in 1 .. Events, AtRetryName(k)
    PROVE  p' \in Structs(p'.out) /\ current' = k /\ AtRetry(k)'
<1>1. Begins(wire, [byte |-> "COLON", of |-> k], FromRetry(k, Ending(<<"1">>)))
  <2>1. <<"1">> \in Seq(Symbols) /\ "retry" \in Symbols
    BY DigitIs DEF Symbols
  <2>2. Named(<<"1">>) \in Seq(Symbols) /\ Begins(Named(<<"1">>), "COLON", Ending(<<"1">>))
    BY <2>1, LineBegins
  <2> QED BY <2>2, LinesBegin DEF AtRetryName
<1>2. /\ p \in Structs(<<>>) /\ p.out = <<>> /\ p' = Parser!ProcessByte(p, "COLON")
      /\ wire' = FromRetry(k, Ending(<<"1">>)) /\ current' = k /\ reported' = reported
  BY <1>1, ByteFed
<1>3. p' = [p EXCEPT !.state = "AFTER_COLON", !.field = "retry",
                     !.retry_acc = 0, !.retry_seen_digit = FALSE]
  BY <1>2, ColonRead DEF AtRetryName
<1>4. p' \in Structs(<<>>) /\ p'.out = <<>> /\ InValue(p', "retry") /\ p'.retry_acc = 0
  BY <1>2, <1>3 DEF Structs, InValue
<1>5. HasId(k)' /\ HasData(k)'
  BY <1>2, <1>3, ZenonT(60) DEF Structs, AtRetryName, HasId, HasData
<1> QED BY <1>2, <1>4, <1>5 DEF AtRetry

\* The digit of the retry line.
LEMMA RetryFed ==
    ASSUME FeedByte, p \in Structs(p.out), NEW k \in 1 .. Events, AtRetry(k)
    PROVE  p' \in Structs(p'.out) /\ current' = k /\ AtRetryEnd(k)'
<1>1. Begins(wire, [byte |-> "1", of |-> k], FromRetry(k, Ending(<<>>)))
  <2>1. <<"1">> \in Seq(Symbols) /\ "retry" \in Symbols
    BY DigitIs DEF Symbols
  <2>2. Ending(<<"1">>) \in Seq(Symbols)
    BY <2>1, LineBegins
  <2> QED BY <2>2, DigitIs, LinesBegin DEF AtRetry
<1>2. /\ p \in Structs(<<>>) /\ p.out = <<>> /\ p' = Parser!ProcessByte(p, "1")
      /\ wire' = FromRetry(k, Ending(<<>>)) /\ current' = k /\ reported' = reported
  BY <1>1, ByteFed
<1>3. p' = [p EXCEPT !.state = "VALUE", !.retry_seen_digit = TRUE, !.retry_acc = 1]
  BY <1>2, RetryRead DEF AtRetry
<1>4. /\ p' \in Structs(<<>>) /\ p'.out = <<>> /\ InValue(p', "retry")
      /\ p'.retry_acc = 1 /\ p'.retry_seen_digit
  BY <1>2, <1>3, ZenonT(60) DEF Structs, InValue, AtRetry
<1>5. HasId(k)' /\ HasData(k)'
  BY <1>2, <1>3, ZenonT(60) DEF Structs, AtRetry, HasId, HasData
<1> QED BY <1>2, <1>4, <1>5 DEF AtRetryEnd

\* The end of the retry line.
LEMMA RetryEnds ==
    ASSUME FeedByte, p \in Structs(p.out), NEW k \in 1 .. Events, AtRetryEnd(k)
    PROVE  p' \in Structs(p'.out) /\ current' = k /\ AtBlank(k)'
<1>1. Begins(wire, [byte |-> "LF", of |-> k], FromRetry(k, <<>>))
  <2>1. <<>> \in Seq(Symbols) /\ "retry" \in Symbols
    BY DigitIs DEF Symbols
  <2>2. Ending(<<>>) \in Seq(Symbols)
    BY <2>1, LineBegins
  <2> QED BY <2>2, DigitIs, LinesBegin DEF AtRetryEnd
<1>2. /\ p \in Structs(<<>>) /\ p.out = <<>> /\ p' = Parser!ProcessByte(p, "LF")
      /\ wire' = FromRetry(k, <<>>) /\ current' = k /\ reported' = reported
  BY <1>1, ByteFed
<1>3. p' = [p EXCEPT !.state = "LINE_START", !.field = "none", !.out = <<TheRetry>>]
  BY <1>2, RetryRead DEF AtRetryEnd
<1>4. p' \in Structs(<<TheRetry>>) /\ p'.out = <<TheRetry>> /\ p'.state = "LINE_START"
  BY <1>2, <1>3 DEF Structs
<1>5. HasId(k)' /\ HasData(k)'
  BY <1>2, <1>3, ZenonT(60) DEF Structs, AtRetryEnd, HasId, HasData
<1> QED BY <1>2, <1>4, <1>5 DEF AtBlank

\* Before the blank line there is no retry field left.
LEMMA NoRetryLeft ==
    ASSUME NEW k \in 1 .. Events, k # Events, AtRetryLine(k)
    PROVE  AtBlank(k)
BY LinesAre DEF AtRetryLine, AtBlank

\* The blank line completes the event.
LEMMA BlankFed ==
    ASSUME FeedByte, p \in Structs(p.out), NEW k \in 1 .. Events, AtBlank(k),
           last_event_id = k - 1
    PROVE  p' \in Structs(p'.out) /\ AfterEvent(k)'
<1>1. Begins(wire, [byte |-> "LF", of |-> k], StreamAfter(k))
  BY NextLine DEF AtBlank
<1>2. /\ p \in Structs(<<>>) /\ p.out = <<>> /\ p' = Parser!ProcessByte(p, "LF")
      /\ wire' = StreamAfter(k) /\ reported' = reported /\ last_event_id' = k - 1
  BY <1>1, ByteFed
<1> DEFINE c == IF ~ p.block_discarded /\ p.data_lines > 0
                THEN <<IdCall(p), EventCall(p)>> ELSE <<IdCall(p)>>
<1>3. p' = [p EXCEPT !.data = <<>>, !.data_lines = 0, !.block_discarded = FALSE,
                     !.id = <<>>, !.has_id = FALSE, !.out = c]
  BY <1>2, BlankRead DEF AtBlank, HasId
<1>4. HasId(k) /\ HasData(k) /\ p.state = "LINE_START" /\ k \in Nat
  BY LinesAre DEF AtBlank
<1>5. IdCall(p) = TheId(k)
  BY <1>4 DEF IdCall, TheId, HasId
<1> HIDE DEF c
<1>6. p' \in Structs(c) /\ p'.out = c
  <2>1. <<>> \in Seq({"a"}) /\ <<>> \in Seq({"a", "LF"})
    OBVIOUS
  <2> QED BY <1>2, <1>3, <2>1, ZenonT(60) DEF Structs
<1>7. NoId' /\ NoData' /\ p'.state = "LINE_START"
  BY <1>2, <1>3, <1>4 DEF Structs, NoId, NoData
<1>8. Committed(k)'
  <2>1. CASE k \in Big
    <3>1. c = <<TheId(k)>> /\ k \in reported
      BY <1>4, <1>5, <2>1 DEF HasData, c
    <3> QED BY <1>2, <1>6, <2>1, <3>1 DEF Committed
  <2>2. CASE k \notin Big
    <3>1. p.data = Append(As(k), "LF") /\ p.data_lines = 1 /\ ~ p.block_discarded
      BY <1>4, <2>2 DEF HasData
    <3>2. EventCall(p) = TheMessage(k)
      BY <1>4, <3>1, LettersGrow DEF EventCall, TheMessage
    <3>3. c = <<TheId(k), TheMessage(k)>>
      BY <1>5, <3>1, <3>2 DEF c
    <3> QED BY <1>2, <1>6, <2>2, <3>3 DEF Committed
  <2> QED BY <2>1, <2>2
<1> QED BY <1>2, <1>6, <1>7, <1>8 DEF AfterEvent

\* A message is called after the id of its event.
LEMMA NoMessageInside ==
    ASSUME NEW k \in 1 .. Events, InEvent(k)'
    PROVE  ~ MessagePending'
<1>1. p'.out \in {<<>>, <<Overflow>>, <<TheRetry>>}
  BY DEF InEvent, OnLine, AtIdName, AtId, AtDataLine, AtDataName, AtData, AtRetryLine,
         AtRetryName, AtRetry, AtRetryEnd, AtBlank
<1>2. Head(<<Overflow>>).cb = "on_error" /\ Head(<<TheRetry>>).cb = "on_retry"
  BY CallsAre DEF Overflow, TheRetry
<1> QED BY <1>1, <1>2 DEF MessagePending

\* Nor does the blank line call the message first.
LEMMA IdComesFirst ==
    ASSUME NEW k \in 1 .. Events, AfterEvent(k)', last_event_id' = k - 1
    PROVE  ~ MessagePending'
<1>1. k - 1 # k
  BY LinesAre
<1>2. p'.out \in {<<TheId(k)>>, <<TheId(k), TheMessage(k)>>}
  BY <1>1 DEF AfterEvent, Committed
<1>3. Head(<<TheId(k)>>) = TheId(k) /\ Head(<<TheId(k), TheMessage(k)>>) = TheId(k)
  BY CallsAre, Zenon
<1>4. TheId(k).cb = "on_id"
  BY DEF TheId
<1> QED BY <1>2, <1>3, <1>4 DEF MessagePending

\* Every byte moves the parser on in the stream.
LEMMA FeedStream ==
    ASSUME FeedByte, StreamInv, BytesInv
    PROVE  StreamInv' /\ (state = "OPEN" => ~ MessagePending')
<1> SUFFICES ASSUME state' = "OPEN"
             PROVE  /\ p' \in Structs(p'.out) /\ ~ MessagePending'
                    /\ \/ \E k \in 0 .. Events : AfterEvent(k)'
                       \/ \E k \in 1 .. Events : InEvent(k)'
  BY DEF StreamInv, FeedByte, vars, client
<1>1. state = "OPEN" /\ last_event_id' = last_event_id /\ p.out = <<>> /\ wire # <<>>
  BY DEF FeedByte, vars, client, BytesInv
<1>2. p \in Structs(p.out)
  BY <1>1 DEF StreamInv
<1>3. ASSUME NEW k \in 0 .. Events, AfterEvent(k)
      PROVE  /\ p' \in Structs(p'.out) /\ ~ MessagePending'
             /\ \E j \in 1 .. Events : InEvent(j)'
  <2>1. k \in Nat /\ Events \in Nat /\ k # Events
    BY <1>1, <1>3, StreamAssumption, StreamIs DEF AfterEvent
  <2>2. k + 1 \in 1 .. Events /\ (k + 1) - 1 = k
    BY <2>1
  <2>3. p' \in Structs(p'.out) /\ current' = k + 1 /\ last_event_id = k /\ AtIdName(k + 1)'
    BY <1>2, <1>3, <2>2, EventBegins
  <2>4. InEvent(k + 1)'
    BY <1>1, <2>2, <2>3 DEF InEvent, OnLine
  <2> QED BY <2>2, <2>3, <2>4, NoMessageInside
<1>4. ASSUME NEW k \in 1 .. Events, InEvent(k)
      PROVE  /\ p' \in Structs(p'.out) /\ ~ MessagePending'
             /\ \/ AfterEvent(k)'
                \/ InEvent(k)'
  <2>1. last_event_id = k - 1 /\ last_event_id' = k - 1 /\ OnLine(k)
    BY <1>1, <1>4 DEF InEvent
  <2> DEFINE Moved == current' = k /\ OnLine(k)'
  <2>2. SUFFICES p' \in Structs(p'.out) /\ (AfterEvent(k)' \/ Moved)
    BY <2>1, NoMessageInside, IdComesFirst DEF InEvent
  <2>3. CASE AtIdName(k)
    <3>1. p' \in Structs(p'.out) /\ current' = k /\ AtId(k, 0)' /\ 0 \in 0 .. k
      BY <1>2, <2>3, IdNamed
    <3> QED BY <3>1 DEF OnLine
  <2>4. ASSUME NEW n \in 0 .. k, AtId(k, n) PROVE p' \in Structs(p'.out) /\ Moved
    <3>1. CASE n < k
      <4>1. p' \in Structs(p'.out) /\ current' = k /\ AtId(k, n + 1)' /\ n + 1 \in 0 .. k
        BY <1>2, <2>4, <3>1, IdFed
      <4> QED BY <4>1 DEF OnLine
    <3>2. CASE n = k
      BY <1>2, <2>4, <3>2, IdFed DEF OnLine
    <3> QED BY <3>1, <3>2
  <2>5. CASE AtDataLine(k)
    BY <1>2, <2>5, DataStarts DEF OnLine
  <2>6. CASE AtDataName(k)
    <3>1. p' \in Structs(p'.out) /\ current' = k /\ AtData(k, 0)' /\ 0 \in 0 .. DataLen(k)
      BY <1>2, <2>6, DataNamed, LinesAre
    <3> QED BY <3>1 DEF OnLine
  <2>7. ASSUME NEW n \in 0 .. DataLen(k), AtData(k, n) PROVE p' \in Structs(p'.out) /\ Moved
    <3>1. DataLen(k) \in Nat
      BY LinesAre
    <3>2. CASE n < DataLen(k)
      <4>1. /\ p' \in Structs(p'.out) /\ current' = k /\ AtData(k, n + 1)'
            /\ n + 1 \in 0 .. DataLen(k)
        BY <1>2, <2>7, <3>1, <3>2, DataFed
      <4> QED BY <4>1 DEF OnLine
    <3>3. CASE n = DataLen(k)
      BY <1>2, <2>7, <3>3, DataEnds DEF OnLine
    <3> QED BY <3>1, <3>2, <3>3
  <2>8. ASSUME AtBlank(k) PROVE p' \in Structs(p'.out) /\ AfterEvent(k)'
    BY <1>2, <2>1, <2>8, BlankFed
  <2>9. CASE AtRetryLine(k)
    <3>1. CASE k = Events
      BY <1>2, <2>9, <3>1, RetryStarts DEF OnLine
    <3>2. CASE k # Events
      BY <2>8, <2>9, <3>2, NoRetryLeft
    <3> QED BY <3>1, <3>2
  <2>10. CASE AtRetryName(k)
    BY <1>2, <2>10, RetryNamed DEF OnLine
  <2>11. CASE AtRetry(k)
    BY <1>2, <2>11, RetryFed DEF OnLine
  <2>12. CASE AtRetryEnd(k)
    BY <1>2, <2>12, RetryEnds DEF OnLine
  <2> HIDE DEF Moved
  <2> QED BY <2>1, <2>3, <2>4, <2>5, <2>6, <2>7, <2>8, <2>9, <2>10, <2>11, <2>12 DEF OnLine
<1> QED BY <1>1, <1>3, <1>4 DEF StreamInv

----------------------------------------------------------------------------
(* The other steps of the stream. *)

\* Nothing told is forgotten.
LEMMA ToldStays ==
    ASSUME NEW n \in Nat, Told(n), delivered' = delivered, reported \subseteq reported'
    PROVE  Told(n)'
BY DEF Told, Answered

\* The order of what was delivered stays.
LEMMA OrderStays == ASSUME InOrderOnce, delivered' = delivered PROVE InOrderOnce'
BY DEF InOrderOnce

\* The four calls of the parser on this stream, at their places.
Calls(k) ==
    \/ /\ InEvent(k) /\ p.out = <<Overflow>>
       /\ AtData(k, DataLen(k)) /\ ~ (DataLen(k) <= DataBufLen)
    \/ InEvent(k) /\ p.out = <<TheRetry>> /\ AtBlank(k)
    \/ AfterEvent(k) /\ p.out # <<>>

LEMMA CallsOnly ==
    ASSUME StreamInv, state = "OPEN", p.out # <<>>
    PROVE  \E k \in 1 .. Events : Calls(k)
<1>1. CASE \E k \in 0 .. Events : AfterEvent(k)
  <2>1. PICK k \in 0 .. Events : AfterEvent(k)
    BY <1>1
  <2>2. k \in 1 .. Events
    BY <2>1, StreamAssumption DEF AfterEvent, Committed
  <2> QED BY <2>1, <2>2 DEF Calls
<1>2. CASE \E k \in 1 .. Events : InEvent(k)
  <2>1. PICK k \in 1 .. Events : InEvent(k)
    BY <1>2
  <2>2. CASE \E n \in 0 .. DataLen(k) : AtData(k, n)
    <3>1. PICK n \in 0 .. DataLen(k) : AtData(k, n)
      BY <2>2
    <3>2. ~ (n <= DataBufLen) /\ p.out = <<Overflow>>
      BY <3>1 DEF AtData
    <3>3. n = DataLen(k)
      BY <3>2, LinesAre, StreamAssumption DEF DataLen
    <3> QED BY <2>1, <3>1, <3>2, <3>3 DEF Calls
  <2>3. CASE AtBlank(k)
    BY <2>1, <2>3 DEF Calls, AtBlank
  <2> QED BY <2>1, <2>2, <2>3 DEF InEvent, OnLine, AtIdName, AtId, AtDataLine, AtDataName,
             AtRetryLine, AtRetryName, AtRetry, AtRetryEnd
<1> QED BY <1>1, <1>2 DEF StreamInv

\* What each call leads to: a step of SSEClient, and the invariant.
Carried == [Next]_vars /\ StreamInv' /\ HistoryInv'

\* on_error for the data that does not fit.
LEMMA LossCalled ==
    ASSUME XInv, ParserCalls, state = "OPEN", NEW k \in 1 .. Events, InEvent(k),
           p.out = <<Overflow>>, AtData(k, DataLen(k)), ~ (DataLen(k) <= DataBufLen)
    PROVE  Carried
<1>1. /\ Head(p.out) = Overflow /\ Tail(p.out) = <<>>
      /\ p' = [p EXCEPT !.out = <<>>] /\ p \in Structs(p.out)
  BY CallsAre DEF ParserCalls, XInv, StreamInv
<1>2. PICK closes \in BOOLEAN : BridgeOnPerr(closes)
  BY <1>1 DEF ParserCalls, Dispatching, Bridged, Losses, Overflow
<1>3. /\ reported' = reported \cup {k} /\ delivered' = delivered
      /\ wire' = wire /\ current' = k
  BY <1>1 DEF ParserCalls, Dispatching, Bridged, Losses, Overflow, InEvent, stream
<1>4. last_event_id = k - 1 /\ last_event_id' = k - 1
  BY <1>2 DEF InEvent, BridgeOnPerr, fed
<1>5. p' \in Structs(p'.out) /\ p'.out = <<>>
  BY <1>1 DEF Structs
<1>6. AtData(k, DataLen(k))'
  <2>1. InValue(p', "data") /\ HasId(k)' /\ p'.data_lines = 0 /\ p'.block_discarded
    BY <1>1 DEF Structs, AtData, InValue, HasId
  <2> QED BY <1>3, <1>5, <2>1 DEF AtData
<1>7. InEvent(k)'
  <2>1. DataLen(k) \in 0 .. DataLen(k)
    BY LinesAre
  <2> QED BY <1>3, <1>4, <1>6, <2>1 DEF InEvent, OnLine
<1>8. StreamInv'
  BY <1>5, <1>7 DEF StreamInv
<1>9. HistoryInv'
  <2>1. ~ MessagePending /\ ~ MessagePending'
    BY <1>1, <1>5 DEF MessagePending, Overflow
  <2>2. Told(k - 1) /\ k - 1 \in Nat
    BY <1>4, <2>1 DEF XInv, HistoryInv, LastTold
  <2>3. Told(k - 1)'
    BY <1>3, <2>2, ToldStays
  <2> QED BY <1>3, <1>4, <2>1, <2>3, OrderStays DEF XInv, HistoryInv, LastTold
<1>10. Next
  BY <1>2 DEF Next, Parse
<1> QED BY <1>8, <1>9, <1>10 DEF Carried

\* on_retry.
LEMMA RetryCalled ==
    ASSUME XInv, ParserCalls, state = "OPEN", NEW k \in 1 .. Events, InEvent(k),
           p.out = <<TheRetry>>, AtBlank(k)
    PROVE  Carried
<1>1. /\ Head(p.out) = TheRetry /\ Tail(p.out) = <<>>
      /\ p' = [p EXCEPT !.out = <<>>] /\ p \in Structs(p.out)
  BY CallsAre DEF ParserCalls, XInv, StreamInv
<1>2. BridgeOnRetry(1) /\ UNCHANGED told
  BY <1>1 DEF ParserCalls, Dispatching, Bridged, TheRetry
<1>3. /\ reported' = reported /\ delivered' = delivered
      /\ wire' = wire /\ current' = k
  BY <1>2 DEF ParserCalls, InEvent, stream, told
<1>4. last_event_id = k - 1 /\ last_event_id' = k - 1
  BY <1>2 DEF InEvent, BridgeOnRetry
<1>5. p' \in Structs(p'.out) /\ p'.out = <<>>
  BY <1>1 DEF Structs
<1>6. AtBlank(k)'
  <2>1. p'.state = "LINE_START" /\ HasId(k)' /\ HasData(k)'
    BY <1>1, <1>3 DEF Structs, AtBlank, HasId, HasData
  <2> QED BY <1>3, <1>5, <2>1 DEF AtBlank
<1>7. StreamInv'
  BY <1>3, <1>4, <1>5, <1>6 DEF StreamInv, InEvent, OnLine
<1>8. HistoryInv'
  <2>1. ~ MessagePending /\ ~ MessagePending'
    BY <1>1, <1>5 DEF MessagePending, TheRetry
  <2>2. Told(k - 1) /\ k - 1 \in Nat
    BY <1>4, <2>1 DEF XInv, HistoryInv, LastTold
  <2>3. Told(k - 1)'
    BY <1>3, <2>2, ToldStays
  <2> QED BY <1>3, <1>4, <2>1, <2>3, OrderStays DEF XInv, HistoryInv, LastTold
<1>9. Next
  BY <1>2, SourceAssumption DEF Next, Parse
<1> QED BY <1>7, <1>8, <1>9 DEF Carried

\* on_id: the event is committed; a message that fits follows.
LEMMA IdCalled ==
    ASSUME XInv, ParserCalls, state = "OPEN", NEW k \in 1 .. Events, AfterEvent(k),
           last_event_id = k - 1, p.out # <<>>
    PROVE  Carried
<1>0. k \in Nat /\ k - 1 \in Nat /\ k - 1 # k /\ k \in 0 .. Events
  BY LinesAre
<1>1. \/ k \in Big /\ k \in reported /\ p.out = <<TheId(k)>>
      \/ k \notin Big /\ p.out = <<TheId(k), TheMessage(k)>>
  BY <1>0 DEF AfterEvent, Committed
<1>2. /\ Head(p.out) = TheId(k)
      /\ \/ k \in Big /\ k \in reported /\ Tail(p.out) = <<>>
         \/ k \notin Big /\ Tail(p.out) = <<TheMessage(k)>>
  <2>1. /\ Head(<<TheId(k)>>) = TheId(k) /\ Tail(<<TheId(k)>>) = <<>>
        /\ Head(<<TheId(k), TheMessage(k)>>) = TheId(k)
        /\ Tail(<<TheId(k), TheMessage(k)>>) = <<TheMessage(k)>>
    BY CallsAre, Zenon
  <2>2. CASE k \in Big /\ k \in reported /\ p.out = <<TheId(k)>>
    BY <2>1, <2>2, Zenon
  <2>3. CASE k \notin Big /\ p.out = <<TheId(k), TheMessage(k)>>
    BY <2>1, <2>3, Zenon
  <2> QED BY <1>1, <2>2, <2>3, Zenon
<1>3. Head(p.out).cb = "on_id" /\ Len(Head(p.out).id) = k
  BY <1>0, <1>2, LettersGrow DEF TheId
<1>4. BridgeOnId(k) /\ UNCHANGED told
  BY <1>3 DEF ParserCalls, Dispatching, Bridged
<1>5. p' = [p EXCEPT !.out = Tail(p.out)] /\ wire' = wire /\ p \in Structs(p.out)
  BY DEF ParserCalls, XInv, StreamInv, stream
<1>6. p' \in Structs(p'.out) /\ p'.out = Tail(p.out)
  BY <1>5 DEF Structs
<1>7. reported' = reported /\ delivered' = delivered
  BY <1>4 DEF told
<1>8. last_event_id' = k
  <2>1. k <= IdMax
    BY <1>0, StreamAssumption, ConfigAssumption
  <2> QED BY <1>4, <2>1 DEF BridgeOnId, IdFits
<1>9. Committed(k)'
  BY <1>2, <1>6, <1>7, <1>8 DEF Committed
<1>10. AfterEvent(k)'
  <2>1. p'.state \in {"BOM", "LINE_START"} /\ NoId' /\ NoData'
    BY <1>5 DEF Structs, AfterEvent, NoId, NoData
  <2> QED BY <1>5, <1>9, <2>1 DEF AfterEvent
<1>11. StreamInv'
  BY <1>0, <1>6, <1>10 DEF StreamInv
<1>12. Told(k - 1)'
  <2>1. ~ MessagePending
    BY <1>3 DEF MessagePending
  <2>2. Told(k - 1)
    BY <2>1 DEF XInv, HistoryInv, LastTold
  <2> QED BY <1>0, <1>7, <2>2, ToldStays
<1>13. Told(LastTold)'
  <2>1. CASE k \in Big
    <3>1. ~ MessagePending' /\ k \in reported'
      BY <1>2, <1>6, <1>7, <2>1 DEF MessagePending
    <3>2. Told(k)'
      BY <1>0, <1>7, <1>12, <3>1 DEF Told, Answered, XInv, HistoryInv
    <3> QED BY <1>8, <3>1, <3>2 DEF LastTold
  <2>2. CASE k \notin Big
    <3>1. Head(<<TheMessage(k)>>) = TheMessage(k) /\ <<TheMessage(k)>> # <<>>
      BY CallsAre
    <3>2. MessagePending'
      <4>1. p'.out = <<TheMessage(k)>>
        BY <1>2, <1>6, <2>2
      <4>2. TheMessage(k).cb = "on_event"
        BY DEF TheMessage
      <4> QED BY <3>1, <4>1, <4>2 DEF MessagePending
    <3> QED BY <1>8, <1>12, <3>2 DEF LastTold
  <2> QED BY <2>1, <2>2
<1>14. HistoryInv'
  BY <1>0, <1>7, <1>8, <1>13, OrderStays DEF XInv, HistoryInv
<1>15. Next
  BY <1>4, SourceAssumption DEF Next, Parse
<1> QED BY <1>11, <1>14, <1>15 DEF Carried

\* on_message: it comes after every event delivered before.
LEMMA MessageCalled ==
    ASSUME XInv, ParserCalls, state = "OPEN", NEW k \in 1 .. Events, AfterEvent(k),
           last_event_id # k - 1, p.out # <<>>
    PROVE  Carried
<1>0. k \in Nat /\ k - 1 \in Nat /\ k \in 0 .. Events
  BY LinesAre
<1>1. last_event_id = k /\ p.out = <<TheMessage(k)>>
  BY DEF AfterEvent, Committed
<1>2. Head(p.out) = TheMessage(k) /\ Tail(p.out) = <<>> /\ p.out # <<>>
  BY <1>1, CallsAre
<1>3. TheMessage(k).cb = "on_event" /\ Len(TheMessage(k).data) = k
  BY <1>0, LettersGrow DEF TheMessage
<1>4. /\ \E closes \in BOOLEAN : BridgeOnEvent(closes)
      /\ delivered' = Append(delivered, k) /\ reported' = reported
  BY <1>2, <1>3 DEF ParserCalls, Dispatching, Bridged
<1>5. p' = [p EXCEPT !.out = <<>>] /\ wire' = wire /\ p \in Structs(p.out)
  BY <1>2 DEF ParserCalls, XInv, StreamInv, stream
<1>6. p' \in Structs(p'.out) /\ p'.out = <<>>
  BY <1>5 DEF Structs
<1>7. last_event_id' = k
  BY <1>1, <1>4 DEF BridgeOnEvent
<1>8. AfterEvent(k)'
  <2>1. p'.state \in {"BOM", "LINE_START"} /\ NoId' /\ NoData'
    BY <1>5 DEF Structs, AfterEvent, NoId, NoData
  <2>2. wire' = StreamAfter(k)
    BY <1>5 DEF AfterEvent
  <2> QED BY <1>6, <1>7, <2>1, <2>2 DEF AfterEvent, Committed
<1>9. StreamInv'
  BY <1>0, <1>6, <1>8 DEF StreamInv
<1>10. MessagePending /\ LastTold = k - 1
  BY <1>1, <1>2, <1>3 DEF MessagePending, LastTold
<1>11. Told(k - 1) /\ InOrderOnce /\ delivered \in Seq(Nat)
  BY <1>10 DEF XInv, HistoryInv
<1> DEFINE m == Len(delivered)
<1>12. /\ m \in Nat /\ DOMAIN delivered = 1 .. m /\ delivered' \in Seq(Nat)
       /\ DOMAIN delivered' = 1 .. m + 1 /\ delivered'[m + 1] = k
       /\ \A i \in 1 .. m : delivered'[i] = delivered[i] /\ delivered[i] \in Nat
  BY <1>0, <1>4, <1>11
<1>13. \A i \in 1 .. m : delivered[i] <= k - 1
  BY <1>11, <1>12 DEF Told
<1> HIDE DEF m
<1>14. InOrderOnce'
  <2>1. ASSUME NEW i \in 1 .. m + 1, NEW j \in 1 .. m + 1, i < j
        PROVE  delivered'[i] < delivered'[j]
    <3>1. CASE j = m + 1
      <4>1. i \in 1 .. m
        BY <1>12, <2>1, <3>1
      <4> QED BY <4>1, <3>1, <1>0, <1>12, <1>13
    <3>2. CASE j # m + 1
      <4>1. i \in 1 .. m /\ j \in 1 .. m
        BY <1>12, <2>1, <3>2
      <4>2. delivered[i] < delivered[j]
        BY <4>1, <2>1, <1>11, <1>12 DEF InOrderOnce
      <4> QED BY <4>1, <4>2, <1>12
    <3> QED BY <3>1, <3>2
  <2> QED BY <1>12, <2>1 DEF InOrderOnce
<1>15. Told(k)'
  <2>1. ASSUME NEW i \in 1 .. m + 1 PROVE delivered'[i] <= k
    <3>1. CASE i = m + 1
      BY <3>1, <1>0, <1>12
    <3>2. CASE i # m + 1
      <4>1. i \in 1 .. m
        BY <1>12, <3>2
      <4> QED BY <4>1, <1>0, <1>12, <1>13
    <3> QED BY <3>1, <3>2
  <2>2. ASSUME NEW j \in 1 .. k PROVE Answered(j)'
    <3>1. CASE j = k
      BY <3>1, <1>12 DEF Answered
    <3>2. CASE j # k
      <4>1. j \in 1 .. k - 1
        BY <3>2, <1>0
      <4>2. Answered(j)
        BY <4>1, <1>11 DEF Told
      <4>3. CASE j \in reported
        BY <4>3, <1>4 DEF Answered
      <4>4. CASE \E i \in 1 .. m : delivered[i] = j
        <5>1. PICK i \in 1 .. m : delivered[i] = j
          BY <4>4
        <5>2. i \in 1 .. m + 1 /\ delivered'[i] = j
          BY <5>1, <1>12
        <5>3. i \in DOMAIN delivered'
          BY <5>2, <1>12
        <5> QED BY <5>2, <5>3, Zenon DEF Answered
      <4> QED BY <4>2, <4>3, <4>4, <1>12 DEF Answered
    <3> QED BY <3>1, <3>2
  <2> QED BY <1>12, <2>1, <2>2 DEF Told
<1>16. HistoryInv'
  <2>1. ~ MessagePending' /\ LastTold' = k
    BY <1>6, <1>7 DEF MessagePending, LastTold
  <2> QED BY <1>0, <1>7, <1>12, <1>14, <1>15, <2>1 DEF HistoryInv
<1>17. Next
  BY <1>4 DEF Next, Parse
<1> QED BY <1>9, <1>16, <1>17 DEF Carried

\* What is still called once the client is closed goes nowhere.
LEMMA NothingCalled ==
    ASSUME XInv, SafetyInv, ParserCalls, state # "OPEN"
    PROVE  Carried
<1>1. UNCHANGED vars /\ delivered' = delivered
  BY DEF ParserCalls, Dispatching, Bridged, Bridge, BridgeOnId, BridgeOnRetry, told
<1>2. state = "CLOSED" /\ state' = "CLOSED" /\ last_event_id' = last_event_id
  BY <1>1 DEF ParserCalls, SafetyInv, ControlInv, vars, client
<1> QED BY <1>1, <1>2, OrderStays DEF Carried, StreamInv, XInv, HistoryInv

\* Every callback of the parser.
LEMMA CallsCarried == ASSUME XInv, SafetyInv, ParserCalls PROVE Carried
<1>1. CASE state = "OPEN"
  <2>1. PICK k \in 1 .. Events : Calls(k)
    BY <1>1, CallsOnly DEF XInv, ParserCalls
  <2> QED BY <1>1, <2>1, LossCalled, RetryCalled, IdCalled, MessageCalled DEF Calls
<1> QED BY <1>1, NothingCalled

\* The stream that a new connection starts with.
LEMMA ConnectedCarried == ASSUME XInv, SafetyInv, Connected PROVE Carried
<1>1. PICK status \in Statuses, ct \in ContentTypes : OpenAccepted(status, ct)
  BY DEF Connected
<1> DEFINE k == last_event_id
<1>2. /\ k \in 0 .. Events /\ last_event_id' = k /\ req_id = k
      /\ state = "CONNECTING" /\ state' = "OPEN" /\ pc = "open"
  BY <1>1 DEF OpenAccepted, SafetyInv, ControlInv, ResumeInv, XInv, HistoryInv
<1>3. p' = Parser!Fresh /\ wire' = StreamAfter(k) /\ UNCHANGED told /\ p.out = <<>>
  BY <1>2 DEF Connected, ResetParser, XInv, BytesInv
<1>4. p' \in Structs(p'.out) /\ p'.out = <<>> /\ p'.state = "BOM" /\ NoId' /\ NoData'
  <2>1. <<>> \in Seq({"a"}) /\ <<>> \in Seq({"a", "LF"})
    OBVIOUS
  <2> QED BY <1>3, <2>1 DEF Parser!Fresh, Structs, NoId, NoData
<1>5. StreamInv'
  <2>1. \E j \in 0 .. Events : AfterEvent(j)'
    BY <1>2, <1>3, <1>4 DEF AfterEvent, Committed
  <2> QED BY <1>4, <2>1 DEF StreamInv
<1>6. HistoryInv'
  <2>1. ~ MessagePending /\ ~ MessagePending' /\ k \in Nat
    BY <1>2, <1>3, <1>4, StreamAssumption DEF MessagePending
  <2>2. reported' = reported /\ delivered' = delivered
    BY <1>3 DEF told
  <2>3. Told(LastTold)
    BY <1>2 DEF XInv, HistoryInv
  <2>4. Told(LastTold)'
    BY <1>2, <2>1, <2>2, <2>3 DEF Told, Answered, LastTold
  <2> QED BY <1>2, <2>2, <2>4, OrderStays DEF XInv, HistoryInv
<1>7. Next
  BY <1>1, SourceAssumption DEF Next, OpenReturns
<1> QED BY <1>5, <1>6, <1>7 DEF Carried

\* A byte parsed.
LEMMA FeedCarried == ASSUME XInv, SafetyInv, FeedByte PROVE Carried
<1>1. UNCHANGED vars /\ UNCHANGED told /\ pc = "feed" /\ p.out = <<>>
  BY DEF FeedByte
<1>2. /\ state' = state /\ last_event_id' = last_event_id /\ state \in {"OPEN", "CLOSED"}
      /\ reported' = reported /\ delivered' = delivered
  BY <1>1 DEF vars, client, told, SafetyInv, ControlInv
<1>3. StreamInv' /\ (state = "OPEN" => ~ MessagePending')
  BY FeedStream DEF XInv
<1>4. state = "OPEN" => LastTold' = LastTold
  BY <1>1, <1>2, <1>3 DEF LastTold, MessagePending
<1>5. HistoryInv'
  BY <1>2, <1>4, OrderStays DEF XInv, HistoryInv, Told, Answered
<1> QED BY <1>1, <1>3, <1>5 DEF Carried

\* What a step away from the stream leaves alone.
LEMMA ElsewhereKeeps ==
    ASSUME SafetyInv, Elsewhere
    PROVE  /\ Next
           /\ last_event_id' = last_event_id
           /\ state' = "OPEN" => state = "OPEN"
           /\ pc = "feed" => pc' = "feed"
           /\ state = "CLOSED" => state' = "CLOSED"
<1>1. Next
  BY DEF Elsewhere, Next, OpenReturns, ReadReturns
<1> DEFINE Kept == /\ last_event_id' = last_event_id
                   /\ state' = "OPEN" => state = "OPEN"
                   /\ pc = "feed" => pc' = "feed"
<1>2. ASSUME Poll PROVE Kept
  BY <1>2 DEF Poll, PollStopped, PollClosed, PollConnect, PollWait, PollRead, ToClosed, client
<1>3. ASSUME Report PROVE Kept
  BY <1>3 DEF Report, OnOpen, Hook, ErrStop, Stop, ErrRetry, Callback, ToClosed, Settle,
              Goto, failFrame
<1>4. ASSUME Close \/ RequestStop \/ Tick PROVE Kept
  BY <1>4 DEF Close, ToClosed, RequestStop, Tick, Elapse, client, call
<1>5. ASSUME NEW reason, NEW status, NEW ra, FailConn(reason, status, ra), pc # "feed"
      PROVE  Kept
  BY <1>5 DEF FailConn, Settle
<1>6. ASSUME OpenFails PROVE Kept
  BY <1>5, <1>6 DEF OpenFails
<1>7. ASSUME NEW status, NEW ct, NEW ra, OpenRefused(status, ct, ra) PROVE Kept
  BY <1>5, <1>7 DEF OpenRefused
<1>8. ASSUME ReadStopped PROVE Kept
  BY <1>8 DEF ReadStopped, ToClosed
<1>9. ASSUME ReadTimedOut PROVE Kept
  <2>1. CASE IdleExpired
    BY <1>5, <1>9, <2>1 DEF ReadTimedOut
  <2>2. CASE ~ IdleExpired
    BY <1>9, <2>2 DEF ReadTimedOut, client
  <2> QED BY <2>1, <2>2
<1>10. ASSUME ReadEnded PROVE Kept
  BY <1>5, <1>10 DEF ReadEnded
<1> HIDE DEF Kept
<1>11. Kept
  BY <1>2, <1>3, <1>4, <1>6, <1>7, <1>8, <1>9, <1>10 DEF Elsewhere
<1>12. state = "CLOSED" => state' = "CLOSED"
  BY <1>1, ClosedStays
<1> QED BY <1>1, <1>11, <1>12 DEF Kept

\* Steps that leave parser, stream and history alone.
LEMMA QuietCarried ==
    ASSUME XInv, [Next]_vars, UNCHANGED <<p, wire, current, told>>,
           last_event_id' = last_event_id, state' = "OPEN" => state = "OPEN",
           state = "CLOSED" => state' = "CLOSED"
    PROVE  Carried
<1>1. /\ p' = p /\ wire' = wire /\ current' = current
      /\ reported' = reported /\ delivered' = delivered
  BY DEF told
<1>2. StreamInv'
  <2>1. SUFFICES ASSUME state = "OPEN" PROVE StreamInv'
    BY DEF StreamInv
  <2>2. CASE \E k \in 0 .. Events : AfterEvent(k)
    <3>1. PICK k \in 0 .. Events : AfterEvent(k)
      BY <2>2
    <3>2. AfterEvent(k)'
      BY <1>1, <3>1 DEF AfterEvent, Committed, NoId, NoData
    <3> QED BY <1>1, <2>1, <3>2 DEF XInv, StreamInv
  <2>3. CASE \E k \in 1 .. Events : InEvent(k)
    <3>1. PICK k \in 1 .. Events : InEvent(k)
      BY <2>3
    <3>2. OnLine(k)'
      BY <1>1, <3>1 DEF InEvent, OnLine, AtIdName, AtId, AtDataLine, AtDataName, AtData,
         AtRetryLine, AtRetryName, AtRetry, AtRetryEnd, AtBlank, HasId, HasData, NoId, NoData
    <3>3. InEvent(k)'
      BY <1>1, <3>1, <3>2 DEF InEvent
    <3> QED BY <1>1, <2>1, <3>3 DEF XInv, StreamInv
  <2> QED BY <2>1, <2>2, <2>3 DEF XInv, StreamInv
<1>3. HistoryInv'
  <2>1. LastTold' = LastTold
    BY <1>1 DEF LastTold, MessagePending
  <2> QED BY <1>1, <2>1, OrderStays DEF XInv, HistoryInv, Told, Answered
<1> QED BY <1>2, <1>3 DEF Carried

\* Every step is one of SSEClient's, and keeps where the parser is.
LEMMA StepCarried == ASSUME XInv, SafetyInv, XNext PROVE Carried
<1>1. CASE Received
  <2>1. /\ UNCHANGED <<p, wire, current, told>> /\ last_event_id' = last_event_id
        /\ state' = state /\ Next
    BY <1>1 DEF Received, ReadData, Next, ReadReturns
  <2> QED BY <2>1, QuietCarried
<1>2. CASE FedAll
  <2>1. /\ UNCHANGED <<p, wire, current, told>> /\ last_event_id' = last_event_id
        /\ state' = state /\ Next
    BY <1>2 DEF FedAll, FeedDone, Next, client, stream
  <2> QED BY <2>1, QuietCarried
<1>3. CASE Elsewhere
  <2>1. UNCHANGED <<p, wire, current, told>>
    BY <1>3 DEF Elsewhere, stream
  <2> QED BY <1>3, <2>1, ElsewhereKeeps, QuietCarried
<1> QED BY <1>1, <1>2, <1>3, ConnectedCarried, FeedCarried, CallsCarried DEF XNext

\* rx_buf holds part of what is left of the stream.
LEMMA BytesStep == ASSUME XInv, SafetyInv, XNext PROVE BytesInv'
<1>1. /\ wire \in Seq(Sent) /\ chunk \in Nat /\ chunk <= Len(wire)
      /\ pc # "feed" => p.out = <<>>
  BY DEF XInv, BytesInv
<1>2. CASE Connected
  <2>1. req_id \in 0 .. Events
    BY <1>2 DEF Connected, OpenAccepted, SafetyInv, ResumeInv, XInv, HistoryInv
  <2>2. wire' \in Seq(Sent) /\ chunk' = 0 /\ p'.out = <<>>
    BY <1>2, <2>1, StreamIs DEF Connected, ResetParser, Parser!Fresh
  <2> QED BY <2>2 DEF BytesInv
<1>3. CASE Received
  <2>1. /\ chunk' \in Nat /\ chunk' <= Len(wire) /\ p' = p /\ wire' = wire
        /\ pc = "read"
    BY <1>3, StreamAssumption DEF Received, ReadData
  <2> QED BY <1>1, <2>1 DEF BytesInv
<1>4. CASE FeedByte
  <2>1. wire' = Tail(wire) /\ chunk' = chunk - 1 /\ chunk > 0 /\ pc' = "feed"
    BY <1>4 DEF FeedByte, vars, call
  <2>2. wire # <<>>
    BY <1>1, <2>1
  <2>3. Tail(wire) \in Seq(Sent) /\ Len(Tail(wire)) = Len(wire) - 1
    BY <1>1, <2>2, HeadTailProperties
  <2> QED BY <1>1, <2>1, <2>3 DEF BytesInv
<1>5. CASE ParserCalls
  <2>1. wire' = wire /\ chunk' = chunk /\ pc' = "feed"
    <3>1. wire' = wire /\ chunk' = chunk /\ pc = "feed"
      BY <1>5 DEF ParserCalls, stream
    <3>2. pc' = pc
      BY <1>5 DEF ParserCalls, Bridged, BridgeOnId, BridgeOnRetry, BridgeOnEvent,
                  BridgeOnPerr, Bridge, vars, call
    <3> QED BY <3>1, <3>2
  <2> QED BY <1>1, <2>1 DEF BytesInv
<1>6. CASE FedAll
  BY <1>1, <1>6 DEF FedAll, stream, BytesInv
<1>7. CASE Elsewhere
  <2>1. wire' = wire /\ chunk' = chunk /\ p' = p
    BY <1>7 DEF Elsewhere, stream
  <2> QED BY <1>1, <1>7, <2>1, ElsewhereKeeps DEF BytesInv
<1> QED BY <1>2, <1>3, <1>4, <1>5, <1>6, <1>7 DEF XNext

----------------------------------------------------------------------------
(* The theorems. *)

\* The invariants hold at first.
LEMMA XInvInit == XInit => XInv /\ SafetyInv
<1> SUFFICES ASSUME XInit PROVE XInv
  BY SafetyInit DEF XInit
<1>1. /\ state = "IDLE" /\ last_event_id = 0 /\ p.out = <<>> /\ wire = <<>> /\ chunk = 0
      /\ delivered = <<>> /\ 0 \in 0 .. Events
  BY StreamAssumption DEF XInit, Init, Parser!Fresh
<1>2. StreamInv /\ BytesInv
  BY <1>1 DEF StreamInv, BytesInv
<1>3. HistoryInv
  BY <1>1 DEF HistoryInv, InOrderOnce, Told, LastTold, MessagePending
<1> QED BY <1>2, <1>3 DEF XInv

\* Every step keeps them.
LEMMA XInvStep == XInv /\ SafetyInv /\ [XNext]_xvars => XInv' /\ SafetyInv' /\ [Next]_vars
<1> SUFFICES ASSUME XInv, SafetyInv, [XNext]_xvars
             PROVE  XInv' /\ SafetyInv' /\ [Next]_vars
  OBVIOUS
<1>1. CASE XNext
  <2>1. Carried /\ BytesInv'
    BY <1>1, StepCarried, BytesStep
  <2>2. SafetyInv'
    BY <2>1, TypeStep, CoreStep DEF Carried, SafetyInv, Core
  <2> QED BY <2>1, <2>2 DEF Carried, XInv
<1>2. CASE UNCHANGED xvars
  <2>1. /\ UNCHANGED <<p, wire, chunk, current, told>> /\ UNCHANGED vars
        /\ last_event_id' = last_event_id /\ state' = state /\ pc' = pc
    BY <1>2 DEF xvars, vars, client, call, stream
  <2>2. Carried
    BY <2>1, QuietCarried
  <2>3. BytesInv'
    BY <2>1 DEF XInv, BytesInv
  <2>4. SafetyInv'
    BY <2>2, TypeStep, CoreStep DEF Carried, SafetyInv, Core
  <2> QED BY <2>2, <2>3, <2>4 DEF Carried, XInv
<1> QED BY <1>1, <1>2

\* The inductive invariant holds in every reachable state.
THEOREM StreamSafety == XSpec => [](XInv /\ SafetyInv)
BY XInvInit, XInvStep, PTL DEF XSpec

\* The client on a stream does nothing that SSEClient does not do: what is
\* proved of the client with any callbacks holds of it here.
THEOREM StreamIsClient == XSpec => Spec
<1>1. XInit => Init
  BY DEF XInit
<1> QED BY <1>1, XInvInit, XInvStep, PTL DEF XSpec, Spec

\* Each event is delivered at most once, in the server's order.
THEOREM InOrderOnceHolds == XSpec => []InOrderOnce
<1>1. XInv => InOrderOnce
  BY DEF XInv, HistoryInv
<1> QED BY <1>1, StreamSafety, PTL

\* Every event that a request resumes after was delivered, or reported as lost.
THEOREM NothingLostHolds == XSpec => []NothingLost
<1>1. XInv /\ SafetyInv => NothingLost
  <2> SUFFICES ASSUME XInv, SafetyInv, pc = "open", NEW k \in 1 .. req_id
               PROVE  Answered(k)
    BY DEF NothingLost, Answered
  <2>1. req_id = last_event_id /\ state # "CLOSED" /\ p.out = <<>>
    BY DEF SafetyInv, ControlInv, ResumeInv, XInv, BytesInv
  <2>2. Told(req_id)
    BY <2>1 DEF XInv, HistoryInv, LastTold, MessagePending
  <2> QED BY <2>2 DEF Told
<1> QED BY <1>1, StreamSafety, PTL

----------------------------------------------------------------------------
(* The parser's buffers inside the client: a byte may be parsed while its *)
(* callbacks wait, and after one of them has closed the client.           *)

PP == INSTANCE SSEParserProofs WITH RetryMax <- UINT32_MAX, Letters <- {"a"},
                                    DigitValue <- [d \in {"1"} |-> 1]

\* The accumulator of the retry field holds one digit at least.
WideEnough == UINT32_MAX >= 9

\* The client's buffers are as the parser's proofs assume.
LEMMA BuffersAssumed == WideEnough => PP!BufferAssumption
BY StreamAssumption, ConfigAssumption, WidthAssumption
DEF WideEnough, PP!BufferAssumption, PP!Digits, UINT32_MAX, Modulus

\* The parser of the proofs is the parser of the client.
LEMMA SameParser ==
    /\ PP!Fresh = Parser!Fresh
    /\ PP!BuffersSafe <=> Parser!BuffersSafe
    /\ \A q, b : Parser!ProcessByte(q, b) = PP!ProcessByte(q, b)
<1>1. PP!Fresh = Parser!Fresh
  BY DEF PP!Fresh, Parser!Fresh
<1>2. PP!BuffersSafe <=> Parser!BuffersSafe
  BY DEF PP!BuffersSafe, Parser!BuffersSafe
<1>3. \A q, b : Parser!ValueByte(q, b) = PP!ValueByte(q, b)
  BY Zenon
  DEF Parser!Accumulate, PP!Accumulate, Parser!DataByte, PP!DataByte,
      Parser!DataFull, PP!DataFull, Parser!Digits, PP!Digits,
      Parser!DiscardBlock, PP!DiscardBlock, Parser!Emit, PP!Emit,
      Parser!EmitPerr, PP!EmitPerr, Parser!EventByte, PP!EventByte,
      Parser!IdByte, PP!IdByte, Parser!RetryByte, PP!RetryByte,
      Parser!ValueByte, PP!ValueByte
<1>4. \A q : Parser!ResolveFieldName(q) = PP!ResolveFieldName(q)
  BY Zenon
  DEF Parser!ResolveFieldName, PP!ResolveFieldName,
      Parser!StartValue, PP!StartValue
<1>5. \A q : Parser!CommitValue(q) = PP!CommitValue(q)
  BY Zenon
  DEF Parser!CommitData, PP!CommitData, Parser!CommitId, PP!CommitId,
      Parser!CommitRetry, PP!CommitRetry, Parser!CommitValue, PP!CommitValue,
      Parser!DataFull, PP!DataFull, Parser!DiscardBlock, PP!DiscardBlock,
      Parser!Emit, PP!Emit, Parser!EmitPerr, PP!EmitPerr
<1>6. \A q : Parser!DispatchBlock(q) = PP!DispatchBlock(q)
  BY Zenon
  DEF Parser!ClearBlock, PP!ClearBlock, Parser!DispatchBlock, PP!DispatchBlock,
      Parser!Emit, PP!Emit, Parser!TheEvent, PP!TheEvent
<1>7. ASSUME NEW q, NEW b PROVE Parser!ProcessByte(q, b) = PP!ProcessByte(q, b)
  <2>1. \A r : Parser!LineEnd(r) = PP!LineEnd(r)
    BY <1>4, <1>5, <1>6, Zenon DEF Parser!LineEnd, PP!LineEnd
  <2>2. \A r : Parser!LineByte(r, b) = PP!LineByte(r, b)
    BY <1>3, <1>4, Zenon
    DEF Parser!LineByte, PP!LineByte, Parser!NameByte, PP!NameByte,
        Parser!Names, PP!Names
  <2>3. \A r : Parser!EndsLine(r, b) = PP!EndsLine(r, b)
    BY <2>1 DEF Parser!EndsLine, PP!EndsLine
  <2>4. \A r, n : Parser!ReplayBom(r, n) = PP!ReplayBom(r, n)
    BY DEF Parser!ReplayBom, PP!ReplayBom
  <2> QED BY <2>2, <2>3, <2>4 DEF Parser!Bom, PP!Bom, Parser!ProcessByte, PP!ProcessByte
<1> QED BY <1>1, <1>2, <1>7

\* What a callback leaves of the struct is good: it takes only itself away.
LEMMA CallLeavesGood ==
    ASSUME PP!Inv, p.out # <<>>, p' = [p EXCEPT !.out = Tail(@)]
    PROVE  PP!Inv'
<1>1. PP!Good(p) /\ p \in PP!Structs /\ p.out \in Seq(PP!Reports)
  BY DEF PP!Inv, PP!Good, PP!Structs
<1>2. Tail(p.out) \in Seq(PP!Reports)
  BY <1>1, HeadTailProperties
<1>3. /\ p' \in PP!Structs /\ p'.data = p.data /\ p'.event = p.event /\ p'.id = p.id
      /\ p'.data_lines = p.data_lines /\ p'.block_discarded = p.block_discarded
      /\ p'.field = p.field /\ p'.state = p.state
  BY <1>1, <1>2 DEF PP!Structs
<1> QED BY <1>1, <1>3 DEF PP!Inv, PP!Good, PP!Fits, PP!Terminated

\* Every step of client and parser keeps the struct good.
LEMMA GoodStep ==
    ASSUME WideEnough, XInv, PP!Inv, [XNext]_xvars
    PROVE  PP!Inv'
<1>1. CASE Connected
  BY <1>1, SameParser, BuffersAssumed, PP!FreshGood DEF Connected, ResetParser, PP!Inv
<1>2. CASE FeedByte
  <2>1. /\ p.out = <<>> /\ p \in PP!Structs
        /\ p' = Parser!ProcessByte([p EXCEPT !.out = <<>>], Head(wire).byte)
    BY <1>2 DEF FeedByte, Parser!Feed, PP!Inv, PP!Good
  <2>2. [p EXCEPT !.out = <<>>] = p
    BY <2>1 DEF PP!Structs
  <2>3. Head(wire).byte \in PP!Bytes
    <3>1. wire \in Seq(Sent) /\ wire # <<>>
      BY <1>2 DEF FeedByte, XInv, BytesInv
    <3>2. Head(wire) \in Sent
      BY <3>1, HeadTailProperties
    <3> QED BY <3>2 DEF Sent, Symbols, PP!Bytes, PP!Special, PP!Names, PP!Digits
  <2>4. PP!Good(PP!ProcessByte(p, Head(wire).byte))
    BY <2>3, BuffersAssumed, PP!ProcessByteGood DEF PP!Inv
  <2> QED BY <2>1, <2>2, <2>4, SameParser DEF PP!Inv
<1>3. CASE ParserCalls
  BY <1>3, CallLeavesGood DEF ParserCalls
<1>4. CASE Received \/ FedAll \/ Elsewhere \/ UNCHANGED xvars
  <2>1. p' = p
    BY <1>4 DEF Received, FedAll, Elsewhere, xvars
  <2> QED BY <2>1 DEF PP!Inv
<1> QED BY <1>1, <1>2, <1>3, <1>4 DEF XNext

\* No byte is written or read outside the buffers the application lends the
\* client, wherever the connection is lost and whichever callback closes it.
THEOREM StreamBuffersSafe == WideEnough => (XSpec => []Parser!BuffersSafe)
<1> SUFFICES ASSUME WideEnough PROVE XSpec => []Parser!BuffersSafe
  OBVIOUS
<1>1. XInit => PP!Inv
  BY SameParser, BuffersAssumed, PP!FreshGood DEF XInit, PP!Inv
<1>2. XInv /\ PP!Inv /\ [XNext]_xvars => PP!Inv'
  BY GoodStep
<1>3. PP!Inv => Parser!BuffersSafe
  BY SameParser, BuffersAssumed, PP!GoodIsSafe
<1> QED BY <1>1, <1>2, <1>3, StreamSafety, PTL DEF XSpec
=============================================================================
