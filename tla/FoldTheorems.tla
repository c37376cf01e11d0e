---------------------------- MODULE FoldTheorems ----------------------------
(***************************************************************************)
(* Induction over the natural numbers, functions defined by recursion on   *)
(* them, and the concatenation of the sequences in a sequence, which       *)
(* SequencesExt defines by such a function.                                *)
(***************************************************************************)
EXTENDS Integers, SequencesExt, SequenceTheorems, WellFoundedInduction, TLAPS

----------------------------------------------------------------------------
(* Induction over the natural numbers, and functions defined by it. *)

\* Induction, said of a set instead of a predicate: it is the well-founded
\* order of the natural numbers that gives the least number outside T.
LEMMA Induction ==
    ASSUME NEW T, 0 \in T, \A n \in Nat : n \in T => n + 1 \in T
    PROVE  \A n \in Nat : n \in T
<1> SUFFICES ASSUME NEW k \in Nat, k \notin T PROVE FALSE
  OBVIOUS
<1> DEFINE R == OpToRel(<, Nat)
<1>1. IsWellFoundedOn(R, Nat)
  BY NatLessThanWellFounded, Zenon DEF OpToRel
<1>2. \A x, y \in Nat : x < y => <<x, y>> \in R
  BY DEF OpToRel
<1> HIDE DEF R
<1>3. PICK m \in Nat \ T : \A j \in Nat \ T : <<j, m>> \notin R
  BY <1>1, WFMin
<1>4. m # 0
  BY <1>3
<1>5. m - 1 \in Nat /\ m - 1 < m /\ (m - 1) + 1 = m
  BY <1>4
<1>6. m - 1 \notin T
  BY <1>5, <1>3
<1> QED BY <1>2, <1>3, <1>5, <1>6

\* h is what c and step define, up to n.
Recursive(h, c, step, n) ==
    h[0] = c /\ \A k \in 1 .. n : h[k] = step[k][h[k - 1]]

\* A recursive definition has a value.
LEMMA Recursion ==
    ASSUME NEW S, NEW c \in S, NEW step \in [Nat -> [S -> S]]
    PROVE  \A n \in Nat : \E h \in [0 .. n -> S] : Recursive(h, c, step, n)
<1> DEFINE T == {n \in Nat : \E h \in [0 .. n -> S] : Recursive(h, c, step, n)}
<1>1. 0 \in T
  <2>1. [k \in 0 .. 0 |-> c] \in [0 .. 0 -> S]
    OBVIOUS
  <2>2. Recursive([k \in 0 .. 0 |-> c], c, step, 0)
    BY DEF Recursive
  <2> QED BY <2>1, <2>2
<1>2. ASSUME NEW n \in Nat, n \in T PROVE n + 1 \in T
  <2>1. PICK h \in [0 .. n -> S] : Recursive(h, c, step, n)
    BY <1>2
  <2> DEFINE g == [k \in 0 .. n + 1 |-> IF k = n + 1 THEN step[n + 1][h[n]] ELSE h[k]]
  <2>2. g \in [0 .. n + 1 -> S]
    OBVIOUS
  <2>3. g[0] = c
    BY <2>1 DEF Recursive
  <2>4. ASSUME NEW k \in 1 .. n + 1 PROVE g[k] = step[k][g[k - 1]]
    <3>1. CASE k = n + 1
      BY <3>1
    <3>2. CASE k # n + 1
      BY <3>2, <2>1 DEF Recursive
    <3> QED BY <3>1, <3>2
  <2>5. Recursive(g, c, step, n + 1)
    BY <2>3, <2>4 DEF Recursive
  <2> QED BY <2>2, <2>5
<1>3. \A n \in Nat : n \in T
  BY <1>1, <1>2, Induction
<1> QED BY <1>3

----------------------------------------------------------------------------
(* Concatenation of the sequences in a sequence. *)

\* The function that FlattenSeq defines.
Flat(s) == CHOOSE f : f = [i \in 1 .. Len(s) |-> IF i = 1 THEN s[i] ELSE f[i - 1] \o s[i]]

\* It is defined, and is what its definition says it is.
LEMMA FlatUnfolds ==
    ASSUME NEW T, NEW s \in Seq(Seq(T))
    PROVE  /\ Flat(s) \in [1 .. Len(s) -> Seq(T)]
           /\ Len(s) > 0 => Flat(s)[1] = s[1]
           /\ \A i \in 2 .. Len(s) : Flat(s)[i] = Flat(s)[i - 1] \o s[i]
<1> DEFINE n == Len(s)
           step == [k \in Nat |-> [x \in Seq(T) |-> IF k \in 1 .. n THEN x \o s[k] ELSE x]]
<1>1. n \in Nat /\ \A i \in 1 .. n : s[i] \in Seq(T)
  OBVIOUS
<1>2. step \in [Nat -> [Seq(T) -> Seq(T)]]
  BY <1>1
<1>3. <<>> \in Seq(T)
  OBVIOUS
<1>4. \A x \in Seq(T), k \in 1 .. n : step[k][x] = x \o s[k]
  BY <1>1, SMTT(90)
<1> HIDE DEF step, n
<1>5. PICK h \in [0 .. n -> Seq(T)] : Recursive(h, <<>>, step, n)
  BY <1>1, <1>2, <1>3, Recursion
<1>6. \A i \in 1 .. n : h[i] = h[i - 1] \o s[i] /\ h[i - 1] \in Seq(T)
  <2>1. SUFFICES ASSUME NEW i \in 1 .. n PROVE h[i] = h[i - 1] \o s[i] /\ h[i - 1] \in Seq(T)
    OBVIOUS
  <2>2. h[i] = step[i][h[i - 1]]
    BY <1>5 DEF Recursive
  <2>3. h[i - 1] \in Seq(T)
    <3>1. i - 1 \in 0 .. n
      BY <1>1
    <3> QED BY <3>1, <1>5
  <2> QED BY <2>2, <2>3, <1>4
<1>7. n > 0 => h[1] = s[1]
  <2>1. SUFFICES ASSUME n > 0 PROVE h[1] = s[1]
    OBVIOUS
  <2>2. 1 \in 1 .. n /\ 1 - 1 = 0
    BY <1>1, <2>1
  <2>3. h[1] = h[0] \o s[1] /\ h[0] = <<>>
    BY <2>2, <1>5, <1>6 DEF Recursive
  <2>4. s[1] \in Seq(T)
    BY <2>2, <1>1
  <2> QED BY <2>3, <2>4
<1> DEFINE f == [i \in 1 .. n |-> h[i]]
<1>8. \A i \in 1 .. n : f[i] = IF i = 1 THEN s[i] ELSE f[i - 1] \o s[i]
  <2>1. SUFFICES ASSUME NEW i \in 1 .. n PROVE f[i] = IF i = 1 THEN s[i] ELSE f[i - 1] \o s[i]
    OBVIOUS
  <2>2. f[i] = h[i] /\ (i # 1 => f[i - 1] = h[i - 1])
    BY <1>1
  <2> HIDE DEF f
  <2>3. CASE i = 1
    BY <2>2, <2>3, <1>1, <1>7
  <2>4. CASE i # 1
    BY <2>2, <2>4, <1>6
  <2> QED BY <2>3, <2>4
<1>9. f = [i \in 1 .. n |-> IF i = 1 THEN s[i] ELSE f[i - 1] \o s[i]]
  <2> HIDE DEF f
  <2>1. f = [i \in 1 .. n |-> f[i]]
    BY DEF f
  <2> QED BY <2>1, <1>8, Zenon
<1> HIDE DEF f
<1>10. Flat(s) = [i \in 1 .. n |-> IF i = 1 THEN s[i] ELSE Flat(s)[i - 1] \o s[i]]
  BY <1>9, Zenon DEF Flat, n
<1> DEFINE g == Flat(s)
<1>11. g = [i \in 1 .. n |-> IF i = 1 THEN s[i] ELSE g[i - 1] \o s[i]]
  BY <1>10
<1> HIDE DEF g
<1>12. /\ n > 0 => g[1] = s[1]
       /\ \A i \in 2 .. n : g[i] = g[i - 1] \o s[i]
  <2>1. \A i \in 1 .. n : g[i] = IF i = 1 THEN s[i] ELSE g[i - 1] \o s[i]
    BY <1>11, Zenon
  <2>2. ASSUME n > 0 PROVE g[1] = s[1]
    <3>1. 1 \in 1 .. n
      BY <2>2, <1>1
    <3> QED BY <3>1, <2>1, Zenon
  <2>3. ASSUME NEW i \in 2 .. n PROVE g[i] = g[i - 1] \o s[i]
    <3>1. i \in 1 .. n /\ i # 1
      BY <1>1
    <3> QED BY <3>1, <2>1, Zenon
  <2> QED BY <2>2, <2>3
<1> DEFINE U == {i \in Nat : i \in 1 .. n => g[i] \in Seq(T)}
<1>13. 0 \in U
  OBVIOUS
<1>14. ASSUME NEW i \in Nat, i \in U PROVE i + 1 \in U
  <2>1. CASE i = 0
    <3>1. SUFFICES ASSUME 1 \in 1 .. n PROVE g[1] \in Seq(T)
      BY <2>1
    <3>2. g[1] = s[1] /\ s[1] \in Seq(T)
      BY <3>1, <1>12, <1>1
    <3> QED BY <3>2
  <2>2. CASE i # 0 /\ i + 1 \in 1 .. n
    <3>1. i + 1 \in 2 .. n /\ (i + 1) - 1 = i /\ i \in 1 .. n
      BY <2>2, <1>1
    <3>2. g[i + 1] = g[i] \o s[i + 1]
      BY <3>1, <1>12
    <3>3. g[i] \in Seq(T) /\ s[i + 1] \in Seq(T)
      BY <1>14, <3>1, <2>2, <1>1
    <3>4. g[i + 1] \in Seq(T)
      BY <3>2, <3>3
    <3> QED BY <3>4
  <2> QED BY <2>1, <2>2
<1>15. \A i \in Nat : i \in U
  <2> HIDE DEF U
  <2> QED BY <1>13, <1>14, Induction
<1>16. g \in [1 .. n -> Seq(T)]
  <2>1. \A i \in 1 .. n : g[i] \in Seq(T)
    BY <1>15
  <2>2. g = [i \in 1 .. n |-> g[i]]
    BY <1>11, Zenon
  <2> QED BY <2>1, <2>2, Zenon
<1> QED BY <1>12, <1>16 DEF g, n

\* FlattenSeq gives the last value of that function, a sequence over the same set.
LEMMA FlattenIs ==
    ASSUME NEW T, NEW s \in Seq(Seq(T))
    PROVE  /\ Len(s) = 0 => FlattenSeq(s) = <<>>
           /\ Len(s) > 0 => FlattenSeq(s) = Flat(s)[Len(s)]
           /\ FlattenSeq(s) \in Seq(T)
<1>1. Len(s) \in Nat /\ (Len(s) = 0 => s = <<>>)
  OBVIOUS
<1>2. ASSUME Len(s) = 0 PROVE FlattenSeq(s) = <<>>
  BY <1>1, <1>2, Zenon DEF FlattenSeq
<1>3. ASSUME Len(s) # 0 PROVE FlattenSeq(s) = Flat(s)[Len(s)]
  BY <1>3, Zenon DEF FlattenSeq, Flat
<1>4. ASSUME Len(s) > 0 PROVE Flat(s)[Len(s)] \in Seq(T)
  <2>1. Len(s) \in 1 .. Len(s)
    BY <1>1, <1>4
  <2>2. Flat(s) \in [1 .. Len(s) -> Seq(T)]
    BY FlatUnfolds
  <2> QED BY <2>1, <2>2
<1>5. <<>> \in Seq(T)
  OBVIOUS
<1> QED BY <1>1, <1>2, <1>3, <1>4, <1>5

\* One more sequence at the end is concatenated to the rest.
LEMMA FlattenAppend ==
    ASSUME NEW T, NEW s \in Seq(Seq(T)), NEW e \in Seq(T)
    PROVE  FlattenSeq(Append(s, e)) = FlattenSeq(s) \o e
<1> DEFINE t == Append(s, e)
           n == Len(s)
<1>1. /\ n \in Nat /\ t \in Seq(Seq(T)) /\ Len(t) = n + 1
      /\ t[n + 1] = e /\ \A i \in 1 .. n : t[i] = s[i]
  OBVIOUS
<1> HIDE DEF t
<1>2. /\ n > 0 => Flat(s)[1] = s[1]
      /\ \A i \in 2 .. n : Flat(s)[i] = Flat(s)[i - 1] \o s[i]
  BY FlatUnfolds
<1>3. /\ Flat(t)[1] = t[1]
      /\ \A i \in 2 .. n + 1 : Flat(t)[i] = Flat(t)[i - 1] \o t[i]
  <2>1. /\ Len(t) > 0 => Flat(t)[1] = t[1]
        /\ \A i \in 2 .. Len(t) : Flat(t)[i] = Flat(t)[i - 1] \o t[i]
    BY <1>1, FlatUnfolds
  <2>2. Len(t) = n + 1 /\ n + 1 > 0
    BY <1>1
  <2> HIDE DEF n
  <2> QED BY <2>1, <2>2
<1>4. FlattenSeq(t) = Flat(t)[n + 1]
  <2>1. Len(t) > 0 => FlattenSeq(t) = Flat(t)[Len(t)]
    BY <1>1, FlattenIs
  <2> QED BY <2>1, <1>1
<1>5. /\ n = 0 => FlattenSeq(s) = <<>>
      /\ n > 0 => FlattenSeq(s) = Flat(s)[n]
  BY FlattenIs
<1> HIDE DEF n
<1> DEFINE U == {i \in Nat : i \in 1 .. n => Flat(t)[i] = Flat(s)[i]}
<1>6. 0 \in U
  OBVIOUS
<1>7. ASSUME NEW i \in Nat, i \in U PROVE i + 1 \in U
  <2>1. CASE i = 0 /\ n > 0
    <3>1. 1 \in 1 .. n
      BY <2>1, <1>1
    <3>2. t[1] = s[1]
      BY <3>1, <1>1
    <3>3. Flat(t)[1] = Flat(s)[1]
      BY <2>1, <3>2, <1>2, <1>3
    <3> QED BY <2>1, <3>3
  <2>2. CASE i # 0 /\ i + 1 \in 1 .. n
    <3>1. i + 1 \in 2 .. n /\ i + 1 \in 2 .. n + 1 /\ (i + 1) - 1 = i /\ i \in 1 .. n
      BY <2>2, <1>1
    <3>2. Flat(s)[i + 1] = Flat(s)[i] \o s[i + 1]
      BY <3>1, <1>2
    <3>3. Flat(t)[i + 1] = Flat(t)[i] \o t[i + 1]
      BY <3>1, <1>3
    <3>4. Flat(t)[i] = Flat(s)[i] /\ t[i + 1] = s[i + 1]
      BY <3>1, <1>1, <1>7, <2>2
    <3>5. Flat(t)[i + 1] = Flat(s)[i + 1]
      BY <3>2, <3>3, <3>4
    <3> QED BY <3>5
  <2> QED BY <2>1, <2>2, <1>1
<1>8. \A i \in Nat : i \in U
  <2> HIDE DEF U
  <2> QED BY <1>6, <1>7, Induction
<1>9. CASE n = 0
  <2>1. Flat(t)[n + 1] = e
    BY <1>9, <1>1, <1>3
  <2> QED BY <2>1, <1>4, <1>5, <1>9 DEF t
<1>10. CASE n > 0
  <2>1. n + 1 \in 2 .. n + 1 /\ (n + 1) - 1 = n /\ n \in 1 .. n
    BY <1>1, <1>10
  <2>2. Flat(t)[n + 1] = Flat(t)[n] \o e
    BY <2>1, <1>1, <1>3
  <2>3. Flat(t)[n] = Flat(s)[n]
    BY <2>1, <1>8
  <2> QED BY <2>2, <2>3, <1>4, <1>5, <1>10 DEF t
<1> QED BY <1>9, <1>10, <1>1

\* One more sequence in front is concatenated to the rest, too.
LEMMA FlattenPrepend ==
    ASSUME NEW T, NEW e \in Seq(T)
    PROVE  \A s \in Seq(Seq(T)) : FlattenSeq(<<e>> \o s) = e \o FlattenSeq(s)
<1> DEFINE U == {n \in Nat : \A s \in Seq(Seq(T)) :
                    Len(s) = n => FlattenSeq(<<e>> \o s) = e \o FlattenSeq(s)}
<1>1. 0 \in U
  <2> SUFFICES ASSUME NEW s \in Seq(Seq(T)), Len(s) = 0
               PROVE  FlattenSeq(<<e>> \o s) = e \o FlattenSeq(s)
    OBVIOUS
  <2>1. <<>> \in Seq(Seq(T)) /\ <<>> \in Seq(T)
    OBVIOUS
  <2>2. s = <<>> /\ <<e>> \o s = Append(<<>>, e)
    OBVIOUS
  <2>3. FlattenSeq(<<>>) = <<>>
    BY <2>1, FlattenIs
  <2>4. FlattenSeq(Append(<<>>, e)) = FlattenSeq(<<>>) \o e
    BY <2>1, FlattenAppend
  <2>5. FlattenSeq(<<e>> \o s) = <<>> \o e /\ FlattenSeq(s) = <<>>
    BY <2>2, <2>3, <2>4
  <2>6. <<>> \o e = e /\ e \o <<>> = e
    OBVIOUS
  <2> QED BY <2>5, <2>6
<1>2. ASSUME NEW n \in Nat, n \in U PROVE n + 1 \in U
  <2>0. n + 1 \in Nat
    OBVIOUS
  <2> SUFFICES ASSUME NEW s \in Seq(Seq(T)), Len(s) = n + 1
               PROVE  FlattenSeq(<<e>> \o s) = e \o FlattenSeq(s)
    BY <2>0, Zenon
  <2> DEFINE f == SubSeq(s, 1, n)
             l == s[n + 1]
  <2>1. f \in Seq(Seq(T)) /\ Len(f) = n /\ l \in Seq(T) /\ s = Append(f, l)
    OBVIOUS
  <2> HIDE DEF f, l
  <2>2. <<e>> \o s = Append(<<e>> \o f, l) /\ <<e>> \o f \in Seq(Seq(T))
    BY <2>1
  <2>3. FlattenSeq(<<e>> \o s) = FlattenSeq(<<e>> \o f) \o l
    BY <2>1, <2>2, FlattenAppend
  <2>4. FlattenSeq(<<e>> \o f) = e \o FlattenSeq(f)
    BY <1>2, <2>1
  <2>5. FlattenSeq(s) = FlattenSeq(f) \o l
    BY <2>1, FlattenAppend
  <2>6. FlattenSeq(f) \in Seq(T)
    BY <2>1, FlattenIs
  <2>7. (e \o FlattenSeq(f)) \o l = e \o (FlattenSeq(f) \o l)
    BY <2>1, <2>6, ConcatAssociative, SMTT(90)
  <2> QED BY <2>3, <2>4, <2>5, <2>7
<1>3. \A n \in Nat : n \in U
  <2> HIDE DEF U
  <2> QED BY <1>1, <1>2, Induction
<1>4. \A s \in Seq(Seq(T)) : Len(s) \in Nat
  OBVIOUS
<1> QED BY <1>3, <1>4

=============================================================================
