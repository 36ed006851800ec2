-------------------------- MODULE CandleQueryProofs --------------------------
(***************************************************************************)
(* What a client of the verified candle query can rely on: that pages tile *)
(* the candles it asked for, that the cursors it is given are served, and  *)
(* that nothing is served or reported verified but what an import wrote,   *)
(* for CSVs of any length, any bounds and limits, and any damage.          *)
(***************************************************************************)
EXTENDS CandleQuery, LoopFacts, SequenceTheorems

-----------------------------------------------------------------------------
(* The loop that keeps the wanted candles.                                 *)

\* The values of that loop, round by round.
KeptBy(kept, s, S, T) ==
  /\ kept \in [0..Len(s) -> Seq(T \cap S)]
  /\ kept[0] = <<>>
  /\ \A n \in 1..Len(s) :
       kept[n] = IF s[n] \in S THEN Append(kept[n - 1], s[n]) ELSE kept[n - 1]
  /\ Kept(s, S) = kept[Len(s)]

\* The loop has values in every round, each made from the one before.
LEMMA KeptRounds ==
  ASSUME NEW T, NEW s \in Seq(T), NEW S
  PROVE  \E kept : KeptBy(kept, s, S, T)
<1> DEFINE N == Len(s)
           V == Seq(T \cap S)
           Keep(n, v) == IF s[n] \in S THEN Append(v, s[n]) ELSE v
           Round(F) == [n \in 0..N |->
             IF n = 0 THEN <<>>
             ELSE IF s[n] \in S THEN Append(F[n - 1], s[n]) ELSE F[n - 1]]
           kept == CHOOSE F : F = Round(F)
           step == [p \in (1..N) \X V |-> Keep(p[1], p[2])]
<1>1. N \in Nat /\ \A n \in 1..N : s[n] \in T  OBVIOUS
<1>2. \A n \in 1..N, v \in V : Keep(n, v) \in V  BY <1>1
<1>3. <<>> \in V  OBVIOUS
<1>4. step \in [(1..N) \X V -> V]
  <2> HIDE DEF Keep, V, N
  <2> QED BY <1>2
<1>5. PICK f : LoopRun(f, N, V, <<>>, step)
  <2> HIDE DEF step, N, V
  <2> QED BY <1>1, <1>3, <1>4, LoopExists
<1>6. f \in [0..N -> V] /\ f[0] = <<>> /\ \A n \in 1..N : f[n] = Keep(n, f[n - 1])
  <2>1. f \in [0..N -> V] /\ f[0] = <<>> /\ \A n \in 1..N : f[n] = step[<<n, f[n - 1]>>]
    <3> HIDE DEF step, V
    <3> QED BY <1>5 DEF LoopRun
  <2>2. \A n \in 1..N : f[n - 1] \in V  BY <1>1, <2>1
  <2> HIDE DEF Keep, V, N
  <2> QED BY <2>1, <2>2
<1>7. f = Round(f)
  <2>1. \A n \in 0..N : n = 0 \/ n \in 1..N  BY <1>1
  <2>2. \A n \in 0..N : f[n] = Round(f)[n]  BY <1>6, <2>1
  <2> HIDE DEF V, N
  <2> QED BY <1>6, <2>2
<1>8. kept = Round(kept)
  <2> HIDE DEF Round
  <2> QED BY <1>7
<1>9. kept[0] = <<>> /\ \A n \in 1..N : kept[n] = Keep(n, kept[n - 1])
  <2> HIDE DEF kept
  <2>1. \A n \in 0..N : kept[n] = IF n = 0 THEN <<>> ELSE Keep(n, kept[n - 1])  BY <1>8
  <2> HIDE DEF Keep
  <2> QED BY <1>1, <2>1
<1> DEFINE K == {k \in 0..N : kept[k] \in V}
<1>10. 0..N \subseteq K
  <2> HIDE DEF kept, V, Keep
  <2>1. 0 \in K  BY <1>1, <1>3, <1>9
  <2>2. ASSUME NEW k \in 1..N, k - 1 \in K PROVE k \in K  BY <1>1, <1>2, <1>9, <2>2
  <2> HIDE DEF K, N
  <2> QED BY <1>1, <2>1, <2>2, Rounds
<1>11. kept \in [0..N -> V]
  <2>1. DOMAIN kept = 0..N /\ kept = [n \in 0..N |-> kept[n]]
    <3> HIDE DEF kept
    <3> QED BY <1>8
  <2> HIDE DEF kept, V
  <2> QED BY <1>10, <2>1
<1>12. Kept(s, S) = kept[N]  BY DEF Kept
<1> HIDE DEF kept
<1> QED BY <1>9, <1>11, <1>12 DEF KeptBy

\* What the loop keeps are elements of the sequence that are wanted.
LEMMA KeptType ==
  ASSUME NEW T, NEW s \in Seq(T), NEW S
  PROVE  Kept(s, S) \in Seq(T \cap S)
<1>1. PICK kept : KeptBy(kept, s, S, T)  BY KeptRounds
<1>2. Len(s) \in Nat  OBVIOUS
<1> QED BY <1>1, <1>2 DEF KeptBy

Increasing(s) == \A i \in 1..(Len(s) - 1) : s[i] < s[i + 1]

Ordered(s) == \A i, j \in 1..Len(s) : i < j => s[i] < s[j]

\* It keeps their order.
LEMMA KeptOrdered ==
  ASSUME NEW s \in Seq(Int), Increasing(s), NEW S
  PROVE  Ordered(Kept(s, S))
<1> DEFINE N == Len(s)
<1>1. N \in Nat /\ \A n \in 1..N : s[n] \in Int  OBVIOUS
<1>2. PICK kept : KeptBy(kept, s, S, Int)  BY KeptRounds
<1>3. /\ kept[0] = <<>> /\ Kept(s, S) = kept[N]
      /\ \A n \in 1..N : kept[n] = IF s[n] \in S THEN Append(kept[n - 1], s[n]) ELSE kept[n - 1]
      /\ \A n \in 0..N : kept[n] \in Seq(Int)
  <2>1. \A n \in 0..N : kept[n] \in Seq(Int \cap S)  BY <1>2 DEF KeptBy
  <2> QED BY <1>2, <2>1 DEF KeptBy
<1> DEFINE Below(n) == \A i \in 1..Len(kept[n]) : n > 0 /\ kept[n][i] <= s[n]
           K == {n \in 0..N : Ordered(kept[n]) /\ Below(n)}
<1>4. 0 \in K  BY <1>1, <1>3 DEF Ordered
<1>5. ASSUME NEW n \in 1..N, n - 1 \in K PROVE n \in K
  <2> DEFINE a == kept[n - 1]
             b == kept[n]
             L == Len(a)
  <2>1. a \in Seq(Int) /\ b \in Seq(Int) /\ s[n] \in Int /\ L \in Nat
        /\ \A i \in 1..L : a[i] \in Int
    BY <1>1, <1>3
  <2>2. Ordered(a) /\ \A i \in 1..L : n - 1 > 0 /\ a[i] <= s[n - 1]  BY <1>5
  <2>3. \A i \in 1..L : a[i] < s[n]
    <3> SUFFICES ASSUME NEW i \in 1..L PROVE a[i] < s[n]  OBVIOUS
    <3>1. n - 1 \in 1..(N - 1) /\ (n - 1) + 1 = n  BY <1>1, <2>2
    <3>2. s[n - 1] < s[n] /\ s[n - 1] \in Int  BY <1>1, <3>1 DEF Increasing
    <3>3. a[i] <= s[n - 1] /\ a[i] \in Int  BY <2>1, <2>2
    <3> HIDE DEF a
    <3> QED BY <2>1, <3>2, <3>3
  <2>4. CASE s[n] \notin S
    <3>1. b = a  BY <1>3, <2>4
    <3>2. \A i \in 1..L : a[i] <= s[n]  BY <2>1, <2>3
    <3> HIDE DEF a, b
    <3>3. Ordered(b) /\ \A i \in 1..Len(b) : n > 0 /\ b[i] <= s[n]  BY <2>2, <3>1, <3>2
    <3> QED BY <3>3 DEF b
  <2>5. CASE s[n] \in S
    <3>1. b = Append(a, s[n])  BY <1>3, <2>5
    <3> HIDE DEF a, b
    <3>2. /\ Len(b) = L + 1 /\ b[L + 1] = s[n]
          /\ \A i \in 1..L : b[i] = a[i]
      BY <2>1, <3>1
    <3>3. \A i \in 1..Len(b) : i \in 1..L \/ i = L + 1  BY <2>1, <3>2
    <3>4. \A i \in 1..Len(b) : b[i] <= s[n]
      <4> SUFFICES ASSUME NEW i \in 1..Len(b) PROVE b[i] <= s[n]  OBVIOUS
      <4>1. CASE i \in 1..L
        <5>1. a[i] < s[n] /\ a[i] \in Int /\ b[i] = a[i]  BY <2>1, <2>3, <3>2, <4>1
        <5> QED BY <2>1, <5>1
      <4>2. CASE i = L + 1  BY <2>1, <3>2, <4>2
      <4> QED BY <3>3, <4>1, <4>2
    <3>5. Ordered(b)
      <4> SUFFICES ASSUME NEW i \in 1..Len(b), NEW j \in 1..Len(b), i < j PROVE b[i] < b[j]
        BY DEF Ordered
      <4>1. i \in 1..L  BY <2>1, <3>2
      <4>2. CASE j \in 1..L
        <5>1. a[i] < a[j]  BY <2>2, <4>1, <4>2 DEF Ordered
        <5> QED BY <3>2, <4>1, <4>2, <5>1
      <4>3. CASE j = L + 1  BY <2>3, <3>2, <4>1, <4>3
      <4> QED BY <3>3, <4>2, <4>3
    <3> QED BY <3>4, <3>5 DEF b
  <2> QED BY <2>4, <2>5
<1>6. 0..N \subseteq K
  <2> HIDE DEF K, N
  <2> QED BY <1>1, <1>4, <1>5, Rounds
<1>7. N \in K  BY <1>1, <1>6
<1> QED BY <1>3, <1>7

\* Two sequences of which the second is extended by one element.
LEMMA AppendToLast ==
  ASSUME NEW a \in Seq(Int), NEW b \in Seq(Int), NEW x \in Int
  PROVE  Append(a \o b, x) = a \o Append(b, x)
<1>1. <<x>> \in Seq(Int) /\ a \o b \in Seq(Int)  OBVIOUS
<1>2. Append(a \o b, x) = (a \o b) \o <<x>> /\ Append(b, x) = b \o <<x>>
  BY <1>1, AppendIsConcat
<1>3. (a \o b) \o <<x>> = a \o (b \o <<x>>)  BY <1>1, ConcatAssociative
<1> QED BY <1>2, <1>3

\* What is kept up to a bound, followed by what is kept above it, is all of it.
LEMMA KeptSplits ==
  ASSUME NEW s \in Seq(Int), Increasing(s), NEW S, NEW c \in Int
  PROVE  Kept(s, S) = Kept(s, {t \in S : t <= c}) \o Kept(s, {t \in S : c < t})
<1> DEFINE N == Len(s)
           A == {t \in S : t <= c}
           B == {t \in S : c < t}
<1>1. N \in Nat /\ \A n \in 1..N : s[n] \in Int  OBVIOUS
<1>2. PICK all : KeptBy(all, s, S, Int)  BY KeptRounds
<1>3. PICK low : KeptBy(low, s, A, Int)  BY KeptRounds
<1>4. PICK high : KeptBy(high, s, B, Int)  BY KeptRounds
<1>5. /\ all[0] = <<>> /\ Kept(s, S) = all[N]
      /\ \A n \in 1..N : all[n] = IF s[n] \in S THEN Append(all[n - 1], s[n]) ELSE all[n - 1]
  BY <1>2 DEF KeptBy
<1>6. /\ low[0] = <<>> /\ Kept(s, A) = low[N]
      /\ \A n \in 1..N : low[n] = IF s[n] \in A THEN Append(low[n - 1], s[n]) ELSE low[n - 1]
      /\ \A n \in 0..N : low[n] \in Seq(Int)
  <2> HIDE DEF A
  <2>1. \A n \in 0..N : low[n] \in Seq(Int \cap A)  BY <1>3 DEF KeptBy
  <2> QED BY <1>3, <2>1 DEF KeptBy
<1>7. /\ high[0] = <<>> /\ Kept(s, B) = high[N]
      /\ \A n \in 1..N : high[n] = IF s[n] \in B THEN Append(high[n - 1], s[n]) ELSE high[n - 1]
      /\ \A n \in 0..N : high[n] \in Seq(Int)
  <2> HIDE DEF B
  <2>1. \A n \in 0..N : high[n] \in Seq(Int \cap B)  BY <1>4 DEF KeptBy
  <2> QED BY <1>4, <2>1 DEF KeptBy
<1> DEFINE Split(n) == /\ all[n] = low[n] \o high[n]
                       /\ high[n] # <<>> => n > 0 /\ c < s[n]
           K == {n \in 0..N : Split(n)}
<1>8. 0 \in K
  <2>1. all[0] = <<>> /\ low[0] = <<>> /\ high[0] = <<>>  BY <1>5, <1>6, <1>7
  <2>2. <<>> \o <<>> = <<>>  OBVIOUS
  <2> HIDE DEF A, B
  <2>3. Split(0)  BY <2>1, <2>2
  <2> HIDE DEF Split
  <2> QED BY <1>1, <2>3
<1>9. ASSUME NEW n \in 1..N, Split(n - 1) PROVE Split(n)
  <2>1. /\ all[n - 1] = low[n - 1] \o high[n - 1]
        /\ high[n - 1] # <<>> => n - 1 > 0 /\ c < s[n - 1]
    BY <1>9
  <2>2. /\ s[n] \in Int /\ low[n - 1] \in Seq(Int) /\ high[n - 1] \in Seq(Int)
    BY <1>1, <1>6, <1>7
  <2>3. high[n - 1] # <<>> => c < s[n]
    <3> SUFFICES ASSUME high[n - 1] # <<>> PROVE c < s[n]  OBVIOUS
    <3>1. n - 1 > 0 /\ c < s[n - 1]  BY <2>1
    <3>2. n - 1 \in 1..(N - 1) /\ (n - 1) + 1 = n  BY <1>1, <3>1
    <3>3. s[n - 1] < s[n] /\ s[n - 1] \in Int  BY <1>1, <3>2 DEF Increasing
    <3> QED BY <2>2, <3>1, <3>3
  <2>4. CASE s[n] \notin S
    <3>1. s[n] \notin A /\ s[n] \notin B  BY <2>4
    <3>2. all[n] = all[n - 1] /\ low[n] = low[n - 1] /\ high[n] = high[n - 1]
      BY <1>5, <1>6, <1>7, <2>4, <3>1
    <3>3. all[n] = low[n] \o high[n]  BY <2>1, <3>2
    <3>4. high[n] # <<>> => n > 0 /\ c < s[n]  BY <2>3, <3>2
    <3> QED BY <3>3, <3>4
  <2>5. CASE s[n] \in S /\ s[n] <= c
    <3>1. s[n] \in A /\ s[n] \notin B  BY <2>2, <2>5
    <3>2. all[n] = Append(all[n - 1], s[n]) /\ low[n] = Append(low[n - 1], s[n])
          /\ high[n] = high[n - 1]
      BY <1>5, <1>6, <1>7, <2>5, <3>1
    <3>3. high[n - 1] = <<>>  BY <2>2, <2>3, <2>5
    <3>4. all[n - 1] = low[n - 1] /\ low[n] \o high[n] = low[n]  BY <2>1, <2>2, <3>2, <3>3
    <3> QED BY <3>2, <3>3, <3>4
  <2>6. CASE s[n] \in S /\ c < s[n]
    <3>0. n > 0 /\ n - 1 \in 0..N  BY <1>1
    <3>1. s[n] \notin A /\ s[n] \in B  BY <2>2, <2>6
    <3>2. all[n] = Append(all[n - 1], s[n]) /\ low[n] = low[n - 1]
          /\ high[n] = Append(high[n - 1], s[n])
      BY <1>5, <1>6, <1>7, <2>6, <3>1
    <3> HIDE DEF A, B
    <3>3. Append(low[n - 1] \o high[n - 1], s[n]) = low[n - 1] \o Append(high[n - 1], s[n])
      BY <2>2, AppendToLast
    <3>4. all[n] = low[n] \o high[n]  BY <2>1, <3>2, <3>3
    <3> QED BY <2>6, <3>0, <3>4
  <2>7. s[n] <= c \/ c < s[n]  BY <2>2
  <2> HIDE DEF Split
  <2> QED BY <2>4, <2>5, <2>6, <2>7
<1>10. 0..N \subseteq K
  <2> HIDE DEF Split
  <2>1. ASSUME NEW n \in 1..N, n - 1 \in K PROVE n \in K  BY <1>9, <2>1
  <2> HIDE DEF K, N
  <2> QED BY <1>1, <1>8, <2>1, Rounds
<1>11. all[N] = low[N] \o high[N]
  <2>1. N \in K
    <3> HIDE DEF K
    <3> QED BY <1>1, <1>10
  <2> HIDE DEF A, B
  <2> QED BY <2>1
<1> HIDE DEF A, B, N
<1>12. Kept(s, S) = Kept(s, A) \o Kept(s, B)  BY <1>5, <1>6, <1>7, <1>11
<1> QED BY <1>12 DEF A, B

\* So, after the first l of what is kept comes what is kept above the l-th.
LEMMA KeptPages ==
  ASSUME NEW s \in Seq(Int), Increasing(s), NEW S, NEW l \in 1..Len(Kept(s, S))
  PROVE  /\ Kept(s, S)[l] \in Int
         /\ Kept(s, S) = SubSeq(Kept(s, S), 1, l)
                           \o Kept(s, {t \in S : Kept(s, S)[l] < t})
<1> DEFINE a == Kept(s, S)
           c == a[l]
           A == {t \in S : t <= c}
           B == {t \in S : c < t}
           low == Kept(s, A)
           high == Kept(s, B)
<1>1. a \in Seq(Int)
  <2>1. a \in Seq(Int \cap S)  BY KeptType
  <2> QED BY <2>1
<1>2. low \in Seq(Int) /\ \A i \in 1..Len(low) : low[i] <= c
  <2>1. low \in Seq(Int \cap A)  BY KeptType
  <2>2. \A i \in 1..Len(low) : low[i] \in Int \cap A  BY <2>1, SequenceElements
  <2> HIDE DEF low
  <2> QED BY <2>1, <2>2
<1>3. high \in Seq(Int) /\ \A i \in 1..Len(high) : c < high[i]
  <2>1. high \in Seq(Int \cap B)  BY KeptType
  <2>2. \A i \in 1..Len(high) : high[i] \in Int \cap B  BY <2>1, SequenceElements
  <2> HIDE DEF high
  <2> QED BY <2>1, <2>2
<1>4. c \in Int  BY <1>1
<1>5. a = low \o high
  <2> HIDE DEF c
  <2> QED BY <1>4, KeptSplits
<1>6. Ordered(a)  BY KeptOrdered
<1> HIDE DEF a, low, high
<1>7. l \in 1..Len(a) /\ Len(a) \in Nat /\ Len(low) \in Nat /\ Len(high) \in Nat
  BY <1>1, <1>2, <1>3 DEF a
<1>8. /\ Len(a) = Len(low) + Len(high)
      /\ \A i \in 1..Len(low) : a[i] = low[i]
      /\ \A i \in 1..Len(high) : a[Len(low) + i] = high[i]
  BY <1>2, <1>3, <1>5
<1>9. ~(Len(low) < l)
  <2> SUFFICES ASSUME Len(low) < l PROVE FALSE  OBVIOUS
  <2>1. l - Len(low) \in 1..Len(high) /\ Len(low) + (l - Len(low)) = l  BY <1>7, <1>8
  <2>2. c < high[l - Len(low)] /\ high[l - Len(low)] = c  BY <1>3, <1>8, <2>1
  <2> QED BY <1>4, <2>2
<1>10. ~(l < Len(low))
  <2> SUFFICES ASSUME l < Len(low) PROVE FALSE  OBVIOUS
  <2>1. Len(low) \in 1..Len(a) /\ Len(low) \in 1..Len(low)  BY <1>7, <1>8
  <2>2. a[l] < a[Len(low)]  BY <1>6, <1>7, <2>1 DEF Ordered
  <2>3. a[Len(low)] <= c  BY <1>2, <1>8, <2>1
  <2>4. a[l] \in Int /\ a[Len(low)] \in Int /\ c = a[l]  BY <1>1, <1>7, <2>1
  <2> QED BY <2>2, <2>3, <2>4
<1>11. Len(low) = l  BY <1>7, <1>9, <1>10
<1>12. low = SubSeq(a, 1, l)  BY <1>1, <1>2, <1>7, <1>8, <1>11
<1>13. a = SubSeq(a, 1, l) \o high  BY <1>5, <1>12
<1> QED BY <1>4, <1>13 DEF a, high
-----------------------------------------------------------------------------
(* What a stored row can be.                                               *)

StoredRow == WrittenRow \/ AlteredRow

\* A sequence over a set is one over any larger set.
LEMMA WiderSeq ==
  ASSUME NEW S, NEW T, S \subseteq T, NEW s \in Seq(S)
  PROVE  s \in Seq(T)
<1>1. s \in [1..Len(s) -> S] /\ Len(s) \in Nat  BY SequenceElements
<1>2. s \in [1..Len(s) -> T]  BY <1>1
<1> QED BY <1>1, <1>2, FunctionIsSequence

\* The open times of the CSV.
LEMMA StoredOpens ==
  ASSUME StoredRow
  PROVE  /\ csv.opens \in Seq(Times) /\ csv.opens \in Seq(Int)
         /\ AlteredRow => Len(csv.opens) = 2
<1>1. ASSUME NEW k \in Nat, NEW o \in SeqOf(Times, k) PROVE o \in Seq(Times)
  BY DEF SeqOf
<1>2. csv.opens \in Seq(Times)
  <2>1. CASE WrittenRow  BY <1>1, <2>1, QueryAssumption DEF WrittenRow
  <2>2. CASE AlteredRow  BY <1>1, <2>2 DEF AlteredRow
  <2> QED BY <2>1, <2>2 DEF StoredRow
<1>3. csv.opens \in Seq(Int)
  <2>1. Times \subseteq Int  BY QueryAssumption DEF Times
  <2> QED BY <1>2, <2>1, WiderSeq
<1>4. AlteredRow => Len(csv.opens) = 2  BY DEF AlteredRow
<1> QED BY <1>2, <1>3, <1>4

\* A CSV that is complete ascends from an open time to another.
LEMMA CompleteOpens ==
  ASSUME NEW opens \in Seq(Int), Complete(opens)
  PROVE  /\ opens # <<>> /\ Len(opens) \in Nat \ {0}
         /\ Head(opens) \in Int /\ Last(opens) \in Int
         /\ Increasing(opens)
         /\ \A i \in 1..Len(opens) : opens[i] \in Int /\ IsAligned(opens[i])
<1>1. opens # <<>> /\ Len(opens) \in Nat \ {0} /\ \A i \in 1..Len(opens) : opens[i] \in Int
  BY DEF Complete
<1>2. Head(opens) \in Int /\ Last(opens) \in Int  BY <1>1 DEF Last
<1>3. Increasing(opens)
  <2> SUFFICES ASSUME NEW i \in 1..(Len(opens) - 1) PROVE opens[i] < opens[i + 1]
    BY DEF Increasing
  <2>1. opens[i + 1] = opens[i] + Duration /\ opens[i] \in Int  BY <1>1 DEF Complete
  <2> QED BY <2>1, QueryAssumption
<1> QED BY <1>1, <1>2, <1>3 DEF Complete

\* The rows of a single partition.
LEMMA OnePartition ==
  ASSUME NEW part, part.rows \in Int
  PROVE  PartitionRows(<<part>>) = part.rows
<1> DEFINE parts == <<part>>
           Round(F) == [n \in 0..Len(parts) |->
             IF n = 0 THEN 0 ELSE F[n - 1] + parts[n].rows]
           rows == CHOOSE F : F = Round(F)
           f == [n \in 0..1 |-> IF n = 0 THEN 0 ELSE part.rows]
<1>1. Len(parts) = 1 /\ parts[1] = part  OBVIOUS
<1>2. f = Round(f)
  <2>1. f[0] = 0 /\ f[1] = part.rows  OBVIOUS
  <2>2. \A n \in 0..1 : n = 0 \/ n = 1  OBVIOUS
  <2>3. \A n \in 0..1 : f[n] = Round(f)[n]
    <3> HIDE DEF f, parts
    <3> QED BY <1>1, <2>1, <2>2
  <2> HIDE DEF parts
  <2> QED BY <1>1, <2>3
<1>3. rows = Round(rows)
  <2> HIDE DEF Round, f
  <2> QED BY <1>2
<1>4. rows[0] = 0 /\ rows[1] = rows[0] + parts[1].rows
  <2> HIDE DEF rows, parts
  <2> QED BY <1>1, <1>3
<1>5. PartitionRows(parts) = rows[1]
  <2>1. PartitionRows(parts) = rows[Len(parts)]  BY DEF PartitionRows
  <2> HIDE DEF rows
  <2> QED BY <1>1, <2>1
<1> QED BY <1>1, <1>4, <1>5

-----------------------------------------------------------------------------
(* Nothing but what an import wrote passes the verification.               *)

\* What stays true of a page that was verified, whatever becomes of its file.
PageFits(page) ==
  /\ page.key \in Keys /\ media[page.key] = "json"
  /\ page.sha = page.key /\ page.size = page.key

PagesFit == Pages \notin {None, <<>>} /\ \A k \in 1..Len(Pages) : PageFits(Pages[k])

PartFits(part) ==
  /\ ParseCanonicalCandlesCsv(csv)
  /\ part.rows = Len(csv.opens)
  /\ part.min = Head(csv.opens) /\ part.max = Last(csv.opens)

\* The property, of the stored row alone.
AsWritten ==
  LET written == Written(csv.opens) IN
  /\ csv.canonical /\ Complete(csv.opens)
  /\ hash = Payload(row)
  /\ row.prov = written.prov
  /\ row.min \in {None, written.min} /\ row.max \in {None, written.max}
  /\ Head(row.parts) = Head(written.parts)
  /\ req.kind = "verify" => row.parts = written.parts /\ row.total = written.total

\* What the metadata checks have found when they succeed.
LEMMA LoadedFacts ==
  ASSUME LoadOutcome = "ok", req.kind \in {"query", "verify"}
  PROVE  /\ published /\ row.status = "published"
         /\ row.exchange = "binance_futures" /\ row.version = "2"
         /\ row.prov # None /\ row.prov.format = "contract_klines"
         /\ row.prov.endpoint = "klines"
         /\ hash = Payload(row) /\ TotalsAgree
         /\ req.kind = "verify" => Len(row.parts) = 1
         /\ AgreesWithProvenance(Part) = "ok"
         /\ Target \in {row.parts[i].timeframe : i \in DOMAIN row.parts}
         /\ Part \in {row.parts[i] : i \in {j \in DOMAIN row.parts : row.parts[j].timeframe = Target}}
<1>1. Visible /\ VerifyMetadata(Target) = "ok"
  BY DEF LoadOutcome
<1>2. req.kind = "verify" => Len(row.parts) = 1
  BY DEF LoadOutcome
<1>3. Support = "ok" /\ hash = Payload(row) /\ TotalsAgree /\ Matches(Target) # {}
      /\ AgreesWithProvenance(Part) = "ok"
  BY <1>1 DEF VerifyMetadata, Part
<1>4. (CHOOSE i \in Matches(Target) : TRUE) \in Matches(Target)  BY <1>3
<1> QED BY <1>1, <1>2, <1>3, <1>4 DEF Visible, Support, Matches, Part, PartitionOf
\* What the import writes for a CSV that is complete.
LEMMA WrittenFields ==
  ASSUME NEW opens \in Seq(Int), opens # <<>>
  PROVE  LET w == Written(opens) IN
         /\ w.min = Head(opens) /\ w.max = Last(opens) /\ w.total = Len(opens)
         /\ w.prov.timeframe = "own" /\ w.prov.expected = Len(opens)
         /\ w.prov.actual = Len(opens)
         /\ w.parts[1].timeframe = "own" /\ w.parts[1].key = "csv" /\ w.parts[1].sha = "csv"
         /\ w.parts[1].size = "csv" /\ w.parts[1].rows = Len(opens)
         /\ w.parts[1].min = Head(opens) /\ w.parts[1].max = Last(opens)
         /\ w.parts = <<w.parts[1]>>
BY DEF Written, Partition

\* The verification, of a row, its provenance, its parts.
LEMMA ProvIsWritten ==
  ASSUME NEW opens \in Seq(Int), opens # <<>>, csv.opens = opens,
         NEW x \in AlteredProv(Written(opens).prov), row.prov = x,
         row.parts = Written(opens).parts,
         row.prov # None, row.prov.format = "contract_klines",
         row.prov.endpoint = "klines", PagesFit, CountsAgree,
         AgreesWithProvenance(row.parts[1]) = "ok"
  PROVE  FALSE
<1> DEFINE w == Written(opens)
           p == w.prov
           n == p.norm
<1>1. /\ Len(opens) \in Nat
      /\ p = [format |-> "contract_klines", endpoint |-> "klines", timeframe |-> "own",
              pages |-> <<Page("page1"), Page("page2")>>,
              norm |-> [key |-> "csv", sha |-> "csv", size |-> "csv",
                        rows |-> Len(opens), media |-> "csv"],
              expected |-> Len(opens), actual |-> Len(opens)]
  BY DEF Written
<1>2. /\ row.parts[1].timeframe = "own" /\ row.parts[1].key = "csv" /\ row.parts[1].sha = "csv"
      /\ row.parts[1].size = "csv" /\ row.parts[1].rows = Len(opens)
  BY WrittenFields
<1> HIDE DEF w, p
<1>3. x \in AlteredProv(p)  BY DEF w, p
<1>4. CASE x \in { None, [p EXCEPT !.format = "index_klines"], [p EXCEPT !.endpoint = "other"],
    [p EXCEPT !.timeframe = "other"],
    [p EXCEPT !.expected = @ + 1], [p EXCEPT !.actual = @ - 1] }
  <2>1. CASE x = [p EXCEPT !.format = "index_klines"]  BY <1>1, <2>1
  <2>2. CASE x = [p EXCEPT !.endpoint = "other"]  BY <1>1, <2>2
  <2>3. CASE x = [p EXCEPT !.timeframe = "other"]
    BY <1>1, <1>2, <2>3 DEF AgreesWithProvenance
  <2>4. CASE x = [p EXCEPT !.expected = @ + 1]
    <3>1. x.expected = Len(opens) + 1  BY <1>1, <2>4
    <3> QED BY <1>1, <3>1 DEF CountsAgree
  <2>5. CASE x = [p EXCEPT !.actual = @ - 1]
    <3>1. x.actual = Len(opens) - 1  BY <1>1, <2>5
    <3> QED BY <1>1, <3>1 DEF CountsAgree
  <2> QED BY <1>4, <2>1, <2>2, <2>3, <2>4, <2>5
<1>5. ASSUME NEW y \in AlteredPages(p.pages), x = [p EXCEPT !.pages = y] PROVE FALSE
  <2> DEFINE g == p.pages
  <2>1. /\ Pages = y /\ y \notin {None, <<>>} /\ \A k \in 1..Len(y) : PageFits(y[k])
    BY <1>1, <1>5 DEF Pages, PagesFit
  <2>2. g = << [key |-> "page1", sha |-> "page1", size |-> "page1"],
               [key |-> "page2", sha |-> "page2", size |-> "page2"] >>
    BY <1>1 DEF Page
  <2>3. y \in {[g EXCEPT ![2].key = "gone"], [g EXCEPT ![2].sha = "gone"],
               [g EXCEPT ![2].size = Junk], [g EXCEPT ![1].key = "page2"]}
    BY <2>1 DEF AlteredPages
  <2> HIDE DEF g
  <2>4. Len(y) = 2  BY <2>2, <2>3
  <2>5. PageFits(y[1]) /\ PageFits(y[2])  BY <2>1, <2>4
  <2>6. CASE y = [g EXCEPT ![2].key = "gone"]
    <3>1. y[2].key = "gone"  BY <2>2, <2>6
    <3> QED BY <2>5, <3>1 DEF PageFits, Keys
  <2>7. CASE y = [g EXCEPT ![2].sha = "gone"]
    <3>1. y[2].key = "page2" /\ y[2].sha = "gone"  BY <2>2, <2>7
    <3> QED BY <2>5, <3>1 DEF PageFits
  <2>8. CASE y = [g EXCEPT ![2].size = Junk]
    <3>1. y[2].key = "page2" /\ y[2].size = Junk  BY <2>2, <2>8
    <3> QED BY <2>5, <3>1, NoneAssumption DEF PageFits, Keys
  <2>9. CASE y = [g EXCEPT ![1].key = "page2"]
    <3>1. y[1].key = "page2" /\ y[1].sha = "page1"  BY <2>2, <2>9
    <3> QED BY <2>5, <3>1 DEF PageFits
  <2> QED BY <2>3, <2>6, <2>7, <2>8, <2>9
<1>6. ASSUME NEW y \in AlteredNorm(n), x = [p EXCEPT !.norm = y] PROVE FALSE
  <2>1. row.prov.norm = y  BY <1>1, <1>6
  <2>2. n = [key |-> "csv", sha |-> "csv", size |-> "csv", rows |-> Len(opens), media |-> "csv"]
    BY <1>1
  <2> HIDE DEF n
  <2>3. y # None /\ y.key = "csv" /\ y.sha = "csv" /\ y.size # Junk /\ y.size = "csv"
        /\ y.rows = Len(opens) /\ y.media = "csv"
    BY <1>2, <2>1 DEF AgreesWithProvenance
  <2>4. y \in {[n EXCEPT !.key = "gone"], [n EXCEPT !.sha = "gone"],
               [n EXCEPT !.size = "gone"], [n EXCEPT !.size = Junk],
               [n EXCEPT !.rows = @ + 1], [n EXCEPT !.media = "json"]}
    BY <2>3 DEF AlteredNorm
  <2>5. CASE y = [n EXCEPT !.rows = @ + 1]
    <3>1. y.rows = Len(opens) + 1  BY <2>2, <2>5
    <3> QED BY <1>1, <2>3, <3>1
  <2>6. CASE y = [n EXCEPT !.size = Junk]  BY <2>2, <2>3, <2>6
  <2>7. CASE y \in {[n EXCEPT !.key = "gone"], [n EXCEPT !.sha = "gone"],
                    [n EXCEPT !.size = "gone"], [n EXCEPT !.media = "json"]}
    BY <2>2, <2>3, <2>7
  <2> QED BY <2>4, <2>5, <2>6, <2>7
<1> QED BY <1>3, <1>4, <1>5, <1>6 DEF AlteredProv
LEMMA PartsAreWritten ==
  ASSUME NEW opens \in Seq(Int), Complete(opens), csv.opens = opens,
         NEW x \in AlteredPart(Written(opens).parts[1]), row.parts = <<x>>,
         row.prov = Written(opens).prov,
         AgreesWithProvenance(x) = "ok", PartFits(x)
  PROVE  FALSE
<1> DEFINE part == Written(opens).parts[1]
<1>0. opens # <<>> /\ Len(opens) \in Nat /\ Last(opens) \in Int  BY CompleteOpens
<1>1. part = [timeframe |-> "own", key |-> "csv", sha |-> "csv", size |-> "csv",
              rows |-> Len(opens), min |-> Head(opens), max |-> Last(opens)]
  BY <1>0 DEF Written, Partition
<1>2. row.prov = [format |-> "contract_klines", endpoint |-> "klines", timeframe |-> "own",
              pages |-> <<Page("page1"), Page("page2")>>,
              norm |-> [key |-> "csv", sha |-> "csv", size |-> "csv",
                        rows |-> Len(opens), media |-> "csv"],
              expected |-> Len(opens), actual |-> Len(opens)]
  BY DEF Written
<1> HIDE DEF part
<1>3. x \in { [part EXCEPT !.timeframe = "other"], [part EXCEPT !.key = "gone"],
    [part EXCEPT !.sha = "gone"], [part EXCEPT !.rows = @ + 1], [part EXCEPT !.max = None] }
  BY DEF part, AlteredPart
<1>4. /\ x.key = row.prov.norm.key /\ x.sha = row.prov.norm.sha
      /\ x.timeframe = row.prov.timeframe
  BY DEF AgreesWithProvenance
<1>5. x.rows = Len(opens) /\ x.max = Last(opens)  BY DEF PartFits
<1>6. CASE x = [part EXCEPT !.rows = @ + 1]
  <2>1. x.rows = Len(opens) + 1  BY <1>1, <1>6
  <2> QED BY <1>0, <1>5, <2>1
<1>7. CASE x = [part EXCEPT !.max = None]
  <2>1. x.max = None  BY <1>1, <1>7
  <2> QED BY <1>0, <1>5, <2>1, QueryAssumption
<1>8. CASE x \in { [part EXCEPT !.timeframe = "other"], [part EXCEPT !.key = "gone"],
                   [part EXCEPT !.sha = "gone"] }
  BY <1>1, <1>2, <1>4, <1>8
<1> QED BY <1>3, <1>6, <1>7, <1>8

\* The extremes of a single partition.
LEMMA OneBound == ASSUME NEW b \in Int PROVE Least({b}) = b /\ Greatest({b}) = b
BY DEF Least, Greatest

\* No altered row but one without extremes, or with a partition of another
\* timeframe behind its own, passes the checks.
LEMMA RowIsWritten ==
  ASSUME NEW opens \in Seq(Int), Complete(opens), csv.opens = opens, Len(opens) = 2,
         row \in AlteredRows(Written(opens)),
         row.status = "published", row.exchange = "binance_futures", row.version = "2",
         TotalsAgree, req.kind = "verify" => Len(row.parts) = 1,
         PartFits(Part), Part \in {row.parts[i] : i \in DOMAIN row.parts}
  PROVE  LET w == Written(opens) IN
         /\ row.prov = w.prov
         /\ row.min \in {None, w.min} /\ row.max \in {None, w.max}
         /\ Head(row.parts) = w.parts[1]
         /\ req.kind = "verify" => row.parts = w.parts /\ row.total = w.total
<1> DEFINE w == Written(opens)
           part == w.parts[1]
           n == Len(opens)
           Fine == /\ row.prov = w.prov
                   /\ row.min \in {None, w.min} /\ row.max \in {None, w.max}
                   /\ Head(row.parts) = part
                   /\ req.kind = "verify" => row.parts = w.parts /\ row.total = w.total
<1> SUFFICES Fine  OBVIOUS
<1>0. n = 2 /\ opens # <<>> /\ Head(opens) \in Int /\ Last(opens) \in Int
  BY CompleteOpens
<1>1. w = [status |-> "published", exchange |-> "binance_futures", version |-> "2",
           total |-> n, min |-> Head(opens), max |-> Last(opens), prov |-> w.prov,
           parts |-> <<part>>]
  BY <1>0 DEF Written, Partition
<1>2. part = [timeframe |-> "own", key |-> "csv", sha |-> "csv", size |-> "csv",
              rows |-> n, min |-> Head(opens), max |-> Last(opens)]
  BY <1>0 DEF Written, Partition
<1> HIDE DEF w
<1>3. row \in { [w EXCEPT !.status = "draft"], [w EXCEPT !.exchange = "binance_spot"],
    [w EXCEPT !.version = "1"], [w EXCEPT !.total = @ + 1],
    [w EXCEPT !.min = None], [w EXCEPT !.max = None],
    [w EXCEPT !.min = @ + Duration], [w EXCEPT !.max = @ + Duration],
    [w EXCEPT !.parts = <<>>], [w EXCEPT !.parts = <<>>, !.total = 0],
    [w EXCEPT !.parts = <<[part EXCEPT !.rows = @ + 1]>>,
              !.prov.norm.rows = @ + 1, !.total = @ + 1],
    [w EXCEPT !.parts = <<[part EXCEPT !.min = @ + Duration]>>, !.min = None],
    [w EXCEPT !.parts = <<part, [part EXCEPT !.timeframe = "other"]>>, !.total = 2 * @] }
  BY DEF AlteredRows, w
<1> HIDE DEF part
<1>4. CASE row \in {[w EXCEPT !.status = "draft"], [w EXCEPT !.exchange = "binance_spot"],
                    [w EXCEPT !.version = "1"]}
  BY <1>1, <1>4
<1>5. CASE row \in {[w EXCEPT !.min = None], [w EXCEPT !.max = None]}
  BY <1>1, <1>5
<1>6. CASE row \in {[w EXCEPT !.parts = <<>>], [w EXCEPT !.parts = <<>>, !.total = 0]}
  <2>1. row.parts = <<>>  BY <1>1, <1>6
  <2> QED BY <2>1 DEF TotalsAgree
<1>7. CASE row = [w EXCEPT !.total = @ + 1]
  <2>1. row.parts = <<part>> /\ row.total = n + 1  BY <1>1, <1>7
  <2>2. PartitionRows(row.parts) = n  BY <1>0, <1>2, <2>1, OnePartition
  <2> QED BY <1>0, <2>1, <2>2 DEF TotalsAgree
<1>8. CASE row = [w EXCEPT !.min = @ + Duration]
  <2>1. row.parts = <<part>> /\ row.min = Head(opens) + Duration  BY <1>1, <1>8
  <2>2. row.parts[1].min = Head(opens) /\ DOMAIN row.parts = {1}
    BY <1>2, <2>1
  <2>3. Known({row.parts[i].min : i \in DOMAIN row.parts}) = {Head(opens)}
    BY <1>0, <2>2, QueryAssumption DEF Known
  <2>4. row.min \in {None, Least({Head(opens)})}  BY <2>3 DEF TotalsAgree
  <2>5. row.min \in {None, Head(opens)}  BY <1>0, <2>4, OneBound
  <2> QED BY <1>0, <2>1, <2>5, QueryAssumption
<1>9. CASE row = [w EXCEPT !.max = @ + Duration]
  <2>1. row.parts = <<part>> /\ row.max = Last(opens) + Duration  BY <1>1, <1>9
  <2>2. row.parts[1].max = Last(opens) /\ DOMAIN row.parts = {1}
    BY <1>2, <2>1
  <2>3. Known({row.parts[i].max : i \in DOMAIN row.parts}) = {Last(opens)}
    BY <1>0, <2>2, QueryAssumption DEF Known
  <2>4. row.max \in {None, Greatest({Last(opens)})}  BY <2>3 DEF TotalsAgree
  <2>5. row.max \in {None, Last(opens)}  BY <1>0, <2>4, OneBound
  <2> QED BY <1>0, <2>1, <2>5, QueryAssumption
<1>10. CASE row = [w EXCEPT !.parts = <<[part EXCEPT !.rows = @ + 1]>>,
                            !.prov.norm.rows = @ + 1, !.total = @ + 1]
  <2>1. row.parts = <<[part EXCEPT !.rows = @ + 1]>>  BY <1>1, <1>10
  <2>2. Part = [part EXCEPT !.rows = @ + 1]  BY <2>1
  <2>3. Part.rows = n + 1  BY <1>2, <2>2
  <2> QED BY <1>0, <2>3 DEF PartFits
<1>11. CASE row = [w EXCEPT !.parts = <<[part EXCEPT !.min = @ + Duration]>>, !.min = None]
  <2>1. row.parts = <<[part EXCEPT !.min = @ + Duration]>>  BY <1>1, <1>11
  <2>2. Part = [part EXCEPT !.min = @ + Duration]  BY <2>1
  <2>3. Part.min = Head(opens) + Duration  BY <1>2, <2>2
  <2> QED BY <1>0, <2>3, QueryAssumption DEF PartFits
<1>12. CASE row = [w EXCEPT !.parts = <<part, [part EXCEPT !.timeframe = "other"]>>, !.total = 2 * @]
  <2>1. row.parts = <<part, [part EXCEPT !.timeframe = "other"]>> /\ row.prov = w.prov
        /\ row.min = w.min /\ row.max = w.max
    BY <1>1, <1>12
  <2>2. Head(row.parts) = part /\ Len(row.parts) = 2  BY <2>1
  <2> QED BY <2>1, <2>2
<1> HIDE DEF Fine
<1> QED BY <1>3, <1>4, <1>5, <1>6, <1>7, <1>8, <1>9, <1>10, <1>11, <1>12
\* The verification of a request succeeds only for what an import wrote.
LEMMA VerifiedIsWritten ==
  ASSUME StoredRow, req.kind \in {"query", "verify"}, LoadOutcome = "ok",
         PagesFit, PartFits(Part), CountsAgree
  PROVE  AsWritten
<1> DEFINE opens == csv.opens
           w == Written(opens)
<1>1. opens \in Seq(Int) /\ csv.canonical /\ Complete(opens)
  BY StoredOpens DEF PartFits, ParseCanonicalCandlesCsv
<1>2. opens # <<>> /\ Head(opens) \in Int /\ Last(opens) \in Int  BY <1>1, CompleteOpens
<1>3. /\ row.status = "published" /\ row.exchange = "binance_futures" /\ row.version = "2"
      /\ row.prov # None /\ row.prov.format = "contract_klines"
      /\ row.prov.endpoint = "klines"
      /\ hash = Payload(row) /\ TotalsAgree
      /\ req.kind = "verify" => Len(row.parts) = 1
      /\ AgreesWithProvenance(Part) = "ok"
      /\ Part \in {row.parts[i] : i \in DOMAIN row.parts}
  <2>1. Part \in {row.parts[i] : i \in {j \in DOMAIN row.parts : row.parts[j].timeframe = Target}}
    BY LoadedFacts
  <2>2. Part \in {row.parts[i] : i \in DOMAIN row.parts}  BY <2>1
  <2> QED BY <2>2, LoadedFacts
<1>4. w.parts = <<w.parts[1]>> /\ Head(w.parts) = w.parts[1]  BY DEF Written
<1> SUFFICES /\ row.prov = w.prov
             /\ row.min \in {None, w.min} /\ row.max \in {None, w.max}
             /\ Head(row.parts) = w.parts[1]
             /\ req.kind = "verify" => row.parts = w.parts /\ row.total = w.total
  BY <1>1, <1>3, <1>4 DEF AsWritten
<1>5. CASE row = w  BY <1>4, <1>5
<1>6. CASE row # w
  <2>1. AlteredRow /\ Len(opens) = 2  BY <1>6, StoredOpens DEF StoredRow, WrittenRow
  <2>2. \/ row \in AlteredRows(w)
        \/ \E x \in AlteredProv(w.prov) : row = [w EXCEPT !.prov = x]
        \/ \E x \in AlteredPart(w.parts[1]) : row = [w EXCEPT !.parts = <<x>>]
    BY <1>6, <2>1 DEF AlteredRow, Altered
  <2>3. CASE row \in AlteredRows(w)
    BY <1>1, <1>3, <2>1, <2>3, RowIsWritten
  <2>4. ASSUME NEW x \in AlteredProv(w.prov), row = [w EXCEPT !.prov = x] PROVE FALSE
    <3>1. row.prov = x /\ row.parts = w.parts  BY <2>4 DEF Written
    <3> HIDE DEF w
    <3>2. row.parts = <<w.parts[1]>>  BY <1>4, <3>1
    <3>3. DOMAIN row.parts = {1}  BY <3>2
    <3>4. Part = row.parts[1]  BY <1>3, <3>3
    <3> QED BY <1>1, <1>2, <1>3, <2>4, <3>1, <3>4, ProvIsWritten DEF w
  <2>5. ASSUME NEW x \in AlteredPart(w.parts[1]), row = [w EXCEPT !.parts = <<x>>] PROVE FALSE
    <3>1. row.prov = w.prov /\ row.parts = <<x>>  BY <2>5 DEF Written
    <3>2. DOMAIN row.parts = {1} /\ row.parts[1] = x  BY <3>1
    <3>3. Part = x  BY <1>3, <3>2
    <3> QED BY <1>1, <1>3, <2>5, <3>1, <3>3, PartsAreWritten
  <2> QED BY <2>2, <2>3, <2>4, <2>5
<1> QED BY <1>5, <1>6
-----------------------------------------------------------------------------
(* Pages.                                                                  *)

AnyQuery == [kind : {"query"}, timeframe : {"own", "other"}, start : Int \cup {None},
             end : Int \cup {None}, after : Int \cup {None}, limit : Int]

\* What a query has still to bring.
Remaining(q) == Kept(csv.opens, Wanted(q))

\* What remains are open times that the query names.
LEMMA RemainingType ==
  ASSUME StoredRow, NEW q
  PROVE  /\ Remaining(q) \in Seq(Int)
         /\ \A i \in 1..Len(Remaining(q)) : Remaining(q)[i] \in Times \cap Wanted(q)
<1>1. csv.opens \in Seq(Times)  BY StoredOpens
<1>2. Remaining(q) \in Seq(Times \cap Wanted(q))  BY <1>1, KeptType DEF Remaining
<1>3. Times \cap Wanted(q) \subseteq Int  BY QueryAssumption DEF Times
<1>4. Remaining(q) \in Seq(Int)  BY <1>2, <1>3, WiderSeq
<1> QED BY <1>2, <1>4, SequenceElements

\* What is kept are open times of the CSV.
LEMMA KeptIsThere ==
  ASSUME NEW s \in Seq(Int), NEW S
  PROVE  \A i \in 1..Len(Kept(s, S)) : \E n \in 1..Len(s) : Kept(s, S)[i] = s[n]
<1> DEFINE R == {s[n] : n \in 1..Len(s)}
<1>1. s \in [1..Len(s) -> R] /\ Len(s) \in Nat  BY SequenceElements
<1>2. s \in Seq(R)
  <2> HIDE DEF R
  <2> QED BY <1>1, FunctionIsSequence
<1>3. Kept(s, S) \in Seq(R \cap S)
  <2> HIDE DEF R
  <2> QED BY <1>2, KeptType
<1>4. \A i \in 1..Len(Kept(s, S)) : Kept(s, S)[i] \in R \cap S
  <2> HIDE DEF R
  <2> QED BY <1>3, SequenceElements
<1> QED BY <1>4

\* A page takes the first so many, and there is a cursor when more remain.
LEMMA PageTakes ==
  ASSUME StoredRow, NEW q \in AnyQuery, ValidQuery(q)
  PROVE  /\ Remaining(q) # <<>> => PageOf(q) # <<>>
         /\ Len(Remaining(q)) <= q.limit => PageOf(q) = Remaining(q) /\ NextCursor(q) = None
         /\ Len(Remaining(q)) > q.limit =>
              /\ PageOf(q) = SubSeq(Remaining(q), 1, q.limit)
              /\ NextCursor(q) = Remaining(q)[q.limit]
<1> DEFINE a == Remaining(q)
           l == q.limit
           more == CollectMatchingPage(csv.opens, q)
<1>1. a \in Seq(Int) /\ Len(a) \in Nat /\ l \in Nat \ {0}
  <2>1. a \in Seq(Int)  BY RemainingType
  <2>2. q.limit \in MinCandleLimit..MaxCandleLimit  BY DEF ValidQuery
  <2>3. MinCandleLimit..MaxCandleLimit \subseteq Nat \ {0}
    BY DEF MinCandleLimit, MaxCandleLimit
  <2>4. q.limit \in Nat \ {0}  BY <2>2, <2>3
  <2> HIDE DEF a
  <2> QED BY <2>1, <2>4
<1>2. more = Prefix(a, l + 1)  BY DEF CollectMatchingPage, Remaining
<1>3. PageOf(q) = Prefix(more, l) /\ (HasMore(q) <=> Len(more) > l)
  BY DEF PageOf, HasMore
<1> HIDE DEF a, l, more
<1>4. CASE Len(a) <= l
  <2>1. more = a  BY <1>1, <1>2, <1>4 DEF Prefix
  <2>2. ~HasMore(q)  BY <1>1, <1>3, <1>4, <2>1
  <2>3. Prefix(a, l) = a  BY <1>1, <1>4 DEF Prefix
  <2>4. PageOf(q) = a  BY <1>3, <2>1, <2>3
  <2> QED BY <1>1, <1>4, <2>2, <2>4 DEF NextCursor, a, l
<1>5. CASE Len(a) > l
  <2>1. more = SubSeq(a, 1, l + 1) /\ Len(more) = l + 1
    BY <1>1, <1>2, <1>5 DEF Prefix
  <2>2. PageOf(q) = SubSeq(more, 1, l) /\ HasMore(q)  BY <1>1, <1>3, <2>1 DEF Prefix
  <2>3. SubSeq(more, 1, l) = SubSeq(a, 1, l)  BY <1>1, <1>5, <2>1
  <2>4. Len(SubSeq(a, 1, l)) = l /\ SubSeq(a, 1, l)[l] = a[l]  BY <1>1, <1>5
  <2>5. PageOf(q) # <<>> /\ Last(PageOf(q)) = a[l]
    <3> DEFINE b == SubSeq(a, 1, l)
    <3>1. PageOf(q) = b /\ Len(b) = l /\ b[l] = a[l]  BY <2>2, <2>3, <2>4
    <3>2. l # 0 /\ Len(<<>>) = 0  BY <1>1
    <3> HIDE DEF b
    <3> QED BY <3>1, <3>2 DEF Last
  <2> QED BY <1>1, <1>5, <2>2, <2>3, <2>5 DEF NextCursor, a, l
<1> QED BY <1>1, <1>4, <1>5

\* A page is a sequence of open times, a cursor an open time.
LEMMA PageType ==
  ASSUME StoredRow, NEW q \in AnyQuery, ValidQuery(q)
  PROVE  PageOf(q) \in Seq(Int) /\ NextCursor(q) \in Int \cup {None}
<1> DEFINE a == Remaining(q)
<1>1. a \in Seq(Int) /\ q.limit \in Int
  BY RemainingType DEF AnyQuery
<1>2. q.limit \in Nat \ {0}
  <2>1. q.limit \in MinCandleLimit..MaxCandleLimit  BY DEF ValidQuery
  <2>2. MinCandleLimit..MaxCandleLimit \subseteq Nat \ {0}
    BY DEF MinCandleLimit, MaxCandleLimit
  <2> QED BY <2>1, <2>2
<1> HIDE DEF a
<1>3. CASE Len(a) <= q.limit
  <2>1. PageOf(q) = a /\ NextCursor(q) = None  BY <1>3, PageTakes DEF a
  <2> QED BY <1>1, <2>1
<1>4. CASE Len(a) > q.limit
  <2>1. PageOf(q) = SubSeq(a, 1, q.limit) /\ NextCursor(q) = a[q.limit]
    BY <1>4, PageTakes DEF a
  <2>2. SubSeq(a, 1, q.limit) \in Seq(Int) /\ a[q.limit] \in Int  BY <1>1, <1>2, <1>4
  <2> QED BY <2>1, <2>2
<1> QED BY <1>1, <1>3, <1>4

\* The next request of a client that follows the cursor of a page.
After(q, c) == [q EXCEPT !.after = c]

\* Following a cursor changes nothing else of a query.
LEMMA AfterIsQuery ==
  ASSUME NEW q \in AnyQuery, NEW c \in Int \cup {None}
  PROVE  /\ After(q, c) \in AnyQuery /\ After(q, c).after = c
         /\ After(q, c).start = q.start /\ After(q, c).end = q.end
         /\ After(q, c).limit = q.limit /\ After(q, c).timeframe = q.timeframe
BY DEF AnyQuery, After

\* Wherever the limit cuts, the page and what the cursor's query has still to
\* bring are what remained; that query is valid and brings something.
LEMMA PagesMeet ==
  ASSUME StoredRow, Complete(csv.opens), NEW q \in AnyQuery, ValidQuery(q),
         NextCursor(q) # None
  PROVE  /\ NextCursor(q) \in Int
         /\ Remaining(q) = PageOf(q) \o Remaining(After(q, NextCursor(q)))
         /\ Remaining(After(q, NextCursor(q))) # <<>>
         /\ ValidQuery(After(q, NextCursor(q)))
<1> DEFINE a == Remaining(q)
           l == q.limit
           c == a[l]
           n == After(q, c)
<1>0. csv.opens \in Seq(Int) /\ Increasing(csv.opens)
      /\ \A i \in 1..Len(csv.opens) : IsAligned(csv.opens[i])
  BY StoredOpens, CompleteOpens
<1>1. a \in Seq(Int) /\ Len(a) \in Nat /\ l \in Nat \ {0}
  <2>1. a \in Seq(Int)  BY RemainingType
  <2>2. q.limit \in MinCandleLimit..MaxCandleLimit  BY DEF ValidQuery
  <2>3. MinCandleLimit..MaxCandleLimit \subseteq Nat \ {0}
    BY DEF MinCandleLimit, MaxCandleLimit
  <2>4. q.limit \in Nat \ {0}  BY <2>2, <2>3
  <2> HIDE DEF a
  <2> QED BY <2>1, <2>4
<1>2. Len(a) > l /\ PageOf(q) = SubSeq(a, 1, l) /\ NextCursor(q) = c
  <2>1. ~(Len(a) <= l)  BY PageTakes
  <2>2. Len(a) > l  BY <1>1, <2>1
  <2> QED BY <2>2, PageTakes
<1>3. l \in 1..Len(a)  BY <1>1, <1>2
<1>4. /\ c \in Int
      /\ a = SubSeq(a, 1, l) \o Kept(csv.opens, {t \in Wanted(q) : c < t})
  BY <1>0, <1>3, KeptPages DEF Remaining
<1>5. c \in Wanted(q) /\ c \in Times  BY <1>3, RemainingType
<1>6. c # None /\ IsAligned(c)
  <2>1. \E k \in 1..Len(csv.opens) : c = csv.opens[k]
    BY <1>0, <1>3, KeptIsThere DEF Remaining
  <2> QED BY <1>0, <1>4, <2>1, QueryAssumption
<1>7. /\ n \in AnyQuery /\ n.after = c /\ n.start = q.start /\ n.end = q.end
      /\ n.limit = q.limit
  BY <1>4, AfterIsQuery
<1>8. /\ q.start \in Int \cup {None} /\ q.end \in Int \cup {None}
      /\ q.after \in Int \cup {None} /\ None \notin Int
  BY QueryAssumption DEF AnyQuery
<1>9. /\ q.start # None => q.start <= c
      /\ q.end # None => c < q.end
      /\ q.after # None => q.after < c
  BY <1>5 DEF Wanted
<1>10. Wanted(n) = {t \in Wanted(q) : c < t}
  <2> SUFFICES ASSUME NEW t \in Times PROVE t \in Wanted(n) <=> t \in Wanted(q) /\ c < t
    BY DEF Wanted
  <2>0. t \in Int  BY QueryAssumption DEF Times
  <2>1. t \in Wanted(n) <=> /\ q.start # None => q.start <= t
                            /\ q.end # None => t < q.end
                            /\ c < t
    BY <1>6, <1>7 DEF Wanted
  <2> HIDE DEF c, n
  <2>2. c < t => (q.after # None => q.after < t)
    <3> SUFFICES ASSUME c < t, q.after # None PROVE q.after < t  OBVIOUS
    <3>1. q.after \in Int /\ q.after < c  BY <1>8, <1>9
    <3> QED BY <1>4, <2>0, <3>1
  <2> QED BY <2>1, <2>2 DEF Wanted
<1>11. a = PageOf(q) \o Remaining(n)  BY <1>2, <1>4, <1>10 DEF Remaining
<1>12. Remaining(n) # <<>>
  <2> SUFFICES ASSUME Remaining(n) = <<>> PROVE FALSE  OBVIOUS
  <2> HIDE DEF a, n, c, l
  <2>1. a = SubSeq(a, 1, l) \o <<>>  BY <1>2, <1>11
  <2>2. Len(SubSeq(a, 1, l) \o <<>>) = l  BY <1>1, <1>2
  <2> QED BY <1>1, <1>2, <2>1, <2>2
<1>13. ValidQuery(n)
  <2>1. \A t \in Known({n.start, n.end, n.after}) : IsAligned(t)
    BY <1>6, <1>7 DEF Known, ValidQuery
  <2> QED BY <1>7, <1>9, <2>1 DEF ValidQuery
<1> QED BY <1>2, <1>4, <1>11, <1>12, <1>13
-----------------------------------------------------------------------------
(* The inductive invariant: what the steps of a request have established.  *)

Served == pc = "answered" /\ answer = "ok" /\ req.kind \in {"query", "verify"}
Serving == pc \in {"pages", "partition"} \/ Served

\* What was verified of the row, the pages and the CSV stays verified.
VerifiedInv ==
  /\ StoredRow /\ verified \in Nat /\ (pc = "load" => verified = 0)
  /\ Serving => /\ req.kind \in {"query", "verify"} /\ LoadOutcome = "ok"
                /\ \A k \in 1..verified : PageFits(Pages[k])
  /\ pc = "partition" \/ Served => Pages \notin {None, <<>>} /\ verified = Len(Pages)
  /\ Served => PartFits(Part) /\ CountsAgree

\* What the request has read: one page for each it has verified, then the CSV,
\* each as it was when it was read.
PagesRead == {<<Pages[k].key, "whole">> : k \in 1..verified}
ReadsInv ==
  /\ pc = "load" => reads = {}
  /\ Serving => reads = PagesRead \cup (IF Served THEN {<<Part.key, "whole">>} ELSE {})

Failures == {"notFound", "noPartition", "unsupported", "integrity", "unavailable"}

\* A request is the client's own or differs from it in the cursor.
RequestInv ==
  /\ pc \in {"idle", "load", "pages", "partition", "answered"}
  /\ pc = "idle" => first = None /\ received = <<>> /\ cursor = None
  /\ pc # "idle" =>
       /\ first \in AnyQuery \cup Lookup
       /\ \/ req = first
          \/ first \in AnyQuery /\ req \in AnyQuery /\ req = After(first, req.after)
  /\ cursor \in Int \cup {None} /\ received \in Seq(Int)
  /\ pc = "answered" => answer \in {"ok", "invalid"} \cup Failures

\* What the client has received and what the request, or the cursor it will
\* follow, has still to bring are what it asked for.
TileInv ==
  pc # "idle" =>
    /\ req.kind = "query" =>
         IF Served
         THEN IF cursor = None THEN received = Remaining(first)
              ELSE /\ received \o Remaining(After(req, cursor)) = Remaining(first)
                   /\ Remaining(After(req, cursor)) # <<>> /\ ValidQuery(After(req, cursor))
         ELSE received \o Remaining(req) = Remaining(first)
    /\ IF pc = "answered" /\ answer = "invalid" THEN req.kind = "query" /\ ~ValidQuery(req)
       ELSE req.kind = "query" => ValidQuery(req)
    /\ req # first => Remaining(req) # <<>> /\ ValidQuery(req)

\* A row that an import wrote, with all that belongs to it.
SoundRow ==
  /\ csv.canonical /\ Complete(csv.opens) /\ row = Written(csv.opens)
  /\ hash = Payload(row) /\ media = ProperMedia

SoundInv ==
  /\ damages \in Nat /\ (damages = 0 => files = [k \in Keys |-> "whole"])
  /\ SoundRow /\ damages = 0 =>
       /\ pc = "pages" => verified \in {0, 1}
       /\ pc = "answered" =>
            /\ answer \notin {"unsupported", "integrity"}
            /\ answer = "noPartition" => req.timeframe = "other"

IInv == VerifiedInv /\ ReadsInv /\ RequestInv /\ TileInv /\ SoundInv

\* The invariant holds at first.
LEMMA InvInit == Init => IInv
<1> SUFFICES ASSUME Init PROVE IInv  OBVIOUS
<1>1. /\ StoredRow /\ verified = 0 /\ pc = "idle" /\ first = None /\ received = <<>>
      /\ cursor = None /\ damages = 0 /\ files = [k \in Keys |-> "whole"]
  BY DEF Init, StoredRow
<1>2. received \in Seq(Int)  BY <1>1
<1>3. VerifiedInv  BY <1>1 DEF VerifiedInv, Serving, Served
<1>4. RequestInv  BY <1>1, <1>2 DEF RequestInv
<1>5. TileInv  BY <1>1 DEF TileInv
<1>6. SoundInv  BY <1>1 DEF SoundInv
<1>7. ReadsInv  BY <1>1 DEF ReadsInv, Serving, Served
<1> QED BY <1>3, <1>4, <1>5, <1>6, <1>7 DEF IInv

\* What the checks read does not change.
LEMMA StoredStays ==
  ASSUME UNCHANGED stored
  PROVE  /\ StoredRow' <=> StoredRow
         /\ Pages' = Pages
         /\ \A page : PageFits(page)' <=> PageFits(page)
         /\ \A part : PartFits(part)' <=> PartFits(part)
         /\ CountsAgree' <=> CountsAgree
         /\ \A q : Remaining(q)' = Remaining(q)
         /\ SoundRow' <=> SoundRow
<1>1. csv' = csv /\ row' = row /\ hash' = hash /\ media' = media  BY DEF stored
<1>2. StoredRow' <=> StoredRow  BY <1>1 DEF StoredRow, WrittenRow, AlteredRow
<1> QED
  BY <1>1, <1>2 DEF Pages, PageFits, PartFits, CountsAgree, Remaining, SoundRow

\* Nor does the outcome of the checks, as long as the request is the same.
LEMMA OutcomeStays ==
  ASSUME UNCHANGED stored, UNCHANGED req
  PROVE  /\ Part' = Part
         /\ published' = published => LoadOutcome' = LoadOutcome
<1>1. csv' = csv /\ row' = row /\ hash' = hash /\ media' = media /\ req' = req
  BY DEF stored
<1>2. Part' = Part  BY <1>1 DEF Part, PartitionOf, Matches, Target
<1>3. Support' = Support  BY <1>1 DEF Support
<1>4. VerifyMetadata(Target)' = VerifyMetadata(Target)
  BY <1>1 DEF VerifyMetadata, Support, TotalsAgree, Matches, PartitionOf, Target, AgreesWithProvenance
<1> QED BY <1>1, <1>2, <1>3, <1>4 DEF LoadOutcome, Visible
\* The steps in which the client makes a request.
Requests == Ask \/ FollowCursor \/ Repeat

\* What the three of them do.
LEMMA RequestFacts ==
  ASSUME RequestInv, Requests
  PROVE  /\ UNCHANGED <<stored, published, files, damages, received, cursor>>
         /\ verified' = 0 /\ reads' = {} /\ req' \in AnyQuery \cup Lookup
         /\ \/ pc' = "load" /\ (req'.kind = "query" => ValidQuery(req'))
            \/ pc' = "answered" /\ answer' = "invalid" /\ req'.kind = "query" /\ ~ValidQuery(req')
         /\ Ask => pc = "idle" /\ first' = req' /\ req' \in Query \cup Lookup
         /\ FollowCursor => /\ pc = "answered" /\ answer = "ok" /\ req.kind = "query"
                            /\ cursor # None /\ req' = After(req, cursor) /\ first' = first
         /\ Repeat => /\ pc = "answered" /\ answer \notin {"ok", "invalid"}
                      /\ req' = req /\ first' = first
<1>1. ASSUME NEW r, Request(r)
      PROVE  /\ req' = r /\ verified' = 0 /\ reads' = {} /\ UNCHANGED <<received, cursor>>
             /\ \/ pc' = "load" /\ (r.kind = "query" => ValidQuery(r))
                \/ pc' = "answered" /\ answer' = "invalid" /\ r.kind = "query" /\ ~ValidQuery(r)
  BY <1>1 DEF Request, Refuse, Submit
<1>2. CASE Ask
  <2>1. PICK r \in Query \cup Lookup : first' = r /\ Request(r)  BY <1>2 DEF Ask
  <2>2. Query \subseteq AnyQuery
    <3>1. Nat \subseteq Int  OBVIOUS
    <3>2. Bounds \subseteq Nat /\ Limits \subseteq Int  BY QueryAssumption
    <3>3. Bounds \cup {None} \subseteq Int \cup {None}  BY <3>1, <3>2
    <3> QED BY <3>2, <3>3 DEF Query, AnyQuery
  <2> QED BY <1>1, <1>2, <2>1, <2>2 DEF Ask, FollowCursor, Repeat, Outside
<1>3. CASE FollowCursor
  <2>1. Request(After(req, cursor))  BY <1>3 DEF FollowCursor, After
  <2>2. req \in AnyQuery /\ cursor \in Int \cup {None}
    BY <1>3 DEF FollowCursor, RequestInv, Lookup
  <2>3. After(req, cursor) \in AnyQuery  BY <2>2, AfterIsQuery
  <2> QED BY <1>1, <1>3, <2>1, <2>3 DEF Ask, FollowCursor, Repeat, Outside
<1>4. CASE Repeat
  <2>1. Request(req) /\ req \in AnyQuery \cup Lookup  BY <1>4 DEF Repeat, RequestInv
  <2> QED BY <1>1, <1>4, <2>1 DEF Ask, FollowCursor, Repeat, Outside
<1> QED BY <1>2, <1>3, <1>4 DEF Requests

\* The steps of the environment.
Surroundings ==
  Publish \/ \E k \in Keys : Restore(k) \/ \E how \in {"rotten", "absent"} : Damage(k, how)

\* None of them touches the row or the client.
LEMMA SurroundingsFacts ==
  ASSUME Surroundings
  PROVE  /\ UNCHANGED stored /\ UNCHANGED client
         /\ published' = published \/ ~published
BY DEF Surroundings, Publish, Restore, Damage

\* Each step preserves each part of the invariant; first what was verified.
LEMMA VerifiedStep == IInv /\ [Next]_vars => VerifiedInv'
<1> SUFFICES ASSUME VerifiedInv, RequestInv, [Next]_vars PROVE VerifiedInv'
  BY DEF IInv
<1>1. CASE Requests
  <2>1. UNCHANGED stored /\ verified' = 0 /\ ~Serving' /\ pc' # "partition" /\ ~Served'
    BY <1>1, RequestFacts DEF Serving, Served
  <2> QED BY <2>1, StoredStays DEF VerifiedInv
<1>2. CASE Load
  <2>1. UNCHANGED stored /\ UNCHANGED req /\ UNCHANGED published /\ UNCHANGED verified
    BY <1>2 DEF Load, Outside, Answer
  <2>2. pc = "load" /\ verified = 0  BY <1>2 DEF Load, VerifiedInv
  <2>3. CASE LoadOutcome = "ok" /\ req.kind \in {"query", "verify"}
    <3>1. pc' = "pages" /\ verified' = 0 /\ ~Served'
      BY <1>2, <2>1, <2>2, <2>3 DEF Load, Served
    <3>2. LoadOutcome' = "ok"  BY <2>1, <2>3, OutcomeStays
    <3> QED BY <2>1, <2>3, <3>1, <3>2, StoredStays DEF VerifiedInv
  <2>4. CASE ~(LoadOutcome = "ok" /\ req.kind \in {"query", "verify"})
    <3>1. pc' = "answered" /\ answer' = LoadOutcome  BY <1>2, <2>4 DEF Load, Answer
    <3>2. ~Serving' /\ ~Served' /\ pc' # "partition" /\ pc' # "load"
      BY <2>1, <2>4, <3>1 DEF Serving, Served
    <3> QED BY <2>1, <3>2, StoredStays DEF VerifiedInv
  <2> QED BY <2>3, <2>4
<1>3. CASE DatabaseFails
  <2>1. /\ UNCHANGED stored /\ UNCHANGED verified
        /\ ~Serving' /\ ~Served' /\ pc' # "partition" /\ pc' # "load"
    BY <1>3 DEF DatabaseFails, Outside, Answer, Serving, Served
  <2> QED BY <2>1, StoredStays DEF VerifiedInv
<1>4. CASE VerifyPage
  <2>1. UNCHANGED stored /\ UNCHANGED req /\ UNCHANGED published /\ pc = "pages" /\ Serving
    BY <1>4 DEF VerifyPage, Outside, Answer, Serving
  <2>2. CASE answer' = "integrity" /\ pc' = "answered" /\ UNCHANGED verified
    <3>1. ~Serving' /\ ~Served'  BY <2>2 DEF Serving, Served
    <3> QED BY <2>1, <2>2, <3>1, StoredStays DEF VerifiedInv
  <2>3. CASE ~(answer' = "integrity" /\ pc' = "answered" /\ UNCHANGED verified)
    <3>1. /\ Pages \notin {None, <<>>} /\ PageVerified(Pages[verified + 1])
          /\ verified' = verified + 1
          /\ pc' = IF verified' = Len(Pages) THEN "partition" ELSE "pages"
      BY <1>4, <2>3 DEF VerifyPage, Answer
    <3>2. verified \in Nat /\ \A k \in 1..verified : PageFits(Pages[k])
      BY <2>1 DEF VerifiedInv
    <3>3. PageFits(Pages[verified + 1])  BY <3>1 DEF PageVerified, Readable, PageFits
    <3>4. \A k \in 1..verified' : k \in 1..verified \/ k = verified + 1  BY <3>1, <3>2
    <3>5. \A k \in 1..verified' : PageFits(Pages[k])  BY <3>2, <3>3, <3>4
    <3>6. LoadOutcome' = "ok" /\ req'.kind \in {"query", "verify"}
      BY <2>1, OutcomeStays DEF VerifiedInv
    <3>7. ~Served' /\ pc' # "load" /\ verified' \in Nat  BY <3>1, <3>2 DEF Served
    <3>8. Pages' = Pages /\ \A k \in 1..verified' : PageFits(Pages[k])'
      BY <2>1, <3>5, StoredStays
    <3>9. pc' = "partition" => verified' = Len(Pages)  BY <3>1
    <3>10. StoredRow'  BY <2>1, StoredStays DEF VerifiedInv
    <3> QED BY <3>1, <3>6, <3>7, <3>8, <3>9, <3>10 DEF VerifiedInv
  <2> QED BY <2>2, <2>3
<1>5. CASE ReadPartition
  <2>1. /\ UNCHANGED stored /\ UNCHANGED req /\ UNCHANGED published /\ UNCHANGED verified
        /\ pc = "partition" /\ Serving /\ pc' = "answered"
    BY <1>5 DEF ReadPartition, Outside, Answer, Serving
  <2>2. CASE ~PartitionVerified(Part) \/ ~CountsAgree
    <3>1. ~Serving' /\ ~Served'
      BY <1>5, <2>2 DEF ReadPartition, Answer, Serving, Served
    <3> QED BY <2>1, <3>1, StoredStays DEF VerifiedInv
  <2>3. CASE PartitionVerified(Part) /\ CountsAgree
    <3>1. PartFits(Part) /\ CountsAgree  BY <2>3 DEF PartitionVerified, PartFits
    <3>2. Part' = Part /\ LoadOutcome' = LoadOutcome  BY <2>1, OutcomeStays
    <3>3. PartFits(Part)' /\ CountsAgree'
      BY <2>1, <3>1, <3>2, StoredStays DEF PartFits, stored
    <3>4. /\ req.kind \in {"query", "verify"} /\ LoadOutcome = "ok"
          /\ \A k \in 1..verified : PageFits(Pages[k])
          /\ Pages \notin {None, <<>>} /\ verified = Len(Pages)
      BY <2>1 DEF VerifiedInv
    <3>5. \A k \in 1..verified' : PageFits(Pages[k])'
      BY <2>1, <3>4, StoredStays
    <3> QED BY <2>1, <3>2, <3>3, <3>4, <3>5, StoredStays DEF VerifiedInv
  <2> QED BY <2>2, <2>3
<1>6. CASE Surroundings \/ UNCHANGED vars
  <2>1. /\ UNCHANGED stored /\ UNCHANGED client
        /\ published' = published \/ ~published
    BY <1>6, SurroundingsFacts DEF vars
  <2>2. /\ pc' = pc /\ req' = req /\ verified' = verified /\ answer' = answer
    BY <2>1 DEF client
  <2>3. (Serving' <=> Serving) /\ (Served' <=> Served)  BY <2>2 DEF Serving, Served
  <2>4. Part' = Part  BY <2>1, <2>2, OutcomeStays
  <2>5. Serving => LoadOutcome' = "ok"
    <3> SUFFICES ASSUME Serving PROVE LoadOutcome' = "ok"  OBVIOUS
    <3>1. LoadOutcome = "ok"  BY DEF VerifiedInv
    <3>2. published  BY <3>1 DEF LoadOutcome, Visible
    <3> QED BY <2>1, <2>2, <3>1, <3>2, OutcomeStays
  <2>6. Served => PartFits(Part)' /\ CountsAgree'
    BY <2>1, <2>4, StoredStays DEF VerifiedInv, PartFits, stored
  <2>7. Serving => \A k \in 1..verified' : PageFits(Pages[k])'
    BY <2>1, <2>2, StoredStays DEF VerifiedInv
  <2> QED BY <2>1, <2>2, <2>3, <2>5, <2>6, <2>7, StoredStays DEF VerifiedInv
<1> QED
  BY <1>1, <1>2, <1>3, <1>4, <1>5, <1>6 DEF Next, Requests, Surroundings

\* A check that succeeds has read its file whole.
LEMMA ReadWhole ==
  /\ \A page : PageVerified(page) => Found(page.key) = {<<page.key, "whole">>}
  /\ \A part : PartitionVerified(part) => Found(part.key) = {<<part.key, "whole">>}
BY DEF PageVerified, PartitionVerified, Readable, Found

\* Then what was read.
LEMMA ReadsStep == IInv /\ [Next]_vars => ReadsInv'
<1> SUFFICES ASSUME VerifiedInv, RequestInv, ReadsInv, [Next]_vars PROVE ReadsInv'
  BY DEF IInv
<1>1. CASE Requests
  <2>1. reads' = {} /\ ~Serving'  BY <1>1, RequestFacts DEF Serving, Served
  <2> QED BY <2>1 DEF ReadsInv
<1>2. CASE Load \/ DatabaseFails
  <2>1. /\ pc = "load" /\ UNCHANGED <<reads, verified, req>> /\ pc' \in {"pages", "answered"}
        /\ pc' = "answered" => answer' = "unavailable" \/ (answer' = LoadOutcome
                                 /\ ~(LoadOutcome = "ok" /\ req.kind \in {"query", "verify"}))
    BY <1>2 DEF Load, DatabaseFails, Answer
  <2>2. ~Served' /\ pc' # "load"  BY <2>1 DEF Served
  <2>3. reads' = {} /\ verified' = 0  BY <2>1 DEF ReadsInv, VerifiedInv
  <2>4. PagesRead' = {}  BY <2>3 DEF PagesRead
  <2> QED BY <2>2, <2>3, <2>4 DEF ReadsInv
<1>3. CASE VerifyPage
  <2>1. UNCHANGED stored /\ UNCHANGED req /\ pc = "pages" /\ Serving /\ ~Served
    BY <1>3 DEF VerifyPage, Outside, Answer, Serving, Served
  <2>2. CASE pc' = "answered" /\ answer' = "integrity"
    BY <2>2 DEF ReadsInv, Serving, Served
  <2>3. CASE ~(pc' = "answered" /\ answer' = "integrity")
    <3>1. /\ PageVerified(Pages[verified + 1]) /\ verified' = verified + 1
          /\ reads' = reads \cup Found(Pages[verified + 1].key)
          /\ pc' \in {"pages", "partition"}
      BY <1>3, <2>3 DEF VerifyPage, Answer
    <3>2. reads' = PagesRead \cup {<<Pages[verified + 1].key, "whole">>}
      BY <2>1, <3>1, ReadWhole DEF ReadsInv
    <3>3. verified \in Nat  BY DEF VerifiedInv
    <3>4. 1..verified' = (1..verified) \cup {verified + 1}  BY <3>1, <3>3
    <3>5. Pages' = Pages  BY <2>1, StoredStays
    <3>6. PagesRead' = PagesRead \cup {<<Pages[verified + 1].key, "whole">>}
      BY <3>4, <3>5 DEF PagesRead
    <3>7. ~Served' /\ pc' # "load"  BY <3>1 DEF Served
    <3> QED BY <3>2, <3>6, <3>7 DEF ReadsInv
  <2> QED BY <2>2, <2>3
<1>4. CASE ReadPartition
  <2>1. /\ UNCHANGED stored /\ UNCHANGED <<req, verified>>
        /\ pc = "partition" /\ Serving /\ ~Served /\ pc' = "answered"
        /\ reads' = reads \cup Found(Part.key)
    BY <1>4 DEF ReadPartition, Outside, Answer, Serving, Served
  <2>2. CASE ~PartitionVerified(Part) \/ ~CountsAgree
    BY <1>4, <2>2 DEF ReadPartition, Answer, ReadsInv, Serving, Served
  <2>3. CASE PartitionVerified(Part) /\ CountsAgree
    <3>1. Served'
      BY <1>4, <2>1, <2>3 DEF ReadPartition, VerifiedInv, Served
    <3>2. PagesRead' = PagesRead /\ Part' = Part
      BY <2>1, StoredStays, OutcomeStays DEF PagesRead
    <3>3. reads' = PagesRead \cup {<<Part.key, "whole">>}
      BY <2>1, <2>3, ReadWhole DEF ReadsInv
    <3> QED BY <2>1, <3>1, <3>2, <3>3 DEF ReadsInv
  <2> QED BY <2>2, <2>3
<1>5. CASE Surroundings \/ UNCHANGED vars
  <2>1. UNCHANGED stored /\ UNCHANGED client  BY <1>5, SurroundingsFacts DEF vars
  <2>2. /\ pc' = pc /\ req' = req /\ verified' = verified /\ answer' = answer /\ reads' = reads
    BY <2>1 DEF client
  <2>3. (Serving' <=> Serving) /\ (Served' <=> Served)  BY <2>2 DEF Serving, Served
  <2>4. PagesRead' = PagesRead /\ Part' = Part
    BY <2>1, <2>2, StoredStays, OutcomeStays DEF PagesRead
  <2> QED BY <2>2, <2>3, <2>4 DEF ReadsInv
<1> QED
  BY <1>1, <1>2, <1>3, <1>4, <1>5 DEF Next, Requests, Surroundings

\* A request is answered "invalid" before anything is read, or by an outcome of
\* the checks, none of which is "invalid".
LEMMA OutcomeType == LoadOutcome \in {"ok"} \cup Failures
BY DEF LoadOutcome, Support, VerifyMetadata, AgreesWithProvenance, Failures

\* The request stays the client's own but for its cursor.
LEMMA RequestStep == IInv /\ [Next]_vars => RequestInv'
<1> SUFFICES ASSUME StoredRow, RequestInv, TileInv, [Next]_vars PROVE RequestInv'
  BY DEF IInv, VerifiedInv
<1>1. CASE Requests
  <2>1. /\ UNCHANGED <<received, cursor>> /\ req' \in AnyQuery \cup Lookup
        /\ pc' \in {"load", "answered"} /\ (pc' = "answered" => answer' = "invalid")
    BY <1>1, RequestFacts
  <2>2. CASE Ask
    <3>1. pc = "idle" /\ first' = req'  BY <1>1, <2>2, RequestFacts
    <3>2. received' \in Seq(Int) /\ cursor' \in Int \cup {None}  BY <2>1 DEF RequestInv
    <3>3. pc' # "idle" /\ pc' \in {"idle", "load", "pages", "partition", "answered"}  BY <2>1
    <3> QED BY <2>1, <3>1, <3>2, <3>3 DEF RequestInv
  <2>3. CASE FollowCursor
    <3>1. /\ req' = After(req, cursor) /\ first' = first /\ pc # "idle"
          /\ req.kind = "query" /\ cursor \in Int \cup {None}
      BY <1>1, <2>3, RequestFacts DEF RequestInv
    <3>2. first \in AnyQuery \cup Lookup /\ req \in AnyQuery \cup Lookup
          /\ (req = first \/ (first \in AnyQuery /\ req = After(first, req.after)))
      BY <3>1 DEF RequestInv
    <3>3. first \in AnyQuery /\ req \in AnyQuery  BY <3>1, <3>2 DEF Lookup
    <3>4. req' \in AnyQuery /\ req'.after = cursor  BY <3>1, <3>3, AfterIsQuery
    <3>5. req' = After(first, cursor)
      <4>1. CASE req = first  BY <3>1, <4>1
      <4>2. CASE req = After(first, req.after)
        <5>1. After(After(first, req.after), cursor) = After(first, cursor)
          BY <3>3 DEF After, AnyQuery
        <5> QED BY <3>1, <4>2, <5>1
      <4> QED BY <3>2, <4>1, <4>2
    <3> QED BY <2>1, <3>1, <3>3, <3>4, <3>5 DEF RequestInv
  <2>4. CASE Repeat  BY <1>1, <2>1, <2>4, RequestFacts DEF RequestInv
  <2> QED BY <1>1, <2>2, <2>3, <2>4 DEF Requests
<1>2. CASE Load \/ DatabaseFails
  <2>1. /\ pc = "load" /\ UNCHANGED <<first, req, received, cursor>>
        /\ \/ pc' = "pages"
           \/ pc' = "answered" /\ answer' \in {LoadOutcome, "unavailable"}
    BY <1>2 DEF Load, DatabaseFails, Answer
  <2>2. pc' \in {"pages", "answered"} /\
        (pc' = "answered" => answer' \in {"ok", "invalid"} \cup Failures)
    <3>1. {LoadOutcome, "unavailable"} \subseteq {"ok", "invalid"} \cup Failures
      BY OutcomeType DEF Failures
    <3> QED BY <2>1, <3>1
  <2> QED BY <2>1, <2>2 DEF RequestInv
<1>3. CASE VerifyPage
  <2>1. /\ pc = "pages" /\ UNCHANGED <<first, req, received, cursor>>
        /\ \/ pc' \in {"pages", "partition"}
           \/ pc' = "answered" /\ answer' = "integrity"
    BY <1>3 DEF VerifyPage, Answer
  <2> QED BY <2>1 DEF RequestInv, Failures
<1>4. CASE ReadPartition
  <2>1. /\ pc = "partition" /\ UNCHANGED <<first, req>> /\ pc' = "answered"
        /\ answer' \in {"ok", "integrity"}
        /\ \/ UNCHANGED <<received, cursor>>
           \/ /\ received' = received \o PageOf(req) /\ cursor' = NextCursor(req)
              /\ req.kind = "query"
    BY <1>4 DEF ReadPartition, Answer
  <2>2. CASE UNCHANGED <<received, cursor>>
    BY <2>1, <2>2 DEF RequestInv, Failures
  <2>3. CASE /\ received' = received \o PageOf(req) /\ cursor' = NextCursor(req)
             /\ req.kind = "query"
    <3>1. req \in AnyQuery  BY <2>1, <2>3 DEF RequestInv, Lookup
    <3>2. ValidQuery(req)  BY <2>1, <2>3 DEF TileInv
    <3>3. PageOf(req) \in Seq(Int) /\ cursor' \in Int \cup {None}
      BY <2>3, <3>1, <3>2, PageType
    <3>4. received \in Seq(Int)  BY DEF RequestInv
    <3>5. received' \in Seq(Int)  BY <2>3, <3>3, <3>4
    <3> QED BY <2>1, <3>3, <3>5 DEF RequestInv, Failures
  <2> QED BY <2>1, <2>2, <2>3
<1>5. CASE Surroundings \/ UNCHANGED vars
  <2>1. UNCHANGED client  BY <1>5, SurroundingsFacts DEF vars
  <2> QED BY <2>1 DEF RequestInv, client
<1> QED
  BY <1>1, <1>2, <1>3, <1>4, <1>5 DEF Next, Requests, Surroundings

\* A step that keeps the request, what was received and whether it is served
\* keeps the tiling.
LEMMA TileStays ==
  ASSUME TileInv, UNCHANGED stored, UNCHANGED <<first, req, received, cursor>>,
         pc # "idle" /\ pc' # "idle", Served' <=> Served,
         (pc' = "answered" /\ answer' = "invalid") <=> (pc = "answered" /\ answer = "invalid")
  PROVE  TileInv'
<1> DEFINE R == Remaining(req)  F == Remaining(first)  A == Remaining(After(req, cursor))
<1>1. Remaining(req)' = R /\ Remaining(first)' = F /\ Remaining(After(req, cursor))' = A
  <2>1. \A q : Remaining(q)' = Remaining(q)  BY StoredStays
  <2>2. csv' = csv  BY DEF stored
  <2> QED BY <2>2 DEF Remaining, Wanted, After, Kept
<1>2. first' = first /\ req' = req /\ received' = received /\ cursor' = cursor  OBVIOUS
<1>3. (ValidQuery(req) <=> ValidQuery(req)') /\ (ValidQuery(After(req, cursor)) <=> ValidQuery(After(req, cursor))')
  BY <1>2 DEF ValidQuery, After
<1> HIDE DEF R, F, A
<1>4. /\ req.kind = "query" =>
          IF Served
          THEN IF cursor = None THEN received = F
               ELSE received \o A = F /\ A # <<>> /\ ValidQuery(After(req, cursor))
          ELSE received \o R = F
      /\ IF pc = "answered" /\ answer = "invalid" THEN req.kind = "query" /\ ~ValidQuery(req)
         ELSE req.kind = "query" => ValidQuery(req)
      /\ req # first => R # <<>> /\ ValidQuery(req)
  BY DEF TileInv, R, F, A
<1> QED BY <1>1, <1>2, <1>3, <1>4 DEF TileInv

\* Received and remaining stay what was asked for: a page takes what its cursor
\* gives up, and a failed request gives up nothing.
LEMMA TileStep == IInv /\ [Next]_vars => TileInv'
<1> SUFFICES ASSUME VerifiedInv, RequestInv, TileInv, [Next]_vars PROVE TileInv'
  BY DEF IInv
<1>0. StoredRow  BY DEF VerifiedInv
<1>1. CASE Requests
  <2>1. /\ UNCHANGED stored /\ UNCHANGED <<received, cursor>> /\ ~Served'
        /\ \/ pc' = "load" /\ (req'.kind = "query" => ValidQuery(req'))
           \/ pc' = "answered" /\ answer' = "invalid" /\ req'.kind = "query" /\ ~ValidQuery(req')
    BY <1>1, RequestFacts DEF Served
  <2>2. \A q : Remaining(q)' = Remaining(q)  BY <2>1, StoredStays
  <2> SUFFICES /\ req'.kind = "query" => received' \o Remaining(req') = Remaining(first')
               /\ req' # first' => Remaining(req') # <<>> /\ ValidQuery(req')
    <3>1. Remaining(req)' = Remaining(req') /\ Remaining(first)' = Remaining(first')
      BY <2>1 DEF Remaining, stored
    <3>2. ValidQuery(req)' <=> ValidQuery(req')  BY DEF ValidQuery
    <3> QED BY <2>1, <3>1, <3>2 DEF TileInv
  <2>3. CASE Ask
    <3>1. pc = "idle" /\ first' = req'  BY <1>1, <2>3, RequestFacts
    <3>2. received' = <<>>  BY <2>1, <3>1 DEF RequestInv
    <3>3. Remaining(first') \in Seq(Int)  BY <1>0, RemainingType
    <3> QED BY <3>1, <3>2, <3>3
  <2>4. CASE FollowCursor
    <3>1. /\ Served /\ req.kind = "query" /\ cursor # None /\ pc # "idle"
          /\ req' = After(req, cursor) /\ first' = first
      BY <1>1, <2>4, RequestFacts DEF Served
    <3>2. /\ received \o Remaining(After(req, cursor)) = Remaining(first)
          /\ Remaining(After(req, cursor)) # <<>> /\ ValidQuery(After(req, cursor))
      BY <3>1 DEF TileInv
    <3> QED BY <2>1, <3>1, <3>2
  <2>5. CASE Repeat
    <3>1. /\ ~Served /\ pc # "idle" /\ req' = req /\ first' = first
      BY <1>1, <2>5, RequestFacts DEF Served
    <3>2. /\ req.kind = "query" => received \o Remaining(req) = Remaining(first)
          /\ req # first => Remaining(req) # <<>> /\ ValidQuery(req)
      BY <3>1 DEF TileInv
    <3> QED BY <2>1, <3>1, <3>2
  <2> QED BY <1>1, <2>3, <2>4, <2>5 DEF Requests
<1>2. CASE Load \/ DatabaseFails \/ VerifyPage
  <2>1. /\ UNCHANGED stored /\ UNCHANGED <<first, req, received, cursor>>
        /\ pc \in {"load", "pages"} /\ pc' \in {"pages", "partition", "answered"}
        /\ pc' = "answered" => answer' \in {LoadOutcome, "unavailable", "integrity"}
    BY <1>2 DEF Load, DatabaseFails, VerifyPage, Answer, Outside
  <2>2. pc' = "answered" => answer' \in {"ok"} \cup Failures
    <3>1. {LoadOutcome, "unavailable", "integrity"} \subseteq {"ok"} \cup Failures
      BY OutcomeType DEF Failures
    <3> QED BY <2>1, <3>1
  <2>3. ~Served  BY <2>1 DEF Served
  <2>4. ~Served'
    <3>1. CASE Load
      <4>1. pc' = "answered" => answer' = LoadOutcome /\ ~(LoadOutcome = "ok" /\ req.kind \in {"query", "verify"})
        BY <3>1 DEF Load, Answer
      <4> QED BY <2>1, <4>1 DEF Served
    <3>2. CASE DatabaseFails \/ VerifyPage
      BY <3>2 DEF DatabaseFails, VerifyPage, Answer, Served
    <3> QED BY <1>2, <3>1, <3>2
  <2>5. ~(pc' = "answered" /\ answer' = "invalid") /\ pc' # "idle" /\ pc # "idle" /\ pc # "answered"
    BY <2>1, <2>2 DEF Failures
  <2> QED BY <2>1, <2>3, <2>4, <2>5, TileStays
<1>3. CASE ReadPartition
  <2>1. /\ UNCHANGED stored /\ UNCHANGED <<first, req>> /\ pc = "partition" /\ pc' = "answered"
        /\ answer' \in {"ok", "integrity"}
    BY <1>3 DEF ReadPartition, Outside, Answer
  <2>2. CASE UNCHANGED <<received, cursor>> /\ ~(answer' = "ok" /\ req.kind = "query")
    <3>1. CASE req.kind = "query"
      <4>1. ~Served /\ ~Served'  BY <2>1, <2>2, <3>1 DEF Served
      <4> QED BY <2>1, <2>2, <4>1, TileStays
    <3>2. CASE req.kind # "query"
      <4>1. req = first  BY <2>1, <3>2 DEF RequestInv, AnyQuery
      <4> QED BY <2>1, <3>2, <4>1 DEF TileInv
    <3> QED BY <3>1, <3>2
  <2>3. CASE /\ PartitionVerified(Part) /\ answer' = "ok" /\ req.kind = "query"
             /\ received' = received \o PageOf(req) /\ cursor' = NextCursor(req)
    <3>1. Complete(csv.opens)  BY <2>3 DEF PartitionVerified, ParseCanonicalCandlesCsv
    <3>2. req \in AnyQuery /\ received \in Seq(Int)  BY <2>1, <2>3 DEF RequestInv, Lookup
    <3>3. /\ ValidQuery(req) /\ received \o Remaining(req) = Remaining(first)
          /\ req # first => Remaining(req) # <<>>
      BY <2>1, <2>3 DEF TileInv, Served
    <3>4. PageOf(req) \in Seq(Int)  BY <1>0, <3>2, <3>3, PageType
    <3>5. CASE NextCursor(req) = None
      <4>1. PageOf(req) = Remaining(req)
        <5>1. Len(Remaining(req)) \in Nat /\ req.limit \in Int
          BY <1>0, <3>2, RemainingType DEF AnyQuery
        <5>2. ~(Len(Remaining(req)) > req.limit)
          <6> SUFFICES ASSUME Len(Remaining(req)) > req.limit PROVE FALSE  OBVIOUS
          <6>1. NextCursor(req) = Remaining(req)[req.limit]  BY <1>0, <3>2, <3>3, PageTakes
          <6>2. req.limit \in 1..Len(Remaining(req))
            <7>1. req.limit \in MinCandleLimit..MaxCandleLimit  BY <3>3 DEF ValidQuery
            <7>2. MinCandleLimit..MaxCandleLimit \subseteq Nat \ {0}
              BY DEF MinCandleLimit, MaxCandleLimit
            <7> QED BY <5>1, <7>1, <7>2
          <6>3. Remaining(req)[req.limit] \in Int  BY <1>0, <6>2, RemainingType
          <6> QED BY <3>5, <6>1, <6>3, QueryAssumption
        <5>3. Len(Remaining(req)) <= req.limit  BY <5>1, <5>2
        <5> QED BY <1>0, <3>2, <3>3, <5>3, PageTakes
      <4>2. received' = Remaining(first) /\ cursor' = None  BY <2>3, <3>3, <3>5, <4>1
      <4>3. Remaining(first)' = Remaining(first) /\ Remaining(req)' = Remaining(req)
        BY <2>1 DEF Remaining, stored
      <4>4. ValidQuery(req)' <=> ValidQuery(req)  BY <2>1 DEF ValidQuery
      <4> QED BY <2>1, <2>3, <3>3, <4>2, <4>3, <4>4 DEF TileInv, Served
    <3>6. CASE NextCursor(req) # None
      <4> DEFINE A == After(req, NextCursor(req))
      <4>1. Remaining(req) = PageOf(req) \o Remaining(A) /\ Remaining(A) # <<>> /\ ValidQuery(A)
        BY <1>0, <3>1, <3>2, <3>3, <3>6, PagesMeet
      <4>2. Remaining(A) \in Seq(Int)  BY <1>0, RemainingType
      <4>3. (received \o PageOf(req)) \o Remaining(A) = Remaining(first)
        <5> HIDE DEF A
        <5>1. received \o (PageOf(req) \o Remaining(A)) = Remaining(first)  BY <3>3, <4>1
        <5>2. ASSUME NEW s \in Seq(Int), NEW t \in Seq(Int), NEW u \in Seq(Int)
              PROVE  (s \o t) \o u = s \o (t \o u)
          OBVIOUS
        <5>3. (received \o PageOf(req)) \o Remaining(A) = received \o (PageOf(req) \o Remaining(A))
          BY <3>2, <3>4, <4>2, <5>2, Zenon
        <5> QED BY <5>1, <5>3
      <4>4. After(req, cursor)' = A  BY <2>1, <2>3 DEF After
      <4>5. /\ Remaining(After(req, cursor))' = Remaining(A) /\ Remaining(first)' = Remaining(first)
            /\ Remaining(req)' = Remaining(req)
        BY <2>1, <4>4 DEF Remaining, stored
      <4>6. (ValidQuery(req)' <=> ValidQuery(req)) /\ (ValidQuery(After(req, cursor))' <=> ValidQuery(A))
        BY <2>1, <2>3 DEF ValidQuery, After
      <4>7. cursor' # None  BY <2>3, <3>6
      <4> HIDE DEF A
      <4> QED BY <2>1, <2>3, <3>3, <4>1, <4>3, <4>5, <4>6, <4>7 DEF TileInv, Served
    <3> QED BY <3>5, <3>6
  <2> QED BY <1>3, <2>2, <2>3 DEF ReadPartition, Answer
<1>4. CASE Surroundings \/ UNCHANGED vars
  <2>1. UNCHANGED stored /\ UNCHANGED client  BY <1>4, SurroundingsFacts DEF vars
  <2>2. /\ pc' = pc /\ req' = req /\ first' = first /\ answer' = answer
        /\ received' = received /\ cursor' = cursor
    BY <2>1 DEF client
  <2>3. Served' <=> Served  BY <2>2 DEF Served
  <2>4. CASE pc = "idle"  BY <2>2, <2>4 DEF TileInv
  <2>5. CASE pc # "idle"  BY <2>1, <2>2, <2>3, <2>5, TileStays
  <2> QED BY <2>4, <2>5
<1> QED
  BY <1>1, <1>2, <1>3, <1>4 DEF Next, Requests, Surroundings

-----------------------------------------------------------------------------
(* A row that an import wrote, over undamaged files, passes every check.   *)

\* What is known of such a row.
LEMMA SoundFacts ==
  ASSUME StoredRow, SoundRow
  PROVE  LET part == Partition(csv.opens) IN
         /\ csv.opens \in Seq(Int) /\ csv.opens # <<>> /\ Complete(csv.opens)
         /\ row = Written(csv.opens) /\ row.parts = <<part>>
         /\ None \notin {row.prov, row.prov.pages, row.prov.norm} /\ Junk # "csv"
         /\ Head(csv.opens) \in Int /\ Last(csv.opens) \in Int
<1>1. csv.opens \in Seq(Int) /\ Complete(csv.opens) /\ row = Written(csv.opens)
  BY StoredOpens DEF SoundRow
<1>2. csv.opens # <<>> /\ Head(csv.opens) \in Int /\ Last(csv.opens) \in Int
  BY <1>1, CompleteOpens
<1>3. csv.opens \in SeqOf(Times, MaxRows)
  <2>1. CASE WrittenRow  BY <2>1 DEF WrittenRow
  <2>2. CASE AlteredRow
    <3>1. csv.opens \in SeqOf(Times, 2)  BY <2>2 DEF AlteredRow
    <3>2. 0..2 \subseteq 0..MaxRows  BY QueryAssumption
    <3> QED BY <3>1, <3>2 DEF SeqOf
  <2> QED BY <2>1, <2>2 DEF StoredRow
<1>4. None \notin {row.prov, row.prov.pages, row.prov.norm} /\ Junk # "csv"
  <2>1. \A opens \in SeqOf(Times, MaxRows) :
          LET prov == Written(opens).prov IN None \notin {prov, prov.pages, prov.norm}
    BY NoneAssumption
  <2>2. Junk # "csv"  BY NoneAssumption DEF Keys
  <2> QED BY <1>1, <1>3, <2>1, <2>2
<1>5. row.parts = <<Partition(csv.opens)>>  BY <1>1 DEF Written
<1> QED BY <1>1, <1>2, <1>4, <1>5

\* Its totals are those of its only partition.
LEMMA SoundTotals ==
  ASSUME StoredRow, SoundRow
  PROVE  TotalsAgree
<1> DEFINE part == Partition(csv.opens)
           mins == Known({row.parts[i].min : i \in DOMAIN row.parts})
           maxs == Known({row.parts[i].max : i \in DOMAIN row.parts})
<1>1. /\ csv.opens \in Seq(Int) /\ csv.opens # <<>>
      /\ row = Written(csv.opens) /\ row.parts = <<part>>
      /\ Head(csv.opens) \in Int /\ Last(csv.opens) \in Int
  BY SoundFacts
<1>2. /\ part.rows = Len(csv.opens) /\ part.min = Head(csv.opens) /\ part.max = Last(csv.opens)
      /\ row.total = Len(csv.opens) /\ row.min = Head(csv.opens) /\ row.max = Last(csv.opens)
  BY <1>1 DEF Written, Partition
<1>3. PartitionRows(row.parts) = row.total
  <2>1. part.rows \in Int  BY <1>1, <1>2
  <2> HIDE DEF part
  <2> QED BY <1>1, <1>2, <2>1, OnePartition
<1>4. mins = {Head(csv.opens)} /\ maxs = {Last(csv.opens)}
  <2>1. DOMAIN row.parts = {1} /\ row.parts[1] = part  BY <1>1
  <2>2. None # Head(csv.opens) /\ None # Last(csv.opens)  BY <1>1, QueryAssumption
  <2> HIDE DEF part
  <2> QED BY <1>2, <2>1, <2>2 DEF Known
<1>5. Least(mins) = row.min /\ Greatest(maxs) = row.max  BY <1>1, <1>2, <1>4, OneBound
<1>6. row.parts # <<>>  BY <1>1
<1> HIDE DEF mins, maxs, part
<1> QED BY <1>3, <1>5, <1>6 DEF TotalsAgree, mins, maxs

\* Its partition is the one its provenance describes.
LEMMA SoundAgrees ==
  ASSUME StoredRow, SoundRow
  PROVE  AgreesWithProvenance(Partition(csv.opens)) = "ok"
<1>1. row = Written(csv.opens) /\ row.prov.norm # None /\ Junk # "csv"
  BY SoundFacts
<1>2. row.prov.norm = [key |-> "csv", sha |-> "csv", size |-> "csv",
                       rows |-> Len(csv.opens), media |-> "csv"] /\ row.prov.timeframe = "own"
  BY <1>1 DEF Written
<1> QED BY <1>1, <1>2 DEF AgreesWithProvenance, Partition

\* What a request for a sound row comes to before any file is read, and the
\* partition it will read.
LEMMA SoundOutcome ==
  ASSUME StoredRow, SoundRow, req \in AnyQuery \cup Lookup
  PROVE  /\ \/ LoadOutcome \in {"ok", "notFound"}
            \/ LoadOutcome = "noPartition" /\ req.timeframe = "other"
         /\ LoadOutcome = "ok" /\ req.kind \in {"query", "verify"} =>
              Part = Partition(csv.opens)
<1> DEFINE part == Partition(csv.opens)
<1>1. /\ row = Written(csv.opens) /\ row.parts = <<part>> /\ row.prov # None
      /\ part.timeframe = "own"
  BY SoundFacts DEF Partition
<1>2. Support = "ok"  BY <1>1 DEF Support, Written
<1>3. hash = Payload(row) /\ TotalsAgree  BY SoundTotals DEF SoundRow
<1>4. AgreesWithProvenance(part) = "ok"  BY SoundAgrees
<1> HIDE DEF part
<1>5. DOMAIN row.parts = {1} /\ row.parts[1] = part /\ Len(row.parts) = 1  BY <1>1
<1>6. Matches("own") = {1} /\ Matches("other") = {}  BY <1>1, <1>5 DEF Matches
<1>7. PartitionOf("own") = part  BY <1>5, <1>6 DEF PartitionOf
<1>8. VerifyMetadata("own") = "ok" /\ VerifyMetadata("other") = "noPartition"
  BY <1>2, <1>3, <1>4, <1>6, <1>7 DEF VerifyMetadata
<1>9. CASE req.kind = "query"
  <2>1. req.timeframe \in {"own", "other"}  BY <1>9 DEF AnyQuery, Lookup
  <2>2. Target = req.timeframe /\ Visible => LoadOutcome = VerifyMetadata(Target)
    BY <1>9 DEF Target, LoadOutcome
  <2>3. Target = req.timeframe /\ (~Visible => LoadOutcome = "notFound")
    BY <1>9 DEF Target, LoadOutcome
  <2> QED BY <1>7, <1>8, <2>1, <2>2, <2>3 DEF Part, part
<1>10. CASE req.kind = "verify"
  <2>1. Target = "own"  BY <1>1, <1>5, <1>10 DEF Target
  <2>2. LoadOutcome \in {"ok", "notFound"}
    BY <1>2, <1>5, <1>8, <1>10, <2>1 DEF LoadOutcome
  <2> QED BY <1>7, <2>1, <2>2 DEF Part, part
<1>11. CASE req.kind \in {"manifest", "detail"}
  BY <1>3, <1>11 DEF LoadOutcome
<1> QED BY <1>9, <1>10, <1>11 DEF AnyQuery, Lookup

\* Its pages and its partition are found as the row says.
LEMMA SoundReads ==
  ASSUME StoredRow, SoundRow, files = [k \in Keys |-> "whole"]
  PROVE  /\ Pages \notin {None, <<>>} /\ Len(Pages) = 2
         /\ \A k \in {1, 2} : PageVerified(Pages[k])
         /\ PartitionVerified(Partition(csv.opens)) /\ CountsAgree
<1>1. row = Written(csv.opens) /\ row.prov.pages # None /\ csv.opens # <<>>
  BY SoundFacts
<1>2. Pages = <<Page("page1"), Page("page2")>>  BY <1>1 DEF Pages, Written
<1>3. media["csv"] = "csv" /\ media["page1"] = "json" /\ media["page2"] = "json"
  BY DEF SoundRow, ProperMedia, Keys
<1>4. Readable("csv") /\ Readable("page1") /\ Readable("page2")  BY DEF Readable, Keys
<1>5. PageVerified(Page("page1")) /\ PageVerified(Page("page2"))
  BY <1>3, <1>4 DEF PageVerified, Page
<1>6. PartitionVerified(Partition(csv.opens))
  BY <1>1, <1>3, <1>4 DEF PartitionVerified, Partition, ParseCanonicalCandlesCsv, SoundRow
<1>7. CountsAgree  BY <1>1 DEF CountsAgree, Written
<1>8. Pages # None  BY <1>1 DEF Pages
<1>9. Len(Pages) = 2 /\ Pages # <<>> /\ Pages[1] = Page("page1") /\ Pages[2] = Page("page2")
  BY <1>2
<1> QED BY <1>5, <1>6, <1>7, <1>8, <1>9

\* No check fails on it while no file is damaged.
LEMMA SoundStep == IInv /\ [Next]_vars => SoundInv'
<1> SUFFICES ASSUME VerifiedInv, RequestInv, SoundInv, [Next]_vars PROVE SoundInv'
  BY DEF IInv
<1>0. StoredRow  BY DEF VerifiedInv
<1>1. CASE Requests
  <2>1. /\ UNCHANGED <<stored, files, damages>>
        /\ pc' = "load" \/ (pc' = "answered" /\ answer' = "invalid")
    BY <1>1, RequestFacts
  <2> QED BY <2>1, StoredStays DEF SoundInv
<1>2. CASE Load
  <2>1. /\ UNCHANGED <<stored, files, damages>> /\ pc = "load" /\ verified' = verified
        /\ req' = req
        /\ pc' = "pages" \/ (pc' = "answered" /\ answer' = LoadOutcome)
    BY <1>2 DEF Load, Outside, Answer
  <2>2. verified' = 0  BY <2>1 DEF VerifiedInv
  <2>3. SoundRow => \/ LoadOutcome \in {"ok", "notFound"}
                    \/ LoadOutcome = "noPartition" /\ req.timeframe = "other"
    <3>1. req \in AnyQuery \cup Lookup  BY <2>1 DEF RequestInv
    <3> QED BY <1>0, <3>1, SoundOutcome
  <2> QED BY <2>1, <2>2, <2>3, StoredStays DEF SoundInv
<1>3. CASE DatabaseFails
  <2>1. UNCHANGED <<stored, files, damages>> /\ pc' = "answered" /\ answer' = "unavailable"
    BY <1>3 DEF DatabaseFails, Outside, Answer
  <2> QED BY <2>1, StoredStays DEF SoundInv
<1>4. CASE VerifyPage
  <2>1. UNCHANGED <<stored, files, damages>> /\ pc = "pages"
    BY <1>4 DEF VerifyPage, Outside
  <2>2. CASE SoundRow /\ damages = 0
    <3>1. files = [k \in Keys |-> "whole"] /\ verified \in {0, 1}
      BY <2>1, <2>2 DEF SoundInv
    <3>2. /\ Pages \notin {None, <<>>} /\ Len(Pages) = 2
          /\ PageVerified(Pages[1]) /\ PageVerified(Pages[2])
      BY <1>0, <2>2, <3>1, SoundReads
    <3>3. verified + 1 \in {1, 2}  BY <3>1
    <3>4. PageVerified(Pages[verified + 1])  BY <3>2, <3>3
    <3>5. verified' = verified + 1 /\ pc' = IF verified' = 2 THEN "partition" ELSE "pages"
      BY <1>4, <3>2, <3>4 DEF VerifyPage
    <3>6. pc' # "answered" /\ (pc' = "pages" => verified' \in {0, 1})  BY <3>3, <3>5
    <3> QED BY <2>1, <2>2, <3>6, StoredStays DEF SoundInv
  <2>3. CASE ~(SoundRow /\ damages = 0)
    BY <2>1, <2>3, StoredStays DEF SoundInv
  <2> QED BY <2>2, <2>3
<1>5. CASE ReadPartition
  <2>1. UNCHANGED <<stored, files, damages>> /\ pc = "partition" /\ pc' = "answered"
    BY <1>5 DEF ReadPartition, Outside, Answer
  <2>2. CASE SoundRow /\ damages = 0
    <3>1. files = [k \in Keys |-> "whole"]  BY <2>2 DEF SoundInv
    <3>2. LoadOutcome = "ok" /\ req.kind \in {"query", "verify"} /\ req \in AnyQuery \cup Lookup
      BY <2>1 DEF VerifiedInv, Serving, RequestInv
    <3>3. Part = Partition(csv.opens)  BY <1>0, <2>2, <3>2, SoundOutcome
    <3>4. PartitionVerified(Part) /\ CountsAgree  BY <1>0, <2>2, <3>1, <3>3, SoundReads
    <3>5. answer' = "ok"  BY <1>5, <3>4 DEF ReadPartition
    <3> QED BY <2>1, <2>2, <3>5, StoredStays DEF SoundInv
  <2>3. CASE ~(SoundRow /\ damages = 0)
    BY <2>1, <2>3, StoredStays DEF SoundInv
  <2> QED BY <2>2, <2>3
<1>6. CASE Surroundings \/ UNCHANGED vars
  <2>1. UNCHANGED stored /\ pc' = pc /\ verified' = verified /\ answer' = answer /\ req' = req
    BY <1>6, SurroundingsFacts DEF vars, client
  <2>2. \/ files' = files /\ damages' = damages
        \/ damages' = damages + 1
        \/ damages' = damages /\ \E k \in Keys : files[k] # "whole"
    BY <1>6 DEF Surroundings, Publish, Restore, Damage, vars
  <2>3. /\ damages' \in Nat /\ (damages' = 0 => files' = files /\ damages = 0)
    <3>1. damages \in Nat /\ (damages = 0 => \A k \in Keys : files[k] = "whole")
      BY DEF SoundInv
    <3>2. damages + 1 \in Nat /\ damages + 1 # 0  BY <3>1
    <3> QED BY <2>2, <3>1, <3>2
  <2> QED BY <2>1, <2>3, StoredStays DEF SoundInv
<1> QED
  BY <1>1, <1>2, <1>3, <1>4, <1>5, <1>6 DEF Next, Requests, Surroundings

\* Every step preserves the invariant.
LEMMA InvStep == IInv /\ [Next]_vars => IInv'
BY VerifiedStep, ReadsStep, RequestStep, TileStep, SoundStep DEF IInv

\* The invariant holds throughout.
LEMMA InvHolds == Spec => []IInv
BY InvInit, InvStep, PTL DEF Spec

-----------------------------------------------------------------------------
(* The theorems.                                                            *)

\* A client that follows the cursors collects the candles it asked for, in
\* order, none lost and none repeated, and a page without a cursor is the last:
\* for every limit, bounds and cursor, however often a request fails and is
\* repeated between two pages (paginate_candles, collect_matching_page).
THEOREM PagesAlwaysTile == Spec => []PagesTile
<1>1. ASSUME IInv PROVE PagesTile
  <2> USE <1>1 DEF IInv
  <2> SUFFICES ASSUME first # None, first.kind = "query"
               PROVE  /\ IsPrefix(received, Remaining(first))
                      /\ pc = "answered" /\ answer = "ok" /\ cursor = None =>
                           received = Remaining(first)
    BY DEF PagesTile, Remaining
  <2>1. StoredRow /\ received \in Seq(Int) /\ pc # "idle"
    BY DEF VerifiedInv, RequestInv
  <2>2. req.kind = "query" /\ req \in AnyQuery /\ cursor \in Int \cup {None}
    BY <2>1 DEF RequestInv, AnyQuery, Lookup
  <2>3. \E rest \in Seq(Int) : received \o rest = Remaining(first)
    <3>1. Remaining(req) \in Seq(Int) /\ Remaining(After(req, cursor)) \in Seq(Int)
      BY <2>1, RemainingType
    <3>2. CASE Served /\ cursor = None
      <4>1. received \o <<>> = received  BY <2>1
      <4>2. <<>> \in Seq(Int) /\ received = Remaining(first)  BY <2>1, <2>2, <3>2 DEF TileInv
      <4> QED BY <4>1, <4>2
    <3>3. CASE Served /\ cursor # None
      <4>1. received \o Remaining(After(req, cursor)) = Remaining(first)
        BY <2>1, <2>2, <3>3 DEF TileInv
      <4> QED BY <3>1, <4>1
    <3>4. CASE ~Served
      <4>1. received \o Remaining(req) = Remaining(first)
        BY <2>1, <2>2, <3>4 DEF TileInv
      <4> QED BY <3>1, <4>1
    <3> QED BY <3>2, <3>3, <3>4
  <2>4. IsPrefix(received, Remaining(first))
    <3>1. PICK rest \in Seq(Int) : received \o rest = Remaining(first)  BY <2>3
    <3>2. Len(received) <= Len(received \o rest)
      BY <2>1, <3>1
    <3>3. SubSeq(received \o rest, 1, Len(received)) = received  BY <2>1, <3>1
    <3> QED BY <2>1, <3>1, <3>2, <3>3 DEF IsPrefix
  <2>5. pc = "answered" /\ answer = "ok" /\ cursor = None => received = Remaining(first)
    BY <2>1, <2>2 DEF TileInv, Served
  <2> QED BY <2>4, <2>5
<1> QED BY <1>1, InvHolds, PTL

\* A cursor the service handed out is never refused and its page is never
\* empty, whatever bounds it is combined with (validate_candle_query_fields).
THEOREM CursorsAlwaysServed == Spec => []CursorsServed
<1>1. ASSUME IInv PROVE CursorsServed
  <2> SUFFICES ASSUME pc = "answered", req # first
               PROVE  answer # "invalid" /\ PageOf(req) # <<>>
    BY DEF CursorsServed
  <2>1. Remaining(req) # <<>> /\ ValidQuery(req)  BY <1>1 DEF IInv, TileInv
  <2>2. answer # "invalid"  BY <1>1, <2>1 DEF IInv, TileInv
  <2>3. StoredRow /\ req \in AnyQuery  BY <1>1 DEF IInv, VerifiedInv, RequestInv
  <2> QED BY <2>1, <2>2, <2>3, PageTakes
<1> QED BY <1>1, InvHolds, PTL

\* An answer that serves or reports success has gone through all the checks.
LEMMA ServedIsWritten ==
  ASSUME IInv, pc = "answered", req.kind \in {"query", "verify"}, Reported \in {200, 0}
  PROVE  Served /\ AsWritten
<1>1. answer \in {"ok", "invalid"} \cup Failures /\ (answer = "invalid" => req.kind = "query")
  BY DEF IInv, RequestInv, TileInv
<1>2. answer = "ok"
  <2>1. CASE req.kind = "verify"
    <3>1. Reported = ExitCode[answer]  BY <2>1 DEF Reported
    <3>2. answer \in {"ok"} \cup Failures  BY <1>1, <2>1
    <3> QED BY <3>1, <3>2 DEF ExitCode, Failures
  <2>2. CASE req.kind = "query"
    <3>1. Reported = Status[answer]  BY <2>2 DEF Reported
    <3> QED BY <1>1, <3>1 DEF Status, Failures
  <2> QED BY <2>1, <2>2
<1>3. Served  BY <1>2 DEF Served
<1>4. StoredRow /\ LoadOutcome = "ok" /\ PagesFit /\ PartFits(Part) /\ CountsAgree
  BY <1>3 DEF IInv, VerifiedInv, Serving, PagesFit
<1>5. AsWritten  BY <1>4, VerifiedIsWritten
<1> QED BY <1>3, <1>5

\* Nothing is served or reported verified but a gapless series whose row is the
\* one an import writes for it, whatever was altered, and only after the very
\* request has read both raw pages and the CSV while each was whole, whatever
\* rots and is restored between its steps and whatever earlier requests had
\* verified (verify_candle_dataset, get_metadata, open_bytes).
THEOREM AlwaysAsWritten == Spec => []OnlyWhatWasWritten
<1>1. ASSUME IInv PROVE OnlyWhatWasWritten
  <2> SUFFICES ASSUME pc = "answered", req.kind \in {"query", "verify"}, Reported \in {200, 0}
               PROVE  AsWritten /\ reads = {<<k, "whole">> : k \in Keys}
    BY DEF OnlyWhatWasWritten, AsWritten
  <2>1. Served /\ AsWritten  BY <1>1, ServedIsWritten
  <2>2. Serving /\ LoadOutcome = "ok" /\ verified = Len(Pages)
    BY <1>1, <2>1 DEF IInv, VerifiedInv, Serving
  <2>3. reads = PagesRead \cup {<<Part.key, "whole">>}
    BY <1>1, <2>1, <2>2 DEF IInv, ReadsInv
  <2>4. row.prov = Written(csv.opens).prov  BY <2>1 DEF AsWritten
  <2>5. Pages = <<Page("page1"), Page("page2")>> /\ row.prov.norm.key = "csv"
    BY <2>4 DEF Written, Pages
  <2>6. Part.key = "csv"
    <3>1. AgreesWithProvenance(Part) = "ok"  BY <2>2, LoadedFacts
    <3> QED BY <2>5, <3>1 DEF AgreesWithProvenance
  <2>7. verified = 2 /\ Pages[1].key = "page1" /\ Pages[2].key = "page2"
    BY <2>2, <2>5 DEF Page
  <2>8. PagesRead = {<<"page1", "whole">>, <<"page2", "whole">>}
    <3>1. 1..verified = {1, 2}  BY <2>7
    <3> QED BY <2>7, <3>1 DEF PagesRead
  <2>9. reads = {<<k, "whole">> : k \in Keys}  BY <2>3, <2>6, <2>8 DEF Keys
  <2> QED BY <2>1, <2>9
<1> QED BY <1>1, InvHolds, PTL

\* A row that an import wrote over undamaged files is never reported corrupt
\* or unsupported, and a partition is missed only for a timeframe it has not.
THEOREM SoundDataAlwaysServed == Spec => []SoundDataServed
<1>1. ASSUME IInv PROVE SoundDataServed
  <2> SUFFICES ASSUME pc = "answered", damages = 0, SoundRow
               PROVE  /\ Reported \notin {409, 2, 3}
                      /\ answer = "noPartition" => req.timeframe = "other"
    BY DEF SoundDataServed, SoundRow
  <2>1. /\ answer \notin {"unsupported", "integrity"}
        /\ answer = "noPartition" => req.timeframe = "other"
    BY <1>1 DEF IInv, SoundInv
  <2>2. answer \in {"ok", "invalid"} \cup Failures /\ (answer = "invalid" => req.kind = "query")
    BY <1>1 DEF IInv, RequestInv, TileInv
  <2>3. CASE req.kind = "verify"
    <3>1. Reported = ExitCode[answer]  BY <2>3 DEF Reported
    <3>2. answer \in {"ok", "notFound", "noPartition", "unavailable"}
      BY <2>1, <2>2, <2>3 DEF Failures
    <3> QED BY <2>1, <3>1, <3>2 DEF ExitCode
  <2>4. CASE req.kind # "verify"
    <3>1. Reported = Status[answer]  BY <2>4 DEF Reported
    <3>2. answer \in {"ok", "invalid", "notFound", "noPartition", "unavailable"}
      BY <2>1, <2>2 DEF Failures
    <3> QED BY <2>1, <3>1, <3>2 DEF Status
  <2> QED BY <2>3, <2>4
<1> QED BY <1>1, InvHolds, PTL
=============================================================================
