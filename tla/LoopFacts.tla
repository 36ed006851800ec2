------------------------------- MODULE LoopFacts -------------------------------
(***************************************************************************)
(* Facts about the loops of the program, which the modules write as        *)
(* functions defined by recursion on an index: such a function exists and  *)
(* satisfies its equation, and what every round of the loop preserves      *)
(* holds of it.  The library's induction theorems quantify over operators; *)
(* these are about sets, so that they can be cited.                        *)
(***************************************************************************)
EXTENDS Integers, Sequences, TLAPS, FiniteSetTheorems, WellFoundedInduction

\* Induction over the naturals, of a set.
LEMMA Induction ==
  ASSUME NEW S, 0 \in S, \A n \in Nat : n \in S => n + 1 \in S
  PROVE  Nat \subseteq S
<1> DEFINE T == {n \in Nat : n \notin S}
<1>1. SUFFICES ASSUME T # {} PROVE FALSE  OBVIOUS
<1>2. PICK x \in T : \A y \in T : ~(<<y, x>> \in OpToRel(<, Nat))
  <2> HIDE DEF T
  <2>1. T \subseteq Nat  BY DEF T
  <2> QED BY <1>1, <2>1, WFMin, NatLessThanWellFounded
<1>3. \A y \in T : ~(y < x)  BY <1>2 DEF OpToRel
<1>4. x # 0 /\ x \in Nat  OBVIOUS
<1>5. x - 1 \in Nat /\ x - 1 \notin T  BY <1>3, <1>4
<1> QED BY <1>4, <1>5

\* Induction over the rounds of a loop.
LEMMA Rounds ==
  ASSUME NEW n \in Nat, NEW S, 0 \in S, \A i \in 1..n : i - 1 \in S => i \in S
  PROVE  0..n \subseteq S
<1> DEFINE U == {i \in Nat : i <= n => i \in S}
<1>1. 0 \in U  OBVIOUS
<1>2. \A i \in Nat : i \in U => i + 1 \in U
  <2> SUFFICES ASSUME NEW i \in Nat, i \in U, i + 1 <= n PROVE i + 1 \in S  OBVIOUS
  <2>1. i + 1 \in 1..n /\ (i + 1) - 1 \in S  OBVIOUS
  <2> QED BY <2>1
<1>3. Nat \subseteq U
  <2> HIDE DEF U
  <2> QED BY <1>1, <1>2, Induction
<1> QED BY <1>3

\* The values of a loop of n rounds that carries a value of T.
LoopRun(f, n, T, base, step) ==
  /\ f \in [0..n -> T]
  /\ f[0] = base
  /\ \A i \in 1..n : f[i] = step[<<i, f[i - 1]>>]

LEMMA LoopExists ==
  ASSUME NEW n \in Nat, NEW T, NEW base \in T, NEW step \in [(1..n) \X T -> T]
  PROVE  \E f : LoopRun(f, n, T, base, step)
<1> DEFINE Ran(k, f) == f[0] = base /\ \A i \in 1..k : f[i] = step[<<i, f[i - 1]>>]
           S == {k \in 0..n : \E f \in [0..k -> T] : Ran(k, f)}
<1>1. 0 \in S
  <2> DEFINE f == [i \in 0..0 |-> base]
  <2>1. f \in [0..0 -> T] /\ f[0] = base /\ 1..0 = {}  OBVIOUS
  <2> HIDE DEF f
  <2>2. Ran(0, f)  BY <2>1
  <2> QED BY <2>1, <2>2
<1>2. ASSUME NEW k \in 1..n, k - 1 \in S PROVE k \in S
  <2>1. PICK f \in [0..(k - 1) -> T] : Ran(k - 1, f)  BY <1>2
  <2> DEFINE g == [i \in 0..k |-> IF i = k THEN step[<<k, f[k - 1]>>] ELSE f[i]]
  <2>2. f[k - 1] \in T /\ step[<<k, f[k - 1]>>] \in T  OBVIOUS
  <2>3. g \in [0..k -> T]  BY <2>2
  <2>4. g[0] = base  BY <2>1
  <2>5. ASSUME NEW i \in 1..k PROVE g[i] = step[<<i, g[i - 1]>>]
    <3>1. CASE i = k
      <4>1. g[k] = step[<<k, f[k - 1]>>] /\ g[k - 1] = f[k - 1]  OBVIOUS
      <4> HIDE DEF g
      <4> QED BY <3>1, <4>1
    <3>2. CASE i # k
      <4>1. i \in 1..(k - 1) /\ g[i] = f[i] /\ g[i - 1] = f[i - 1]  BY <3>2
      <4> QED BY <2>1, <4>1
    <3> QED BY <3>1, <3>2
  <2> HIDE DEF g
  <2> QED BY <2>3, <2>4, <2>5
<1>3. n \in S
  <2> HIDE DEF S
  <2>1. 0..n \subseteq S  BY <1>1, <1>2, Rounds
  <2> QED BY <2>1
<1> QED BY <1>3 DEF LoopRun

----------------------------------------------------------------------------
(* Sequences. *)

\* A function of 1..n is a sequence.
LEMMA FunctionIsSequence ==
  ASSUME NEW n \in Nat, NEW S, NEW f \in [1..n -> S]
  PROVE  f \in Seq(S) /\ Len(f) = n /\ DOMAIN f = 1..n
OBVIOUS

\* The elements of a sequence, and its domain.
LEMMA SequenceElements ==
  ASSUME NEW S, NEW s \in Seq(S)
  PROVE  /\ Len(s) \in Nat /\ DOMAIN s = 1..Len(s)
         /\ \A i \in 1..Len(s) : s[i] \in S
         /\ s \in [1..Len(s) -> S]
OBVIOUS

----------------------------------------------------------------------------
(* Counting. *)

\* Indices that hold with every smaller one are the first so many.
LEMMA InitialSegment ==
  ASSUME NEW n \in Nat, NEW S, S \subseteq 1..n, \A j \in S : \A i \in 1..j : i \in S
  PROVE  Cardinality(S) \in 0..n /\ S = 1..Cardinality(S)
<1> DEFINE K == {k \in 0..n : \E v \in 0..k : S \cap (1..k) = 1..v}
<1>1. 0 \in K
  <2>1. S \cap (1..0) = 1..0  OBVIOUS
  <2> QED BY <2>1
<1>2. ASSUME NEW k \in 1..n, k - 1 \in K PROVE k \in K
  <2>1. PICK v \in 0..(k - 1) : S \cap (1..(k - 1)) = 1..v  BY <1>2
  <2>2. CASE k \in S
    <3>1. \A i \in 1..k : i \in S  BY <2>2
    <3>2. S \cap (1..k) = 1..k  BY <3>1
    <3> QED BY <3>2
  <2>3. CASE k \notin S
    <3>1. \A i \in 1..k : i = k \/ i \in 1..(k - 1)  OBVIOUS
    <3>2. \A i \in 1..(k - 1) : i \in 1..k  OBVIOUS
    <3>3. S \cap (1..k) = 1..v  BY <2>1, <2>3, <3>1, <3>2
    <3> QED BY <3>3
  <2> QED BY <2>2, <2>3
<1>3. PICK v \in 0..n : S \cap (1..n) = 1..v
  <2>1. 0..n \subseteq K
    <3> HIDE DEF K
    <3> QED BY <1>1, <1>2, Rounds
  <2> QED BY <2>1
<1>4. S = 1..v  BY <1>3
<1>5. Cardinality(1..v) = v  BY FS_Interval
<1> QED BY <1>4, <1>5

\* The loop of the alignment that advances an index up to a decision close.
Advanced(context, from, close) ==
  LET closed[n \in 0..Len(context)] ==
        IF n < Len(context) /\ context[n + 1].close_time <= close
        THEN closed[n + 1] ELSE n
  IN closed[from]

\* An index that is advanced while the next candle has closed stops at the last
\* candle that has, when the candles close in order.
LEMMA AdvanceLoop ==
  ASSUME NEW context, Len(context) \in Nat, NEW close, NEW v \in 0..Len(context),
         \A j \in 1..Len(context) : context[j].close_time <= close <=> j <= v,
         NEW from \in 0..v
  PROVE  Advanced(context, from, close) = v
<1> DEFINE L == Len(context)
           Round(F) == [n \in 0..L |->
             IF n < L /\ context[n + 1].close_time <= close THEN F[n + 1] ELSE n]
           closed == CHOOSE F : F = Round(F)
           g == [n \in 0..L |-> IF n < v THEN v ELSE n]
<1>1. \A n \in 0..L : (n < L /\ context[n + 1].close_time <= close) <=> n < v
  <2> SUFFICES ASSUME NEW n \in 0..L
               PROVE (n < L /\ context[n + 1].close_time <= close) <=> n < v
    OBVIOUS
  <2>1. CASE n < L
    <3>1. n + 1 \in 1..L  BY <2>1
    <3>2. context[n + 1].close_time <= close <=> n + 1 <= v  BY <3>1
    <3> QED BY <2>1, <3>2
  <2>2. CASE ~(n < L)  BY <2>2
  <2> QED BY <2>1, <2>2
<1>2. g = Round(g)
  <2>1. \A n \in 0..L : n < v => n + 1 \in 0..L /\ g[n + 1] = v /\ g[n] = v  OBVIOUS
  <2>2. \A n \in 0..L : ~(n < v) => g[n] = n  OBVIOUS
  <2>3. \A n \in 0..L : Round(g)[n] = g[n]
    <3> HIDE DEF g
    <3> QED BY <1>1, <2>1, <2>2
  <2> QED BY <2>3
<1>3. closed = Round(closed)
  <2> HIDE DEF g, Round
  <2> QED BY <1>2
<1>4. \A n \in 0..L : closed[n] = IF n < v THEN closed[n + 1] ELSE n
  <2> HIDE DEF closed
  <2> QED BY <1>1, <1>3
<1> DEFINE K == {k \in 0..v : closed[v - k] = v}
<1>5. 0 \in K
  <2> HIDE DEF closed
  <2>1. v \in 0..L /\ ~(v < v) /\ v - 0 = v  OBVIOUS
  <2>2. closed[v] = v  BY <1>4, <2>1
  <2> QED BY <2>1, <2>2
<1>6. ASSUME NEW k \in 1..v, k - 1 \in K PROVE k \in K
  <2> HIDE DEF closed
  <2>1. v - k \in 0..L /\ v - k < v /\ (v - k) + 1 = v - (k - 1)  OBVIOUS
  <2>2. closed[v - k] = closed[v - (k - 1)]  BY <1>4, <2>1
  <2> QED BY <1>6, <2>2
<1>7. 0..v \subseteq K
  <2>1. v \in Nat  OBVIOUS
  <2> HIDE DEF K
  <2> QED BY <1>5, <1>6, <2>1, Rounds
<1>8. v - from \in 0..v /\ v - (v - from) = from  OBVIOUS
<1>9. closed[from] = v
  <2> HIDE DEF closed
  <2> QED BY <1>7, <1>8
<1> QED BY <1>9 DEF Advanced

\* How many of a series' candles have closed at a time.
ClosedAt(series, time) == {j \in 1..Len(series) : series[j].close_time <= time}

\* Candles that close in order.
InOrder(series) ==
  /\ Len(series) \in Nat
  /\ \A j \in 1..Len(series) :
       /\ series[j].close_time \in Int
       /\ \A i \in 1..j : series[i].close_time <= series[j].close_time

\* Those that have closed are the first so many, and more as time goes on.
LEMMA ClosedFirst ==
  ASSUME NEW series, InOrder(series), NEW time \in Int
  PROVE  /\ Cardinality(ClosedAt(series, time)) \in 0..Len(series)
         /\ ClosedAt(series, time) = 1..Cardinality(ClosedAt(series, time))
         /\ \A j \in 1..Len(series) :
              series[j].close_time <= time <=> j <= Cardinality(ClosedAt(series, time))
<1>1. Len(series) \in Nat /\ ClosedAt(series, time) \subseteq 1..Len(series)
  BY DEF InOrder, ClosedAt
<1>2. ASSUME NEW j \in ClosedAt(series, time), NEW i \in 1..j
      PROVE  i \in ClosedAt(series, time)
  <2>1. j \in 1..Len(series) /\ i \in 1..Len(series)  BY <1>1
  <2>2. /\ series[i].close_time <= series[j].close_time /\ series[j].close_time <= time
        /\ series[i].close_time \in Int /\ series[j].close_time \in Int
    BY <2>1 DEF InOrder, ClosedAt
  <2> QED BY <2>1, <2>2 DEF ClosedAt
<1>3. /\ Cardinality(ClosedAt(series, time)) \in 0..Len(series)
      /\ ClosedAt(series, time) = 1..Cardinality(ClosedAt(series, time))
  BY <1>1, <1>2, InitialSegment
<1>4. ASSUME NEW j \in 1..Len(series)
      PROVE  series[j].close_time <= time <=> j <= Cardinality(ClosedAt(series, time))
  <2>1. series[j].close_time <= time <=> j \in ClosedAt(series, time)  BY DEF ClosedAt
  <2>2. j \in 1..Cardinality(ClosedAt(series, time)) <=> j <= Cardinality(ClosedAt(series, time))
    BY <1>3
  <2> QED BY <1>3, <2>1, <2>2
<1> QED BY <1>3, <1>4

LEMMA ClosedGrows ==
  ASSUME NEW series, InOrder(series), NEW t \in Int, NEW u \in Int, t <= u
  PROVE  Cardinality(ClosedAt(series, t)) <= Cardinality(ClosedAt(series, u))
<1>1. ClosedAt(series, t) \subseteq ClosedAt(series, u)  BY DEF ClosedAt, InOrder
<1>2. ClosedAt(series, u) \subseteq 1..Len(series) /\ IsFiniteSet(1..Len(series))
  BY FS_Interval DEF ClosedAt, InOrder
<1>3. IsFiniteSet(ClosedAt(series, u))  BY <1>2, FS_Subset
<1> QED BY <1>1, <1>3, FS_Subset

\* The mapping that the two loops compute: at every execution candle the number
\* of context candles that have closed when it closes.
LEMMA MappingLoop ==
  ASSUME NEW execution, NEW context, InOrder(execution), InOrder(context)
  PROVE  LET m[i \in 0..Len(execution)] ==
               IF i = 0 THEN 0 ELSE Advanced(context, m[i - 1], execution[i].close_time)
         IN \A b \in 1..Len(execution) :
              m[b] = Cardinality(ClosedAt(context, execution[b].close_time))
<1> DEFINE N == Len(execution)
           Round(F) == [i \in 0..N |->
             IF i = 0 THEN 0 ELSE Advanced(context, F[i - 1], execution[i].close_time)]
           m == CHOOSE F : F = Round(F)
           count(i) == Cardinality(ClosedAt(context, execution[i].close_time))
           g == [i \in 0..N |-> IF i = 0 THEN 0 ELSE count(i)]
<1>0. N \in Nat /\ Len(context) \in Nat  BY DEF InOrder
<1>1. ASSUME NEW i \in 1..N PROVE execution[i].close_time \in Int /\ count(i) \in 0..Len(context)
  BY ClosedFirst DEF InOrder
<1>2. ASSUME NEW i \in 1..N, NEW from \in 0..count(i)
      PROVE  Advanced(context, from, execution[i].close_time) = count(i)
  <2>1. \A j \in 1..Len(context) : context[j].close_time <= execution[i].close_time <=> j <= count(i)
    BY <1>1, ClosedFirst
  <2> HIDE DEF count
  <2> QED BY <1>0, <1>1, <2>1, AdvanceLoop
<1>3. ASSUME NEW i \in 1..N PROVE g[i - 1] \in 0..count(i)
  <2>1. CASE i = 1
    <3>1. g[0] = 0  BY <1>0
    <3> QED BY <1>1, <2>1, <3>1
  <2>2. CASE i # 1
    <3>1. i - 1 \in 1..N /\ g[i - 1] = count(i - 1)  BY <2>2
    <3>2. /\ execution[i - 1].close_time <= execution[i].close_time
          /\ execution[i - 1].close_time \in Int /\ execution[i].close_time \in Int
      BY <3>1 DEF InOrder
    <3>3. count(i - 1) <= count(i)  BY <3>2, ClosedGrows
    <3> HIDE DEF g, count
    <3> QED BY <1>1, <3>1, <3>3
  <2> QED BY <2>1, <2>2
<1>4. g = Round(g)
  <2>1. \A i \in 1..N : Advanced(context, g[i - 1], execution[i].close_time) = count(i)
    <3> HIDE DEF g, count
    <3> QED BY <1>2, <1>3
  <2> HIDE DEF count
  <2>2. \A i \in 0..N : Round(g)[i] = g[i]  BY <2>1
  <2> QED BY <2>2
<1>5. m = Round(m)
  <2> HIDE DEF g, Round
  <2> QED BY <1>4
<1>6. m[0] = 0 /\ \A i \in 1..N : m[i] = Advanced(context, m[i - 1], execution[i].close_time)
  <2> HIDE DEF m
  <2>1. \A i \in 0..N : m[i] = IF i = 0 THEN 0 ELSE Advanced(context, m[i - 1], execution[i].close_time)
    BY <1>5
  <2> QED BY <1>0, <2>1
<1> DEFINE K == {k \in 0..N : m[k] = g[k]}
<1>7. 0 \in K
  <2>1. g[0] = 0  BY <1>0
  <2> HIDE DEF m, g
  <2> QED BY <1>0, <1>6, <2>1
<1>8. ASSUME NEW k \in 1..N, k - 1 \in K PROVE k \in K
  <2>1. g[k] = count(k)  OBVIOUS
  <2> HIDE DEF m, g, count
  <2>2. m[k - 1] \in 0..count(k)  BY <1>3, <1>8
  <2>3. m[k] = count(k)  BY <1>2, <1>6, <2>2
  <2> QED BY <2>1, <2>3
<1>9. 0..N \subseteq K
  <2> HIDE DEF K, N
  <2> QED BY <1>0, <1>7, <1>8, Rounds
<1>10. \A b \in 1..N : m[b] = count(b)
  <2>1. \A b \in 1..N : b \in K /\ g[b] = count(b)
    <3>1. \A b \in 1..N : g[b] = count(b)  OBVIOUS
    <3> HIDE DEF K, g, count
    <3> QED BY <1>9, <3>1
  <2> HIDE DEF g, m, count
  <2> QED BY <2>1
<1> QED BY <1>10
=============================================================================
