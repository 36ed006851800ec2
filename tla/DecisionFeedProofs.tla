-------------------------- MODULE DecisionFeedProofs --------------------------
(***************************************************************************)
(* What a strategy sees, for all timeframes, warm-ups, indicator keys and  *)
(* candles: every indicator says of its window what it is defined to say,  *)
(* a view shows exactly the context candles that have closed, what opened  *)
(* is what the calculators say whatever was supplied, forged or rewritten, *)
(* and nothing a provider can read depends on a candle that closes later.  *)
(*                                                                         *)
(* Two facts about undefined outcomes are hypotheses: None and Refused are *)
(* no functions, so that neither is mistaken for a record or a sequence.   *)
(***************************************************************************)
EXTENDS DecisionFeed, LoopFacts, SequenceTheorems

-----------------------------------------------------------------------------
(* Extremes.                                                               *)

\* The greatest and the smallest of a set are the only ones.
LEMMA HighestIs ==
  ASSUME NEW S \in SUBSET Int, NEW m \in S, \A y \in S : y <= m
  PROVE  Highest(S) = m
<1>1. \E x \in S : \A y \in S : y <= x  OBVIOUS
<1>2. Highest(S) \in S /\ \A y \in S : y <= Highest(S)  BY <1>1 DEF Highest
<1>3. Highest(S) <= m /\ m <= Highest(S) /\ Highest(S) \in Int  BY <1>2
<1> QED BY <1>3

\* The smallest element of a set of integers is the one that is smallest.
LEMMA LowestIs ==
  ASSUME NEW S \in SUBSET Int, NEW m \in S, \A y \in S : m <= y
  PROVE  Lowest(S) = m
<1>1. \E x \in S : \A y \in S : x <= y  OBVIOUS
<1>2. Lowest(S) \in S /\ \A y \in S : Lowest(S) <= y  BY <1>1 DEF Lowest
<1>3. Lowest(S) <= m /\ m <= Lowest(S) /\ Lowest(S) \in Int  BY <1>2
<1> QED BY <1>3

\* Of numbers in a window one is the greatest, and one the smallest.
LEMMA Peak ==
  ASSUME NEW a \in Int, NEW b \in Int, a <= b, NEW s, \A i \in a..b : s[i] \in Int
  PROVE  \E m \in a..b : \A i \in a..b : s[i] <= s[m]
<1> DEFINE n == b - a
           S == {k \in 0..n : \E m \in a..(a + k) : \A i \in a..(a + k) : s[i] <= s[m]}
<1>1. n \in Nat  OBVIOUS
<1>2. 0 \in S
  <2>1. a..(a + 0) = {a} /\ s[a] <= s[a]  OBVIOUS
  <2> QED BY <1>1, <2>1
<1>3. ASSUME NEW k \in 1..n, k - 1 \in S PROVE k \in S
  <2> DEFINE e == a + k
  <2>1. PICK m \in a..(e - 1) : \A i \in a..(e - 1) : s[i] <= s[m]
    <3>1. a + (k - 1) = e - 1  BY <1>1
    <3> QED BY <1>3, <3>1
  <2>2. e \in a..b /\ a..e = (a..(e - 1)) \cup {e}  BY <1>1
  <2>3. \E x \in a..e : \A i \in a..e : s[i] <= s[x]
    <3> HIDE DEF e
    <3>1. CASE s[m] <= s[e]
      <4>1. \A i \in a..e : s[i] <= s[e]
        <5> TAKE i \in a..e
        <5>1. CASE i = e  BY <5>1, <2>2
        <5>2. CASE i # e
          <6>1. i \in a..(e - 1) /\ i \in a..b /\ m \in a..b  BY <5>2, <2>2
          <6>2. s[i] <= s[m] /\ s[i] \in Int /\ s[m] \in Int /\ s[e] \in Int  BY <6>1, <2>1, <2>2
          <6> QED BY <6>2, <3>1
        <5> QED BY <5>1, <5>2
      <4> QED BY <4>1, <2>2
    <3>2. CASE ~(s[m] <= s[e])
      <4>1. m \in a..e /\ s[m] \in Int /\ s[e] \in Int  BY <2>2
      <4>2. s[e] <= s[m]  BY <3>2, <4>1
      <4> QED BY <2>1, <2>2, <4>1, <4>2
    <3> QED BY <3>1, <3>2
  <2> QED BY <2>3
<1>4. 0..n \subseteq S
  <2> HIDE DEF S, n
  <2> QED BY <1>1, <1>2, <1>3, Rounds
<1>5. n \in S
  <2> HIDE DEF S, n
  <2> QED BY <1>1, <1>4
<1>6. a + n = b  OBVIOUS
<1> QED BY <1>5, <1>6

\* One of the values in a window is the smallest.
LEMMA Trough ==
  ASSUME NEW a \in Int, NEW b \in Int, a <= b, NEW s, \A i \in a..b : s[i] \in Int
  PROVE  \E m \in a..b : \A i \in a..b : s[m] <= s[i]
<1> DEFINE t == [i \in a..b |-> -s[i]]
<1>1. \A i \in a..b : t[i] \in Int /\ t[i] = -s[i]  OBVIOUS
<1>2. PICK m \in a..b : \A i \in a..b : t[i] <= t[m]
  <2> HIDE DEF t
  <2> QED BY <1>1, Peak
<1>3. ASSUME NEW i \in a..b PROVE s[m] <= s[i]
  <2> HIDE DEF t
  <2>1. /\ s[m] \in Int /\ s[i] \in Int
        /\ t[i] = -s[i] /\ t[m] = -s[m] /\ t[i] <= t[m]  BY <1>1, <1>2
  <2> QED BY <2>1
<1> QED BY <1>3

\* The last and the first of some positions.
LEMMA LastOf ==
  ASSUME NEW n \in Nat, NEW S \in SUBSET (1..n), S # {}
  PROVE  Highest(S) \in S /\ \A y \in S : y <= Highest(S)
<1> DEFINE s == [i \in 1..n |-> IF i \in S THEN i ELSE 0]
<1>1. PICK x \in S : TRUE  OBVIOUS
<1>2. 1 \in Int /\ n \in Int /\ 1 <= n /\ \A i \in 1..n : s[i] \in Int /\ s[i] = IF i \in S THEN i ELSE 0  BY <1>1
<1>3. PICK m \in 1..n : \A i \in 1..n : s[i] <= s[m]
  <2> HIDE DEF s
  <2> QED BY <1>2, Peak
<1>4. m \in S /\ \A y \in S : y <= m
  <2> HIDE DEF s
  <2>1. s[x] = x /\ x >= 1 /\ s[x] <= s[m]  BY <1>1, <1>2, <1>3
  <2>2. m \in S  BY <1>2, <2>1
  <2> QED BY <1>2, <1>3, <2>2
<1>5. S \in SUBSET Int  OBVIOUS
<1>6. Highest(S) = m  BY <1>4, <1>5, HighestIs
<1> QED BY <1>4, <1>6

\* Positions have a first one.
LEMMA FirstOf ==
  ASSUME NEW n \in Nat, NEW S \in SUBSET (1..n), S # {}
  PROVE  Lowest(S) \in S /\ \A y \in S : Lowest(S) <= y
<1> DEFINE s == [i \in 1..n |-> IF i \in S THEN i ELSE n + 1]
<1>1. PICK x \in S : TRUE  OBVIOUS
<1>2. 1 \in Int /\ n \in Int /\ 1 <= n /\ \A i \in 1..n : s[i] \in Int /\ s[i] = IF i \in S THEN i ELSE n + 1  BY <1>1
<1>3. PICK m \in 1..n : \A i \in 1..n : s[m] <= s[i]
  <2> HIDE DEF s
  <2> QED BY <1>2, Trough
<1>4. m \in S /\ \A y \in S : m <= y
  <2> HIDE DEF s
  <2>1. s[x] = x /\ x <= n /\ s[m] <= s[x]  BY <1>1, <1>2, <1>3
  <2>2. m \in S  BY <1>2, <2>1
  <2> QED BY <1>2, <1>3, <2>2
<1>5. S \in SUBSET Int  OBVIOUS
<1>6. Lowest(S) = m  BY <1>4, <1>5, LowestIs
<1> QED BY <1>4, <1>6

-----------------------------------------------------------------------------
(* The deque.                                                              *)

\* The order that the deque keeps is one.
LEMMA BeatsOrder ==
  ASSUME NEW x \in Int, NEW y \in Int, NEW z \in Int, NEW w
  PROVE  /\ Beats(x, y, w) => ~Beats(y, x, w)
         /\ Beats(x, y, w) /\ Beats(y, z, w) => Beats(x, z, w)
         /\ ~Beats(y, x, w) /\ ~Beats(z, y, w) => ~Beats(z, x, w)
<1>1. CASE w  BY <1>1 DEF Beats
<1>2. CASE ~w  BY <1>2 DEF Beats
<1> QED BY <1>1, <1>2

\* A deque of a window: positions in it, each more extreme than those after it,
\* such that none in the window is more extreme than all that come no earlier.
WindowDeque(d, s, from, to, w) ==
  /\ d \in Seq(Int)
  /\ \A k \in 1..Len(d) : d[k] \in from..to
  /\ \A k, l \in 1..Len(d) : k < l => d[k] < d[l] /\ Beats(s[d[k]], s[d[l]], w)
  /\ \A j \in from..to : \E l \in 1..Len(d) : j <= d[l] /\ ~Beats(s[j], s[d[l]], w)

\* Its front is the extreme of the window.
LEMMA FrontIsExtreme ==
  ASSUME NEW s, NEW n \in Nat, \A i \in 1..n : s[i] \in Int,
         NEW d, NEW from \in Nat \ {0}, NEW to \in from..n, NEW w,
         WindowDeque(d, s, from, to, w)
  PROVE  /\ Head(d) \in from..to
         /\ \A j \in from..to : ~Beats(s[j], s[Head(d)], w)
<1>1. PICK l0 \in 1..Len(d) : to <= d[l0]  BY DEF WindowDeque
<1>2. Len(d) \in Nat /\ Len(d) >= 1 /\ Head(d) = d[1] /\ d[1] \in from..to
  BY <1>1 DEF WindowDeque
<1>3. ASSUME NEW j \in from..to PROVE ~Beats(s[j], s[d[1]], w)
  <2>1. PICK l \in 1..Len(d) : j <= d[l] /\ ~Beats(s[j], s[d[l]], w)  BY DEF WindowDeque
  <2>2. d[l] \in from..to  BY DEF WindowDeque
  <2>3. s[j] \in Int /\ s[d[l]] \in Int /\ s[d[1]] \in Int  BY <1>2, <2>2
  <2>4. CASE l = 1  BY <2>1, <2>4
  <2>5. CASE l # 1
    <3>1. Beats(s[d[1]], s[d[l]], w)  BY <2>5, <1>2 DEF WindowDeque
    <3>2. ~Beats(s[d[l]], s[d[1]], w)  BY <2>3, <3>1, BeatsOrder
    <3> QED BY <2>1, <2>3, <3>2, BeatsOrder
  <2> QED BY <2>4, <2>5
<1> QED BY <1>2, <1>3

\* What stays in front of a new value, and behind an expired position.
LEMMA PopBackKeeps ==
  ASSUME NEW d \in Seq(Int), NEW s, NEW v, NEW w
  PROVE  \E k \in 0..Len(d) :
           /\ PopBack(d, s, v, w) = SubSeq(d, 1, k)
           /\ k > 0 => Beats(s[d[k]], v, w)
           /\ \A l \in (k + 1)..Len(d) : ~Beats(s[d[l]], v, w)
<1> DEFINE n == Len(d)
           kept == {k \in DOMAIN d : Beats(s[d[k]], v, w)}
<1>1. n \in Nat /\ DOMAIN d = 1..n  OBVIOUS
<1>2. CASE kept = {}
  <2>1. PopBack(d, s, v, w) = <<>> /\ SubSeq(d, 1, 0) = <<>>  BY <1>2, SubSeqEmpty DEF PopBack
  <2>2. \A l \in 1..n : ~Beats(s[d[l]], v, w)  BY <1>1, <1>2
  <2>3. 0 \in 0..n /\ 0 + 1 = 1  BY <1>1
  <2> QED BY <2>1, <2>2, <2>3
<1>3. CASE kept # {}
  <2> DEFINE k == Highest(kept)
  <2>1. kept \in SUBSET (1..n)  BY <1>1
  <2>2. k \in kept /\ \A y \in kept : y <= k
    <3> HIDE DEF kept, n
    <3> QED BY <1>1, <1>3, <2>1, LastOf
  <2>3. PopBack(d, s, v, w) = SubSeq(d, 1, k)  BY <1>3 DEF PopBack
  <2>4. k \in 1..n /\ Beats(s[d[k]], v, w)
    <3> HIDE DEF k
    <3> QED BY <1>1, <2>2
  <2>5. \A l \in (k + 1)..n : ~Beats(s[d[l]], v, w)
    <3> HIDE DEF k
    <3> SUFFICES ASSUME NEW l \in (k + 1)..n, Beats(s[d[l]], v, w) PROVE FALSE  OBVIOUS
    <3>1. l \in 1..n /\ l > k  BY <1>1, <2>4
    <3>2. l \in kept  BY <3>1, <1>1
    <3> QED BY <2>2, <2>4, <3>1, <3>2
  <2> HIDE DEF k
  <2> QED BY <2>3, <2>4, <2>5, <1>1
<1> QED BY <1>2, <1>3

\* Expiry keeps the positions from the left bound on.
LEMMA PopFrontKeeps ==
  ASSUME NEW d \in Seq(Int), NEW left \in Int
  PROVE  \E k \in 1..(Len(d) + 1) :
           /\ PopFront(d, left) = SubSeq(d, k, Len(d))
           /\ k <= Len(d) => d[k] >= left
           /\ \A l \in 1..(k - 1) : d[l] < left
<1> DEFINE n == Len(d)
           kept == {k \in DOMAIN d : d[k] >= left}
<1>1. n \in Nat /\ DOMAIN d = 1..n /\ \A k \in 1..n : d[k] \in Int  OBVIOUS
<1>2. CASE kept = {}
  <2>1. n < n + 1 /\ n \in Int /\ n + 1 \in Int /\ (n + 1) - 1 = n  BY <1>1
  <2>2. PopFront(d, left) = <<>> /\ SubSeq(d, n + 1, n) = <<>>
    <3> HIDE DEF n
    <3>1. SubSeq(d, n + 1, n) = <<>>  BY <2>1, SubSeqEmpty
    <3> QED BY <1>2, <3>1 DEF PopFront
  <2>3. \A l \in 1..n : d[l] < left  BY <1>1, <1>2
  <2>4. n + 1 \in 1..(n + 1) /\ ~(n + 1 <= n)  BY <1>1
  <2> QED BY <2>1, <2>2, <2>3, <2>4
<1>3. CASE kept # {}
  <2> DEFINE k == Lowest(kept)
  <2>1. kept \in SUBSET (1..n)  BY <1>1
  <2>2. k \in kept /\ \A y \in kept : k <= y
    <3> HIDE DEF kept, n
    <3> QED BY <1>1, <1>3, <2>1, FirstOf
  <2>3. PopFront(d, left) = SubSeq(d, k, n)  BY <1>3 DEF PopFront
  <2>4. k \in 1..n /\ k \in 1..(n + 1) /\ d[k] >= left
    <3> HIDE DEF k
    <3> QED BY <1>1, <2>2
  <2>5. \A l \in 1..(k - 1) : d[l] < left
    <3> HIDE DEF k
    <3> TAKE l \in 1..(k - 1)
    <3>1. l \in 1..n /\ l < k  BY <1>1, <2>4
    <3>2. l \notin kept  BY <2>2, <2>4, <3>1
    <3> QED BY <1>1, <3>1, <3>2
  <2> HIDE DEF k
  <2> QED BY <2>3, <2>4, <2>5, <1>1
<1> QED BY <1>2, <1>3

\* The deque stays a sequence whatever is pushed or expires.
LEMMA PushType ==
  ASSUME NEW d \in Seq(Int), NEW s, NEW i \in Int, NEW w
  PROVE  Push(d, s, i, w) \in Seq(Int)
<1>1. PICK k \in 0..Len(d) : PopBack(d, s, s[i], w) = SubSeq(d, 1, k)  BY PopBackKeeps
<1>2. SubSeq(d, 1, k) \in Seq(Int)  OBVIOUS
<1> QED BY <1>1, <1>2 DEF Push

\* Expiry keeps a deque of positions.
LEMMA PopFrontType ==
  ASSUME NEW d \in Seq(Int), NEW left \in Int
  PROVE  PopFront(d, left) \in Seq(Int)
<1>1. PICK k \in 1..(Len(d) + 1) : PopFront(d, left) = SubSeq(d, k, Len(d))  BY PopFrontKeeps
<1>2. SubSeq(d, k, Len(d)) \in Seq(Int)  OBVIOUS
<1> QED BY <1>1, <1>2

\* A push extends the window by a position.
LEMMA PushExtends ==
  ASSUME NEW s, NEW n \in Nat, \A j \in 1..n : s[j] \in Int,
         NEW from \in Nat \ {0}, NEW i \in from..n, NEW d, NEW w,
         WindowDeque(d, s, from, i - 1, w)
  PROVE  WindowDeque(Push(d, s, i, w), s, from, i, w)
<1> DEFINE N == Len(d)  e == Push(d, s, i, w)
<1>1. d \in Seq(Int) /\ N \in Nat /\ i \in 1..n /\ i \in Int  BY DEF WindowDeque
<1>2. PICK k \in 0..N :
        /\ PopBack(d, s, s[i], w) = SubSeq(d, 1, k)
        /\ k > 0 => Beats(s[d[k]], s[i], w)
        /\ \A l \in (k + 1)..N : ~Beats(s[d[l]], s[i], w)
  BY <1>1, PopBackKeeps
<1>3. /\ e \in Seq(Int) /\ Len(e) = k + 1 /\ e[k + 1] = i
      /\ \A l \in 1..k : e[l] = d[l]
  <2> DEFINE kept == SubSeq(d, 1, k)
  <2>1. kept \in Seq(Int) /\ Len(kept) = k /\ \A l \in 1..k : kept[l] = d[l]  BY <1>1
  <2> HIDE DEF kept
  <2>2. e = Append(kept, i)  BY <1>2 DEF Push, kept
  <2> HIDE DEF e
  <2> QED BY <1>1, <2>1, <2>2
<1> HIDE DEF e
<1>4. \A l \in 1..N : d[l] \in from..(i - 1) /\ d[l] \in 1..n /\ s[d[l]] \in Int /\ s[i] \in Int
  BY <1>1 DEF WindowDeque
<1>5. \A l \in 1..k : l \in 1..N /\ Beats(s[d[l]], s[i], w)
  <2> TAKE l \in 1..k
  <2>1. l \in 1..N /\ k \in 1..N /\ Beats(s[d[k]], s[i], w)  BY <1>1, <1>2
  <2>2. CASE l = k  BY <2>1, <2>2
  <2>3. CASE l # k
    <3>1. l < k  BY <2>3, <1>1
    <3>2. Beats(s[d[l]], s[d[k]], w)  BY <2>1, <3>1 DEF WindowDeque
    <3>3. s[d[l]] \in Int /\ s[d[k]] \in Int /\ s[i] \in Int  BY <1>4, <2>1
    <3> QED BY <2>1, <3>2, <3>3, BeatsOrder
  <2> QED BY <2>2, <2>3
<1>6. \A l \in 1..(k + 1) : e[l] \in from..i
  <2> TAKE l \in 1..(k + 1)
  <2>1. CASE l = k + 1  BY <2>1, <1>3
  <2>2. CASE l # k + 1
    <3>1. l \in 1..k /\ e[l] = d[l]  BY <2>2, <1>2, <1>3
    <3> QED BY <3>1, <1>4, <1>5
  <2> QED BY <2>1, <2>2
<1>7. ASSUME NEW l \in 1..(k + 1), NEW m \in 1..(k + 1), l < m
      PROVE  e[l] < e[m] /\ Beats(s[e[l]], s[e[m]], w)
  <2>1. l \in 1..k /\ e[l] = d[l] /\ l \in 1..N /\ d[l] \in from..(i - 1)  BY <1>7, <1>3, <1>4, <1>5
  <2>2. CASE m = k + 1
    <3>1. e[m] = i /\ Beats(s[d[l]], s[i], w)  BY <2>1, <2>2, <1>3, <1>5
    <3> QED BY <2>1, <3>1
  <2>3. CASE m # k + 1
    <3>1. m \in 1..k /\ e[m] = d[m] /\ m \in 1..N  BY <2>3, <1>3, <1>5
    <3>2. d[l] < d[m] /\ Beats(s[d[l]], s[d[m]], w)  BY <1>7, <2>1, <3>1 DEF WindowDeque
    <3> QED BY <2>1, <3>1, <3>2
  <2> QED BY <2>2, <2>3
<1>8. ASSUME NEW j \in from..i
      PROVE  \E l \in 1..(k + 1) : j <= e[l] /\ ~Beats(s[j], s[e[l]], w)
  <2>0. k + 1 \in 1..(k + 1) /\ j \in 1..n /\ s[j] \in Int /\ s[i] \in Int  BY <1>1, <1>2
  <2>1. CASE j = i
    <3>1. ~Beats(s[i], s[i], w)  BY <2>0 DEF Beats
    <3> QED BY <2>0, <2>1, <3>1, <1>3
  <2>2. CASE j # i
    <3>1. j \in from..(i - 1)  BY <2>2
    <3>2. PICK l \in 1..N : j <= d[l] /\ ~Beats(s[j], s[d[l]], w)  BY <3>1 DEF WindowDeque
    <3>3. CASE l <= k
      <4>1. l \in 1..k /\ l \in 1..(k + 1) /\ e[l] = d[l]  BY <3>3, <1>3
      <4> QED BY <3>2, <4>1
    <3>4. CASE ~(l <= k)
      <4>1. l \in (k + 1)..N  BY <3>4, <1>1
      <4>2. ~Beats(s[d[l]], s[i], w) /\ s[d[l]] \in Int  BY <4>1, <1>2, <1>4
      <4>3. ~Beats(s[j], s[i], w)  BY <2>0, <3>2, <4>2, BeatsOrder
      <4> QED BY <2>0, <4>3, <1>3
    <3> QED BY <3>3, <3>4
  <2> QED BY <2>1, <2>2
<1>9. WindowDeque(e, s, from, i, w)  BY <1>3, <1>6, <1>7, <1>8 DEF WindowDeque
<1> QED BY <1>9 DEF e

\* An expiry moves the window's beginning.
LEMMA PopFrontShrinks ==
  ASSUME NEW s, NEW from \in Nat \ {0}, NEW to \in Nat, NEW left \in from..(to + 1),
         NEW d, NEW w, WindowDeque(d, s, from, to, w)
  PROVE  WindowDeque(PopFront(d, left), s, left, to, w)
<1> DEFINE N == Len(d)  e == PopFront(d, left)
<1>1. d \in Seq(Int) /\ N \in Nat /\ left \in Int  BY DEF WindowDeque
<1>2. PICK k \in 1..(N + 1) :
        /\ e = SubSeq(d, k, N)
        /\ k <= N => d[k] >= left
        /\ \A l \in 1..(k - 1) : d[l] < left
  BY <1>1, PopFrontKeeps
<1> DEFINE M == N - k + 1
<1>3. M \in Nat /\ e \in Seq(Int) /\ Len(e) = M /\ \A l \in 1..M : e[l] = d[k + l - 1]
  <2>1. \A i \in k..N : d[i] \in Int  BY <1>1
  <2> HIDE DEF e
  <2>2. k \in Int /\ N \in Int /\ M \in Nat  BY <1>1
  <2> QED BY <1>2, <2>1, <2>2, SubSeqProperties
<1> HIDE DEF e
<1>4. \A l \in 1..N : d[l] \in from..to  BY DEF WindowDeque
<1>5. \A l \in k..N : d[l] >= left
  <2> TAKE l \in k..N
  <2>1. k \in 1..N /\ l \in 1..N /\ d[k] >= left /\ d[k] \in Int /\ d[l] \in Int  BY <1>1, <1>2
  <2>2. CASE l = k  BY <2>1, <2>2
  <2>3. CASE l # k
    <3>1. k < l  BY <2>3
    <3>2. d[k] < d[l]  BY <2>1, <3>1 DEF WindowDeque
    <3> QED BY <2>1, <3>2, <1>1
  <2> QED BY <2>2, <2>3
<1>6. \A l \in 1..M : k + l - 1 \in 1..N /\ k + l - 1 \in k..N  BY <1>1
<1>7. \A l \in 1..M : e[l] \in left..to
  <2> TAKE l \in 1..M
  <2>1. e[l] = d[k + l - 1] /\ d[k + l - 1] \in from..to /\ d[k + l - 1] >= left
    BY <1>3, <1>4, <1>5, <1>6
  <2> QED BY <2>1, <1>1
<1>8. ASSUME NEW l \in 1..M, NEW m \in 1..M, l < m
      PROVE  e[l] < e[m] /\ Beats(s[e[l]], s[e[m]], w)
  <2>1. /\ e[l] = d[k + l - 1] /\ e[m] = d[k + m - 1]
        /\ k + l - 1 \in 1..N /\ k + m - 1 \in 1..N
    BY <1>3, <1>6
  <2>2. k + l - 1 < k + m - 1  BY <1>1, <1>8
  <2> QED BY <2>1, <2>2 DEF WindowDeque
<1>9. ASSUME NEW j \in left..to
      PROVE  \E l \in 1..M : j <= e[l] /\ ~Beats(s[j], s[e[l]], w)
  <2>1. j \in from..to  OBVIOUS
  <2>2. PICK l \in 1..N : j <= d[l] /\ ~Beats(s[j], s[d[l]], w)  BY <2>1 DEF WindowDeque
  <2>3. d[l] \in Int /\ d[l] >= left  BY <1>1, <2>2
  <2>4. ~(l \in 1..(k - 1))  BY <1>1, <1>2, <2>3
  <2>5. l - k + 1 \in 1..M /\ k + (l - k + 1) - 1 = l  BY <1>1, <2>4
  <2>6. e[l - k + 1] = d[l]  BY <1>3, <2>5
  <2> QED BY <2>2, <2>5, <2>6
<1>10. WindowDeque(e, s, left, to, w)
  <2> HIDE DEF M
  <2> QED BY <1>3, <1>7, <1>8, <1>9 DEF WindowDeque
<1> QED BY <1>10 DEF e

\* The deque after every round of the two loops.
RollingRound(d, s, period, w, i) ==
  IF i < period THEN Push(d, s, i, w)
  ELSE PopFront(Push(d, s, i, w), i - period + 1)

PriorRound(d, s, period, w, i) ==
  IF i <= period THEN Push(d, s, i, w)
  ELSE Push(PopFront(d, i - period + 1), s, i, w)

RollingDeques(deque, s, period, w) ==
  deque[0] = <<>> /\ \A i \in 1..Len(s) : deque[i] = RollingRound(deque[i - 1], s, period, w, i)

PriorDeques(deque, s, period, w) ==
  deque[0] = <<>> /\ \A i \in 1..Len(s) : deque[i] = PriorRound(deque[i - 1], s, period, w, i)

RollingValues(deque, s, period) ==
  [i \in DOMAIN s |-> IF i < period THEN None ELSE s[Head(deque[i])]]

PriorValues(deque, s, period) ==
  [i \in DOMAIN s |-> IF i <= period THEN None ELSE s[Head(deque[i - 1])]]

\* The deque of a rolling window exists, and is pushed, then expired, each round.
LEMMA RollingLoop ==
  ASSUME NEW s \in Seq(Int), NEW period \in Nat \ {0}, NEW w
  PROVE  \E deque : /\ RollingDeques(deque, s, period, w)
                    /\ RollingExtrema(s, period, w) = RollingValues(deque, s, period)
<1> DEFINE N == Len(s)
           T == Seq(Int)
           Round(F) == [i \in 0..N |->
             IF i = 0 THEN <<>>
             ELSE IF i < period THEN Push(F[i - 1], s, i, w)
             ELSE PopFront(Push(F[i - 1], s, i, w), i - period + 1)]
           deque == CHOOSE F : F = Round(F)
           step == [p \in (1..N) \X T |-> RollingRound(p[2], s, period, w, p[1])]
<1>1. N \in Nat /\ <<>> \in T  OBVIOUS
<1>2. \A i \in 1..N, d \in T : RollingRound(d, s, period, w, i) \in T
  <2> TAKE i \in 1..N, d \in T
  <2>1. i \in Int /\ i - period + 1 \in Int /\ Push(d, s, i, w) \in Seq(Int)  BY <1>1, PushType
  <2>2. PopFront(Push(d, s, i, w), i - period + 1) \in Seq(Int)  BY <2>1, PopFrontType
  <2> QED BY <2>1, <2>2 DEF RollingRound
<1>3. step \in [(1..N) \X T -> T]
  <2> HIDE DEF T, N
  <2> QED BY <1>2
<1>4. PICK f : LoopRun(f, N, T, <<>>, step)
  <2> HIDE DEF step, N, T
  <2> QED BY <1>1, <1>3, LoopExists
<1>5. /\ f \in [0..N -> T] /\ f[0] = <<>>
      /\ \A i \in 1..N : f[i] = RollingRound(f[i - 1], s, period, w, i)
  <2>1. f \in [0..N -> T] /\ f[0] = <<>> /\ \A i \in 1..N : f[i] = step[<<i, f[i - 1]>>]
    <3> HIDE DEF step, T
    <3> QED BY <1>4 DEF LoopRun
  <2>2. \A i \in 1..N : f[i - 1] \in T
    <3> HIDE DEF T, N, step
    <3> QED BY <1>1, <2>1
  <2> HIDE DEF T, N
  <2> QED BY <2>1, <2>2
<1>6. f = Round(f)
  <2>1. \A i \in 0..N : i = 0 \/ i \in 1..N  BY <1>1
  <2>2. \A i \in 0..N : f[i] = Round(f)[i]  BY <1>5, <2>1 DEF RollingRound
  <2> HIDE DEF T, N
  <2> QED BY <1>5, <2>2
<1>7. deque = Round(deque)
  <2> HIDE DEF Round
  <2> QED BY <1>6
<1>8. RollingDeques(deque, s, period, w)
  <2> HIDE DEF deque
  <2>1. \A i \in 0..N : deque[i] =
          IF i = 0 THEN <<>> ELSE RollingRound(deque[i - 1], s, period, w, i)
    BY <1>7 DEF RollingRound
  <2> QED BY <1>1, <2>1 DEF RollingDeques
<1>9. RollingExtrema(s, period, w) = RollingValues(deque, s, period)
  BY DEF RollingExtrema, RollingValues
<1> HIDE DEF deque
<1> QED BY <1>8, <1>9

\* The deque of a prior window exists, and is expired, then pushed, each round.
LEMMA PriorLoop ==
  ASSUME NEW s \in Seq(Int), NEW period \in Nat \ {0}, NEW w
  PROVE  \E deque : /\ PriorDeques(deque, s, period, w)
                    /\ PriorExtrema(s, period, w) = PriorValues(deque, s, period)
<1> DEFINE N == Len(s)
           T == Seq(Int)
           Round(F) == [i \in 0..N |->
             IF i = 0 THEN <<>>
             ELSE IF i <= period THEN Push(F[i - 1], s, i, w)
             ELSE Push(PopFront(F[i - 1], i - period + 1), s, i, w)]
           deque == CHOOSE F : F = Round(F)
           step == [p \in (1..N) \X T |-> PriorRound(p[2], s, period, w, p[1])]
<1>1. N \in Nat /\ <<>> \in T  OBVIOUS
<1>2. \A i \in 1..N, d \in T : PriorRound(d, s, period, w, i) \in T
  <2> TAKE i \in 1..N, d \in T
  <2>1. i \in Int /\ i - period + 1 \in Int  BY <1>1
  <2>2. Push(d, s, i, w) \in Seq(Int) /\ PopFront(d, i - period + 1) \in Seq(Int)
    BY <2>1, PushType, PopFrontType
  <2>3. Push(PopFront(d, i - period + 1), s, i, w) \in Seq(Int)  BY <2>1, <2>2, PushType
  <2> QED BY <2>2, <2>3 DEF PriorRound
<1>3. step \in [(1..N) \X T -> T]
  <2> HIDE DEF T, N
  <2> QED BY <1>2
<1>4. PICK f : LoopRun(f, N, T, <<>>, step)
  <2> HIDE DEF step, N, T
  <2> QED BY <1>1, <1>3, LoopExists
<1>5. /\ f \in [0..N -> T] /\ f[0] = <<>>
      /\ \A i \in 1..N : f[i] = PriorRound(f[i - 1], s, period, w, i)
  <2>1. f \in [0..N -> T] /\ f[0] = <<>> /\ \A i \in 1..N : f[i] = step[<<i, f[i - 1]>>]
    <3> HIDE DEF step, T
    <3> QED BY <1>4 DEF LoopRun
  <2>2. \A i \in 1..N : f[i - 1] \in T
    <3> HIDE DEF T, N, step
    <3> QED BY <1>1, <2>1
  <2> HIDE DEF T, N
  <2> QED BY <2>1, <2>2
<1>6. f = Round(f)
  <2>1. \A i \in 0..N : i = 0 \/ i \in 1..N  BY <1>1
  <2>2. \A i \in 0..N : f[i] = Round(f)[i]  BY <1>5, <2>1 DEF PriorRound
  <2> HIDE DEF T, N
  <2> QED BY <1>5, <2>2
<1>7. deque = Round(deque)
  <2> HIDE DEF Round
  <2> QED BY <1>6
<1>8. PriorDeques(deque, s, period, w)
  <2> HIDE DEF deque
  <2>1. \A i \in 0..N : deque[i] =
          IF i = 0 THEN <<>> ELSE PriorRound(deque[i - 1], s, period, w, i)
    BY <1>7 DEF PriorRound
  <2> QED BY <1>1, <2>1 DEF PriorDeques
<1>9. PriorExtrema(s, period, w) = PriorValues(deque, s, period)
  BY DEF PriorExtrema, PriorValues
<1> HIDE DEF deque
<1> QED BY <1>8, <1>9

\* After every round the deque is that of the last candles, at most a period of
\* them, whether expiry comes after the push or before it.
WindowStart(period, i) == IF i <= period THEN 1 ELSE i - period + 1

\* The empty deque is that of an empty window.
LEMMA EmptyDeque == ASSUME NEW s, NEW w PROVE WindowDeque(<<>>, s, 1, 0, w)
<1>1. <<>> \in Seq(Int) /\ Len(<<>>) = 0 /\ 1..0 = {}  OBVIOUS
<1> QED BY <1>1 DEF WindowDeque

\* Each round of the rolling loop leaves the deque of its window.
LEMMA RollingWindows ==
  ASSUME NEW s \in Seq(Int), NEW period \in Nat \ {0}, NEW w,
         NEW deque, RollingDeques(deque, s, period, w)
  PROVE  \A i \in 0..Len(s) : WindowDeque(deque[i], s, WindowStart(period, i), i, w)
<1> DEFINE N == Len(s)
           K == {i \in 0..N : WindowDeque(deque[i], s, WindowStart(period, i), i, w)}
<1>1. N \in Nat /\ \A j \in 1..N : s[j] \in Int  OBVIOUS
<1>2. 0 \in K  BY <1>1, EmptyDeque DEF RollingDeques, WindowStart
<1>3. ASSUME NEW i \in 1..N, i - 1 \in K PROVE i \in K
  <2> DEFINE from == WindowStart(period, i - 1)
             pushed == Push(deque[i - 1], s, i, w)
  <2>1. /\ from \in Nat \ {0} /\ i \in from..N /\ i \in Nat
        /\ WindowDeque(deque[i - 1], s, from, i - 1, w)
    BY <1>1, <1>3 DEF WindowStart
  <2>2. WindowDeque(pushed, s, from, i, w)
    <3> HIDE DEF from, N
    <3> QED BY <1>1, <2>1, PushExtends
  <2>3. deque[i] = RollingRound(deque[i - 1], s, period, w, i)  BY DEF RollingDeques
  <2>4. CASE i < period
    <3>1. deque[i] = pushed /\ WindowStart(period, i) = from
      BY <2>3, <2>4, <1>1 DEF RollingRound, WindowStart
    <3> QED BY <2>2, <3>1, <1>1
  <2>5. CASE ~(i < period)
    <3>1. deque[i] = PopFront(pushed, i - period + 1)  BY <2>3, <2>5 DEF RollingRound
    <3>2. /\ WindowStart(period, i) = i - period + 1
          /\ i - period + 1 \in from..(i + 1)
      BY <2>5, <1>1 DEF WindowStart
    <3>3. WindowDeque(PopFront(pushed, i - period + 1), s, i - period + 1, i, w)
      <4> HIDE DEF pushed, from, N
      <4> QED BY <2>1, <2>2, <3>2, PopFrontShrinks
    <3> QED BY <3>1, <3>2, <3>3, <1>1
  <2> QED BY <2>4, <2>5
<1>4. 0..N \subseteq K
  <2> HIDE DEF K, N
  <2> QED BY <1>1, <1>2, <1>3, Rounds
<1> QED BY <1>4

\* Each round of the prior loop leaves the deque of its window.
LEMMA PriorWindows ==
  ASSUME NEW s \in Seq(Int), NEW period \in Nat \ {0}, NEW w,
         NEW deque, PriorDeques(deque, s, period, w)
  PROVE  \A i \in 0..Len(s) : WindowDeque(deque[i], s, WindowStart(period, i), i, w)
<1> DEFINE N == Len(s)
           K == {i \in 0..N : WindowDeque(deque[i], s, WindowStart(period, i), i, w)}
<1>1. N \in Nat /\ \A j \in 1..N : s[j] \in Int  OBVIOUS
<1>2. 0 \in K  BY <1>1, EmptyDeque DEF PriorDeques, WindowStart
<1>3. ASSUME NEW i \in 1..N, i - 1 \in K PROVE i \in K
  <2> DEFINE from == WindowStart(period, i - 1)
             to == i - 1
             left == i - period + 1
  <2>1. /\ from \in Nat \ {0} /\ to \in Nat
        /\ WindowDeque(deque[to], s, from, to, w)
    BY <1>1, <1>3 DEF WindowStart
  <2>2. deque[i] = PriorRound(deque[to], s, period, w, i)  BY DEF PriorDeques
  <2>3. CASE i <= period
    <3>1. deque[i] = Push(deque[to], s, i, w)  BY <2>2, <2>3 DEF PriorRound
    <3>2. WindowStart(period, i) = from /\ i \in from..N  BY <2>3, <1>1 DEF WindowStart
    <3>3. WindowDeque(Push(deque[to], s, i, w), s, from, i, w)
      <4> HIDE DEF from, N
      <4> QED BY <1>1, <2>1, <3>2, PushExtends
    <3> QED BY <3>1, <3>2, <3>3, <1>1
  <2>4. CASE ~(i <= period)
    <3>1. deque[i] = Push(PopFront(deque[to], left), s, i, w)  BY <2>2, <2>4 DEF PriorRound
    <3>2. /\ WindowStart(period, i) = left /\ left \in Nat \ {0} /\ i \in left..N
          /\ left \in from..(to + 1)
      BY <2>4, <1>1 DEF WindowStart
    <3>3. WindowDeque(PopFront(deque[to], left), s, left, to, w)
      <4> HIDE DEF to, from, N, left
      <4> QED BY <2>1, <3>2, PopFrontShrinks
    <3>4. WindowDeque(Push(PopFront(deque[to], left), s, i, w), s, left, i, w)
      <4> HIDE DEF N, left
      <4> QED BY <1>1, <3>2, <3>3, PushExtends
    <3> QED BY <3>1, <3>2, <3>4, <1>1
  <2> QED BY <2>3, <2>4
<1>4. 0..N \subseteq K
  <2> HIDE DEF K, N
  <2> QED BY <1>1, <1>2, <1>3, Rounds
<1> QED BY <1>4

\* The extreme of the values in a window.
Extreme(s, from, to, w) ==
  IF w THEN Highest({s[j] : j \in from..to}) ELSE Lowest({s[j] : j \in from..to})

\* A value that none beats is the extreme.
LEMMA UnbeatenIsExtreme ==
  ASSUME NEW s, NEW from, NEW to, NEW w, NEW h \in from..to,
         \A j \in from..to : s[j] \in Int, \A j \in from..to : ~Beats(s[j], s[h], w)
  PROVE  Extreme(s, from, to, w) = s[h] /\ s[h] \in Int
<1> DEFINE S == {s[j] : j \in from..to}
<1>1. S \in SUBSET Int /\ s[h] \in S /\ s[h] \in Int  OBVIOUS
<1>2. CASE w
  <2>1. \A y \in S : y <= s[h]  BY <1>1, <1>2 DEF Beats
  <2>2. Highest(S) = s[h]
    <3> HIDE DEF S
    <3> QED BY <1>1, <2>1, HighestIs
  <2> QED BY <1>1, <1>2, <2>2 DEF Extreme
<1>3. CASE ~w
  <2>1. \A y \in S : s[h] <= y  BY <1>1, <1>3 DEF Beats
  <2>2. Lowest(S) = s[h]
    <3> HIDE DEF S
    <3> QED BY <1>1, <2>1, LowestIs
  <2> QED BY <1>1, <1>3, <2>2 DEF Extreme
<1> QED BY <1>2, <1>3

\* The calculators of extremes give that of the window that ends with a candle,
\* or with the one before it, and nothing before there are enough candles.
LEMMA RollingMeans ==
  ASSUME NEW s \in Seq(Int), NEW period \in Nat \ {0}, NEW w
  PROVE  /\ DOMAIN RollingExtrema(s, period, w) = 1..Len(s)
         /\ \A i \in 1..Len(s) :
              /\ i < period => RollingExtrema(s, period, w)[i] = None
              /\ i >= period =>
                   /\ RollingExtrema(s, period, w)[i] = Extreme(s, i - period + 1, i, w)
                   /\ RollingExtrema(s, period, w)[i] \in Int
<1>1. PICK deque : /\ RollingDeques(deque, s, period, w)
                   /\ RollingExtrema(s, period, w) = RollingValues(deque, s, period)
  BY RollingLoop
<1>2. Len(s) \in Nat /\ DOMAIN s = 1..Len(s) /\ \A j \in 1..Len(s) : s[j] \in Int  OBVIOUS
<1>3. \A i \in 0..Len(s) : WindowDeque(deque[i], s, WindowStart(period, i), i, w)
  BY <1>1, RollingWindows
<1>4. ASSUME NEW i \in 1..Len(s), i >= period
      PROVE  /\ s[Head(deque[i])] = Extreme(s, i - period + 1, i, w)
             /\ s[Head(deque[i])] \in Int
  <2> DEFINE from == i - period + 1
  <2>1. from = WindowStart(period, i) /\ from \in Nat \ {0} /\ i \in from..Len(s)
    BY <1>2, <1>4 DEF WindowStart
  <2>2. WindowDeque(deque[i], s, from, i, w)  BY <1>2, <1>3, <2>1
  <2>3. \A j \in from..i : s[j] \in Int  BY <1>2, <2>1
  <2> HIDE DEF from
  <2>4. Head(deque[i]) \in from..i /\ \A j \in from..i : ~Beats(s[j], s[Head(deque[i])], w)
    BY <1>2, <2>1, <2>2, FrontIsExtreme
  <2>5. Extreme(s, from, i, w) = s[Head(deque[i])] /\ s[Head(deque[i])] \in Int
    BY <2>3, <2>4, UnbeatenIsExtreme
  <2> QED BY <2>5 DEF from
<1> QED BY <1>1, <1>2, <1>4 DEF RollingValues

\* A prior series holds the extreme of exactly the window before each position.
LEMMA PriorMeans ==
  ASSUME NEW s \in Seq(Int), NEW period \in Nat \ {0}, NEW w
  PROVE  /\ DOMAIN PriorExtrema(s, period, w) = 1..Len(s)
         /\ \A i \in 1..Len(s) :
              /\ i <= period => PriorExtrema(s, period, w)[i] = None
              /\ i > period =>
                   /\ PriorExtrema(s, period, w)[i] = Extreme(s, i - period, i - 1, w)
                   /\ PriorExtrema(s, period, w)[i] \in Int
<1>1. PICK deque : /\ PriorDeques(deque, s, period, w)
                   /\ PriorExtrema(s, period, w) = PriorValues(deque, s, period)
  BY PriorLoop
<1>2. Len(s) \in Nat /\ DOMAIN s = 1..Len(s) /\ \A j \in 1..Len(s) : s[j] \in Int  OBVIOUS
<1>3. \A i \in 0..Len(s) : WindowDeque(deque[i], s, WindowStart(period, i), i, w)
  BY <1>1, PriorWindows
<1>4. ASSUME NEW i \in 1..Len(s), i > period
      PROVE  /\ s[Head(deque[i - 1])] = Extreme(s, i - period, i - 1, w)
             /\ s[Head(deque[i - 1])] \in Int
  <2> DEFINE from == i - period  to == i - 1
  <2>1. /\ from = WindowStart(period, to) /\ from \in Nat \ {0} /\ to \in from..Len(s)
        /\ to \in 0..Len(s)
    BY <1>2, <1>4 DEF WindowStart
  <2>2. WindowDeque(deque[to], s, from, to, w)  BY <1>3, <2>1
  <2>3. \A j \in from..to : s[j] \in Int  BY <1>2, <2>1
  <2> HIDE DEF from, to
  <2>4. /\ Head(deque[to]) \in from..to
        /\ \A j \in from..to : ~Beats(s[j], s[Head(deque[to])], w)
    BY <1>2, <2>1, <2>2, FrontIsExtreme
  <2>5. Extreme(s, from, to, w) = s[Head(deque[to])] /\ s[Head(deque[to])] \in Int
    BY <2>3, <2>4, UnbeatenIsExtreme
  <2> QED BY <2>5 DEF from, to
<1> QED BY <1>1, <1>2, <1>4 DEF PriorValues

-----------------------------------------------------------------------------
(* Averages.                                                               *)

\* The running total of a loop.
LEMMA SumRounds ==
  ASSUME NEW s, NEW n \in Nat, \A k \in 1..n : s[k] \in Int
  PROVE  \E total : /\ total \in [0..n -> Int] /\ total[0] = 0
                    /\ \A k \in 1..n : total[k] = total[k - 1] + s[k]
                    /\ Sum(s, n) = total[n]
<1> DEFINE Round(F) == [k \in 0..n |-> IF k = 0 THEN 0 ELSE F[k - 1] + s[k]]
           total == CHOOSE F : F = Round(F)
           step == [p \in (1..n) \X Int |-> p[2] + s[p[1]]]
<1>1. step \in [(1..n) \X Int -> Int] /\ 0 \in Int  OBVIOUS
<1>2. PICK f : LoopRun(f, n, Int, 0, step)
  <2> HIDE DEF step
  <2> QED BY <1>1, LoopExists
<1>3. /\ f \in [0..n -> Int] /\ f[0] = 0
      /\ \A k \in 1..n : f[k] = f[k - 1] + s[k]
  <2>1. f \in [0..n -> Int] /\ f[0] = 0 /\ \A k \in 1..n : f[k] = step[<<k, f[k - 1]>>]
    <3> HIDE DEF step
    <3> QED BY <1>2 DEF LoopRun
  <2>2. \A k \in 1..n : f[k - 1] \in Int
    <3> HIDE DEF step
    <3> QED BY <2>1
  <2> QED BY <2>1, <2>2
<1>4. f = Round(f)
  <2>1. \A k \in 0..n : k = 0 \/ k \in 1..n  OBVIOUS
  <2>2. \A k \in 0..n : f[k] = Round(f)[k]  BY <1>3, <2>1
  <2> QED BY <1>3, <2>2
<1>5. total = Round(total)
  <2> HIDE DEF Round
  <2> QED BY <1>4
<1>6. total[0] = 0 /\ \A k \in 1..n : total[k] = total[k - 1] + s[k]
  <2> HIDE DEF total
  <2>1. \A k \in 0..n : total[k] = IF k = 0 THEN 0 ELSE total[k - 1] + s[k]  BY <1>5
  <2> QED BY <2>1
<1> DEFINE K == {k \in 0..n : total[k] \in Int}
<1>7. 0..n \subseteq K
  <2> HIDE DEF total
  <2>1. 0 \in K  BY <1>6
  <2>2. ASSUME NEW k \in 1..n, k - 1 \in K PROVE k \in K  BY <1>6, <2>2
  <2> HIDE DEF K
  <2> QED BY <2>1, <2>2, Rounds
<1>8. total \in [0..n -> Int]
  <2> HIDE DEF total
  <2>1. total = [k \in 0..n |-> IF k = 0 THEN 0 ELSE total[k - 1] + s[k]]  BY <1>5
  <2>2. \A k \in 0..n : total[k] \in Int  BY <1>7
  <2>3. DOMAIN total = 0..n /\ total = [k \in 0..n |-> total[k]]  BY <2>1
  <2> QED BY <2>2, <2>3
<1>9. Sum(s, n) = total[n]  BY DEF Sum
<1> HIDE DEF total
<1> QED BY <1>6, <1>8, <1>9

\* Sums, element by element.
LEMMA SumSteps ==
  ASSUME NEW s, NEW n \in Nat, \A k \in 1..(n + 1) : s[k] \in Int
  PROVE  /\ Sum(s, n) \in Int /\ Sum(s, 0) = 0
         /\ Sum(s, n + 1) = Sum(s, n) + s[n + 1]
<1>1. PICK t : /\ t \in [0..n -> Int] /\ t[0] = 0
               /\ \A k \in 1..n : t[k] = t[k - 1] + s[k]
               /\ Sum(s, n) = t[n]
  <2>1. \A k \in 1..n : s[k] \in Int  OBVIOUS
  <2> QED BY <2>1, SumRounds
<1>2. PICK u : /\ u \in [0..(n + 1) -> Int] /\ u[0] = 0
               /\ \A k \in 1..(n + 1) : u[k] = u[k - 1] + s[k]
               /\ Sum(s, n + 1) = u[n + 1]
  <2>1. n + 1 \in Nat  OBVIOUS
  <2> QED BY <2>1, SumRounds
<1>3. PICK z : z[0] = 0 /\ Sum(s, 0) = z[0]
  <2>1. 0 \in Nat /\ \A k \in 1..0 : s[k] \in Int  OBVIOUS
  <2> QED BY <2>1, SumRounds
<1> DEFINE K == {k \in 0..n : t[k] = u[k]}
<1>4. 0..n \subseteq K
  <2>1. 0 \in K  BY <1>1, <1>2
  <2>2. ASSUME NEW k \in 1..n, k - 1 \in K PROVE k \in K
    <3>1. k \in 1..(n + 1) /\ t[k - 1] = u[k - 1]  BY <2>2
    <3> QED BY <1>1, <1>2, <3>1
  <2> HIDE DEF K
  <2> QED BY <2>1, <2>2, Rounds
<1>5. t[n] = u[n] /\ t[n] \in Int  BY <1>1, <1>4
<1>6. u[n + 1] = u[n] + s[n + 1]
  <2>1. n + 1 \in 1..(n + 1) /\ (n + 1) - 1 = n  OBVIOUS
  <2> QED BY <1>2, <2>1
<1> QED BY <1>1, <1>2, <1>3, <1>5, <1>6

\* A sum of integers is one.
LEMMA SumType ==
  ASSUME NEW s, NEW n \in Nat, \A k \in 1..n : s[k] \in Int
  PROVE  Sum(s, n) \in Int
<1>1. PICK x : /\ x \in [0..n -> Int] /\ x[0] = 0
               /\ \A k \in 1..n : x[k] = x[k - 1] + s[k]
               /\ Sum(s, n) = x[n]
  BY SumRounds
<1> QED BY <1>1

\* Equal elements have equal sums.
LEMMA SumAgrees ==
  ASSUME NEW s, NEW t, NEW n \in Nat, \A k \in 1..n : s[k] \in Int /\ t[k] = s[k]
  PROVE  Sum(t, n) = Sum(s, n)
<1>1. PICK x : /\ x \in [0..n -> Int] /\ x[0] = 0
               /\ \A k \in 1..n : x[k] = x[k - 1] + s[k]
               /\ Sum(s, n) = x[n]
  BY SumRounds
<1>2. PICK y : /\ y \in [0..n -> Int] /\ y[0] = 0
               /\ \A k \in 1..n : y[k] = y[k - 1] + t[k]
               /\ Sum(t, n) = y[n]
  BY SumRounds
<1> DEFINE K == {k \in 0..n : x[k] = y[k]}
<1>3. 0 \in K  BY <1>1, <1>2
<1>4. ASSUME NEW k \in 1..n, k - 1 \in K PROVE k \in K
  <2>1. x[k - 1] = y[k - 1] /\ t[k] = s[k]  BY <1>4
  <2> QED BY <1>1, <1>2, <2>1
<1>5. 0..n \subseteq K
  <2> HIDE DEF K
  <2> QED BY <1>3, <1>4, Rounds
<1> QED BY <1>1, <1>2, <1>5

\* Multiplying both sides keeps an inequality.
LEMMA Scaled ==
  ASSUME NEW x \in Int, NEW y \in Int, x <= y, NEW c \in Nat
  PROVE  c * x <= c * y
OBVIOUS

\* A sum lies between so many times the smallest and the greatest.
LEMMA SumBetween ==
  ASSUME NEW s, NEW n \in Nat, NEW lo \in Int, NEW hi \in Int,
         \A k \in 1..n : s[k] \in Int /\ lo <= s[k] /\ s[k] <= hi
  PROVE  Sum(s, n) \in Int /\ lo * n <= Sum(s, n) /\ Sum(s, n) <= hi * n
<1>1. PICK x : /\ x \in [0..n -> Int] /\ x[0] = 0
               /\ \A k \in 1..n : x[k] = x[k - 1] + s[k]
               /\ Sum(s, n) = x[n]
  BY SumRounds
<1> DEFINE K == {k \in 0..n : lo * k <= x[k] /\ x[k] <= hi * k}
<1>2. 0 \in K  BY <1>1
<1>3. ASSUME NEW k \in 1..n, k - 1 \in K PROVE k \in K
  <2>1. /\ lo * (k - 1) <= x[k - 1] /\ x[k - 1] <= hi * (k - 1)
        /\ x[k - 1] \in Int /\ x[k] = x[k - 1] + s[k] /\ s[k] \in Int
        /\ lo <= s[k] /\ s[k] <= hi /\ k \in Int
    BY <1>1, <1>3
  <2>2. lo * (k - 1) = lo * k - lo /\ hi * (k - 1) = hi * k - hi
    BY <2>1
  <2>3. lo * k \in Int /\ hi * k \in Int  BY <2>1
  <2>4. lo * k <= x[k] /\ x[k] <= hi * k  BY <2>1, <2>2, <2>3
  <2> QED BY <2>4
<1>4. 0..n \subseteq K
  <2> HIDE DEF K
  <2> QED BY <1>2, <1>3, Rounds
<1> QED BY <1>1, <1>4

Fractions == [num : Int, den : Nat \ {0}]

\* One round of the average.
Mixed(x, value, keep, gain) ==
  Fraction(keep * x.num + gain * value * x.den, (keep + gain) * x.den)

Averages(a, s, period, keep, gain) ==
  /\ a \in [1..Len(s) -> Fractions]
  /\ \A i \in 1..Len(s) :
       a[i] = IF i <= period THEN Fraction(Sum(s, period), period)
              ELSE Mixed(a[i - 1], s[i], keep, gain)

SmoothedValues(a, s, period) ==
  [i \in DOMAIN s |-> IF period = 1 THEN Fraction(s[i], 1)
                      ELSE IF i < period THEN None ELSE a[i]]

\* The mixture of an average and a value is a fraction.
LEMMA MixedType ==
  ASSUME NEW x \in Fractions, NEW value \in Int, NEW keep \in Nat, NEW gain \in Nat \ {0}
  PROVE  Mixed(x, value, keep, gain) \in Fractions
<1>1. x.num \in Int /\ x.den \in Nat /\ x.den # 0  BY DEF Fractions
<1>2. keep * x.num + gain * value * x.den \in Int  BY <1>1
<1>3. keep + gain \in Nat /\ keep + gain # 0  OBVIOUS
<1>4. (keep + gain) * x.den \in Nat \ {0}  BY <1>1, <1>3
<1> QED BY <1>2, <1>4 DEF Mixed, Fraction, Fractions

\* The running average exists and satisfies its equation.
LEMMA AverageLoop ==
  ASSUME NEW s \in Seq(Int), NEW period \in 1..Len(s), NEW keep \in Nat, NEW gain \in Nat \ {0}
  PROVE  \E a : /\ Averages(a, s, period, keep, gain)
                /\ Smoothed(s, period, keep, gain) = SmoothedValues(a, s, period)
<1> DEFINE N == Len(s)
           base == Fraction(Sum(s, period), period)
           Round(F) == [i \in 1..N |->
             IF i <= period THEN Fraction(Sum(s, period), period)
             ELSE Fraction(keep * F[i - 1].num + gain * s[i] * F[i - 1].den,
                           (keep + gain) * F[i - 1].den)]
           average == CHOOSE F : F = Round(F)
           step == [p \in (1..N) \X Fractions |->
                      IF p[1] <= period THEN base ELSE Mixed(p[2], s[p[1]], keep, gain)]
<1>1. N \in Nat /\ period \in Nat \ {0} /\ \A i \in 1..N : s[i] \in Int  OBVIOUS
<1>2. base \in Fractions
  <2>1. period \in Nat /\ \A k \in 1..period : s[k] \in Int  BY <1>1
  <2>2. Sum(s, period) \in Int
    <3> HIDE DEF N
    <3> QED BY <2>1, SumType
  <2> QED BY <1>1, <2>2 DEF Fraction, Fractions
<1> HIDE DEF base
<1>3. step \in [(1..N) \X Fractions -> Fractions]
  <2>1. \A i \in 1..N, x \in Fractions :
          (IF i <= period THEN base ELSE Mixed(x, s[i], keep, gain)) \in Fractions
    BY <1>1, <1>2, MixedType
  <2> HIDE DEF N
  <2> QED BY <2>1
<1>4. PICK f : LoopRun(f, N, Fractions, base, step)
  <2> HIDE DEF step, N
  <2> QED BY <1>1, <1>2, <1>3, LoopExists
<1>5. /\ f \in [0..N -> Fractions]
      /\ \A i \in 1..N : f[i] = IF i <= period THEN base ELSE Mixed(f[i - 1], s[i], keep, gain)
  <2>1. f \in [0..N -> Fractions] /\ \A i \in 1..N : f[i] = step[<<i, f[i - 1]>>]
    <3> HIDE DEF step
    <3> QED BY <1>4 DEF LoopRun
  <2>2. \A i \in 1..N : f[i - 1] \in Fractions
    <3> HIDE DEF N, step
    <3> QED BY <1>1, <2>1
  <2> HIDE DEF N
  <2> QED BY <2>1, <2>2
<1> DEFINE g == [i \in 1..N |-> f[i]]
<1>6. g = Round(g)
  <2>1. ASSUME NEW i \in 1..N PROVE g[i] = Round(g)[i]
    <3>1. CASE i <= period  BY <3>1, <1>5 DEF base
    <3>2. CASE ~(i <= period)
      <4>1. i - 1 \in 1..N /\ g[i - 1] = f[i - 1] /\ g[i] = f[i]  BY <3>2, <1>1
      <4>2. g[i] = Mixed(g[i - 1], s[i], keep, gain)  BY <4>1, <3>2, <1>5
      <4>3. Round(g)[i] = Mixed(g[i - 1], s[i], keep, gain)
        <5> HIDE DEF g
        <5> QED BY <3>2 DEF Mixed
      <4> HIDE DEF g, Round
      <4> QED BY <4>2, <4>3
    <3> QED BY <3>1, <3>2
  <2>2. \A i \in 1..N : g[i] = Round(g)[i]  BY <2>1
  <2> QED BY <2>2
<1>7. average = Round(average)
  <2> HIDE DEF Round, g
  <2> QED BY <1>6
<1>8. \A i \in 1..N : average[i] = IF i <= period THEN base
                                   ELSE Mixed(average[i - 1], s[i], keep, gain)
  <2> HIDE DEF average
  <2> QED BY <1>7 DEF Mixed, base
<1> DEFINE K == {i \in 0..N : i = 0 \/ average[i] \in Fractions}
<1>9. 0..N \subseteq K
  <2> HIDE DEF average
  <2>1. 0 \in K  BY <1>1
  <2>2. ASSUME NEW i \in 1..N, i - 1 \in K PROVE i \in K
    <3>1. CASE i <= period  BY <3>1, <1>2, <1>8
    <3>2. CASE ~(i <= period)
      <4>1. i - 1 # 0 /\ average[i - 1] \in Fractions /\ s[i] \in Int  BY <1>1, <2>2, <3>2
      <4>2. average[i] = Mixed(average[i - 1], s[i], keep, gain)  BY <1>8, <3>2
      <4>3. Mixed(average[i - 1], s[i], keep, gain) \in Fractions
        <5> HIDE DEF K, N
        <5> QED BY <4>1, MixedType
      <4> QED BY <4>2, <4>3
    <3> QED BY <3>1, <3>2
  <2> HIDE DEF K, N
  <2> QED BY <1>1, <2>1, <2>2, Rounds
<1>10. Averages(average, s, period, keep, gain)
  <2> HIDE DEF average
  <2>1. \A i \in 1..N : average[i] \in Fractions  BY <1>1, <1>9
  <2>2. DOMAIN average = 1..N /\ average = [i \in 1..N |-> average[i]]  BY <1>7
  <2>3. average \in [1..N -> Fractions]  BY <2>1, <2>2
  <2> QED BY <1>8, <2>3 DEF Averages, base
<1>11. Smoothed(s, period, keep, gain) = SmoothedValues(average, s, period)
  BY DEF Smoothed, SmoothedValues
<1> HIDE DEF average
<1> QED BY <1>10, <1>11

\* An average stays within what it averages.
LEMMA MixedBetween ==
  ASSUME NEW lo \in Int, NEW hi \in Int, NEW x \in Fractions, Between(lo, x, hi),
         NEW value \in Int, lo <= value, value <= hi,
         NEW keep \in Nat, NEW gain \in Nat \ {0}
  PROVE  Between(lo, Mixed(x, value, keep, gain), hi)
<1> DEFINE n == x.num  d == x.den  g == gain * d
<1>1. n \in Int /\ d \in Nat /\ g \in Nat /\ lo * d <= n /\ n <= hi * d
  BY DEF Fractions, Between
<1> HIDE DEF n, d
<1>2. lo * d \in Int /\ hi * d \in Int  BY <1>1
<1>3. keep * (lo * d) <= keep * n /\ keep * n <= keep * (hi * d)  BY <1>1, <1>2, Scaled
<1>4. g * lo <= g * value /\ g * value <= g * hi
  <2> HIDE DEF g
  <2> QED BY <1>1, Scaled
<1>5. /\ lo * ((keep + gain) * d) = keep * (lo * d) + g * lo
      /\ hi * ((keep + gain) * d) = keep * (hi * d) + g * hi
      /\ gain * value * d = g * value
  BY <1>1
<1>6. /\ keep * (lo * d) \in Int /\ keep * n \in Int /\ keep * (hi * d) \in Int
      /\ g * lo \in Int /\ g * value \in Int /\ g * hi \in Int
  BY <1>1, <1>2
<1> HIDE DEF g
<1>7. /\ lo * ((keep + gain) * d) <= keep * n + g * value
      /\ keep * n + g * value <= hi * ((keep + gain) * d)
  BY <1>3, <1>4, <1>5, <1>6
<1>8. /\ Mixed(x, value, keep, gain).num = keep * n + g * value
      /\ Mixed(x, value, keep, gain).den = (keep + gain) * d
  BY <1>5 DEF Mixed, Fraction, n, d
<1> QED BY <1>7, <1>8 DEF Between

\* A running average stays within what it averages.
LEMMA AveragesBetween ==
  ASSUME NEW s \in Seq(Int), NEW period \in 1..Len(s), NEW keep \in Nat, NEW gain \in Nat \ {0},
         NEW a, Averages(a, s, period, keep, gain),
         NEW n \in period..Len(s), NEW lo \in Int, NEW hi \in Int,
         \A j \in 1..n : lo <= s[j] /\ s[j] <= hi
  PROVE  a[n] \in Fractions /\ Between(lo, a[n], hi)
<1> DEFINE K == {i \in 0..n : i < period \/ Between(lo, a[i], hi)}
<1>1. /\ n \in Nat /\ n <= Len(s) /\ period \in Nat /\ Len(s) \in Nat
      /\ \A i \in 1..n : s[i] \in Int
  OBVIOUS
<1>2. 0 \in K  BY <1>1
<1>3. ASSUME NEW i \in 1..n, i - 1 \in K PROVE i \in K
  <2>1. i \in 1..Len(s) /\ i \in Nat  BY <1>1
  <2>2. CASE i < period  BY <2>1, <2>2
  <2>3. CASE i = period
    <3>1. a[i] = Fraction(Sum(s, period), period)  BY <2>1, <2>3 DEF Averages
    <3>2. \A k \in 1..period : s[k] \in Int /\ lo <= s[k] /\ s[k] <= hi  BY <1>1
    <3>3. lo * period <= Sum(s, period) /\ Sum(s, period) <= hi * period
      BY <1>1, <3>2, SumBetween
    <3> QED BY <2>1, <3>1, <3>3 DEF Between, Fraction
  <2>4. CASE i > period
    <3>1. a[i] = Mixed(a[i - 1], s[i], keep, gain)  BY <2>1, <2>4, <1>1 DEF Averages
    <3>2. i - 1 \in 1..Len(s) /\ ~(i - 1 < period)  BY <2>1, <2>4, <1>1
    <3>3. a[i - 1] \in Fractions /\ Between(lo, a[i - 1], hi)  BY <1>3, <3>2 DEF Averages
    <3>4. s[i] \in Int /\ lo <= s[i] /\ s[i] <= hi  BY <1>1
    <3>5. Between(lo, Mixed(a[i - 1], s[i], keep, gain), hi)
      <4> HIDE DEF K
      <4> QED BY <3>3, <3>4, MixedBetween
    <3> QED BY <2>1, <3>1, <3>5
  <2> QED BY <2>1, <2>2, <2>3, <2>4, <1>1
<1>4. 0..n \subseteq K
  <2> HIDE DEF K
  <2> QED BY <1>1, <1>2, <1>3, Rounds
<1>5. n \in K /\ ~(n < period) /\ n \in 1..Len(s)  BY <1>1, <1>4
<1> QED BY <1>5 DEF Averages

\* The exponential average and Wilder's: nothing before there are enough values,
\* then a fraction between any bounds of the values so far.
LEMMA SmoothedMeans ==
  ASSUME NEW s \in Seq(Int), NEW period \in Nat \ {0}, NEW gain \in Nat \ {0}
  PROVE  LET average == Smoothed(s, period, period - 1, gain) IN
         /\ DOMAIN average = 1..Len(s)
         /\ \A i \in 1..Len(s) :
              /\ i < period => average[i] = None
              /\ i >= period =>
                   /\ average[i] \in Fractions
                   /\ \A lo, hi \in Int :
                        (\A j \in 1..i : lo <= s[j] /\ s[j] <= hi) => Between(lo, average[i], hi)
<1> DEFINE average == Smoothed(s, period, period - 1, gain)
           Means(f) ==
             /\ DOMAIN f = 1..Len(s)
             /\ \A i \in 1..Len(s) :
                  /\ i < period => f[i] = None
                  /\ i >= period =>
                       /\ f[i] \in Fractions
                       /\ \A lo, hi \in Int :
                            (\A j \in 1..i : lo <= s[j] /\ s[j] <= hi) => Between(lo, f[i], hi)
<1>1. Len(s) \in Nat /\ DOMAIN s = 1..Len(s) /\ \A j \in 1..Len(s) : s[j] \in Int  OBVIOUS
<1>2. DOMAIN average = 1..Len(s)  BY <1>1 DEF Smoothed
<1>3. CASE period = 1
  <2>1. \A i \in 1..Len(s) : average[i] = Fraction(s[i], 1)  BY <1>1, <1>3 DEF Smoothed
  <2>2. ASSUME NEW i \in 1..Len(s)
        PROVE  /\ average[i] \in Fractions
               /\ \A lo, hi \in Int : (\A j \in 1..i : lo <= s[j] /\ s[j] <= hi) =>
                    Between(lo, average[i], hi)
    <3>1. average[i] = Fraction(s[i], 1) /\ s[i] \in Int /\ i \in 1..i  BY <1>1, <2>1
    <3> HIDE DEF average
    <3>2. \A lo, hi \in Int : lo <= s[i] /\ s[i] <= hi => Between(lo, Fraction(s[i], 1), hi)
      BY <3>1 DEF Between, Fraction
    <3>3. Fraction(s[i], 1) \in Fractions  BY <3>1 DEF Fraction, Fractions
    <3> QED BY <3>1, <3>2, <3>3
  <2>3. \A i \in 1..Len(s) : ~(i < period)  BY <1>3
  <2>4. Means(average)
    <3> HIDE DEF average
    <3> QED BY <1>2, <2>2, <2>3
  <2> QED BY <2>4
<1>4. CASE period # 1 /\ period <= Len(s)
  <2>1. period \in 1..Len(s) /\ period - 1 \in Nat  BY <1>4, <1>1
  <2>2. PICK a : /\ Averages(a, s, period, period - 1, gain)
                 /\ average = SmoothedValues(a, s, period)
    <3> HIDE DEF average
    <3> QED BY <2>1, AverageLoop DEF average
  <2>3. \A i \in 1..Len(s) : average[i] = IF i < period THEN None ELSE a[i]
    BY <1>1, <1>4, <2>2 DEF SmoothedValues
  <2>4. ASSUME NEW i \in 1..Len(s), i >= period
        PROVE  a[i] \in Fractions
    BY <2>2 DEF Averages
  <2>5. ASSUME NEW i \in 1..Len(s), i >= period, NEW lo \in Int, NEW hi \in Int,
               \A j \in 1..i : lo <= s[j] /\ s[j] <= hi
        PROVE  Between(lo, a[i], hi)
    <3>1. i \in period..Len(s)  BY <2>5, <2>1
    <3> QED BY <2>1, <2>2, <2>5, <3>1, AveragesBetween
  <2>6. \A i \in 1..Len(s) : i >= period => ~(i < period)  BY <1>1
  <2>7. Means(average)
    <3> HIDE DEF average
    <3> QED BY <1>2, <2>3, <2>4, <2>5, <2>6
  <2> QED BY <2>7
<1>5. CASE period # 1 /\ ~(period <= Len(s))
  <2>1. \A i \in 1..Len(s) : i < period /\ ~(i >= period)  BY <1>1, <1>5
  <2>2. \A i \in 1..Len(s) : average[i] = None  BY <1>1, <1>5, <2>1 DEF Smoothed
  <2>3. Means(average)
    <3> HIDE DEF average
    <3> QED BY <1>2, <2>1, <2>2
  <2> QED BY <2>3
<1> QED BY <1>3, <1>4, <1>5

\* Two sequences of numbers with the same first n.
SameUntil(s, t, n) ==
  /\ s \in Seq(Int) /\ t \in Seq(Int) /\ Len(t) = Len(s)
  /\ n \in 1..Len(s) /\ \A j \in 1..n : t[j] = s[j]

\* An average depends on the values so far.
LEMMA AveragesAgree ==
  ASSUME NEW s, NEW t, NEW n, SameUntil(s, t, n),
         NEW period \in 1..n, NEW keep, NEW gain,
         NEW a, Averages(a, s, period, keep, gain),
         NEW b, Averages(b, t, period, keep, gain)
  PROVE  \A i \in 1..n : b[i] = a[i]
<1> DEFINE K == {i \in 0..n : i = 0 \/ b[i] = a[i]}
<1>1. /\ n \in Nat /\ n <= Len(s) /\ period \in Nat /\ Len(s) \in Nat /\ period <= n
      /\ Len(t) = Len(s) /\ \A i \in 1..n : s[i] \in Int /\ t[i] = s[i]
  BY DEF SameUntil
<1>2. 0 \in K  BY <1>1
<1>3. ASSUME NEW i \in 1..n, i - 1 \in K PROVE i \in K
  <2>1. i \in 1..Len(s) /\ i \in 1..Len(t) /\ i \in Nat /\ t[i] = s[i]  BY <1>1
  <2>2. CASE i <= period
    <3>1. a[i] = Fraction(Sum(s, period), period) /\ b[i] = Fraction(Sum(t, period), period)
      BY <2>1, <2>2 DEF Averages
    <3>2. \A k \in 1..period : s[k] \in Int /\ t[k] = s[k]  BY <1>1
    <3>3. Sum(t, period) = Sum(s, period)  BY <1>1, <3>2, SumAgrees
    <3> QED BY <2>1, <3>1, <3>3
  <2>3. CASE ~(i <= period)
    <3>1. /\ a[i] = Mixed(a[i - 1], s[i], keep, gain)
          /\ b[i] = Mixed(b[i - 1], t[i], keep, gain)
      BY <2>1, <2>3 DEF Averages
    <3>2. b[i - 1] = a[i - 1]  BY <1>1, <1>3, <2>1, <2>3
    <3> QED BY <2>1, <3>1, <3>2
  <2> QED BY <2>2, <2>3
<1>4. 0..n \subseteq K
  <2> HIDE DEF K
  <2> QED BY <1>1, <1>2, <1>3, Rounds
<1> QED BY <1>4

\* The first values of an average depend on the first values it averages.
LEMMA SmoothedAgrees ==
  ASSUME NEW s, NEW t, NEW n, SameUntil(s, t, n),
         NEW period \in Nat \ {0}, NEW gain \in Nat \ {0}
  PROVE  \A i \in 1..n :
           Smoothed(t, period, period - 1, gain)[i] = Smoothed(s, period, period - 1, gain)[i]
<1> DEFINE left(i) == Smoothed(t, period, period - 1, gain)[i]
           right(i) == Smoothed(s, period, period - 1, gain)[i]
<1>1. /\ Len(s) \in Nat /\ DOMAIN s = 1..Len(s) /\ DOMAIN t = 1..Len(s) /\ period - 1 \in Nat
      /\ n \in Nat /\ \A i \in 1..n : i \in 1..Len(s) /\ t[i] = s[i]
      /\ s \in Seq(Int) /\ t \in Seq(Int) /\ Len(t) = Len(s)
  BY DEF SameUntil
<1>2. CASE period = 1
  <2>1. \A i \in 1..n : left(i) = Fraction(t[i], 1) /\ right(i) = Fraction(s[i], 1)
    BY <1>1, <1>2 DEF Smoothed
  <2> HIDE DEF left, right
  <2>2. \A i \in 1..n : left(i) = right(i)  BY <1>1, <2>1
  <2> QED BY <2>2 DEF left, right
<1>3. CASE period # 1 /\ n < period
  <2>1. \A i \in 1..n : i < period  BY <1>3, <1>1
  <2> QED BY <1>1, <1>3, <2>1 DEF Smoothed
<1>4. CASE period # 1 /\ period <= n
  <2>1. period \in 1..Len(s) /\ period \in 1..Len(t) /\ period \in 1..n
    BY <1>4, <1>1 DEF SameUntil
  <2>2. PICK a : /\ Averages(a, s, period, period - 1, gain)
                 /\ Smoothed(s, period, period - 1, gain) = SmoothedValues(a, s, period)
    BY <1>1, <2>1, AverageLoop
  <2>3. PICK b : /\ Averages(b, t, period, period - 1, gain)
                 /\ Smoothed(t, period, period - 1, gain) = SmoothedValues(b, t, period)
    BY <1>1, <2>1, AverageLoop
  <2>4. \A i \in 1..n : b[i] = a[i]
    <3> HIDE DEF left, right
    <3> QED BY <2>1, <2>2, <2>3, AveragesAgree
  <2>5. \A i \in 1..n : /\ left(i) = IF i < period THEN None ELSE b[i]
                        /\ right(i) = IF i < period THEN None ELSE a[i]
    BY <1>1, <1>4, <2>2, <2>3 DEF SmoothedValues
  <2> HIDE DEF left, right
  <2>6. \A i \in 1..n : left(i) = right(i)  BY <2>4, <2>5
  <2> QED BY <2>6 DEF left, right
<1> QED BY <1>2, <1>3, <1>4, <1>1

-----------------------------------------------------------------------------
(* The calculators.                                                        *)

\* The columns of a candle series.
LEMMA Columns ==
  ASSUME NEW candles \in Seq(ValidCandles)
  PROVE  /\ Highs(candles) \in Seq(Int) /\ Len(Highs(candles)) = Len(candles)
         /\ Lows(candles) \in Seq(Int) /\ Len(Lows(candles)) = Len(candles)
         /\ Closes(candles) \in Seq(Int) /\ Len(Closes(candles)) = Len(candles)
         /\ \A i \in 1..Len(candles) :
              /\ Highs(candles)[i] = candles[i].high
              /\ Lows(candles)[i] = candles[i].low
              /\ Closes(candles)[i] = candles[i].close
<1> DEFINE N == Len(candles)
<1>1. N \in Nat /\ DOMAIN candles = 1..N /\ \A i \in 1..N : candles[i] \in ValidCandles
  OBVIOUS
<1>2. \A i \in 1..N :
        candles[i].high \in Int /\ candles[i].low \in Int /\ candles[i].close \in Int
  BY <1>1 DEF ValidCandles
<1>3. /\ Highs(candles) \in [1..N -> Int] /\ Lows(candles) \in [1..N -> Int]
      /\ Closes(candles) \in [1..N -> Int]
  BY <1>1, <1>2 DEF Highs, Lows, Closes
<1>4. /\ Highs(candles) \in Seq(Int) /\ Len(Highs(candles)) = N
      /\ Lows(candles) \in Seq(Int) /\ Len(Lows(candles)) = N
      /\ Closes(candles) \in Seq(Int) /\ Len(Closes(candles)) = N
  <2> HIDE DEF N
  <2> QED BY <1>1, <1>3, FunctionIsSequence
<1> QED BY <1>1, <1>4 DEF Highs, Lows, Closes

\* The greatest of the three ranges is the height of the candle with the close
\* before it.
LEMMA TrueRangeIs ==
  ASSUME NEW candles \in Seq(ValidCandles), NEW i \in 1..Len(candles)
  PROVE  /\ TrueRange(candles)[i] = RangeAt(candles, i)
         /\ RangeAt(candles, i) \in Nat
<1> DEFINE h == candles[i].high  l == candles[i].low  p == candles[i - 1].close
<1>1. h \in Int /\ l \in Int /\ l <= h
  <2>1. candles[i] \in ValidCandles  OBVIOUS
  <2>2. /\ candles[i].low <= candles[i].open /\ candles[i].open <= candles[i].high
        /\ candles[i].open \in Int /\ candles[i].high \in Int /\ candles[i].low \in Int
    BY <2>1 DEF ValidCandles
  <2> QED BY <2>2
<1>2. i \in DOMAIN candles  OBVIOUS
<1>3. CASE i = 1
  <2>1. TrueRange(candles)[i] = Highest({h - l})  BY <1>2, <1>3 DEF TrueRange
  <2>2. RangeAt(candles, i) = Highest({h}) - Lowest({l})  BY <1>3 DEF RangeAt
  <2> HIDE DEF h, l
  <2>3. Highest({h - l}) = h - l /\ Highest({h}) = h /\ Lowest({l}) = l
    <3>1. {h - l} \in SUBSET Int /\ {h} \in SUBSET Int /\ {l} \in SUBSET Int  BY <1>1
    <3>2. h - l <= h - l /\ h <= h /\ l <= l  BY <1>1
    <3>3. Highest({h - l}) = h - l
      <4> DEFINE m == h - l
      <4>1. \A y \in {m} : y <= m  BY <3>2
      <4> HIDE DEF m
      <4> QED BY <3>1, <4>1, HighestIs DEF m
    <3>4. Highest({h}) = h  BY <3>1, <3>2, HighestIs
    <3>5. Lowest({l}) = l  BY <3>1, <3>2, LowestIs
    <3> QED BY <3>3, <3>4, <3>5
  <2> QED BY <1>1, <2>1, <2>2, <2>3
<1>4. CASE i # 1
  <2>1. p \in Int
    <3>1. candles[i - 1] \in ValidCandles  BY <1>4
    <3> QED BY <3>1 DEF ValidCandles
  <2> DEFINE R == {h - l, Abs(h - p), Abs(l - p)}
  <2>2. TrueRange(candles)[i] = Highest(R)
    <3>1. {h - l} \cup {Abs(h - p), Abs(l - p)} = R  OBVIOUS
    <3> QED BY <1>2, <1>4, <3>1 DEF TrueRange
  <2>3. RangeAt(candles, i) = Highest({h, p}) - Lowest({l, p})
    <3>1. {h} \cup {p} = {h, p} /\ {l} \cup {p} = {l, p}  OBVIOUS
    <3> QED BY <1>4, <3>1 DEF RangeAt
  <2> HIDE DEF h, l, p
  <2>4. R \in SUBSET Int /\ {h, p} \in SUBSET Int /\ {l, p} \in SUBSET Int
    BY <1>1, <2>1 DEF Abs
  <2>5. CASE p <= l
    <3>1. h - p \in R /\ \A y \in R : y <= h - p  BY <1>1, <2>1, <2>5 DEF Abs
    <3>2. Highest(R) = h - p
      <4> HIDE DEF R
      <4> QED BY <2>4, <3>1, HighestIs
    <3>3. p <= h /\ \A y \in {h, p} : y <= h  BY <1>1, <2>1, <2>5
    <3>4. Highest({h, p}) = h  BY <2>4, <3>3, HighestIs
    <3>5. \A y \in {l, p} : p <= y  BY <1>1, <2>1, <2>5
    <3>6. Lowest({l, p}) = p  BY <2>4, <3>5, LowestIs
    <3> QED BY <1>1, <2>1, <2>2, <2>3, <3>2, <3>3, <3>4, <3>6
  <2>6. CASE l <= p /\ p <= h
    <3>1. h - l \in R /\ \A y \in R : y <= h - l  BY <1>1, <2>1, <2>6 DEF Abs
    <3>2. Highest(R) = h - l
      <4> HIDE DEF R
      <4> QED BY <2>4, <3>1, HighestIs
    <3>3. \A y \in {h, p} : y <= h  BY <1>1, <2>1, <2>6
    <3>4. Highest({h, p}) = h  BY <2>4, <3>3, HighestIs
    <3>5. \A y \in {l, p} : l <= y  BY <1>1, <2>1, <2>6
    <3>6. Lowest({l, p}) = l  BY <2>4, <3>5, LowestIs
    <3> QED BY <1>1, <2>1, <2>2, <2>3, <3>2, <3>4, <3>6
  <2>7. CASE h <= p
    <3>1. p - l \in R /\ \A y \in R : y <= p - l  BY <1>1, <2>1, <2>7 DEF Abs
    <3>2. Highest(R) = p - l
      <4> HIDE DEF R
      <4> QED BY <2>4, <3>1, HighestIs
    <3>3. l <= p /\ \A y \in {h, p} : y <= p  BY <1>1, <2>1, <2>7
    <3>4. Highest({h, p}) = p  BY <2>4, <3>3, HighestIs
    <3>5. \A y \in {l, p} : l <= y  BY <1>1, <2>1, <2>7
    <3>6. Lowest({l, p}) = l  BY <2>4, <3>5, LowestIs
    <3> QED BY <1>1, <2>1, <2>2, <2>3, <3>2, <3>3, <3>4, <3>6
  <2> QED BY <1>1, <2>1, <2>5, <2>6, <2>7
<1> QED BY <1>3, <1>4

\* True ranges are natural numbers.
LEMMA TrueRangeType ==
  ASSUME NEW candles \in Seq(ValidCandles)
  PROVE  /\ TrueRange(candles) \in Seq(Int) /\ Len(TrueRange(candles)) = Len(candles)
         /\ DOMAIN TrueRange(candles) = 1..Len(candles)
         /\ \A i \in 1..Len(candles) : TrueRange(candles)[i] \in Nat
<1>1. Len(candles) \in Nat /\ DOMAIN candles = 1..Len(candles)  OBVIOUS
<1>2. \A i \in 1..Len(candles) : TrueRange(candles)[i] \in Nat  BY TrueRangeIs
<1>3. DOMAIN TrueRange(candles) = 1..Len(candles)  BY <1>1 DEF TrueRange
<1>4. TrueRange(candles) = [i \in 1..Len(candles) |-> TrueRange(candles)[i]]
  BY <1>1 DEF TrueRange
<1>5. TrueRange(candles) \in [1..Len(candles) -> Int]
  <2> DEFINE f == TrueRange(candles)
  <2> HIDE DEF f
  <2>1. f = [i \in 1..Len(candles) |-> f[i]] /\ \A i \in 1..Len(candles) : f[i] \in Int
    BY <1>2, <1>4 DEF f
  <2>2. f \in [1..Len(candles) -> Int]  BY <2>1
  <2> QED BY <2>2 DEF f
<1>6. TrueRange(candles) \in Seq(Int) /\ Len(TrueRange(candles)) = Len(candles)
  BY <1>1, <1>5, FunctionIsSequence
<1> QED BY <1>2, <1>3, <1>6

\* Every value lies between the extremes.
LEMMA WithinExtremes ==
  ASSUME NEW s, NEW n \in Nat \ {0}, \A i \in 1..n : s[i] \in Int
  PROVE  LET S == {s[i] : i \in 1..n} IN
         /\ Lowest(S) \in Int /\ Highest(S) \in Int
         /\ \A i \in 1..n : Lowest(S) <= s[i] /\ s[i] <= Highest(S)
<1> DEFINE S == {s[i] : i \in 1..n}
<1>1. 1 \in Int /\ n \in Int /\ 1 <= n /\ S \in SUBSET Int  OBVIOUS
<1>2. PICK a \in 1..n : \A i \in 1..n : s[i] <= s[a]  BY <1>1, Peak
<1>3. PICK b \in 1..n : \A i \in 1..n : s[b] <= s[i]  BY <1>1, Trough
<1>4. s[a] \in S /\ s[b] \in S /\ \A y \in S : s[b] <= y /\ y <= s[a]  BY <1>2, <1>3
<1>5. Highest(S) = s[a] /\ Lowest(S) = s[b]
  <2> HIDE DEF S
  <2> QED BY <1>1, <1>4, HighestIs, LowestIs
<1> QED BY <1>2, <1>3, <1>5

\* The kinds of indicators.
LEMMA Kinds ==
  ASSUME NEW key, ValidKey(key)
  PROVE  \/ key.code = "true_range"
         \/ key.code = "ema_close" /\ key.period \in Nat \ {0}
         \/ key.code = "wilder_atr" /\ key.period \in Nat \ {0}
         \/ key.code \in PriorCodes /\ key.period \in Nat \ {0}
         \/ key.code \in {"rolling_highest", "rolling_lowest"} /\ key.period \in Nat \ {0}
<1>0. MaxPeriod \in Nat  BY SMT DEF MaxPeriod
<1>1. 1..MaxPeriod \subseteq Nat \ {0}  BY <1>0
<1> QED BY <1>1 DEF ValidKey, PeriodCodes, WindowCodes, AverageCodes

\* Which calculator a code stands for.
LEMMA ValuesOf ==
  ASSUME NEW key, NEW candles
  PROVE  LET extremes == IF key.code \in HighCodes THEN Highs(candles) ELSE Lows(candles) IN
         /\ key.code = "true_range" => Values(key, candles) = TrueRange(candles)
         /\ key.code = "ema_close" =>
              Values(key, candles) = Smoothed(Closes(candles), key.period, key.period - 1, 2)
         /\ key.code = "wilder_atr" =>
              Values(key, candles) = Smoothed(TrueRange(candles), key.period, key.period - 1, 1)
         /\ key.code \in PriorCodes =>
              Values(key, candles) = PriorExtrema(extremes, key.period, key.code \in HighCodes)
         /\ key.code \in {"rolling_highest", "rolling_lowest"} =>
              Values(key, candles) = RollingExtrema(extremes, key.period, key.code \in HighCodes)
<1> DEFINE w == key.code \in HighCodes
           extremes == IF w THEN Highs(candles) ELSE Lows(candles)
<1> USE DEF Values, EmaClose, WilderAtr, PriorCodes
<1>1. key.code = "true_range" => Values(key, candles) = TrueRange(candles)  OBVIOUS
<1>2. key.code = "ema_close" =>
        Values(key, candles) = Smoothed(Closes(candles), key.period, key.period - 1, 2)  OBVIOUS
<1>3. key.code = "wilder_atr" =>
        Values(key, candles) = Smoothed(TrueRange(candles), key.period, key.period - 1, 1)
  OBVIOUS
<1>4. key.code \in PriorCodes => Values(key, candles) = PriorExtrema(extremes, key.period, w)
  <2> SUFFICES ASSUME key.code \in PriorCodes
               PROVE  Values(key, candles) = PriorExtrema(extremes, key.period, w)  OBVIOUS
  <2>1. key.code # "true_range" /\ key.code # "ema_close" /\ key.code # "wilder_atr"  OBVIOUS
  <2> QED BY <2>1
<1>5. key.code \in {"rolling_highest", "rolling_lowest"} =>
        Values(key, candles) = RollingExtrema(extremes, key.period, w)
  <2> SUFFICES ASSUME key.code \in {"rolling_highest", "rolling_lowest"}
               PROVE  Values(key, candles) = RollingExtrema(extremes, key.period, w)  OBVIOUS
  <2>1. /\ key.code # "true_range" /\ key.code # "ema_close" /\ key.code # "wilder_atr"
        /\ key.code \notin PriorCodes
    OBVIOUS
  <2> QED BY <2>1
<1> QED BY <1>1, <1>2, <1>3, <1>4, <1>5

\* The extremes of a column are those of the candles' field.
LEMMA ColumnExtremes ==
  ASSUME NEW candles \in Seq(ValidCandles),
         NEW from \in Nat \ {0}, NEW to \in Nat, to <= Len(candles), NEW w
  PROVE  Extreme(IF w THEN Highs(candles) ELSE Lows(candles), from, to, w) =
           IF w THEN Highest({candles[i].high : i \in from..to})
           ELSE Lowest({candles[i].low : i \in from..to})
<1>1. \A i \in from..to : i \in 1..Len(candles)  OBVIOUS
<1>2. CASE w
  <2>1. \A i \in from..to : Highs(candles)[i] = candles[i].high  BY <1>1, Columns
  <2>2. {Highs(candles)[j] : j \in from..to} = {candles[i].high : i \in from..to}  BY <2>1
  <2> QED BY <1>2, <2>2 DEF Extreme
<1>3. CASE ~w
  <2>1. \A i \in from..to : Lows(candles)[i] = candles[i].low  BY <1>1, Columns
  <2>2. {Lows(candles)[j] : j \in from..to} = {candles[i].low : i \in from..to}  BY <2>1
  <2> QED BY <1>3, <2>2 DEF Extreme
<1> QED BY <1>2, <1>3

\* A value that is not None is an integer or a fraction.
NotAFunction(v) == v # [x \in DOMAIN v |-> v[x]]

\* A fraction is not the undefined value.
LEMMA FractionsAreDefined ==
  ASSUME NotAFunction(None)
  PROVE  None \notin Fractions
BY DEF NotAFunction, Fractions

\* What a series says of its candles, and the shape the code requires of it.
Sound(key, candles, v) ==
  /\ DOMAIN v = 1..Len(candles)
  /\ WellShaped(key, v)
  /\ \A n \in 1..Len(candles) : Says(key, candles, n, v[n])

\* True range says what its definition says.
LEMMA TrueRangeSound ==
  ASSUME NEW candles \in Seq(ValidCandles), NEW key, key.code = "true_range"
  PROVE  Sound(key, candles, TrueRange(candles))
<1> DEFINE v == TrueRange(candles)
<1>1. DOMAIN v = 1..Len(candles) /\ \A i \in 1..Len(candles) : v[i] \in Nat  BY TrueRangeType
<1>2. \A i \in 1..Len(candles) : v[i] = RangeAt(candles, i)  BY TrueRangeIs
<1>3. \A n \in 1..Len(candles) : Says(key, candles, n, v[n])
  <2> HIDE DEF v
  <2> QED BY <1>2 DEF Says, RangeAt
<1> HIDE DEF v
<1>4. \A i \in 1..Len(candles) : v[i] # None /\ v[i] >= 0 /\ i > 0  BY <1>1, NoneAssumption
<1>5. WellShaped(key, v)
  BY <1>1, <1>4 DEF WellShaped, Defined, UndefinedPrefix
<1>6. Sound(key, candles, v)  BY <1>1, <1>3, <1>5 DEF Sound
<1> QED BY <1>6 DEF v

\* A prior extreme says what its definition says.
LEMMA PriorSound ==
  ASSUME NEW candles \in Seq(ValidCandles),
         NEW key, key.code \in PriorCodes, key.period \in Nat \ {0}
  PROVE  Sound(key, candles, Values(key, candles))
<1> DEFINE w == key.code \in HighCodes
           s == IF w THEN Highs(candles) ELSE Lows(candles)
           v == PriorExtrema(s, key.period, w)
           p == key.period
<1>1. s \in Seq(Int) /\ Len(s) = Len(candles) /\ Len(candles) \in Nat  BY Columns
<1>2. Values(key, candles) = v  BY ValuesOf
<1>3. /\ DOMAIN v = 1..Len(candles)
      /\ \A i \in 1..Len(candles) :
           /\ i <= p => v[i] = None
           /\ i > p => v[i] = Extreme(s, i - p, i - 1, w) /\ v[i] \in Int
  <2> HIDE DEF s, w
  <2> QED BY <1>1, PriorMeans
<1> HIDE DEF v
<1>4. ASSUME NEW n \in 1..Len(candles)
      PROVE  Says(key, candles, n, v[n])
  <2>1. n \in Nat /\ key.code # "true_range" /\ p \in Nat  BY <1>1 DEF PriorCodes
  <2>2. CASE n <= p
    <3>1. n - p < 1 /\ v[n] = None  BY <2>1, <2>2, <1>3
    <3> QED BY <2>1, <3>1 DEF Says
  <2>3. CASE n > p
    <3>1. /\ n - p \in Nat \ {0} /\ n - 1 \in Nat /\ n - 1 <= Len(candles) /\ ~(n - p < 1)
          /\ v[n] = Extreme(s, n - p, n - 1, w)
      BY <2>1, <2>3, <1>1, <1>3
    <3>2. v[n] = IF w THEN Highest({candles[i].high : i \in (n - p)..(n - 1)})
                 ELSE Lowest({candles[i].low : i \in (n - p)..(n - 1)})
      <4> HIDE DEF w, p
      <4> QED BY <3>1, ColumnExtremes DEF s
    <3>3. key.code \in WindowCodes  BY DEF WindowCodes
    <3> DEFINE from == IF key.code \in PriorCodes THEN n - key.period ELSE n - key.period + 1
               to == IF key.code \in PriorCodes THEN n - 1 ELSE n
    <3>6. from = n - p /\ to = n - 1  OBVIOUS
    <3>7. key.code # "ema_close"  BY DEF PriorCodes
    <3>4. CASE w
      <4>1. key.code \notin WindowCodes \ HighCodes  BY <3>4
      <4>2. v[n] = Highest({candles[i].high : i \in from..to})  BY <3>2, <3>4, <3>6
      <4> HIDE DEF from, to
      <4>3. ~(from < 1)  BY <3>1, <3>6
      <4> QED BY <2>1, <3>4, <3>7, <4>1, <4>2, <4>3 DEF Says, from, to
    <3>5. CASE ~w
      <4>1. key.code \in WindowCodes \ HighCodes /\ key.code \notin HighCodes  BY <3>3, <3>5
      <4>2. v[n] = Lowest({candles[i].low : i \in from..to})  BY <3>2, <3>5, <3>6
      <4> HIDE DEF from, to
      <4>3. ~(from < 1)  BY <3>1, <3>6
      <4> QED BY <2>1, <3>7, <4>1, <4>2, <4>3 DEF Says, from, to
    <3> QED BY <3>4, <3>5
  <2> QED BY <2>1, <2>2, <2>3
<1>5. \A i \in 1..Len(candles) : v[i] # None <=> i > p  BY <1>1, <1>3, NoneAssumption
<1>6. WellShaped(key, v)
  <2>1. key.code # "true_range" /\ key.code # "wilder_atr" /\ UndefinedPrefix(key) = p
    BY DEF UndefinedPrefix, PriorCodes
  <2> HIDE DEF p
  <2> QED BY <1>3, <1>5, <2>1 DEF WellShaped, Defined
<1>7. Sound(key, candles, v)  BY <1>3, <1>4, <1>6 DEF Sound
<1> QED BY <1>2, <1>7

\* A rolling extreme says what its definition says.
LEMMA RollingSound ==
  ASSUME NEW candles \in Seq(ValidCandles),
         NEW key, key.code \in {"rolling_highest", "rolling_lowest"}, key.period \in Nat \ {0}
  PROVE  Sound(key, candles, Values(key, candles))
<1> DEFINE w == key.code \in HighCodes
           s == IF w THEN Highs(candles) ELSE Lows(candles)
           v == RollingExtrema(s, key.period, w)
           p == key.period
<1>1. s \in Seq(Int) /\ Len(s) = Len(candles) /\ Len(candles) \in Nat  BY Columns
<1>2. Values(key, candles) = v  BY ValuesOf
<1>3. /\ DOMAIN v = 1..Len(candles)
      /\ \A i \in 1..Len(candles) :
           /\ i < p => v[i] = None
           /\ i >= p => v[i] = Extreme(s, i - p + 1, i, w) /\ v[i] \in Int
  <2> HIDE DEF s, w
  <2> QED BY <1>1, RollingMeans
<1> HIDE DEF v
<1>8. key.code \notin PriorCodes  BY DEF PriorCodes
<1>4. ASSUME NEW n \in 1..Len(candles)
      PROVE  Says(key, candles, n, v[n])
  <2>1. n \in Nat /\ key.code # "true_range" /\ p \in Nat  BY <1>1
  <2> DEFINE from == IF key.code \in PriorCodes THEN n - key.period ELSE n - key.period + 1
             to == IF key.code \in PriorCodes THEN n - 1 ELSE n
  <2>4. from = n - p + 1 /\ to = n  BY <1>8
  <2>2. CASE n < p
    <3>1. n - p + 1 < 1 /\ v[n] = None  BY <2>1, <2>2, <1>3
    <3> HIDE DEF to
    <3> QED BY <2>1, <2>4, <3>1 DEF Says
  <2>3. CASE n >= p
    <3>1. /\ n - p + 1 \in Nat \ {0} /\ n <= Len(candles) /\ ~(n - p + 1 < 1)
          /\ v[n] = Extreme(s, n - p + 1, n, w)
      BY <2>1, <2>3, <1>1, <1>3
    <3>2. v[n] = IF w THEN Highest({candles[i].high : i \in (n - p + 1)..n})
                 ELSE Lowest({candles[i].low : i \in (n - p + 1)..n})
      <4> HIDE DEF w, p
      <4> QED BY <2>1, <3>1, ColumnExtremes DEF s
    <3>3. key.code \in WindowCodes  BY DEF WindowCodes
    <3>7. key.code # "ema_close"  OBVIOUS
    <3>4. CASE w
      <4>1. key.code \notin WindowCodes \ HighCodes  BY <3>4
      <4>2. v[n] = Highest({candles[i].high : i \in from..to})  BY <3>2, <3>4, <2>4
      <4> HIDE DEF from, to
      <4>3. ~(from < 1)  BY <3>1, <2>4
      <4> QED BY <2>1, <3>4, <3>7, <4>1, <4>2, <4>3 DEF Says, from, to
    <3>5. CASE ~w
      <4>1. key.code \in WindowCodes \ HighCodes /\ key.code \notin HighCodes  BY <3>3, <3>5
      <4>2. v[n] = Lowest({candles[i].low : i \in from..to})  BY <3>2, <3>5, <2>4
      <4> HIDE DEF from, to
      <4>3. ~(from < 1)  BY <3>1, <2>4
      <4> QED BY <2>1, <3>7, <4>1, <4>2, <4>3 DEF Says, from, to
    <3> QED BY <3>4, <3>5
  <2> QED BY <2>1, <2>2, <2>3
<1>5. \A i \in 1..Len(candles) : v[i] # None <=> i > p - 1  BY <1>1, <1>3, NoneAssumption
<1>6. WellShaped(key, v)
  <2>1. key.code # "true_range" /\ key.code # "wilder_atr" /\ UndefinedPrefix(key) = p - 1
    BY <1>8 DEF UndefinedPrefix
  <2> HIDE DEF p
  <2> QED BY <1>3, <1>5, <2>1 DEF WellShaped, Defined
<1>7. Sound(key, candles, v)  BY <1>3, <1>4, <1>6 DEF Sound
<1> QED BY <1>2, <1>7

\* An average of s lies within what it averages.
AverageSays(s, period, v) ==
  /\ DOMAIN v = 1..Len(s)
  /\ \A i \in 1..Len(s) :
       /\ i < period => v[i] = None
       /\ i >= period =>
            /\ v[i] \in Fractions
            /\ Between(Lowest({s[j] : j \in 1..i}), v[i], Highest({s[j] : j \in 1..i}))

\* An average lies within what it averages, once it is warm.
LEMMA SmoothedSays ==
  ASSUME NEW s \in Seq(Int), NEW period \in Nat \ {0}, NEW gain \in Nat \ {0}
  PROVE  AverageSays(s, period, Smoothed(s, period, period - 1, gain))
<1> DEFINE v == Smoothed(s, period, period - 1, gain)
<1>1. /\ DOMAIN v = 1..Len(s)
      /\ \A i \in 1..Len(s) :
           /\ i < period => v[i] = None
           /\ i >= period =>
                /\ v[i] \in Fractions
                /\ \A lo, hi \in Int :
                     (\A j \in 1..i : lo <= s[j] /\ s[j] <= hi) => Between(lo, v[i], hi)
  BY SmoothedMeans
<1> HIDE DEF v
<1>2. ASSUME NEW i \in 1..Len(s), i >= period
      PROVE  Between(Lowest({s[j] : j \in 1..i}), v[i], Highest({s[j] : j \in 1..i}))
  <2>1. i \in Nat \ {0} /\ \A j \in 1..i : s[j] \in Int  OBVIOUS
  <2> DEFINE S == {s[j] : j \in 1..i}
  <2>2. /\ Lowest(S) \in Int /\ Highest(S) \in Int
        /\ \A j \in 1..i : Lowest(S) <= s[j] /\ s[j] <= Highest(S)
    BY <2>1, WithinExtremes
  <2> HIDE DEF S
  <2>3. Between(Lowest(S), v[i], Highest(S))  BY <1>1, <1>2, <2>2
  <2> QED BY <2>3 DEF S
<1>3. AverageSays(s, period, v)  BY <1>1, <1>2 DEF AverageSays
<1> QED BY <1>3 DEF v

\* An average is undefined before it is warm, and only then.
LEMMA AverageShape ==
  ASSUME NotAFunction(None),
         NEW key, key.code \in AverageCodes, key.period \in Nat \ {0},
         NEW s \in Seq(Int), NEW v, AverageSays(s, key.period, v),
         key.code = "wilder_atr" => \A j \in 1..Len(s) : s[j] >= 0
  PROVE  WellShaped(key, v)
<1>1. UndefinedPrefix(key) = key.period - 1 /\ key.code # "true_range"
  BY DEF UndefinedPrefix, PriorCodes, AverageCodes
<1>2. \A i \in 1..Len(s) : v[i] # None <=> i > key.period - 1
  <2> SUFFICES ASSUME NEW i \in 1..Len(s) PROVE v[i] # None <=> i > key.period - 1
    OBVIOUS
  <2>1. i \in Int /\ key.period \in Int  OBVIOUS
  <2>2. /\ i < key.period => v[i] = None
        /\ i >= key.period => v[i] \in Fractions
    BY DEF AverageSays
  <2>3. None \notin Fractions  BY FractionsAreDefined
  <2>4. i < key.period \/ i >= key.period  BY <2>1
  <2>5. i > key.period - 1 <=> i >= key.period  BY <2>1
  <2>6. i < key.period => ~(i >= key.period)  BY <2>1
  <2> QED BY <2>2, <2>3, <2>4, <2>5, <2>6
<1>3. Defined(v) = {i \in DOMAIN v : i > UndefinedPrefix(key)}
  BY <1>1, <1>2 DEF AverageSays, Defined
<1>4. ASSUME key.code = "wilder_atr", NEW i \in Defined(v) PROVE v[i].num >= 0
  <2>1. i \in 1..Len(s) /\ i >= key.period /\ i \in Nat \ {0}
    BY <1>1, <1>3 DEF AverageSays, Defined
  <2> DEFINE S == {s[j] : j \in 1..i}
  <2>2. \A j \in 1..i : s[j] \in Int /\ s[j] >= 0  BY <1>4, <2>1
  <2>3. Lowest(S) \in S
    <3>1. 1 \in Int /\ i \in Int /\ 1 <= i /\ S \in SUBSET Int /\ \A j \in 1..i : s[j] \in Int
      BY <2>1, <2>2
    <3>2. PICK b \in 1..i : \A j \in 1..i : s[b] <= s[j]  BY <3>1, Trough
    <3>3. s[b] \in S /\ \A y \in S : s[b] <= y  BY <3>2
    <3> HIDE DEF S
    <3> QED BY <3>1, <3>3, LowestIs
  <2>4. Lowest(S) \in Nat  BY <2>2, <2>3
  <2>5. v[i].num \in Int /\ v[i].den \in Nat \ {0} /\ Lowest(S) * v[i].den <= v[i].num
    BY <2>1 DEF AverageSays, Fractions, Between
  <2> HIDE DEF S
  <2>6. \A a, b \in Nat : a * b \in Nat  OBVIOUS
  <2> QED BY <2>4, <2>5, <2>6
<1> QED BY <1>1, <1>3, <1>4 DEF WellShaped

\* The exponential average says what its definition says.
LEMMA EmaSound ==
  ASSUME NotAFunction(None), NEW candles \in Seq(ValidCandles),
         NEW key, key.code = "ema_close", key.period \in Nat \ {0}
  PROVE  Sound(key, candles, Values(key, candles))
<1> DEFINE s == Closes(candles)
           v == Values(key, candles)
           p == key.period
<1>1. s \in Seq(Int) /\ Len(s) = Len(candles) /\ Len(candles) \in Nat  BY Columns
<1>2. v = Smoothed(s, p, p - 1, 2)  BY ValuesOf
<1>3. AverageSays(s, p, v)
  <2> HIDE DEF s, p, v
  <2>1. p \in Nat \ {0} /\ 2 \in Nat \ {0}  BY DEF p
  <2> QED BY <1>1, <1>2, <2>1, SmoothedSays
<1> HIDE DEF v
<1>4. WellShaped(key, v)
  <2>1. key.code \in AverageCodes /\ key.code # "wilder_atr"  BY DEF AverageCodes
  <2> HIDE DEF s
  <2> QED BY <1>1, <1>3, <2>1, AverageShape
<1>5. ASSUME NEW n \in 1..Len(candles) PROVE Says(key, candles, n, v[n])
  <2>1. /\ key.code # "true_range" /\ key.code \notin PriorCodes /\ key.code \notin HighCodes
        /\ key.code \notin WindowCodes
    BY DEF PriorCodes, HighCodes, WindowCodes
  <2>2. CASE n < p
    <3>2. n \in Int /\ p \in Int /\ n \in 1..Len(s)  BY <1>1
    <3>3. v[n] = None
      <4> HIDE DEF s, p
      <4> QED BY <1>3, <2>2, <3>2 DEF AverageSays
    <3>1. n - p + 1 < 1 /\ v[n] = None  BY <2>2, <3>2, <3>3
    <3> QED BY <2>1, <3>1 DEF Says
  <2>3. CASE n >= p
    <3>1. ~(n - p + 1 < 1)  BY <2>3
    <3>2. \A i \in 1..n : s[i] = candles[i].close  BY Columns
    <3>3. {s[j] : j \in 1..n} = {candles[i].close : i \in 1..n}
      <4> HIDE DEF s
      <4> QED BY <3>2
    <3>4. Between(Lowest({candles[i].close : i \in 1..n}), v[n],
                  Highest({candles[i].close : i \in 1..n}))
      <4> HIDE DEF s, p
      <4> QED BY <1>1, <1>3, <2>3, <3>3 DEF AverageSays
    <3> QED BY <2>1, <3>1, <3>4 DEF Says
  <2> QED BY <2>2, <2>3
<1>6. Sound(key, candles, v)  BY <1>1, <1>3, <1>4, <1>5 DEF Sound, AverageSays
<1> QED BY <1>6 DEF v

\* Wilder's average says what its definition says.
LEMMA WilderSound ==
  ASSUME NotAFunction(None), NEW candles \in Seq(ValidCandles),
         NEW key, key.code = "wilder_atr", key.period \in Nat \ {0}
  PROVE  Sound(key, candles, Values(key, candles))
<1> DEFINE s == TrueRange(candles)
           v == Values(key, candles)
           p == key.period
<1>1. /\ s \in Seq(Int) /\ Len(s) = Len(candles) /\ Len(candles) \in Nat
      /\ \A j \in 1..Len(candles) : s[j] \in Nat
  BY TrueRangeType
<1>2. v = Smoothed(s, p, p - 1, 1)  BY ValuesOf
<1>3. AverageSays(s, p, v)
  <2> HIDE DEF s, p, v
  <2>1. p \in Nat \ {0} /\ 1 \in Nat \ {0}  BY DEF p
  <2> QED BY <1>1, <1>2, <2>1, SmoothedSays
<1> HIDE DEF v
<1>4. WellShaped(key, v)
  <2>1. key.code \in AverageCodes  BY DEF AverageCodes
  <2>2. \A j \in 1..Len(s) : s[j] >= 0  BY <1>1
  <2> HIDE DEF s
  <2> QED BY <1>1, <1>3, <2>1, <2>2, AverageShape
<1>5. ASSUME NEW n \in 1..Len(candles) PROVE Says(key, candles, n, v[n])
  <2>1. /\ key.code # "true_range" /\ key.code \notin PriorCodes /\ key.code \notin HighCodes
        /\ key.code \notin WindowCodes /\ key.code # "ema_close"
    BY DEF PriorCodes, HighCodes, WindowCodes
  <2>2. CASE n < p
    <3>2. n \in Int /\ p \in Int /\ n \in 1..Len(s)  BY <1>1
    <3>3. v[n] = None
      <4> HIDE DEF s, p
      <4> QED BY <1>3, <2>2, <3>2 DEF AverageSays
    <3>1. n - p + 1 < 1 /\ v[n] = None  BY <2>2, <3>2, <3>3
    <3> QED BY <2>1, <3>1 DEF Says
  <2>3. CASE n >= p
    <3>1. ~(n - p + 1 < 1)  BY <2>3
    <3>2. \A i \in 1..n : s[i] = RangeAt(candles, i)  BY TrueRangeIs
    <3>3. {s[j] : j \in 1..n} = {RangeAt(candles, i) : i \in 1..n}
      <4> HIDE DEF s
      <4> QED BY <3>2
    <3>4. Between(Lowest({RangeAt(candles, i) : i \in 1..n}), v[n],
                  Highest({RangeAt(candles, i) : i \in 1..n}))
      <4> HIDE DEF s, p
      <4> QED BY <1>1, <1>3, <2>3, <3>3 DEF AverageSays
    <3> QED BY <2>1, <3>1, <3>4 DEF Says, RangeAt
  <2> QED BY <2>2, <2>3
<1>6. Sound(key, candles, v)  BY <1>1, <1>3, <1>4, <1>5 DEF Sound, AverageSays
<1> QED BY <1>6 DEF v

\* A warm average is one step from the value before it.
LEMMA SmoothedSteps ==
  ASSUME NEW s \in Seq(Int), NEW period \in Nat \ {0}, NEW gain \in Nat \ {0},
         NEW n \in 1..Len(s), n >= period, NEW previous,
         n > 1 => previous = Smoothed(s, period, period - 1, gain)[n - 1]
  PROVE  Steps(Smoothed(s, period, period - 1, gain)[n], previous, s, n, period, gain)
<1> DEFINE average == Smoothed(s, period, period - 1, gain)
           keep == period - 1
<1>1. /\ Len(s) \in Nat /\ DOMAIN s = 1..Len(s) /\ \A j \in 1..Len(s) : s[j] \in Int
      /\ n \in Nat \ {0} /\ period \in 1..Len(s) /\ keep \in Nat
  OBVIOUS
<1>2. CASE period = 1
  <2>1. \A i \in 1..Len(s) : average[i] = Fraction(s[i], 1)  BY <1>1, <1>2 DEF Smoothed
  <2>2. average[n].num = s[n] /\ average[n].den = 1 /\ s[n] \in Int
    <3> HIDE DEF average
    <3>1. average[n] = Fraction(s[n], 1) /\ s[n] \in Int  BY <1>1, <2>1
    <3>2. Fraction(s[n], 1).num = s[n] /\ Fraction(s[n], 1).den = 1  BY DEF Fraction
    <3> QED BY <3>1, <3>2
  <2>3. CASE n = 1
    <3>1. Sum(s, 1) = s[1]
      <4>1. 0 \in Nat /\ \A k \in 1..(0 + 1) : s[k] \in Int  BY <1>1
      <4>2. Sum(s, 0) = 0 /\ Sum(s, 0 + 1) = Sum(s, 0) + s[0 + 1]
        <5> HIDE DEF average, keep
        <5> QED BY <4>1, SumSteps
      <4> HIDE DEF average, keep
      <4> QED BY <1>1, <4>2
    <3> HIDE DEF average
    <3>2. Steps(average[n], previous, s, n, period, gain)
      BY <1>1, <1>2, <2>2, <2>3, <3>1 DEF Steps
    <3> QED BY <3>2 DEF average
  <2>4. CASE n # 1
    <3>1. n - 1 \in 1..Len(s) /\ n > 1  BY <1>1, <2>4
    <3>2. previous.num = s[n - 1] /\ previous.den = 1 /\ s[n - 1] \in Int
      <4>1. previous = average[n - 1]  BY <3>1
      <4> HIDE DEF average
      <4>2. average[n - 1] = Fraction(s[n - 1], 1) /\ s[n - 1] \in Int  BY <1>1, <2>1, <3>1
      <4>3. Fraction(s[n - 1], 1).num = s[n - 1] /\ Fraction(s[n - 1], 1).den = 1
        BY DEF Fraction
      <4> QED BY <4>1, <4>2, <4>3
    <3> HIDE DEF average
    <3>3. Steps(average[n], previous, s, n, period, gain)
      BY <1>1, <1>2, <2>2, <2>4, <3>2 DEF Steps
    <3> QED BY <3>3 DEF average
  <2> QED BY <2>3, <2>4
<1>3. CASE period # 1
  <2>1. PICK a : Averages(a, s, period, keep, gain) /\ average = SmoothedValues(a, s, period)
    <3> HIDE DEF average
    <3> QED BY <1>1, AverageLoop DEF average
  <2>2. \A i \in 1..Len(s) : i >= period => average[i] = a[i] /\ a[i] \in Fractions
    <3> HIDE DEF average, keep
    <3>1. ASSUME NEW i \in 1..Len(s), i >= period PROVE average[i] = a[i]
      <4>1. i \in DOMAIN s /\ ~(i < period)  BY <1>1, <3>1
      <4> QED BY <1>3, <2>1, <4>1 DEF SmoothedValues
    <3>2. \A i \in 1..Len(s) : a[i] \in Fractions  BY <2>1 DEF Averages
    <3> QED BY <3>1, <3>2
  <2>3. CASE n = period
    <3>1. average[n] = Fraction(Sum(s, period), period)
      <4> HIDE DEF average
      <4> QED BY <1>1, <2>1, <2>2, <2>3 DEF Averages
    <3> HIDE DEF average
    <3>2. Steps(average[n], previous, s, n, period, gain)  BY <2>3, <3>1 DEF Steps, Fraction
    <3> QED BY <3>2 DEF average
  <2>4. CASE n > period
    <3>1. n - 1 \in 1..Len(s) /\ n - 1 >= period /\ n > 1 /\ ~(n <= period)  BY <1>1, <2>4
    <3>2. previous = a[n - 1] /\ a[n - 1] \in Fractions
      <4> HIDE DEF average
      <4> QED BY <2>2, <3>1 DEF average
    <3>3. average[n] = Mixed(previous, s[n], keep, gain)
      <4> HIDE DEF average, keep
      <4> QED BY <1>1, <2>1, <2>2, <2>4, <3>1, <3>2 DEF Averages
    <3> HIDE DEF average
    <3>4. /\ average[n].num = keep * previous.num + gain * s[n] * previous.den
          /\ average[n].den = (keep + gain) * previous.den
      BY <3>3 DEF Mixed, Fraction
    <3>5. /\ keep * previous.num + gain * s[n] * previous.den \in Int
          /\ (keep + gain) * previous.den \in Int
      <4>1. previous.num \in Int /\ previous.den \in Nat  BY <3>2 DEF Fractions
      <4>2. keep \in Int /\ gain \in Int /\ s[n] \in Int  BY <1>1
      <4>3. \A x, y \in Int : x * y \in Int /\ x + y \in Int  OBVIOUS
      <4> HIDE DEF keep
      <4>4. /\ keep * previous.num \in Int /\ gain * s[n] \in Int
            /\ keep + gain \in Int
        BY <4>1, <4>2, <4>3
      <4>5. gain * s[n] * previous.den \in Int  BY <4>1, <4>3, <4>4
      <4> QED BY <4>1, <4>3, <4>4, <4>5
    <3>6. Steps(average[n], previous, s, n, period, gain)
      BY <1>1, <2>4, <3>4, <3>5 DEF Steps
    <3> QED BY <3>6 DEF average
  <2> QED BY <1>1, <2>3, <2>4
<1> QED BY <1>2, <1>3

\* The values of every calculator mean what its definition says, and have the
\* shape that a series requires.
LEMMA ValuesSound ==
  ASSUME NotAFunction(None), NEW candles \in Seq(ValidCandles), NEW key, ValidKey(key)
  PROVE  Sound(key, candles, Values(key, candles))
<1>1. CASE key.code = "true_range"
  <2>1. Values(key, candles) = TrueRange(candles)  BY <1>1, ValuesOf
  <2> QED BY <1>1, <2>1, TrueRangeSound
<1>2. CASE key.code = "ema_close" /\ key.period \in Nat \ {0}  BY <1>2, EmaSound
<1>3. CASE key.code = "wilder_atr" /\ key.period \in Nat \ {0}  BY <1>3, WilderSound
<1>4. CASE key.code \in PriorCodes /\ key.period \in Nat \ {0}  BY <1>4, PriorSound
<1>5. CASE key.code \in {"rolling_highest", "rolling_lowest"} /\ key.period \in Nat \ {0}
  BY <1>5, RollingSound
<1> QED BY <1>1, <1>2, <1>3, <1>4, <1>5, Kinds

\* Two candle series with the same first n candles.
SameCandlesUntil(c, d, n) ==
  /\ c \in Seq(ValidCandles) /\ d \in Seq(ValidCandles) /\ Len(d) = Len(c)
  /\ n \in 0..Len(c) /\ \A j \in 1..n : d[j] = c[j]

\* The first so many of every column depend on the first so many candles.
LEMMA ColumnsAgree ==
  ASSUME NEW c, NEW d, NEW n, SameCandlesUntil(c, d, n), n > 0
  PROVE  /\ SameUntil(Highs(c), Highs(d), n) /\ SameUntil(Lows(c), Lows(d), n)
         /\ SameUntil(Closes(c), Closes(d), n) /\ SameUntil(TrueRange(c), TrueRange(d), n)
<1>1. c \in Seq(ValidCandles) /\ d \in Seq(ValidCandles) /\ Len(d) = Len(c)
      /\ n \in 1..Len(c) /\ \A j \in 1..n : d[j] = c[j]
  BY DEF SameCandlesUntil
<1>2. ASSUME NEW j \in 1..n
      PROVE  /\ Highs(d)[j] = Highs(c)[j] /\ Lows(d)[j] = Lows(c)[j]
             /\ Closes(d)[j] = Closes(c)[j] /\ TrueRange(d)[j] = TrueRange(c)[j]
  <2>1. j \in 1..Len(c) /\ j \in 1..Len(d) /\ d[j] = c[j]  BY <1>1
  <2>2. Highs(d)[j] = d[j].high /\ Lows(d)[j] = d[j].low /\ Closes(d)[j] = d[j].close
    BY <1>1, <2>1, Columns
  <2>3. Highs(c)[j] = c[j].high /\ Lows(c)[j] = c[j].low /\ Closes(c)[j] = c[j].close
    BY <1>1, <2>1, Columns
  <2>4. j # 1 => d[j - 1] = c[j - 1]  BY <1>1
  <2>5. RangeAt(d, j) = RangeAt(c, j)  BY <2>1, <2>4 DEF RangeAt
  <2>6. TrueRange(d)[j] = RangeAt(d, j) /\ TrueRange(c)[j] = RangeAt(c, j)
    BY <1>1, <2>1, TrueRangeIs
  <2> QED BY <2>1, <2>2, <2>3, <2>5, <2>6
<1>3. /\ Highs(c) \in Seq(Int) /\ Lows(c) \in Seq(Int) /\ Closes(c) \in Seq(Int)
      /\ Len(Highs(c)) = Len(c) /\ Len(Lows(c)) = Len(c) /\ Len(Closes(c)) = Len(c)
  BY <1>1, Columns
<1>4. /\ Highs(d) \in Seq(Int) /\ Lows(d) \in Seq(Int) /\ Closes(d) \in Seq(Int)
      /\ Len(Highs(d)) = Len(d) /\ Len(Lows(d)) = Len(d) /\ Len(Closes(d)) = Len(d)
  BY <1>1, Columns
<1>5. /\ TrueRange(c) \in Seq(Int) /\ TrueRange(d) \in Seq(Int)
      /\ Len(TrueRange(c)) = Len(c) /\ Len(TrueRange(d)) = Len(d)
  BY <1>1, TrueRangeType
<1> QED BY <1>1, <1>2, <1>3, <1>4, <1>5 DEF SameUntil

\* An extreme depends on the values of its window.
LEMMA ExtremesAgree ==
  ASSUME NEW s, NEW t, NEW from \in Nat \ {0}, NEW to \in Nat, NEW w,
         \A j \in 1..to : t[j] = s[j]
  PROVE  Extreme(t, from, to, w) = Extreme(s, from, to, w)
<1>1. \A j \in from..to : t[j] = s[j]  OBVIOUS
<1>2. {t[j] : j \in from..to} = {s[j] : j \in from..to}  BY <1>1
<1> QED BY <1>2 DEF Extreme

\* The first n values of a series depend on the first n candles.
LEMMA ValuesAgree ==
  ASSUME NEW c, NEW d, NEW n, SameCandlesUntil(c, d, n), NEW key, ValidKey(key)
  PROVE  \A i \in 1..n : Values(key, d)[i] = Values(key, c)[i]
<1>1. SUFFICES ASSUME NEW i \in 1..n PROVE Values(key, d)[i] = Values(key, c)[i]  OBVIOUS
<1>2. n > 0 /\ n \in Nat /\ i \in Nat \ {0} /\ i <= n /\ n <= Len(c) /\ Len(c) \in Nat
  BY <1>1 DEF SameCandlesUntil
<1> DEFINE w == key.code \in HighCodes
           s == IF w THEN Highs(c) ELSE Lows(c)
           t == IF w THEN Highs(d) ELSE Lows(d)
           p == key.period
<1>3. /\ SameUntil(Highs(c), Highs(d), n) /\ SameUntil(Lows(c), Lows(d), n)
      /\ SameUntil(Closes(c), Closes(d), n) /\ SameUntil(TrueRange(c), TrueRange(d), n)
  BY <1>2, ColumnsAgree
<1>4. SameUntil(s, t, n)  BY <1>3
<1>5. /\ s \in Seq(Int) /\ t \in Seq(Int) /\ Len(t) = Len(s) /\ n \in 1..Len(s)
      /\ \A j \in 1..n : t[j] = s[j]
  <2> HIDE DEF s, t
  <2> QED BY <1>4 DEF SameUntil
<1>6. CASE key.code = "true_range"
  BY <1>3, <1>6, ValuesOf DEF SameUntil
<1>7. CASE key.code = "ema_close" /\ p \in Nat \ {0}
  <2>1. /\ Values(key, c) = Smoothed(Closes(c), p, p - 1, 2)
        /\ Values(key, d) = Smoothed(Closes(d), p, p - 1, 2)
    BY <1>7, ValuesOf
  <2>2. 2 \in Nat \ {0}  OBVIOUS
  <2>3. \A k \in 1..n : Smoothed(Closes(d), p, p - 1, 2)[k] = Smoothed(Closes(c), p, p - 1, 2)[k]
    BY <1>3, <1>7, <2>2, SmoothedAgrees
  <2> QED BY <2>1, <2>3
<1>8. CASE key.code = "wilder_atr" /\ p \in Nat \ {0}
  <2>1. /\ Values(key, c) = Smoothed(TrueRange(c), p, p - 1, 1)
        /\ Values(key, d) = Smoothed(TrueRange(d), p, p - 1, 1)
    BY <1>8, ValuesOf
  <2>2. 1 \in Nat \ {0}  OBVIOUS
  <2>3. \A k \in 1..n :
          Smoothed(TrueRange(d), p, p - 1, 1)[k] = Smoothed(TrueRange(c), p, p - 1, 1)[k]
    BY <1>3, <1>8, <2>2, SmoothedAgrees
  <2> QED BY <2>1, <2>3
<1>9. CASE key.code \in PriorCodes /\ p \in Nat \ {0}
  <2>1. Values(key, c) = PriorExtrema(s, p, w) /\ Values(key, d) = PriorExtrema(t, p, w)
    BY <1>9, ValuesOf
  <2> HIDE DEF s, t, w, p
  <2>2. i \in 1..Len(s) /\ i \in 1..Len(t) /\ i \in Int /\ p \in Int  BY <1>2, <1>5, <1>9
  <2>3. /\ i <= p => PriorExtrema(s, p, w)[i] = None
        /\ i > p => PriorExtrema(s, p, w)[i] = Extreme(s, i - p, i - 1, w)
    BY <1>5, <1>9, <2>2, PriorMeans
  <2>4. /\ i <= p => PriorExtrema(t, p, w)[i] = None
        /\ i > p => PriorExtrema(t, p, w)[i] = Extreme(t, i - p, i - 1, w)
    BY <1>5, <1>9, <2>2, PriorMeans
  <2>5. i > p => Extreme(t, i - p, i - 1, w) = Extreme(s, i - p, i - 1, w)
    <3> SUFFICES ASSUME i > p PROVE Extreme(t, i - p, i - 1, w) = Extreme(s, i - p, i - 1, w)
      OBVIOUS
    <3>1. i - p \in Nat \ {0} /\ i - 1 \in Nat /\ \A j \in 1..(i - 1) : j \in 1..n
      BY <1>2, <1>9
    <3>2. \A j \in 1..(i - 1) : t[j] = s[j]  BY <1>5, <3>1
    <3> QED BY <3>1, <3>2, ExtremesAgree
  <2>6. i <= p \/ i > p  BY <2>2
  <2> QED BY <2>1, <2>3, <2>4, <2>5, <2>6
<1>10. CASE key.code \in {"rolling_highest", "rolling_lowest"} /\ p \in Nat \ {0}
  <2>1. Values(key, c) = RollingExtrema(s, p, w) /\ Values(key, d) = RollingExtrema(t, p, w)
    BY <1>10, ValuesOf
  <2> HIDE DEF s, t, w, p
  <2>2. i \in 1..Len(s) /\ i \in 1..Len(t) /\ i \in Int /\ p \in Int  BY <1>2, <1>5, <1>10
  <2>3. /\ i < p => RollingExtrema(s, p, w)[i] = None
        /\ i >= p => RollingExtrema(s, p, w)[i] = Extreme(s, i - p + 1, i, w)
    BY <1>5, <1>10, <2>2, RollingMeans
  <2>4. /\ i < p => RollingExtrema(t, p, w)[i] = None
        /\ i >= p => RollingExtrema(t, p, w)[i] = Extreme(t, i - p + 1, i, w)
    BY <1>5, <1>10, <2>2, RollingMeans
  <2>5. i >= p => Extreme(t, i - p + 1, i, w) = Extreme(s, i - p + 1, i, w)
    <3> SUFFICES ASSUME i >= p
                 PROVE  Extreme(t, i - p + 1, i, w) = Extreme(s, i - p + 1, i, w)
      OBVIOUS
    <3>1. i - p + 1 \in Nat \ {0} /\ i \in Nat /\ \A j \in 1..i : j \in 1..n  BY <1>2, <1>10
    <3>2. \A j \in 1..i : t[j] = s[j]  BY <1>5, <3>1
    <3> QED BY <3>1, <3>2, ExtremesAgree
  <2>6. i < p \/ i >= p  BY <2>2
  <2> QED BY <2>1, <2>3, <2>4, <2>5, <2>6
<1> QED BY <1>6, <1>7, <1>8, <1>9, <1>10, Kinds

-----------------------------------------------------------------------------
(* Candle series in time.                                                   *)

\* One more of a multiple.
LEMMA OneMore == ASSUME NEW a \in Int, NEW d \in Int PROVE (a + 1) * d = a * d + d /\ a * d \in Int
OBVIOUS

\* A strictly larger multiple, and back.
LEMMA MultiplesOrder ==
  ASSUME NEW a \in Int, NEW b \in Int, NEW d \in Nat \ {0}
  PROVE  a <= b <=> a * d <= b * d
<1>1. d \in Nat /\ a * d = d * a /\ b * d = d * b  OBVIOUS
<1>2. a <= b => a * d <= b * d
  <2> SUFFICES ASSUME a <= b PROVE a * d <= b * d  OBVIOUS
  <2>1. d * a <= d * b  BY <1>1, Scaled
  <2> QED BY <1>1, <2>1
<1>3. b < a => b * d < a * d
  <2> SUFFICES ASSUME b < a PROVE b * d < a * d  OBVIOUS
  <2>1. b + 1 \in Int /\ b + 1 <= a  OBVIOUS
  <2>2. d * (b + 1) <= d * a  BY <1>1, <2>1, Scaled
  <2>3. (b + 1) * d = b * d + d /\ (b + 1) * d = d * (b + 1)  BY OneMore
  <2>4. b * d \in Int /\ a * d \in Int  OBVIOUS
  <2> QED BY <1>1, <2>2, <2>3, <2>4
<1>4. a * d \in Int /\ b * d \in Int  OBVIOUS
<1> QED BY <1>2, <1>3, <1>4

\* When the candles of a canonical series open and close.
LEMMA CanonicalTimes ==
  ASSUME NEW s \in Seq(ValidCandles), NEW d \in Nat \ {0}, Canonical(s, d)
  PROVE  /\ Len(s) \in Nat \ {0} /\ s[1].open_time \in Int
         /\ \A i \in 1..Len(s) :
              /\ s[i].open_time = s[1].open_time + (i - 1) * d
              /\ s[i].close_time = s[1].open_time + i * d - 1
<1> DEFINE N == Len(s)
           At(i) == s[i].open_time = s[1].open_time + (i - 1) * d
           K == {k \in 0..N : k = 0 \/ At(k)}
<1>1. N \in Nat \ {0} /\ DOMAIN s = 1..N  BY DEF Canonical
<1>2. \A i \in 1..N : s[i].open_time \in Int  BY <1>1 DEF ValidCandles
<1>3. 0 \in K  BY <1>1
<1>4. ASSUME NEW k \in 1..N, k - 1 \in K PROVE k \in K
  <2>1. CASE k = 1
    <3>1. (1 - 1) * d = 0 /\ s[1].open_time \in Int  BY <1>1, <1>2
    <3> QED BY <1>1, <2>1, <3>1
  <2>2. CASE k # 1
    <3>1. k - 1 \in 1..(N - 1) /\ (k - 1) + 1 = k /\ k - 1 # 0  BY <2>2
    <3>2. s[k].open_time = s[k - 1].open_time + d  BY <3>1 DEF Canonical
    <3>3. s[k - 1].open_time = s[1].open_time + ((k - 1) - 1) * d  BY <1>4, <3>1
    <3>4. k - 2 \in Int /\ d \in Int /\ (k - 2) + 1 = k - 1 /\ (k - 1) - 1 = k - 2  OBVIOUS
    <3>5. (k - 1) * d = (k - 2) * d + d /\ (k - 2) * d \in Int  BY <3>4, OneMore
    <3>6. s[1].open_time \in Int  BY <1>1, <1>2
    <3>7. At(k)  BY <3>2, <3>3, <3>4, <3>5, <3>6
    <3> QED BY <1>1, <3>7
  <2> QED BY <2>1, <2>2
<1>5. 0..N \subseteq K
  <2> HIDE DEF K, N
  <2> QED BY <1>1, <1>3, <1>4, Rounds
<1>6. ASSUME NEW i \in 1..N PROVE At(i)
  <2>1. i \in K /\ i # 0
    <3> HIDE DEF K
    <3> QED BY <1>1, <1>5
  <2> QED BY <2>1
<1>7. ASSUME NEW i \in 1..N PROVE s[i].close_time = s[1].open_time + i * d - 1
  <2>1. s[i].close_time = s[i].open_time + d - 1  BY <1>1 DEF Canonical, ExpectedClose
  <2>2. i - 1 \in Int /\ d \in Int /\ (i - 1) + 1 = i  OBVIOUS
  <2>3. i * d = (i - 1) * d + d /\ (i - 1) * d \in Int  BY <2>2, OneMore
  <2>4. s[i].open_time = s[1].open_time + (i - 1) * d  BY <1>6
  <2>5. s[1].open_time \in Int  BY <1>1, <1>2
  <2>6. \A o, p, q, x, c \in Int : x = o + p /\ c = x + d - 1 /\ q = p + d => c = o + q - 1
    OBVIOUS
  <2>7. i * d \in Int /\ s[i].open_time \in Int /\ s[i].close_time \in Int
    BY <1>2, <2>1, <2>2
  <2> QED BY <2>1, <2>3, <2>4, <2>5, <2>6, <2>7
<1> QED BY <1>1, <1>2, <1>6, <1>7

\* The candles of a canonical series close in order.
LEMMA CanonicalInOrder ==
  ASSUME NEW s \in Seq(ValidCandles), NEW d \in Nat \ {0}, Canonical(s, d)
  PROVE  /\ InOrder(s)
         /\ \A i, j \in 1..Len(s) : s[i].close_time <= s[j].close_time <=> i <= j
<1>1. /\ Len(s) \in Nat \ {0} /\ s[1].open_time \in Int
      /\ \A i \in 1..Len(s) : s[i].close_time = s[1].open_time + i * d - 1
  BY CanonicalTimes
<1>2. ASSUME NEW i \in 1..Len(s), NEW j \in 1..Len(s)
      PROVE  /\ s[j].close_time \in Int
             /\ s[i].close_time <= s[j].close_time <=> i <= j
  <2>1. i \in Int /\ j \in Int /\ i * d \in Int /\ j * d \in Int  OBVIOUS
  <2>2. i <= j <=> i * d <= j * d  BY <2>1, MultiplesOrder
  <2>3. /\ s[i].close_time = s[1].open_time + i * d - 1
        /\ s[j].close_time = s[1].open_time + j * d - 1
    BY <1>1
  <2> QED BY <1>1, <2>1, <2>2, <2>3
<1>3. ASSUME NEW j \in 1..Len(s), NEW i \in 1..j PROVE i \in 1..Len(s) /\ i <= j
  BY <1>1
<1>4. \A j \in 1..Len(s) : \A i \in 1..j : s[i].close_time <= s[j].close_time
  BY <1>2, <1>3
<1> QED BY <1>1, <1>2, <1>4 DEF InOrder

\* The mapping counts the context candles that have closed.
LEMMA MappingCounts ==
  ASSUME NEW execution, NEW context, InOrder(execution), InOrder(context),
         DOMAIN execution = 1..Len(execution)
  PROVE  \A b \in 1..Len(execution) :
           NoLookaheadMapping(execution, context)[b] =
             Cardinality(ClosedAt(context, execution[b].close_time))
<1>1. \A from, close : Advance(context, from, close) = Advanced(context, from, close)
  BY DEF Advance, Advanced
<1> HIDE DEF Advance
<1> QED BY <1>1, MappingLoop DEF NoLookaheadMapping

\* A mapping has one entry for every execution candle.
LEMMA MappingDomain ==
  ASSUME NEW execution, NEW context
  PROVE  NoLookaheadMapping(execution, context)
           = [b \in DOMAIN execution |-> NoLookaheadMapping(execution, context)[b]]
BY DEF NoLookaheadMapping

-----------------------------------------------------------------------------
(* The verified input.                                                      *)

Alignment(execution, context, tf) ==
  ContextAlignment("symbol", execution, ExecutionTf, context, tf)

\* When an alignment is accepted, and what it then holds.
LEMMA AlignmentAccepts ==
  ASSUME NotAFunction(Refused), NEW execution, NEW context, NEW tf
  PROVE  LET mapping == NoLookaheadMapping(execution, context)
             result == Alignment(execution, context, tf) IN
         /\ result # Refused <=>
              /\ Derivable(ExecutionTf, tf)
              /\ Canonical(execution, ExecutionTf) /\ Canonical(context, tf)
              /\ MappingBound(execution, context, mapping)
         /\ result # Refused =>
              /\ result.symbol = "symbol" /\ result.execution = execution
              /\ result.executionTf = ExecutionTf /\ result.contextTf = tf
              /\ result.mapping = mapping
<1> DEFINE mapping == NoLookaheadMapping(execution, context)
           r == [symbol |-> "symbol", execution |-> execution, executionTf |-> ExecutionTf,
                 context |-> context, contextTf |-> tf, mapping |-> mapping]
           ok == /\ Derivable(ExecutionTf, tf)
                 /\ Canonical(execution, ExecutionTf) /\ Canonical(context, tf)
                 /\ MappingBound(execution, context, mapping)
<1>1. Alignment(execution, context, tf) = IF ok THEN r ELSE Refused
  BY DEF Alignment, ContextAlignment
<1>2. r # Refused
  <2> HIDE DEF mapping
  <2> QED BY DEF NotAFunction
<1>3. /\ r.symbol = "symbol" /\ r.execution = execution /\ r.executionTf = ExecutionTf
      /\ r.contextTf = tf /\ r.mapping = mapping
  <2> HIDE DEF mapping
  <2> QED OBVIOUS
<1> HIDE DEF r, ok
<1>4. Alignment(execution, context, tf) # Refused <=> ok  BY <1>1, <1>2
<1>5. Alignment(execution, context, tf) # Refused =>
        /\ Alignment(execution, context, tf).symbol = "symbol"
        /\ Alignment(execution, context, tf).execution = execution
        /\ Alignment(execution, context, tf).executionTf = ExecutionTf
        /\ Alignment(execution, context, tf).contextTf = tf
        /\ Alignment(execution, context, tf).mapping = mapping
  BY <1>1, <1>3
<1> QED BY <1>4, <1>5 DEF ok

\* When a verified input is accepted, and what it is then.
Acceptable(execution, contexts) ==
  /\ Requirements # <<>> /\ Len(contexts) = Len(Requirements)
  /\ Canonical(execution, ExecutionTf)
  /\ \A k \in 1..Len(Requirements) :
       /\ Derivable(ExecutionTf, Requirements[k].timeframe)
       /\ Canonical(contexts[k], Requirements[k].timeframe)
       /\ MappingBound(execution, contexts[k], NoLookaheadMapping(execution, contexts[k]))
       /\ Requirements[k].timeframe # ExecutionTf
       /\ \A j \in 1..Len(Requirements) :
            k < j => Requirements[k].timeframe < Requirements[j].timeframe

ContextOf(execution, contexts, k) ==
  [timeframe |-> Requirements[k].timeframe, warmup_bars |-> Requirements[k].warmup_bars,
   candles |-> contexts[k], mapping |-> NoLookaheadMapping(execution, contexts[k]),
   alignment_hash |-> Alignment(execution, contexts[k], Requirements[k].timeframe)]

ContextsOf(execution, contexts) ==
  [k \in 1..Len(Requirements) |-> ContextOf(execution, contexts, k)]

InputOf(execution, contexts) ==
  [execution |-> execution, contexts |-> ContextsOf(execution, contexts),
   bundle_hash |-> <<execution, ExecutionWarmup, ContextsOf(execution, contexts)>>]

Alignments(execution, contexts) ==
  [k \in 1..Len(Requirements) |-> Alignment(execution, contexts[k], Requirements[k].timeframe)]

\* When several alignments are accepted together.
LEMMA MultiAccepts ==
  ASSUME NotAFunction(Refused), NEW execution, NEW contexts, Requirements # <<>>
  PROVE  MultiContextAlignment(Alignments(execution, contexts)) # Refused <=>
           /\ \A k \in 1..Len(Requirements) :
                /\ Alignment(execution, contexts[k], Requirements[k].timeframe) # Refused
                /\ Requirements[k].timeframe # ExecutionTf
                /\ \A j \in 1..Len(Requirements) :
                     k < j => Requirements[k].timeframe < Requirements[j].timeframe
<1> DEFINE N == Len(Requirements)
           a == Alignments(execution, contexts)
           tf(k) == Requirements[k].timeframe
<1>1. N \in Nat \ {0}  BY FeedAssumption
<1>2. DOMAIN a = 1..N /\ a # Refused /\ a # <<>>
      /\ \A k \in 1..N : a[k] = Alignment(execution, contexts[k], tf(k))
  <2>1. DOMAIN a = 1..N /\ \A k \in 1..N : a[k] = Alignment(execution, contexts[k], tf(k))
    BY DEF Alignments
  <2>2. a # Refused
    <3>1. a = [k \in DOMAIN a |-> a[k]]  BY DEF Alignments
    <3> HIDE DEF a
    <3> QED BY <3>1 DEF NotAFunction
  <2>3. a # <<>>
    <3>1. 1 \in DOMAIN a  BY <1>1, <2>1
    <3>2. DOMAIN <<>> = {}  OBVIOUS
    <3> QED BY <3>1, <3>2
  <2> QED BY <2>1, <2>2, <2>3
<1> HIDE DEF a
<1>3. \A k \in 1..N : a[k] # Refused =>
        /\ a[k].symbol = "symbol" /\ a[k].execution = execution
        /\ a[k].executionTf = ExecutionTf /\ a[k].contextTf = tf(k)
  BY <1>2, AlignmentAccepts
<1> DEFINE pairs == /\ \A i \in 1..N :
                         /\ a[i].symbol = a[1].symbol
                         /\ a[i].executionTf = a[1].executionTf
                         /\ a[i].execution = a[1].execution
                         /\ a[i].contextTf # a[1].executionTf
                    /\ \A i, j \in 1..N : i < j => a[i].contextTf < a[j].contextTf
<1>4. MultiContextAlignment(a) # Refused <=> (\A k \in 1..N : a[k] # Refused) /\ pairs
  <2> HIDE DEF N
  <2> QED BY <1>2 DEF MultiContextAlignment
<1>5. (\A k \in 1..N : a[k] # Refused) =>
        (pairs <=> \A k \in 1..N : /\ tf(k) # ExecutionTf
                                   /\ \A j \in 1..N : k < j => tf(k) < tf(j))
  <2> SUFFICES ASSUME \A k \in 1..N : a[k] # Refused
               PROVE  pairs <=> \A k \in 1..N : /\ tf(k) # ExecutionTf
                                                /\ \A j \in 1..N : k < j => tf(k) < tf(j)
    OBVIOUS
  <2>1. 1 \in 1..N  BY <1>1
  <2> HIDE DEF N, tf
  <2> QED BY <1>3, <2>1
<1> HIDE DEF pairs, N
<1>6. (\A k \in 1..N : a[k] # Refused) <=>
        \A k \in 1..N : Alignment(execution, contexts[k], tf(k)) # Refused
  BY <1>2
<1> QED BY <1>4, <1>5, <1>6 DEF a, N

\* The verified input, when its candles are acceptable.
LEMMA FromVerifiedAccepts ==
  ASSUME NotAFunction(Refused),
         NEW execution \in Seq(ValidCandles), NEW contexts \in Seq(Seq(ValidCandles))
  PROVE  FromVerified(execution, contexts) =
           IF Acceptable(execution, contexts) THEN InputOf(execution, contexts) ELSE Refused
<1> DEFINE N == Len(Requirements)
           a == [k \in DOMAIN contexts |->
                   ContextAlignment("symbol", execution, ExecutionTf, contexts[k],
                                    Requirements[k].timeframe)]
           inputs == [k \in DOMAIN contexts |-> ContextInput(Requirements[k], contexts[k], a[k])]
           bad == \/ Requirements = <<>> \/ Len(contexts) # Len(Requirements)
                  \/ ~Canonical(execution, ExecutionTf)
                  \/ \E k \in DOMAIN contexts :
                       \/ ~Derivable(ExecutionTf, Requirements[k].timeframe)
                       \/ ~Canonical(contexts[k], Requirements[k].timeframe)
                  \/ MultiContextAlignment(a) = Refused
<1>1. FromVerified(execution, contexts) =
        IF bad THEN Refused
        ELSE [execution |-> execution, contexts |-> inputs,
              bundle_hash |-> <<execution, ExecutionWarmup, inputs>>]
  BY DEF FromVerified
<1>2. CASE Requirements = <<>> \/ Len(contexts) # N
  BY <1>1, <1>2 DEF Acceptable
<1>3. CASE Requirements # <<>> /\ Len(contexts) = N
  <2>1. DOMAIN contexts = 1..N  BY <1>3
  <2>2. a = Alignments(execution, contexts)  BY <2>1 DEF Alignments, Alignment
  <2>3. \A k \in 1..N : a[k] = Alignment(execution, contexts[k], Requirements[k].timeframe)
    BY <2>1 DEF Alignment
  <2> HIDE DEF a
  <2>4. ~bad <=> Acceptable(execution, contexts)
    <3>1. MultiContextAlignment(a) # Refused <=>
            \A k \in 1..N :
                /\ Alignment(execution, contexts[k], Requirements[k].timeframe) # Refused
                /\ Requirements[k].timeframe # ExecutionTf
                /\ \A j \in 1..N :
                     k < j => Requirements[k].timeframe < Requirements[j].timeframe
      BY <1>3, <2>2, MultiAccepts
    <3>2. \A k \in 1..N :
            Alignment(execution, contexts[k], Requirements[k].timeframe) # Refused <=>
              /\ Derivable(ExecutionTf, Requirements[k].timeframe)
              /\ Canonical(execution, ExecutionTf)
              /\ Canonical(contexts[k], Requirements[k].timeframe)
              /\ MappingBound(execution, contexts[k], NoLookaheadMapping(execution, contexts[k]))
      BY AlignmentAccepts
    <3> HIDE DEF N
    <3>3. ~bad <=>
            /\ Canonical(execution, ExecutionTf)
            /\ \A k \in 1..N : /\ Derivable(ExecutionTf, Requirements[k].timeframe)
                               /\ Canonical(contexts[k], Requirements[k].timeframe)
            /\ MultiContextAlignment(a) # Refused
      BY <1>3, <2>1 DEF N
    <3> HIDE DEF bad
    <3> QED BY <1>3, <3>1, <3>2, <3>3 DEF Acceptable, N
  <2>5. Acceptable(execution, contexts) => inputs = ContextsOf(execution, contexts)
    <3> SUFFICES ASSUME Acceptable(execution, contexts)
                 PROVE  inputs = ContextsOf(execution, contexts)
      OBVIOUS
    <3>1. ASSUME NEW k \in 1..N
          PROVE  ContextInput(Requirements[k], contexts[k], a[k]) = ContextOf(execution, contexts, k)
      <4>1. Alignment(execution, contexts[k], Requirements[k].timeframe) # Refused
        BY AlignmentAccepts DEF Acceptable
      <4>2. Alignment(execution, contexts[k], Requirements[k].timeframe).mapping
              = NoLookaheadMapping(execution, contexts[k])
        BY <4>1, AlignmentAccepts
      <4>3. a[k].mapping = NoLookaheadMapping(execution, contexts[k])  BY <2>3, <4>2
      <4>4. a[k] = Alignment(execution, contexts[k], Requirements[k].timeframe)  BY <2>3
      <4> HIDE DEF N
      <4> QED BY <4>3, <4>4 DEF ContextInput, ContextOf
    <3> QED BY <2>1, <3>1 DEF ContextsOf
  <2> HIDE DEF bad, inputs
  <2> QED BY <1>1, <2>4, <2>5 DEF InputOf
<1> QED BY <1>2, <1>3

\* A verified input.
GoodInput(in) ==
  \E execution \in Seq(ValidCandles), contexts \in Seq(Seq(ValidCandles)) :
    Acceptable(execution, contexts) /\ in = InputOf(execution, contexts)

\* The slots: the execution timeframe and one for every requirement.
LEMMA SlotsAre ==
  /\ Slots = 1..(Len(Requirements) + 1) /\ Len(Requirements) \in Nat
  /\ \A k \in 1..Len(Requirements) : k + 1 \in Slots /\ k + 1 # 1 /\ (k + 1) - 1 = k
  /\ \A s \in Slots : s # 1 => s - 1 \in 1..Len(Requirements)
  /\ 1 \in Slots
  /\ \A s \in Slots : Timeframe(s) \in Nat \ {0}
<1>1. Len(Requirements) \in Nat /\ Len(Keys) = Len(Requirements) + 1 /\ DOMAIN Keys = 1..Len(Keys)
  BY FeedAssumption
<1>2. \A k \in 1..Len(Requirements) : Requirements[k].timeframe \in Nat \ {0}
  <2>1. \A k \in 1..Len(Requirements) :
          Requirements[k] \in [timeframe : Nat \ {0}, warmup_bars : Nat]
    <3> DEFINE R == [timeframe : Nat \ {0}, warmup_bars : Nat]
    <3>1. Requirements \in Seq(R)  BY FeedAssumption
    <3> HIDE DEF R
    <3>2. \A k \in 1..Len(Requirements) : Requirements[k] \in R  BY <3>1
    <3> QED BY <3>2 DEF R
  <2> QED BY <2>1
<1>3. ExecutionTf \in Nat \ {0}  BY FeedAssumption
<1>4. Slots = 1..(Len(Requirements) + 1)  BY <1>1 DEF Slots
<1> QED BY <1>1, <1>2, <1>3, <1>4 DEF Timeframe

\* What a verified input holds.
LEMMA InputFacts ==
  ASSUME NEW in, GoodInput(in)
  PROVE  /\ in.execution \in Seq(ValidCandles)
         /\ Canonical(in.execution, ExecutionTf) /\ InOrder(in.execution)
         /\ in.contexts = [k \in 1..Len(Requirements) |-> in.contexts[k]]
         /\ in.bundle_hash = <<in.execution, ExecutionWarmup, in.contexts>>
         /\ in = [execution |-> in.execution, contexts |-> in.contexts,
                  bundle_hash |-> in.bundle_hash]
         /\ \A k \in 1..Len(Requirements) :
              /\ in.contexts[k].candles \in Seq(ValidCandles)
              /\ Canonical(in.contexts[k].candles, Requirements[k].timeframe)
              /\ in.contexts[k].warmup_bars = Requirements[k].warmup_bars
              /\ in.contexts[k].mapping
                   = NoLookaheadMapping(in.execution, in.contexts[k].candles)
<1> DEFINE N == Len(Requirements)
<1>1. PICK execution \in Seq(ValidCandles), contexts \in Seq(Seq(ValidCandles)) :
        Acceptable(execution, contexts) /\ in = InputOf(execution, contexts)
  BY DEF GoodInput
<1>2. /\ in.execution = execution /\ in.contexts = ContextsOf(execution, contexts)
      /\ in.bundle_hash = <<execution, ExecutionWarmup, ContextsOf(execution, contexts)>>
  BY <1>1 DEF InputOf
<1>3. in = [execution |-> in.execution, contexts |-> in.contexts,
            bundle_hash |-> in.bundle_hash]
  BY <1>1, <1>2 DEF InputOf
<1>4. Canonical(in.execution, ExecutionTf) /\ Len(contexts) = N  BY <1>1, <1>2 DEF Acceptable
<1>5. ASSUME NEW k \in 1..N
      PROVE  /\ in.contexts[k].candles \in Seq(ValidCandles)
             /\ Canonical(in.contexts[k].candles, Requirements[k].timeframe)
             /\ in.contexts[k].warmup_bars = Requirements[k].warmup_bars
             /\ in.contexts[k].mapping
                  = NoLookaheadMapping(in.execution, in.contexts[k].candles)
  <2>1. in.contexts[k] = ContextOf(execution, contexts, k)  BY <1>2 DEF ContextsOf
  <2>2. /\ in.contexts[k].candles = contexts[k]
        /\ in.contexts[k].warmup_bars = Requirements[k].warmup_bars
        /\ in.contexts[k].mapping = NoLookaheadMapping(execution, contexts[k])
    BY <2>1 DEF ContextOf
  <2>3. contexts[k] \in Seq(ValidCandles)  BY <1>4
  <2>4. Canonical(contexts[k], Requirements[k].timeframe)  BY <1>1 DEF Acceptable
  <2> QED BY <1>2, <2>2, <2>3, <2>4
<1>6. in.contexts = [k \in 1..N |-> in.contexts[k]]  BY <1>2 DEF ContextsOf
<1>7. InOrder(in.execution)
  <2>1. ExecutionTf \in Nat \ {0} /\ in.execution \in Seq(ValidCandles)  BY <1>2, FeedAssumption
  <2> QED BY <1>4, <2>1, CanonicalInOrder
<1> HIDE DEF N
<1> QED BY <1>1, <1>2, <1>3, <1>4, <1>5, <1>6, <1>7 DEF N

\* The candles of a slot of a verified input.
LEMMA SlotCandles ==
  ASSUME NEW in, GoodInput(in), NEW s \in Slots
  PROVE  /\ Candles(in, s) \in Seq(ValidCandles)
         /\ Canonical(Candles(in, s), Timeframe(s))
         /\ InOrder(Candles(in, s))
         /\ Len(Candles(in, s)) \in Nat \ {0}
<1>1. Candles(in, s) \in Seq(ValidCandles) /\ Canonical(Candles(in, s), Timeframe(s))
  <2>1. CASE s = 1  BY <2>1, InputFacts DEF Candles, Timeframe
  <2>2. CASE s # 1
    <3>1. s - 1 \in 1..Len(Requirements)  BY <2>2, SlotsAre
    <3>2. /\ in.contexts[s - 1].candles \in Seq(ValidCandles)
          /\ Canonical(in.contexts[s - 1].candles, Requirements[s - 1].timeframe)
      BY <3>1, InputFacts
    <3> QED BY <2>2, <3>2 DEF Candles, Timeframe
  <2> QED BY <2>1, <2>2
<1>2. Timeframe(s) \in Nat \ {0}  BY SlotsAre
<1>3. InOrder(Candles(in, s)) /\ Len(Candles(in, s)) \in Nat \ {0}
  BY <1>1, <1>2, CanonicalInOrder, CanonicalTimes
<1> QED BY <1>1, <1>3

\* What has closed of a slot at a bar.
Shown(in, bar0, s) == IF s = 1 THEN bar0 ELSE in.contexts[s - 1].mapping[bar0]

\* A bar shows the candles of every slot that have closed by its close.
LEMMA ShownIsClosed ==
  ASSUME NEW in, GoodInput(in), NEW b \in 1..Len(in.execution), NEW s \in Slots
  PROVE  /\ Shown(in, b, s) \in 0..Len(Candles(in, s))
         /\ s = 1 => Shown(in, b, s) \in 1..Len(Candles(in, s))
         /\ in.execution[b].close_time \in Int
         /\ \A j \in 1..Len(Candles(in, s)) :
              j <= Shown(in, b, s) <=> Candles(in, s)[j].close_time <= in.execution[b].close_time
<1>1. /\ in.execution \in Seq(ValidCandles) /\ Canonical(in.execution, ExecutionTf)
      /\ InOrder(in.execution) /\ ExecutionTf \in Nat \ {0}
  BY InputFacts, FeedAssumption
<1>2. in.execution[b].close_time \in Int  BY <1>1 DEF InOrder
<1>3. CASE s = 1
  <2>1. Shown(in, b, s) = b /\ Candles(in, s) = in.execution  BY <1>3 DEF Shown, Candles
  <2>2. \A i, j \in 1..Len(in.execution) :
          in.execution[i].close_time <= in.execution[j].close_time <=> i <= j
    BY <1>1, CanonicalInOrder
  <2>3. b \in 0..Len(in.execution)  OBVIOUS
  <2> QED BY <1>2, <2>1, <2>2, <2>3
<1>4. CASE s # 1
  <2> DEFINE c == in.contexts[s - 1].candles
             n == Cardinality(ClosedAt(c, in.execution[b].close_time))
  <2>1. s - 1 \in 1..Len(Requirements) /\ Candles(in, s) = c  BY <1>4, SlotsAre DEF Candles
  <2>2. InOrder(c)  BY <2>1, SlotCandles
  <2>3. in.contexts[s - 1].mapping = NoLookaheadMapping(in.execution, c)  BY <2>1, InputFacts
  <2>4. DOMAIN in.execution = 1..Len(in.execution)  BY <1>1
  <2>5. Shown(in, b, s) = n
    <3> HIDE DEF c
    <3>1. NoLookaheadMapping(in.execution, c)[b] = n  BY <1>1, <2>2, <2>4, MappingCounts
    <3> QED BY <1>4, <2>3, <3>1 DEF Shown
  <2>6. /\ n \in 0..Len(c)
        /\ \A j \in 1..Len(c) : c[j].close_time <= in.execution[b].close_time <=> j <= n
    <3> HIDE DEF c
    <3> QED BY <1>2, <2>2, ClosedFirst
  <2> HIDE DEF c, n
  <2> QED BY <1>2, <1>4, <2>1, <2>5, <2>6
<1> QED BY <1>3, <1>4

-----------------------------------------------------------------------------
(* Indicator bundles and compositions.                                      *)

\* A set in some order.
LEMMA SetInOrder ==
  ASSUME NEW S, IsFiniteSet(S)
  PROVE  /\ Cardinality(S) \in Nat
         /\ SetToSeq(S) \in [1..Cardinality(S) -> S]
         /\ \A i, j \in 1..Cardinality(S) : SetToSeq(S)[i] = SetToSeq(S)[j] => i = j
         /\ \A x \in S : \E i \in 1..Cardinality(S) : SetToSeq(S)[i] = x
<1> DEFINE n == Cardinality(S)
<1>1. n \in Nat /\ ExistsBijection(1..n, S)  BY FS_CardinalityType
<1>2. PICK f \in Injection(1..n, S) : TRUE  BY <1>1 DEF ExistsBijection, Bijection
<1>3. f \in [1..n -> S] /\ IsInjective(f)  BY <1>2 DEF Injection, IsInjective
<1>4. SetToSeq(S) \in [1..n -> S] /\ IsInjective(SetToSeq(S))
  <2> HIDE DEF n
  <2>1. SetToSeq(S) = CHOOSE g \in [1..n -> S] : IsInjective(g)  BY DEF SetToSeq, n
  <2> QED BY <1>3, <2>1
<1>5. SetToSeq(S) \in Injection(1..n, S)  BY <1>4 DEF Injection, IsInjective
<1>6. Cardinality(1..n) = n  BY <1>1, FS_Interval
<1>7. SetToSeq(S) \in Surjection(1..n, S)
  <2> HIDE DEF n
  <2> QED BY <1>5, <1>6, FS_Injection DEF n
<1>8. \A x \in S : \E i \in 1..n : SetToSeq(S)[i] = x  BY <1>7 DEF Surjection
<1>9. \A i, j \in 1..n : SetToSeq(S)[i] = SetToSeq(S)[j] => i = j
  BY <1>4 DEF IsInjective
<1> QED BY <1>1, <1>4, <1>8, <1>9

\* The keys of a slot are finitely many valid ones.
LEMMA KeysAre ==
  ASSUME NEW s \in Slots
  PROVE  /\ IsFiniteSet(Keys[s]) /\ \A key \in Keys[s] : ValidKey(key)
         /\ Keys[s] \subseteq [code : PeriodCodes \cup {"true_range"}, period : Nat \cup {None}]
<1>1. IsFiniteSet(Keys[s]) /\ \A key \in Keys[s] : ValidKey(key)  BY FeedAssumption DEF Slots
<1> DEFINE K == [code : PeriodCodes \cup {"true_range"}, period : Nat \cup {None}]
<1>2. Keys \in Seq(SUBSET K)  BY FeedAssumption
<1> HIDE DEF K
<1>3. Keys[s] \in SUBSET K  BY <1>2 DEF Slots
<1> QED BY <1>1, <1>3 DEF K

\* A calculator does not refuse its own values.
LEMMA CalculatedIs ==
  ASSUME NotAFunction(None), NEW key, ValidKey(key), NEW symbol, NEW tf,
         NEW c \in Seq(ValidCandles)
  PROVE  LET r == Calculated(key, symbol, tf, c) IN
         /\ r = [key |-> key, symbol |-> symbol, timeframe |-> tf, input |-> c,
                 values |-> Values(key, c), defined_value_count |-> DefinedCount(Values(key, c)),
                 first_defined |-> IF Defined(Values(key, c)) = {} THEN None
                                   ELSE Lowest(Defined(Values(key, c)))]
         /\ r.key = key /\ r.values = Values(key, c)
<1>1. WellShaped(key, Values(key, c))  BY ValuesSound DEF Sound
<1> DEFINE r == [key |-> key, symbol |-> symbol, timeframe |-> tf, input |-> c,
                 values |-> Values(key, c), defined_value_count |-> DefinedCount(Values(key, c)),
                 first_defined |-> IF Defined(Values(key, c)) = {} THEN None
                                   ELSE Lowest(Defined(Values(key, c)))]
<1>2. Calculated(key, symbol, tf, c) = r  BY <1>1 DEF Calculated, SeriesOfValues
<1>3. r.key = key /\ r.values = Values(key, c)  OBVIOUS
<1> HIDE DEF r
<1>4. /\ Calculated(key, symbol, tf, c).key = key
      /\ Calculated(key, symbol, tf, c).values = Values(key, c)
  BY <1>2, <1>3
<1> QED BY <1>2, <1>4 DEF r

\* What the calculators say of a slot's candles.
Calculator(s, key, c) == Calculated(key, "symbol", Timeframe(s), c)
BundleSeries(s, c) == [key \in Keys[s] |-> Calculator(s, key, c)]
BundleOf(s, c) == Bundle(c, "exact", Timeframe(s), BundleSeries(s, c))

\* One series for every key.
LEMMA GenuineIs ==
  ASSUME NotAFunction(None), NEW s \in Slots, NEW c \in Seq(ValidCandles)
  PROVE  LET own == Genuine(s, c) n == Cardinality(Keys[s]) IN
         /\ n \in Nat /\ DOMAIN own = 1..n /\ own = [i \in 1..n |-> own[i]] /\ Len(own) = n
         /\ \A i \in 1..n : own[i].key \in Keys[s] /\ own[i] = Calculator(s, own[i].key, c)
         /\ \A i, j \in 1..n : own[i].key = own[j].key => i = j
         /\ {own[i].key : i \in 1..n} = Keys[s]
<1> DEFINE own == Genuine(s, c)
           n == Cardinality(Keys[s])
           keys == SetToSeq(Keys[s])
<1>1. /\ n \in Nat /\ keys \in [1..n -> Keys[s]]
      /\ \A i, j \in 1..n : keys[i] = keys[j] => i = j
      /\ \A x \in Keys[s] : \E i \in 1..n : keys[i] = x
  BY KeysAre, SetInOrder
<1>2. own = [i \in 1..n |-> Calculator(s, keys[i], c)]
  <2>1. DOMAIN keys = 1..n  BY <1>1
  <2> HIDE DEF n
  <2> QED BY <2>1 DEF Genuine, Calculator
<1> HIDE DEF own, n, keys
<1>3. DOMAIN own = 1..n /\ own = [i \in 1..n |-> own[i]]  BY <1>2
<1>4. Len(own) = n
  <2>1. own \in [1..n -> {own[i] : i \in 1..n}]  BY <1>3
  <2> QED BY <1>1, <2>1, FunctionIsSequence
<1>5. ASSUME NEW i \in 1..n
      PROVE  own[i].key = keys[i] /\ own[i] = Calculator(s, keys[i], c) /\ keys[i] \in Keys[s]
  <2>1. own[i] = Calculator(s, keys[i], c) /\ keys[i] \in Keys[s]  BY <1>1, <1>2
  <2>2. ValidKey(keys[i])  BY <2>1, KeysAre
  <2>3. Calculator(s, keys[i], c).key = keys[i]  BY <2>2, CalculatedIs DEF Calculator
  <2> QED BY <2>1, <2>3
<1>6. {own[i].key : i \in 1..n} = Keys[s]  BY <1>1, <1>5
<1>7. \A i \in 1..n : own[i].key \in Keys[s] /\ own[i] = Calculator(s, own[i].key, c)
  BY <1>5
<1>8. \A i, j \in 1..n : own[i].key = own[j].key => i = j  BY <1>1, <1>5
<1> QED BY <1>1, <1>3, <1>4, <1>6, <1>7, <1>8 DEF own, n

\* A bundle accepted with series of the slot's keys holds what the calculators say.
LEMMA AcceptedBundle ==
  ASSUME NEW s, NEW c, NEW supplied,
         {supplied[i].key : i \in DOMAIN supplied} = Keys[s],
         IndicatorBundle(c, "exact", Timeframe(s), supplied) # Refused
  PROVE  IndicatorBundle(c, "exact", Timeframe(s), supplied) = BundleOf(s, c)
BY DEF IndicatorBundle, BundleOf, BundleSeries, Calculator

\* The genuine series of canonical candles are accepted.
LEMMA GenuineAccepted ==
  ASSUME NotAFunction(None), NotAFunction(Refused), NEW s \in Slots, Keys[s] # {},
         NEW c \in Seq(ValidCandles), Canonical(c, Timeframe(s))
  PROVE  IndicatorBundle(c, "exact", Timeframe(s), Genuine(s, c)) = BundleOf(s, c)
<1> DEFINE own == Genuine(s, c)
           n == Cardinality(Keys[s])
<1>1. /\ n \in Nat /\ DOMAIN own = 1..n
      /\ \A i \in 1..n : own[i].key \in Keys[s] /\ own[i] = Calculator(s, own[i].key, c)
      /\ \A i, j \in 1..n : own[i].key = own[j].key => i = j
      /\ {own[i].key : i \in 1..n} = Keys[s]
  BY GenuineIs
<1> HIDE DEF own, n
<1>2. own # <<>>
  <2>1. PICK x \in Keys[s] : TRUE  OBVIOUS
  <2>2. PICK i \in 1..n : own[i].key = x  BY <1>1, <2>1
  <2>3. i \in DOMAIN own  BY <1>1
  <2>4. DOMAIN <<>> = {}  OBVIOUS
  <2> QED BY <2>3, <2>4
<1>3. \A i \in DOMAIN own :
        /\ ValidKey(own[i].key)
        /\ own[i] = Calculated(own[i].key, "symbol", Timeframe(s), c)
        /\ \A j \in 1..(i - 1) : own[j].key # own[i].key
  <2> SUFFICES ASSUME NEW i \in 1..n
               PROVE  /\ ValidKey(own[i].key)
                      /\ own[i] = Calculated(own[i].key, "symbol", Timeframe(s), c)
                      /\ \A j \in 1..(i - 1) : own[j].key # own[i].key
    BY <1>1
  <2>1. ValidKey(own[i].key)  BY <1>1, KeysAre
  <2>2. own[i] = Calculated(own[i].key, "symbol", Timeframe(s), c)  BY <1>1 DEF Calculator
  <2>3. \A j \in 1..(i - 1) : j \in 1..n /\ j # i  BY <1>1
  <2>4. \A j \in 1..(i - 1) : own[j].key # own[i].key  BY <1>1, <2>3
  <2> QED BY <2>1, <2>2, <2>4
<1>4. IndicatorBundle(c, "exact", Timeframe(s), own)
        = Bundle(c, "exact", Timeframe(s), [key \in {own[i].key : i \in DOMAIN own} |->
            Calculated(key, "symbol", Timeframe(s), c)])
  BY <1>2, <1>3 DEF IndicatorBundle
<1>5. {own[i].key : i \in DOMAIN own} = Keys[s]  BY <1>1
<1>6. IndicatorBundle(c, "exact", Timeframe(s), own) = BundleOf(s, c)
  BY <1>4, <1>5 DEF BundleOf, BundleSeries, Calculator
<1> QED BY <1>6 DEF own

\* The bundles and the composition of a verified input.
BundleAt(in, s) == IF Keys[s] = {} THEN None ELSE BundleOf(s, Candles(in, s))
BundlesOf(in) == [s \in Slots |-> BundleAt(in, s)]
HashAt(in, s) == IF Keys[s] = {} THEN None ELSE BundleOf(s, Candles(in, s)).hash
FeedOf(in) ==
  [input |-> in, slots |-> BundlesOf(in),
   hash |-> <<in.bundle_hash, [s \in Slots |-> HashAt(in, s)]>>]

\* A bundle is its parts.
LEMMA BundleParts ==
  ASSUME NotAFunction(None), NotAFunction(Refused),
         NEW c, NEW object, NEW tf, NEW f
  PROVE  LET b == Bundle(c, object, tf, f) IN
         /\ b # None /\ b # Refused /\ b.candles = c /\ b.object = object
         /\ b.timeframe = tf /\ b.series = f /\ b.hash = <<c, tf, f>>
BY DEF Bundle, NotAFunction

\* Tuples are what they hold.
LEMMA HashTells ==
  ASSUME NEW a, NEW b, NEW c, NEW x, NEW y, NEW z, <<a, b, c>> = <<x, y, z>>
  PROVE  a = x /\ b = y /\ c = z
OBVIOUS

\* Pairs are what they hold.
LEMMA PairTells ==
  ASSUME NEW a, NEW b, NEW x, NEW y, <<a, b>> = <<x, y>>
  PROVE  a = x /\ b = y
OBVIOUS

\* What was rebuilt of a bundle and passed is a bundle of the exact candles.
LEMMA RebindIs ==
  ASSUME NotAFunction(None), NotAFunction(Refused), NEW b, NEW s, NEW in,
         Rebind(b, s, in) # Refused
  PROVE  \/ Rebind(b, s, in) = None
         \/ \E c, tf, f : Rebind(b, s, in) = Bundle(c, "exact", tf, f)
<1>1. CASE b = None  BY <1>1 DEF Rebind
<1>2. CASE b # None
  <2>1. Rebind(b, s, in) = Bound(b, Rebuilt(b), s, in)  BY <1>2 DEF Rebind
  <2>2. Rebuilt(b) # Refused /\ b.object = "exact" /\ Rebind(b, s, in) = Rebuilt(b)
    BY <2>1 DEF Bound
  <2>3. \E f : Rebuilt(b) = Bundle(b.candles, b.object, b.timeframe, f)
    BY <2>2 DEF Rebuilt, IndicatorBundle
  <2> QED BY <2>2, <2>3
<1> QED BY <1>1, <1>2

\* Whatever was rewritten, a composition whose hash is the original one, or
\* empty, opens as the original composition or not at all.
LEMMA Reverified ==
  ASSUME NotAFunction(None), NotAFunction(Refused), NEW in, GoodInput(in),
         NEW c, c.hash = FeedOf(in).hash \/ c.hash = <<>>, Reverify(c) # Refused
  PROVE  Reverify(c) = FeedOf(in)
<1> DEFINE t == ReverifyInput(c.input)
           trusted == Compose(c.input, c.slots)
           bound == [s \in DOMAIN c.slots |-> Rebind(c.slots[s], s, t)]
           hashes == [s \in DOMAIN bound |-> IF bound[s] = None THEN None ELSE bound[s].hash]
           original == [s \in Slots |-> HashAt(in, s)]
<1>1. Reverify(c) = trusted /\ trusted # Refused /\ c.hash = trusted.hash
  <2> HIDE DEF trusted
  <2>1. Reverify(c) = Matching(c, trusted)  BY DEF Reverify, trusted
  <2>2. Reverify(c) = trusted /\ trusted # Refused /\ SameComposition(c, trusted)
    BY <2>1 DEF Matching
  <2> QED BY <2>2 DEF SameComposition
<1>2. t # Refused /\ trusted = Composed(t, bound)
  <2> HIDE DEF t, bound
  <2>1. trusted = ComposeTrusted(t, c.slots)  BY DEF Compose, t
  <2>2. t # Refused
    <3> HIDE DEF trusted
    <3> QED BY <1>1, <2>1 DEF ComposeTrusted
  <2> HIDE DEF trusted
  <2> QED BY <1>1, <2>1, <2>2 DEF ComposeTrusted, bound
<1>3. /\ \A s \in DOMAIN bound : bound[s] # Refused
      /\ trusted = [input |-> t, slots |-> bound, hash |-> <<t.bundle_hash, hashes>>]
  <2> HIDE DEF t, bound, trusted
  <2> QED BY <1>1, <1>2 DEF Composed, hashes
<1>4. /\ t = [execution |-> t.execution, contexts |-> t.contexts,
              bundle_hash |-> t.bundle_hash]
      /\ t.bundle_hash = <<t.execution, ExecutionWarmup, t.contexts>>
  <2>1. \E e, i : t = [execution |-> e, contexts |-> i, bundle_hash |-> <<e, ExecutionWarmup, i>>]
    <3>1. t = FromVerified(c.input.execution,
                           [k \in DOMAIN c.input.contexts |-> c.input.contexts[k].candles])
      BY <1>2 DEF ReverifyInput
    <3> HIDE DEF t
    <3> QED BY <1>2, <3>1 DEF FromVerified
  <2> HIDE DEF t
  <2> QED BY <2>1
<1>5. /\ in = [execution |-> in.execution, contexts |-> in.contexts,
               bundle_hash |-> in.bundle_hash]
      /\ in.bundle_hash = <<in.execution, ExecutionWarmup, in.contexts>>
  BY InputFacts
<1> HIDE DEF t, bound, trusted
<1>6. trusted.hash = <<t.bundle_hash, hashes>>
  <2> HIDE DEF hashes
  <2> QED BY <1>3
<1>7. trusted.hash = <<in.bundle_hash, original>>
  <2> HIDE DEF hashes, original
  <2>1. <<t.bundle_hash, hashes>> # <<>>  OBVIOUS
  <2>2. FeedOf(in).hash = <<in.bundle_hash, original>>  BY DEF FeedOf, original
  <2> QED BY <1>1, <1>6, <2>1, <2>2
<1>8. t.bundle_hash = in.bundle_hash /\ hashes = original
  <2> HIDE DEF hashes, original
  <2>1. <<t.bundle_hash, hashes>> = <<in.bundle_hash, original>>  BY <1>6, <1>7
  <2> QED BY <2>1, PairTells
<1>9. t = in
  <2>1. <<t.execution, ExecutionWarmup, t.contexts>> = <<in.execution, ExecutionWarmup, in.contexts>>
    BY <1>4, <1>5, <1>8
  <2>2. t.execution = in.execution /\ t.contexts = in.contexts  BY <2>1, HashTells
  <2> QED BY <1>4, <1>5, <1>8, <2>2
<1>10. bound = BundlesOf(in)
  <2>1. DOMAIN bound = Slots
    <3>1. DOMAIN hashes = DOMAIN bound /\ DOMAIN original = Slots  OBVIOUS
    <3> HIDE DEF hashes, original
    <3> QED BY <1>8, <3>1
  <2>2. ASSUME NEW s \in Slots PROVE bound[s] = BundleAt(in, s)
    <3>1. hashes[s] = (IF bound[s] = None THEN None ELSE bound[s].hash) /\ original[s] = HashAt(in, s)
      BY <2>1
    <3>2. (IF bound[s] = None THEN None ELSE bound[s].hash) = HashAt(in, s)
      <4> HIDE DEF hashes, original
      <4> QED BY <1>8, <3>1
    <3>3. bound[s] = Rebind(c.slots[s], s, t) /\ bound[s] # Refused  BY <1>3, <2>1 DEF bound
    <3>4. bound[s] = None \/ \E x, tf, f : bound[s] = Bundle(x, "exact", tf, f)
      BY <3>3, RebindIs
    <3>5. \A x, tf, f : /\ Bundle(x, "exact", tf, f) # None
                        /\ Bundle(x, "exact", tf, f).hash = <<x, tf, f>>
      BY BundleParts
    <3>6. \A x, tf, f : <<x, tf, f>> # None
      BY DEF NotAFunction
    <3> DEFINE C == Candles(in, s)
               T == Timeframe(s)
               F == BundleSeries(s, C)
    <3>7. BundleOf(s, C) = Bundle(C, "exact", T, F)  BY DEF BundleOf
    <3>8. CASE Keys[s] = {}
      <4>1. HashAt(in, s) = None /\ BundleAt(in, s) = None  BY <3>8 DEF HashAt, BundleAt
      <4>2. ASSUME bound[s] # None PROVE FALSE
        <5>1. PICK x, tf, f : bound[s] = Bundle(x, "exact", tf, f)  BY <3>4, <4>2
        <5>2. bound[s].hash = <<x, tf, f>>  BY <3>5, <5>1
        <5>3. bound[s].hash = None  BY <3>2, <4>1, <4>2
        <5> QED BY <3>6, <5>2, <5>3
      <4> QED BY <4>1, <4>2
    <3>9. CASE Keys[s] # {}
      <4>1. HashAt(in, s) = BundleOf(s, C).hash /\ BundleAt(in, s) = BundleOf(s, C)
        BY <3>9 DEF HashAt, BundleAt
      <4> HIDE DEF C, T, F
      <4>2. HashAt(in, s) = <<C, T, F>> /\ BundleAt(in, s) = Bundle(C, "exact", T, F)
        BY <3>5, <3>7, <4>1
      <4>3. bound[s] # None  BY <3>2, <3>6, <4>2
      <4>4. PICK x, tf, f : bound[s] = Bundle(x, "exact", tf, f)  BY <3>4, <4>3
      <4>5. <<x, tf, f>> = <<C, T, F>>  BY <3>2, <3>5, <4>2, <4>3, <4>4
      <4>6. x = C /\ tf = T /\ f = F  BY <4>5, HashTells
      <4> QED BY <4>2, <4>4, <4>6
    <3> QED BY <3>8, <3>9
  <2>3. bound = [s \in DOMAIN bound |-> bound[s]]  BY DEF bound
  <2> QED BY <2>1, <2>2, <2>3 DEF BundlesOf
<1>11. trusted = [input |-> in, slots |-> BundlesOf(in), hash |-> <<in.bundle_hash, original>>]
  <2> HIDE DEF hashes, original
  <2> QED BY <1>3, <1>8, <1>9, <1>10
<1> QED BY <1>1, <1>11 DEF FeedOf

-----------------------------------------------------------------------------
(* Views.                                                                   *)

\* What a slot shows at a bar.
CandlesAt(in, i, s) == CandleView(in, i, s)
IndicatorsAt(in, i, s) == SlotView(BundleAt(in, s), Shown(in, i, s))
ReadyAt(in, i) == \A s \in Slots : CandlesAt(in, i, s).ready /\ IndicatorsAt(in, i, s).ready

\* The candles of a slot at a bar.
LEMMA CandleViewIs ==
  ASSUME NEW in, NEW i, NEW s \in Slots
  PROVE  LET warmup == IF s = 1 THEN ExecutionWarmup ELSE in.contexts[s - 1].warmup_bars IN
         /\ CandleView(in, i, s) = [history |-> [items |-> Candles(in, s), end |-> Shown(in, i, s)],
                                    visible_count |-> Shown(in, i, s),
                                    ready |-> Warm(Shown(in, i, s), warmup)]
         /\ CandleView(in, i, s).visible_count = Shown(in, i, s)
<1>1. CandleView(in, i, s) = [history |-> [items |-> Candles(in, s), end |-> Shown(in, i, s)],
        visible_count |-> Shown(in, i, s),
        ready |-> Warm(Shown(in, i, s),
                       IF s = 1 THEN ExecutionWarmup ELSE in.contexts[s - 1].warmup_bars)]
  BY DEF CandleView, Shown
<1>2. CandleView(in, i, s).visible_count = Shown(in, i, s)  BY <1>1
<1> QED BY <1>1, <1>2

\* The indicators of a slot with keys that shows n candles.
ItemsOf(s, c, n) == [key \in Keys[s] |-> Item(Calculator(s, key, c), n)]
IndicatorsOf(s, c, n) ==
  [visible_count |-> n, timeframe |-> Timeframe(s), items |-> ItemsOf(s, c, n),
   ready |-> \A key \in Keys[s] : ItemsOf(s, c, n)[key].ready]

\* The indicators of a slot that shows so many candles.
LEMMA SlotViewIs ==
  ASSUME NotAFunction(None), NotAFunction(Refused), NEW in, GoodInput(in),
         NEW s \in Slots, NEW n \in 0..Len(Candles(in, s))
  PROVE  /\ Keys[s] = {} => SlotView(BundleAt(in, s), n)
              = [configured |-> FALSE, indicators |-> None, ready |-> TRUE]
         /\ Keys[s] # {} /\ n = 0 => SlotView(BundleAt(in, s), n)
              = [configured |-> TRUE, indicators |-> None, ready |-> FALSE]
         /\ Keys[s] # {} /\ n > 0 => SlotView(BundleAt(in, s), n)
              = [configured |-> TRUE, indicators |-> IndicatorsOf(s, Candles(in, s), n),
                 ready |-> IndicatorsOf(s, Candles(in, s), n).ready]
<1> DEFINE C == Candles(in, s)
           b == BundleOf(s, C)
<1>1. CASE Keys[s] = {}  BY <1>1 DEF BundleAt, SlotView
<1>2. CASE Keys[s] # {}
  <2>1. BundleAt(in, s) = b  BY <1>2 DEF BundleAt
  <2>2. /\ b # None /\ b.candles = C /\ b.timeframe = Timeframe(s)
        /\ b.series = BundleSeries(s, C)
    BY BundleParts DEF BundleOf
  <2> HIDE DEF b
  <2>3. CASE n = 0  BY <1>2, <2>1, <2>2, <2>3 DEF SlotView
  <2>4. CASE n > 0
    <3>1. n \in 1..Len(b.candles)
      <4>1. n \in 1..Len(C)  BY <2>4
      <4> HIDE DEF C
      <4> QED BY <2>2, <4>1
    <3> DEFINE items == [key \in DOMAIN b.series |-> Item(b.series[key], n)]
    <3>2. items = ItemsOf(s, C, n)
      <4>1. DOMAIN b.series = Keys[s]
            /\ \A key \in Keys[s] : b.series[key] = Calculator(s, key, C)
        BY <2>2 DEF BundleSeries
      <4> HIDE DEF C
      <4> QED BY <4>1 DEF ItemsOf
    <3>3. IndicatorView(b, n) = [visible_count |-> n, timeframe |-> b.timeframe, items |-> items,
            ready |-> \A key \in DOMAIN items : items[key].ready]
      BY <3>1 DEF IndicatorView
    <3>4. DOMAIN items = Keys[s]  BY <3>2 DEF ItemsOf
    <3> HIDE DEF items, C
    <3>5. IndicatorView(b, n) = IndicatorsOf(s, C, n)
      BY <2>2, <3>2, <3>3, <3>4 DEF IndicatorsOf
    <3>6. IndicatorsOf(s, C, n) # Refused  BY DEF IndicatorsOf, NotAFunction
    <3>7. n # 0  BY <2>4
    <3>8. SlotView(b, n) = [configured |-> TRUE, indicators |-> IndicatorsOf(s, C, n),
                            ready |-> IndicatorsOf(s, C, n).ready]
      BY <2>2, <3>5, <3>6, <3>7 DEF SlotView
    <3> QED BY <1>2, <2>1, <2>4, <3>7, <3>8 DEF C
  <2>5. n = 0 \/ n > 0  OBVIOUS
  <2> QED BY <1>2, <2>3, <2>4, <2>5
<1> QED BY <1>1, <1>2

\* The view of a bar is never refused.
LEMMA ViewIs ==
  ASSUME NotAFunction(None), NotAFunction(Refused), NEW in, GoodInput(in),
         NEW i \in 1..Len(in.execution), NEW c, c.input = in, c.slots = BundlesOf(in)
  PROVE  LET v == ViewAt(c, i) IN
         /\ v = [bar_index |-> i, candles |-> [s \in Slots |-> CandlesAt(in, i, s)],
                 slots |-> [s \in Slots |-> IndicatorsAt(in, i, s)],
                 overall_ready |-> ReadyAt(in, i)]
         /\ v # Refused
         /\ \A s \in Slots : v.candles[s] = CandlesAt(in, i, s) /\ v.slots[s] = IndicatorsAt(in, i, s)
<1> DEFINE candles == [s \in Slots |-> CandleView(c.input, i, s)]
           shown == [s \in Slots |-> SlotView(c.slots[s], candles[s].visible_count)]
<1>1. c.input = in /\ c.slots = BundlesOf(in)  OBVIOUS
<1>2. candles = [s \in Slots |-> CandlesAt(in, i, s)]  BY <1>1 DEF CandlesAt
<1>3. \A s \in Slots : candles[s].visible_count = Shown(in, i, s)
  BY <1>2, CandleViewIs DEF CandlesAt
<1> HIDE DEF candles
<1>4. shown = [s \in Slots |-> IndicatorsAt(in, i, s)]
  BY <1>1, <1>3 DEF IndicatorsAt, BundlesOf
<1> HIDE DEF shown
<1>5. ASSUME NEW s \in Slots PROVE Consistent(candles[s], shown[s], s)
  <2> DEFINE n == Shown(in, i, s)
             C == Candles(in, s)
  <2>1. n \in 0..Len(C)  BY ShownIsClosed
  <2>2. shown[s] = SlotView(BundleAt(in, s), n)  BY <1>4 DEF IndicatorsAt
  <2>3. candles[s].visible_count = n  BY <1>3
  <2>4. shown[s].indicators = None \/ shown[s].indicators = IndicatorsOf(s, C, n)
    <3>1. CASE Keys[s] = {}
      <4>1. shown[s] = [configured |-> FALSE, indicators |-> None, ready |-> TRUE]
        BY <2>1, <2>2, <3>1, SlotViewIs
      <4> QED BY <4>1
    <3>2. CASE Keys[s] # {} /\ n = 0
      <4>1. shown[s] = [configured |-> TRUE, indicators |-> None, ready |-> FALSE]
        BY <2>1, <2>2, <3>2, SlotViewIs
      <4> QED BY <4>1
    <3>3. CASE Keys[s] # {} /\ n > 0
      <4>1. shown[s] = [configured |-> TRUE, indicators |-> IndicatorsOf(s, C, n),
                        ready |-> IndicatorsOf(s, C, n).ready]
        BY <2>1, <2>2, <3>3, SlotViewIs
      <4> QED BY <4>1
    <3>4. n = 0 \/ n > 0
      <4> HIDE DEF n, C
      <4>1. Len(Candles(in, s)) \in Nat  BY SlotCandles
      <4> QED BY <2>1, <4>1 DEF C
    <3> QED BY <3>1, <3>2, <3>3, <3>4
  <2> HIDE DEF n, C
  <2>5. /\ IndicatorsOf(s, C, n) # Refused /\ IndicatorsOf(s, C, n).visible_count = n
        /\ IndicatorsOf(s, C, n).timeframe = Timeframe(s)
    BY DEF IndicatorsOf, NotAFunction
  <2> QED BY <2>3, <2>4, <2>5 DEF Consistent
<1>6. i \in DOMAIN c.input.execution
  <2>1. in.execution \in Seq(ValidCandles)  BY InputFacts
  <2> QED BY <1>1, <2>1
<1> DEFINE v == [bar_index |-> i, candles |-> candles, slots |-> shown,
                 overall_ready |-> \A s \in Slots : candles[s].ready /\ shown[s].ready]
<1>7. ViewAt(c, i) = v  BY <1>5, <1>6 DEF ViewAt, candles, shown
<1>8. (\A s \in Slots : candles[s].ready /\ shown[s].ready) = ReadyAt(in, i)
  BY <1>2, <1>4 DEF ReadyAt
<1>9. v = [bar_index |-> i, candles |-> [s \in Slots |-> CandlesAt(in, i, s)],
           slots |-> [s \in Slots |-> IndicatorsAt(in, i, s)], overall_ready |-> ReadyAt(in, i)]
  BY <1>2, <1>4, <1>8
<1>10. v # Refused  BY DEF NotAFunction
<1>11. \A s \in Slots : v.candles[s] = CandlesAt(in, i, s) /\ v.slots[s] = IndicatorsAt(in, i, s)
  BY <1>2, <1>4
<1> HIDE DEF v
<1> QED BY <1>7, <1>9, <1>10, <1>11

-----------------------------------------------------------------------------
(* Resampling.                                                              *)

\* The sum of a stretch of a sequence.
LEMMA SumOfPart ==
  ASSUME NEW v, NEW w, NEW a \in Nat, NEW n \in Nat,
         \A k \in 1..(a + n) : v[k] \in Int, \A k \in 1..n : w[k] = v[a + k]
  PROVE  Sum(w, n) = Sum(v, a + n) - Sum(v, a)
<1> DEFINE K == {k \in 0..n : Sum(w, k) = Sum(v, a + k) - Sum(v, a)}
<1>1. \A k \in 1..n : w[k] \in Int /\ a + k \in 1..(a + n)  OBVIOUS
<1>2. Sum(v, a) \in Int
  <2>1. \A k \in 1..a : v[k] \in Int  OBVIOUS
  <2> QED BY <2>1, SumType
<1>3. 0 \in K
  <2>1. 0 \in Nat /\ 1..0 = {}  OBVIOUS
  <2>2. \A k \in 1..(0 + 1) : k = 1  OBVIOUS
  <2>3. Sum(w, 0) = 0
    <3>1. CASE n = 0
      <4>1. \A k \in 1..0 : w[k] \in Int  OBVIOUS
      <4>2. PICK total : total[0] = 0 /\ Sum(w, 0) = total[0]  BY <2>1, <4>1, SumRounds
      <4> QED BY <4>2
    <3>2. CASE n # 0
      <4>1. \A k \in 1..0 : w[k] \in Int  OBVIOUS
      <4>2. PICK total : total[0] = 0 /\ Sum(w, 0) = total[0]  BY <2>1, <4>1, SumRounds
      <4> QED BY <4>2
    <3> QED BY <3>1, <3>2
  <2>4. a + 0 = a  OBVIOUS
  <2> QED BY <1>2, <2>3, <2>4
<1>4. ASSUME NEW k \in 1..n, k - 1 \in K PROVE k \in K
  <2>1. k - 1 \in Nat /\ (k - 1) + 1 = k /\ a + (k - 1) \in Nat /\ (a + (k - 1)) + 1 = a + k
    OBVIOUS
  <2>2. \A j \in 1..k : w[j] \in Int  BY <1>1
  <2>3. Sum(w, k - 1) \in Int /\ Sum(w, k) = Sum(w, k - 1) + w[k]  BY <2>1, <2>2, SumSteps
  <2>4. \A j \in 1..(a + k) : v[j] \in Int  OBVIOUS
  <2>5. Sum(v, a + (k - 1)) \in Int /\ Sum(v, a + k) = Sum(v, a + (k - 1)) + v[a + k]
    BY <2>1, <2>4, SumSteps
  <2>6. w[k] = v[a + k] /\ w[k] \in Int  BY <1>1
  <2>7. Sum(w, k - 1) = Sum(v, a + (k - 1)) - Sum(v, a)  BY <1>4
  <2> QED BY <1>2, <2>3, <2>5, <2>6, <2>7
<1>5. 0..n \subseteq K
  <2> HIDE DEF K
  <2> QED BY <1>3, <1>4, Rounds
<1> QED BY <1>5

\* A derivable timeframe is a multiple of its source.
LEMMA Ratio ==
  ASSUME NEW d \in Nat \ {0}, NEW T \in Nat \ {0}, Derivable(d, T)
  PROVE  T \div d \in Nat \ {0} /\ T = (T \div d) * d
<1>1. T % d = 0 /\ d < T  BY DEF Derivable
<1>2. T \div d \in Int /\ T = d * (T \div d) + (T % d)  OBVIOUS
<1>3. T = d * (T \div d)  BY <1>1, <1>2
<1>4. T \div d > 0
  <2>1. T \div d \in 1..MaxDerivationRatio /\ MaxDerivationRatio \in Nat
    BY SMT DEF Derivable, MaxDerivationRatio
  <2> QED BY <2>1
<1> QED BY <1>2, <1>3, <1>4

\* The bars of a bucket.
LEMMA BucketIs ==
  ASSUME NEW s \in Seq(ValidCandles), NEW ratio \in Nat \ {0},
         NEW b \in 1..(Len(s) \div ratio)
  PROVE  LET lo == (b - 1) * ratio IN
         /\ lo \in Nat /\ lo + ratio = b * ratio /\ lo + ratio <= Len(s)
         /\ Bucket(s, ratio, b) \in Seq(ValidCandles) /\ Len(Bucket(s, ratio, b)) = ratio
         /\ \A k \in 1..ratio : Bucket(s, ratio, b)[k] = s[lo + k]
<1> DEFINE lo == (b - 1) * ratio
           L == Len(s)
           q == L \div ratio
<1>1. L \in Nat /\ q \in Nat /\ q * ratio <= L
  <2>1. L \in Nat  OBVIOUS
  <2> HIDE DEF L
  <2>2. L \div ratio \in Nat /\ L = ratio * (L \div ratio) + (L % ratio) /\ L % ratio >= 0
    BY <2>1
  <2>3. ratio * (L \div ratio) = (L \div ratio) * ratio  BY <2>2
  <2> QED BY <2>1, <2>2, <2>3
<1>2. b \in Nat /\ b <= q /\ b - 1 \in Nat
  <2> HIDE DEF q
  <2>1. b \in 1..q  BY DEF q
  <2> QED BY <1>1, <2>1
<1>3. lo \in Nat
  <2>1. \A x, y \in Nat : x * y \in Nat  OBVIOUS
  <2> QED BY <1>2, <2>1
<1>4. lo + ratio = b * ratio /\ b * ratio \in Int
  <2>1. b - 1 \in Int /\ ratio \in Int /\ (b - 1) + 1 = b  BY <1>2
  <2> HIDE DEF lo
  <2> QED BY <2>1, OneMore DEF lo
<1>5. b * ratio <= q * ratio
  <2> HIDE DEF q
  <2>1. b \in Int /\ q \in Int  BY <1>1, <1>2
  <2> QED BY <1>2, <2>1, MultiplesOrder
<1>6. lo + ratio <= L
  <2> HIDE DEF lo, q, L
  <2>1. q * ratio \in Int  BY <1>1
  <2> QED BY <1>1, <1>3, <1>4, <1>5, <2>1
<1>7. Bucket(s, ratio, b) = SubSeq(s, lo + 1, lo + ratio)  BY <1>4 DEF Bucket
<1> HIDE DEF lo, q
<1>8. /\ SubSeq(s, lo + 1, lo + ratio) \in Seq(ValidCandles)
      /\ Len(SubSeq(s, lo + 1, lo + ratio)) = ratio
      /\ \A k \in 1..ratio : SubSeq(s, lo + 1, lo + ratio)[k] = s[lo + k]
  <2>1. lo + 1 \in 1..(Len(s) + 1) /\ lo + ratio \in lo..Len(s)  BY <1>3, <1>6
  <2>2. /\ SubSeq(s, lo + 1, lo + ratio) \in Seq(ValidCandles)
        /\ Len(SubSeq(s, lo + 1, lo + ratio)) = (lo + ratio) - (lo + 1) + 1
    BY <1>3, <1>6, <2>1, SubSeqProperties
  <2>3. (lo + ratio) - (lo + 1) + 1 = ratio  BY <1>3
  <2>4. ASSUME NEW k \in 1..ratio PROVE SubSeq(s, lo + 1, lo + ratio)[k] = s[lo + k]
    <3>1. (lo + 1) + k - 1 = lo + k  BY <1>3
    <3>2. SubSeq(s, lo + 1, lo + ratio)[k] = s[(lo + 1) + k - 1]
      BY <1>3, <1>6, <2>2, <2>3
    <3> QED BY <3>1, <3>2
  <2> QED BY <2>2, <2>3, <2>4
<1> QED BY <1>3, <1>4, <1>6, <1>7, <1>8 DEF lo

\* The bars that lie within some times.
Within(s, opens, closes) ==
  {i \in DOMAIN s : opens <= s[i].open_time /\ s[i].close_time <= closes}

\* Bucket b of a canonical series of timeframe d, in timeframe T.
Bucketed(s, d, ratio, b, T, opens) ==
  /\ s \in Seq(ValidCandles) /\ d \in Nat \ {0} /\ Canonical(s, d)
  /\ ratio \in Nat \ {0} /\ b \in 1..(Len(s) \div ratio)
  /\ T = ratio * d /\ opens = s[1].open_time + (b - 1) * T

\* The bars inside a bucket's times are those it was made of.
LEMMA BucketInside ==
  ASSUME NEW s, NEW d, NEW ratio, NEW b, NEW T, NEW opens, Bucketed(s, d, ratio, b, T, opens)
  PROVE  LET lo == (b - 1) * ratio IN
         /\ Within(s, opens, ExpectedClose(opens, T)) = (lo + 1)..(lo + ratio)
         /\ s[lo + ratio].close_time = ExpectedClose(opens, T)
<1> DEFINE lo == (b - 1) * ratio
           hi == lo + ratio
           o == s[1].open_time
           L == Len(s)
<1>0. /\ s \in Seq(ValidCandles) /\ d \in Nat \ {0} /\ Canonical(s, d)
      /\ ratio \in Nat \ {0} /\ b \in 1..(Len(s) \div ratio)
      /\ T = ratio * d /\ opens = o + (b - 1) * T
  BY DEF Bucketed
<1>1. /\ L \in Nat \ {0} /\ o \in Int /\ DOMAIN s = 1..L
      /\ \A i \in 1..L : /\ s[i].open_time = o + (i - 1) * d
                         /\ s[i].close_time = o + i * d - 1
  BY <1>0, CanonicalTimes
<1>2. lo \in Nat /\ hi <= L /\ hi = b * ratio /\ hi \in Nat /\ b \in Int
  <2>1. lo \in Nat /\ hi <= L /\ hi = b * ratio  BY <1>0, BucketIs
  <2>2. hi \in Nat
    <3> HIDE DEF lo
    <3> QED BY <1>0, <2>1
  <2>3. b \in Int  BY <1>0
  <2> QED BY <2>1, <2>2, <2>3
<1>3. (b - 1) * T = lo * d /\ T \in Int /\ lo * d \in Int
  <2>1. \A x, y, z \in Int : x * (y * z) = (x * y) * z  OBVIOUS
  <2>2. b - 1 \in Int /\ ratio \in Int /\ d \in Int  BY <1>0, <1>2
  <2>3. (b - 1) * (ratio * d) = ((b - 1) * ratio) * d  BY <2>1, <2>2
  <2>4. T \in Int  BY <1>0, <2>2
  <2>5. lo * d \in Int
    <3> HIDE DEF lo
    <3> QED BY <1>0, <1>2
  <2> QED BY <1>0, <2>3, <2>4, <2>5
<1>4. lo * d + T = hi * d /\ hi * d \in Int
  <2>1. \A x, y, z \in Int : x * z + y * z = (x + y) * z  OBVIOUS
  <2>2. lo \in Int /\ ratio \in Int /\ d \in Int  BY <1>0, <1>2
  <2> HIDE DEF lo
  <2>3. lo * d + ratio * d = (lo + ratio) * d  BY <2>1, <2>2
  <2>4. (lo + ratio) * d \in Int  BY <2>2
  <2> QED BY <1>0, <2>3, <2>4
<1>5. opens = o + lo * d /\ ExpectedClose(opens, T) = o + hi * d - 1
  <2>1. opens = o + lo * d  BY <1>0, <1>3
  <2>2. ExpectedClose(opens, T) = opens + T - 1  BY DEF ExpectedClose
  <2> HIDE DEF lo, hi, o
  <2>3. \A x, y, z, t \in Int : y + t = z => (x + y) + t - 1 = x + z - 1  OBVIOUS
  <2> QED BY <1>1, <1>3, <1>4, <2>1, <2>2, <2>3
<1> HIDE DEF lo, hi, o, L
<1>6. ASSUME NEW i \in 1..L
      PROVE  opens <= s[i].open_time /\ s[i].close_time <= ExpectedClose(opens, T)
               <=> i \in (lo + 1)..hi
  <2>1. i \in Int /\ i - 1 \in Int /\ lo \in Int /\ hi \in Int /\ d \in Nat \ {0}  BY <1>0, <1>2
  <2>2. lo <= i - 1 <=> lo * d <= (i - 1) * d  BY <2>1, MultiplesOrder
  <2>3. i <= hi <=> i * d <= hi * d  BY <2>1, MultiplesOrder
  <2>4. s[i].open_time = o + (i - 1) * d /\ s[i].close_time = o + i * d - 1  BY <1>1
  <2>5. (i - 1) * d \in Int /\ i * d \in Int  BY <2>1
  <2>6. opens <= s[i].open_time <=> lo * d <= (i - 1) * d
    <3>1. \A x, y, z \in Int : x + y <= x + z <=> y <= z  OBVIOUS
    <3> QED BY <1>1, <1>3, <1>5, <2>4, <2>5, <3>1
  <2>7. s[i].close_time <= ExpectedClose(opens, T) <=> i * d <= hi * d
    <3>1. \A x, y, z \in Int : x + y - 1 <= x + z - 1 <=> y <= z  OBVIOUS
    <3> QED BY <1>1, <1>4, <1>5, <2>4, <2>5, <3>1
  <2>8. i \in (lo + 1)..hi <=> lo <= i - 1 /\ i <= hi  BY <2>1
  <2> QED BY <2>2, <2>3, <2>6, <2>7, <2>8
<1>7. (lo + 1)..hi \subseteq 1..L
  <2>1. L \in Int /\ lo \in Nat /\ hi \in Nat /\ hi <= L  BY <1>1, <1>2
  <2> QED BY <2>1
<1>8. Within(s, opens, ExpectedClose(opens, T)) = (lo + 1)..hi
  BY <1>1, <1>6, <1>7 DEF Within
<1>9. s[hi].close_time = ExpectedClose(opens, T)
  <2>1. hi \in 1..L
    <3>1. lo \in Nat /\ ratio \in Nat \ {0} /\ hi = lo + ratio /\ hi <= L /\ L \in Int
      BY <1>0, <1>1, <1>2 DEF hi
    <3> QED BY <3>1
  <2> QED BY <1>1, <1>5, <2>1
<1> QED BY <1>8, <1>9 DEF lo, hi

\* A resampled candle summarizes the bars of its bucket.
LEMMA BucketSummarizes ==
  ASSUME NEW s, NEW d, NEW ratio, NEW b, NEW T, NEW opens, Bucketed(s, d, ratio, b, T, opens)
  PROVE  Summarizes(AggregateBucket(Bucket(s, ratio, b), opens, T), s)
<1> DEFINE lo == (b - 1) * ratio
           hi == lo + ratio
           part == Bucket(s, ratio, b)
           c == AggregateBucket(part, opens, T)
           closes == ExpectedClose(opens, T)
           inside == Within(s, opens, closes)
<1>0. /\ s \in Seq(ValidCandles) /\ ratio \in Nat \ {0} /\ b \in 1..(Len(s) \div ratio)
  BY DEF Bucketed
<1>1. /\ lo \in Nat /\ hi <= Len(s) /\ part \in Seq(ValidCandles) /\ Len(part) = ratio
      /\ \A k \in 1..ratio : part[k] = s[lo + k]
  BY <1>0, BucketIs
<1>2. inside = (lo + 1)..hi /\ s[hi].close_time = closes
  BY BucketInside
<1>3. /\ c.open_time = opens /\ c.close_time = closes
      /\ c.open = part[1].open /\ c.close = Last(part).close
      /\ c.high = Highest({part[i].high : i \in DOMAIN part})
      /\ c.low = Lowest({part[i].low : i \in DOMAIN part})
      /\ c.volume = Sum(Volumes(part), Len(part))
  BY DEF AggregateBucket, Candle
<1> HIDE DEF c, part, inside, closes, lo
<1>4. lo + 1 \in Int /\ hi \in Int /\ lo + 1 <= hi /\ hi \in Nat /\ DOMAIN part = 1..ratio
  BY <1>0, <1>1
<1>5. Lowest(inside) = lo + 1 /\ Highest(inside) = hi
  <2>1. inside \in SUBSET Int /\ lo + 1 \in inside /\ hi \in inside
        /\ \A y \in inside : lo + 1 <= y /\ y <= hi
    BY <1>2, <1>4
  <2> HIDE DEF hi
  <2> QED BY <2>1, HighestIs, LowestIs
<1>6. c.open = s[lo + 1].open /\ c.close = s[hi].close
  <2>1. part[1] = s[lo + 1]  BY <1>0, <1>1, <1>4
  <2>2. Last(part) = part[ratio] /\ part[ratio] = s[hi]  BY <1>0, <1>1 DEF Last
  <2> QED BY <1>3, <2>1, <2>2
<1>7. \A i \in inside : i - lo \in 1..ratio /\ lo + (i - lo) = i
  BY <1>0, <1>1, <1>2
<1>8. \A k \in 1..ratio : lo + k \in inside  BY <1>0, <1>1, <1>2
<1>9. {part[i].high : i \in DOMAIN part} = {s[i].high : i \in inside}
  <2>1. \A k \in 1..ratio : part[k].high = s[lo + k].high /\ lo + k \in inside  BY <1>1, <1>8
  <2>2. \A i \in inside : s[i].high = part[i - lo].high /\ i - lo \in 1..ratio
    <3> SUFFICES ASSUME NEW i \in inside
                 PROVE  s[i].high = part[i - lo].high /\ i - lo \in 1..ratio
      OBVIOUS
    <3>1. i - lo \in 1..ratio /\ lo + (i - lo) = i  BY <1>7
    <3>2. part[i - lo] = s[lo + (i - lo)]  BY <1>1, <3>1
    <3> QED BY <3>1, <3>2
  <2>3. {part[i].high : i \in 1..ratio} \subseteq {s[i].high : i \in inside}  BY <2>1
  <2>4. {s[i].high : i \in inside} \subseteq {part[i].high : i \in 1..ratio}  BY <2>2
  <2> QED BY <1>4, <2>3, <2>4
<1>10. {part[i].low : i \in DOMAIN part} = {s[i].low : i \in inside}
  <2>1. \A k \in 1..ratio : part[k].low = s[lo + k].low /\ lo + k \in inside  BY <1>1, <1>8
  <2>2. \A i \in inside : s[i].low = part[i - lo].low /\ i - lo \in 1..ratio
    <3> SUFFICES ASSUME NEW i \in inside
                 PROVE  s[i].low = part[i - lo].low /\ i - lo \in 1..ratio
      OBVIOUS
    <3>1. i - lo \in 1..ratio /\ lo + (i - lo) = i  BY <1>7
    <3>2. part[i - lo] = s[lo + (i - lo)]  BY <1>1, <3>1
    <3> QED BY <3>1, <3>2
  <2>3. {part[i].low : i \in 1..ratio} \subseteq {s[i].low : i \in inside}  BY <2>1
  <2>4. {s[i].low : i \in inside} \subseteq {part[i].low : i \in 1..ratio}  BY <2>2
  <2> QED BY <1>4, <2>3, <2>4
<1>11. Sum(Volumes(part), ratio) = Sum(Volumes(s), hi) - Sum(Volumes(s), lo)
  <2>0. Len(s) \in Nat /\ lo \in Nat /\ ratio \in Nat /\ lo + ratio <= Len(s)  BY <1>0, <1>1
  <2>1. DOMAIN s = 1..Len(s) /\ \A i \in 1..Len(s) : s[i].volume \in Int
    <3>1. Len(s) \in Nat /\ DOMAIN s = 1..Len(s) /\ \A i \in 1..Len(s) : s[i] \in ValidCandles
      BY <1>0, SequenceElements
    <3> QED BY <3>1 DEF ValidCandles
  <2>2. \A k \in 1..(lo + ratio) : Volumes(s)[k] \in Int
    <3>1. \A k \in 1..(lo + ratio) : k \in 1..Len(s)  BY <2>0
    <3> QED BY <2>1, <3>1 DEF Volumes
  <2>3. ASSUME NEW k \in 1..ratio PROVE Volumes(part)[k] = Volumes(s)[lo + k]
    <3>3. lo + k \in 1..Len(s)  BY <2>0
    <3>1. lo + k \in 1..Len(s) /\ part[k] = s[lo + k]  BY <1>1, <3>3
    <3> QED BY <1>4, <2>1, <3>1 DEF Volumes
  <2> DEFINE v == Volumes(s)
             w == Volumes(part)
  <2>4. lo \in Nat /\ ratio \in Nat  BY <1>0, <1>1
  <2> HIDE DEF v, w
  <2>5. Sum(w, ratio) = Sum(v, lo + ratio) - Sum(v, lo)
    BY <2>2, <2>3, <2>4, SumOfPart DEF v, w
  <2> QED BY <2>5 DEF v, w
<1>12. c.volume = Sum(Volumes(s), hi) - Sum(Volumes(s), lo)
  <2> HIDE DEF hi
  <2> QED BY <1>1, <1>3, <1>11
<1>13. {i \in DOMAIN s : c.open_time <= s[i].open_time /\ s[i].close_time <= c.close_time} = inside
  BY <1>3 DEF inside, Within
<1>14. (lo + 1) - 1 = lo  BY <1>1
<1>15. Summarizes(c, s)
  <2> HIDE DEF hi
  <2> QED BY <1>2, <1>3, <1>5, <1>6, <1>9, <1>10, <1>12, <1>13, <1>14 DEF Summarizes
<1> QED BY <1>15 DEF c, part

-----------------------------------------------------------------------------
(* What a view says.                                                        *)

\* What a bar shows of an indicator comes from its calculator.
LEMMA ItemIs ==
  ASSUME NotAFunction(None), NotAFunction(Refused), NEW in, GoodInput(in),
         NEW i \in 1..Len(in.execution), NEW s \in Slots,
         IndicatorsAt(in, i, s).indicators # None, NEW key \in Keys[s]
  PROVE  LET C == Candles(in, s)
             n == Shown(in, i, s)
             item == IndicatorsAt(in, i, s).indicators.items[key]
         IN /\ n \in 1..Len(C)
            /\ item.history = [items |-> Values(key, C), end |-> n]
            /\ item.latest = Values(key, C)[n]
<1> DEFINE C == Candles(in, s)
           n == Shown(in, i, s)
           v == IndicatorsAt(in, i, s)
<1>1. C \in Seq(ValidCandles) /\ Len(C) \in Nat /\ n \in 0..Len(C) /\ ValidKey(key)
  BY SlotCandles, ShownIsClosed, KeysAre
<1>2. v = SlotView(BundleAt(in, s), n) /\ Keys[s] # {}  BY DEF IndicatorsAt
<1>3. n > 0
  <2>1. CASE n = 0
    <3>1. v = [configured |-> TRUE, indicators |-> None, ready |-> FALSE]
      BY <1>1, <1>2, <2>1, SlotViewIs
    <3>2. v.indicators = None  BY <3>1
    <3> QED BY <3>2
  <2> HIDE DEF n, C
  <2> QED BY <1>1, <2>1
<1>4. v.indicators = IndicatorsOf(s, C, n)
  <2>1. v = [configured |-> TRUE, indicators |-> IndicatorsOf(s, C, n),
             ready |-> IndicatorsOf(s, C, n).ready]
    BY <1>1, <1>2, <1>3, SlotViewIs
  <2> HIDE DEF v, C, n
  <2> QED BY <2>1
<1>5. v.indicators.items[key] = Item(Calculator(s, key, C), n)
  <2> HIDE DEF v, C, n
  <2> QED BY <1>4 DEF IndicatorsOf, ItemsOf
<1>6. Calculator(s, key, C).values = Values(key, C)
  BY <1>1, CalculatedIs DEF Calculator
<1> HIDE DEF v, C, n
<1>7. /\ Item(Calculator(s, key, C), n).latest = Values(key, C)[n]
      /\ Item(Calculator(s, key, C), n).history = [items |-> Values(key, C), end |-> n]
  <2>1. n # 0  BY <1>1, <1>3
  <2> QED BY <1>6, <2>1 DEF Item, Latest
<1>8. n \in 1..Len(C)  BY <1>1, <1>3
<1> QED BY <1>5, <1>7, <1>8 DEF v, C, n

\* What a bar shows of an indicator is what its definition says.
LEMMA LatestSays ==
  ASSUME NotAFunction(None), NotAFunction(Refused), NEW in, GoodInput(in),
         NEW i \in 1..Len(in.execution), NEW s \in Slots,
         IndicatorsAt(in, i, s).indicators # None, NEW key \in Keys[s]
  PROVE  Says(key, Candles(in, s), Shown(in, i, s),
              IndicatorsAt(in, i, s).indicators.items[key].latest)
<1> DEFINE C == Candles(in, s)
           n == Shown(in, i, s)
           v == IndicatorsAt(in, i, s)
<1>1. C \in Seq(ValidCandles) /\ Len(C) \in Nat /\ ValidKey(key)  BY SlotCandles, KeysAre
<1>2. n \in 1..Len(C) /\ v.indicators.items[key].latest = Values(key, C)[n]  BY ItemIs
<1> HIDE DEF v, C, n
<1>3. Says(key, C, n, Values(key, C)[n])  BY <1>1, <1>2, ValuesSound DEF Sound
<1> QED BY <1>2, <1>3 DEF v, C, n

\* The last two values a provider reads of an average are one step apart.
LEMMA LatestSteps ==
  ASSUME NotAFunction(None), NotAFunction(Refused), NEW in, GoodInput(in),
         NEW i \in 1..Len(in.execution), NEW s \in Slots,
         IndicatorsAt(in, i, s).indicators # None, NEW key \in Keys[s]
  PROVE  AverageSteps(key, Candles(in, s), Shown(in, i, s),
                      IndicatorsAt(in, i, s).indicators.items[key].history)
<1> DEFINE C == Candles(in, s)
           n == Shown(in, i, s)
           v == IndicatorsAt(in, i, s)
           p == key.period
           gain == IF key.code = "ema_close" THEN 2 ELSE 1
           inputs == [j \in DOMAIN C |->
                        IF key.code = "ema_close" THEN C[j].close ELSE RangeAt(C, j)]
           values == Values(key, C)
           h == [items |-> values, end |-> n]
<1>1. C \in Seq(ValidCandles) /\ Len(C) \in Nat /\ DOMAIN C = 1..Len(C) /\ n \in 0..Len(C)
      /\ ValidKey(key)
  BY SlotCandles, ShownIsClosed, KeysAre
<1>2. v.indicators.items[key].history = h  BY ItemIs
<1>3. SUFFICES ASSUME key.code \in AverageCodes, n >= p
               PROVE  Steps(GetItem(h, -1), GetItem(h, -2), inputs, n, p, gain)
  <2>1. key.code \in AverageCodes /\ n >= key.period =>
          Steps(GetItem(h, -1), GetItem(h, -2), inputs, n, key.period, gain)
    BY <1>3
  <2>2. AverageSteps(key, C, n, h)
    <3> HIDE DEF h, C, n
    <3> QED BY <2>1 DEF AverageSteps
  <2> HIDE DEF v, h, C, n
  <2>3. AverageSteps(key, C, n, v.indicators.items[key].history)  BY <1>2, <2>2
  <2> QED BY <2>3 DEF v, C, n
<1>4. p \in Nat \ {0} /\ n \in 1..Len(C) /\ gain \in Nat \ {0}
  <2>1. p \in Nat \ {0}
    <3>1. key.code # "true_range"  BY <1>3 DEF AverageCodes
    <3> QED BY <1>1, <3>1, Kinds
  <2> HIDE DEF C, n, p
  <2> QED BY <1>1, <1>3, <2>1
<1>5. /\ inputs \in Seq(Int) /\ Len(inputs) = Len(C)
      /\ values = Smoothed(inputs, p, p - 1, gain)
  <2>1. CASE key.code = "ema_close"
    <3>1. /\ Closes(C) \in Seq(Int) /\ Len(Closes(C)) = Len(C)
          /\ \A j \in 1..Len(C) : Closes(C)[j] = C[j].close
      BY <1>1, Columns
    <3>2. values = Smoothed(Closes(C), p, p - 1, 2)  BY <1>1, <2>1, ValuesOf
    <3>3. inputs = [j \in 1..Len(C) |-> C[j].close]  BY <1>1, <2>1
    <3>4. inputs = Closes(C)
      <4> HIDE DEF C, inputs
      <4> QED BY <3>1, <3>3
    <3> HIDE DEF inputs, values, C, p
    <3> QED BY <2>1, <3>1, <3>2, <3>4
  <2>2. CASE key.code # "ema_close"
    <3>1. /\ TrueRange(C) \in Seq(Int) /\ Len(TrueRange(C)) = Len(C)
          /\ \A j \in 1..Len(C) : TrueRange(C)[j] = RangeAt(C, j)
      BY <1>1, TrueRangeType, TrueRangeIs
    <3>5. key.code = "wilder_atr"  BY <1>3, <2>2 DEF AverageCodes
    <3>2. values = Smoothed(TrueRange(C), p, p - 1, 1)  BY <1>1, <3>5, ValuesOf
    <3>3. inputs = [j \in 1..Len(C) |-> RangeAt(C, j)]  BY <1>1, <2>2
    <3>4. inputs = TrueRange(C)
      <4> HIDE DEF C, inputs
      <4> QED BY <3>1, <3>3
    <3> HIDE DEF inputs, values, C, p
    <3> QED BY <2>2, <3>1, <3>2, <3>4
  <2> QED BY <2>1, <2>2
<1> HIDE DEF v, inputs, values, C, n, p, gain
<1>6. GetItem(h, -1) = values[n] /\ (n > 1 => GetItem(h, -2) = values[n - 1])
  BY <1>4 DEF GetItem
<1>7. n > 1 => GetItem(h, -2) = Smoothed(inputs, p, p - 1, gain)[n - 1]
  <2> HIDE DEF h
  <2> QED BY <1>5, <1>6
<1>8. Steps(Smoothed(inputs, p, p - 1, gain)[n], GetItem(h, -2), inputs, n, p, gain)
  <2> HIDE DEF h
  <2>2. n \in 1..Len(inputs) /\ inputs \in Seq(Int)  BY <1>4, <1>5
  <2> QED BY <1>3, <1>4, <1>7, <2>2, SmoothedSteps
<1> HIDE DEF h
<1> QED BY <1>5, <1>6, <1>8

\* A context that was resampled shows summaries of the bars it was made of.
LEMMA ResampledSummarizes ==
  ASSUME NotAFunction(Refused), NEW s \in Seq(ValidCandles),
         NEW d \in Nat \ {0}, NEW T \in Nat \ {0}, ResampleCandles(s, d, T) # Refused,
         NEW j \in 1..Len(ResampleCandles(s, d, T))
  PROVE  Summarizes(ResampleCandles(s, d, T)[j], s)
<1> DEFINE ratio == T \div d
           all == AggregateCompleteBuckets(s, d, T)
           opens == s[1].open_time + (j - 1) * T
<1>1. Derivable(d, T) /\ Canonical(s, d) /\ ResampleCandles(s, d, T) = all
  BY DEF ResampleCandles, FromVerifiedSeries
<1>2. ratio \in Nat \ {0} /\ T = ratio * d  BY <1>1, Ratio
<1>3. all = [b \in 1..(Len(s) \div ratio) |->
               AggregateBucket(Bucket(s, ratio, b), s[1].open_time + (b - 1) * T, T)]
  BY DEF AggregateCompleteBuckets
<1>4. Len(s) \div ratio \in Nat
  <2>1. Len(s) \in Nat  OBVIOUS
  <2> HIDE DEF ratio
  <2>2. \A x \in Nat : x \div ratio \in Nat  BY <1>2
  <2> QED BY <2>1, <2>2
<1> HIDE DEF ratio, all
<1>5. Len(all) = Len(s) \div ratio
  <2> DEFINE N == Len(s) \div ratio
  <2>1. all \in [1..N -> {all[b] : b \in 1..N}]  BY <1>3
  <2>2. N \in Nat  BY <1>4
  <2> HIDE DEF N
  <2>3. Len(all) = N  BY <2>1, <2>2, FunctionIsSequence
  <2> QED BY <2>3 DEF N
<1>6. j \in 1..(Len(s) \div ratio)  BY <1>1, <1>5
<1>7. all[j] = AggregateBucket(Bucket(s, ratio, j), opens, T)  BY <1>3, <1>6
<1>8. Bucketed(s, d, ratio, j, T, opens)  BY <1>1, <1>2, <1>6 DEF Bucketed
<1> HIDE DEF opens
<1>9. Summarizes(AggregateBucket(Bucket(s, ratio, j), opens, T), s)  BY <1>8, BucketSummarizes
<1> QED BY <1>1, <1>7, <1>9

-----------------------------------------------------------------------------
(* Other prices in a candle that has not closed.                            *)

\* Series whose candles have the same times.
SameTimes(c, d) ==
  /\ c \in Seq(ValidCandles) /\ d \in Seq(ValidCandles) /\ Len(d) = Len(c)
  /\ \A k \in 1..Len(c) : d[k].open_time = c[k].open_time /\ d[k].close_time = c[k].close_time

\* Whether a series is canonical depends on its times.
LEMMA SameTimesCanonical ==
  ASSUME NEW c, NEW d, SameTimes(c, d), NEW duration, Canonical(c, duration)
  PROVE  Canonical(d, duration)
<1>1. DOMAIN c = 1..Len(c) /\ DOMAIN d = 1..Len(c) /\ Len(c) \in Nat /\ Len(d) = Len(c)
  BY DEF SameTimes
<1>2. \A k \in 1..Len(c) : d[k].open_time = c[k].open_time /\ d[k].close_time = c[k].close_time
  BY DEF SameTimes
<1>3. d # <<>>
  <2>1. c # <<>> /\ c \in Seq(ValidCandles)  BY DEF Canonical, SameTimes
  <2>2. Len(c) # 0  BY <2>1
  <2>3. Len(<<>>) = 0  OBVIOUS
  <2> QED BY <1>1, <2>2, <2>3
<1>4. \A k \in 1..(Len(c) - 1) : k \in 1..Len(c) /\ k + 1 \in 1..Len(c)  BY <1>1
<1>5. \A k \in 1..(Len(c) - 1) : d[k + 1].open_time = d[k].open_time + duration
  BY <1>1, <1>2, <1>4 DEF Canonical
<1>6. \A k \in 1..Len(c) :
        /\ IsAligned(d[k].open_time, duration)
        /\ d[k].close_time = ExpectedClose(d[k].open_time, duration)
  BY <1>1, <1>2 DEF Canonical
<1> QED BY <1>1, <1>3, <1>5, <1>6 DEF Canonical

\* The alignment depends on times.
LEMMA SameTimesMapping ==
  ASSUME NEW e, NEW f, SameTimes(e, f), InOrder(e), InOrder(f),
         NEW c, NEW d, SameTimes(c, d), InOrder(c), InOrder(d)
  PROVE  NoLookaheadMapping(f, d) = NoLookaheadMapping(e, c)
<1>1. /\ DOMAIN e = 1..Len(e) /\ DOMAIN f = 1..Len(f) /\ Len(f) = Len(e) /\ Len(d) = Len(c)
  BY DEF SameTimes
<1>2. ASSUME NEW b \in 1..Len(e)
      PROVE  NoLookaheadMapping(f, d)[b] = NoLookaheadMapping(e, c)[b]
  <2>1. f[b].close_time = e[b].close_time  BY DEF SameTimes
  <2>2. ClosedAt(d, f[b].close_time) = ClosedAt(c, e[b].close_time)
    BY <1>1, <2>1 DEF ClosedAt, SameTimes
  <2>3. NoLookaheadMapping(f, d)[b] = Cardinality(ClosedAt(d, f[b].close_time))
    BY <1>1, MappingCounts
  <2>4. NoLookaheadMapping(e, c)[b] = Cardinality(ClosedAt(c, e[b].close_time))
    BY <1>1, MappingCounts
  <2> QED BY <2>2, <2>3, <2>4
<1>3. /\ NoLookaheadMapping(f, d) = [b \in 1..Len(e) |-> NoLookaheadMapping(f, d)[b]]
      /\ NoLookaheadMapping(e, c) = [b \in 1..Len(e) |-> NoLookaheadMapping(e, c)[b]]
  BY <1>1, MappingDomain
<1> QED BY <1>2, <1>3

\* Whether a mapping is bound to candles depends on their times.
LEMMA SameTimesBound ==
  ASSUME NEW e, NEW f, SameTimes(e, f), NEW c, NEW d, SameTimes(c, d),
         NEW mapping, MappingBound(e, c, mapping),
         NoLookaheadMapping(f, d) = NoLookaheadMapping(e, c)
  PROVE  MappingBound(f, d, mapping)
<1>1. /\ Len(f) = Len(e) /\ Len(d) = Len(c) /\ Len(e) \in Nat /\ Len(c) \in Nat
      /\ \A k \in 1..Len(c) : d[k].close_time = c[k].close_time
      /\ \A k \in 1..Len(e) : f[k].close_time = e[k].close_time
      /\ DOMAIN e = 1..Len(e)
  BY DEF SameTimes
<1>2. mapping = NoLookaheadMapping(e, c) /\ Len(mapping) = Len(e)  BY DEF MappingBound
<1>3. DOMAIN mapping = 1..Len(e)
  <2>1. DOMAIN NoLookaheadMapping(e, c) = DOMAIN e  BY DEF NoLookaheadMapping
  <2> QED BY <1>1, <1>2, <2>1
<1>4. ASSUME NEW i \in DOMAIN mapping
      PROVE  /\ mapping[i] \in 0..Len(d)
             /\ mapping[i] > 0 =>
                  /\ d[mapping[i]].close_time <= f[i].close_time
                  /\ \A j \in 1..(i - 1) : mapping[j] <= mapping[i]
  <2>1. /\ mapping[i] \in 0..Len(c)
        /\ mapping[i] > 0 =>
             /\ c[mapping[i]].close_time <= e[i].close_time
             /\ \A j \in 1..(i - 1) : mapping[j] <= mapping[i]
    BY DEF MappingBound
  <2>2. mapping[i] > 0 => mapping[i] \in 1..Len(c)  BY <1>1, <2>1
  <2> QED BY <1>1, <1>3, <2>1, <2>2
<1> QED BY <1>1, <1>2, <1>4 DEF MappingBound

\* Whether an input is acceptable depends on the times of its candles.
LEMMA AcceptableAgain ==
  ASSUME NEW e, NEW f, SameTimes(e, f),
         NEW C, NEW D, Len(D) = Len(C), \A k \in 1..Len(Requirements) : SameTimes(C[k], D[k]),
         Acceptable(e, C)
  PROVE  /\ Acceptable(f, D)
         /\ \A k \in 1..Len(Requirements) :
              NoLookaheadMapping(f, D[k]) = NoLookaheadMapping(e, C[k])
<1>1. ExecutionTf \in Nat \ {0} /\ \A k \in 1..Len(Requirements) : Requirements[k].timeframe \in Nat \ {0}
  <2>1. \A k \in 1..Len(Requirements) : Timeframe(k + 1) = Requirements[k].timeframe
    BY SlotsAre DEF Timeframe
  <2>2. Timeframe(1) = ExecutionTf  BY DEF Timeframe
  <2> QED BY <2>1, <2>2, SlotsAre
<1>2. e \in Seq(ValidCandles) /\ f \in Seq(ValidCandles)  BY DEF SameTimes
<1>3. Canonical(e, ExecutionTf)  BY DEF Acceptable
<1>4. Canonical(f, ExecutionTf)  BY <1>3, SameTimesCanonical
<1>5. InOrder(e) /\ InOrder(f)  BY <1>1, <1>2, <1>3, <1>4, CanonicalInOrder
<1>6. ASSUME NEW k \in 1..Len(Requirements)
      PROVE  /\ NoLookaheadMapping(f, D[k]) = NoLookaheadMapping(e, C[k])
             /\ Canonical(D[k], Requirements[k].timeframe)
             /\ MappingBound(f, D[k], NoLookaheadMapping(f, D[k]))
  <2>1. /\ Canonical(C[k], Requirements[k].timeframe)
        /\ MappingBound(e, C[k], NoLookaheadMapping(e, C[k]))
    BY DEF Acceptable
  <2>2. SameTimes(C[k], D[k])  OBVIOUS
  <2>3. C[k] \in Seq(ValidCandles) /\ D[k] \in Seq(ValidCandles)  BY <2>2 DEF SameTimes
  <2>4. Canonical(D[k], Requirements[k].timeframe)  BY <2>1, <2>2, SameTimesCanonical
  <2>5. InOrder(C[k]) /\ InOrder(D[k])  BY <1>1, <2>1, <2>3, <2>4, CanonicalInOrder
  <2>6. NoLookaheadMapping(f, D[k]) = NoLookaheadMapping(e, C[k])
    BY <1>5, <2>2, <2>5, SameTimesMapping
  <2>7. MappingBound(f, D[k], NoLookaheadMapping(e, C[k]))
    BY <2>1, <2>2, <2>6, SameTimesBound
  <2> QED BY <2>4, <2>6, <2>7
<1> QED BY <1>4, <1>6 DEF Acceptable

\* The series of the slots with other prices in one candle.
TwinCandles(in, slot, j, px) ==
  [s \in Slots |->
     IF s # slot THEN Candles(in, s)
     ELSE [Candles(in, s) EXCEPT ![j] = Candle(@.open_time, @.close_time, px, px.volume)]]

\* Candle j of a slot is not shown at bar i.
Hidden(in, i, slot, j) ==
  /\ GoodInput(in) /\ i \in 1..Len(in.execution) /\ slot \in Slots
  /\ j \in 1..Len(Candles(in, slot)) /\ ~(j <= Shown(in, i, slot))

\* Other prices in a hidden candle leave the times and what is shown.
LEMMA TwinCandlesAre ==
  ASSUME NEW in, NEW i, NEW slot, NEW j, Hidden(in, i, slot, j), NEW px \in Shapes,
         NEW s \in Slots
  PROVE  /\ SameTimes(Candles(in, s), TwinCandles(in, slot, j, px)[s])
         /\ SameCandlesUntil(Candles(in, s), TwinCandles(in, slot, j, px)[s], Shown(in, i, s))
<1> DEFINE C == Candles(in, s)
           D == TwinCandles(in, slot, j, px)[s]
           n == Shown(in, i, s)
<1>1. C \in Seq(ValidCandles) /\ Len(C) \in Nat /\ n \in 0..Len(C)
  BY SlotCandles, ShownIsClosed DEF Hidden
<1>2. CASE s # slot
  <2>1. D = C  BY <1>2 DEF TwinCandles
  <2> HIDE DEF C, D, n
  <2>2. SameTimes(C, D) /\ SameCandlesUntil(C, D, n)
    BY <1>1, <2>1 DEF SameTimes, SameCandlesUntil
  <2> QED BY <2>2 DEF C, D, n
<1>3. CASE s = slot
  <2>1. D = [C EXCEPT ![j] = Candle(@.open_time, @.close_time, px, px.volume)]
    BY <1>3 DEF TwinCandles
  <2>2. j \in 1..Len(C) /\ ~(j <= n)  BY <1>3 DEF Hidden
  <2> DEFINE x == Candle(C[j].open_time, C[j].close_time, px, px.volume)
  <2> HIDE DEF C, D, n
  <2>3. C[j] \in ValidCandles  BY <1>1, <2>2
  <2>4. x \in ValidCandles
    <3>1. Candle(0, 0, px, px.volume) \in ValidCandles  BY FeedAssumption
    <3>2. /\ px.open \in Int /\ px.high \in Int /\ px.low \in Int /\ px.close \in Int
          /\ px.volume \in Nat
          /\ px.low <= px.open /\ px.open <= px.high /\ px.low <= px.close /\ px.close <= px.high
      BY <3>1 DEF Candle, ValidCandles
    <3>3. /\ C[j].open_time \in Int /\ C[j].close_time \in Int
          /\ C[j].open_time <= C[j].close_time
      BY <2>3 DEF ValidCandles
    <3> QED BY <3>2, <3>3 DEF Candle, ValidCandles
  <2>5. x.open_time = C[j].open_time /\ x.close_time = C[j].close_time  BY DEF Candle
  <2>6. D = [C EXCEPT ![j] = x]  BY <2>1
  <2> HIDE DEF x
  <2>7. D \in Seq(ValidCandles) /\ Len(D) = Len(C)  BY <1>1, <2>2, <2>4, <2>6
  <2>8. \A k \in 1..Len(C) : D[k] = IF k = j THEN x ELSE C[k]  BY <1>1, <2>6
  <2>9. SameTimes(C, D)  BY <1>1, <2>5, <2>7, <2>8 DEF SameTimes
  <2>10. \A k \in 1..n : k # j /\ k \in 1..Len(C)  BY <1>1, <2>2
  <2>11. SameCandlesUntil(C, D, n)  BY <1>1, <2>7, <2>8, <2>10 DEF SameCandlesUntil
  <2> QED BY <2>9, <2>11 DEF C, D, n
<1> QED BY <1>2, <1>3

\* The twin of a verified input.
TwinInput(in, slot, j, px) ==
  FromVerified(Head(TwinCandles(in, slot, j, px)), Tail(TwinCandles(in, slot, j, px)))

\* The twin of a verified input is accepted and shows as many candles.
LEMMA TwinInputIs ==
  ASSUME NotAFunction(Refused),
         NEW in, NEW i, NEW slot, NEW j, Hidden(in, i, slot, j), NEW px \in Shapes
  PROVE  LET twin == TwinInput(in, slot, j, px) IN
         /\ GoodInput(twin) /\ Len(twin.execution) = Len(in.execution)
         /\ \A s \in Slots : /\ Candles(twin, s) = TwinCandles(in, slot, j, px)[s]
                             /\ Shown(twin, i, s) = Shown(in, i, s)
                             /\ s # 1 => twin.contexts[s - 1].warmup_bars
                                           = in.contexts[s - 1].warmup_bars
<1> DEFINE N == Len(Requirements)
           tc == TwinCandles(in, slot, j, px)
           f == Head(tc)
           D == Tail(tc)
           twin == TwinInput(in, slot, j, px)
<1>1. PICK e \in Seq(ValidCandles), C \in Seq(Seq(ValidCandles)) :
        Acceptable(e, C) /\ in = InputOf(e, C)
  BY DEF Hidden, GoodInput
<1>2. N \in Nat /\ Len(C) = N /\ N \in Nat \ {0}
  <2>1. N \in Nat /\ Len(C) = N  BY <1>1, SlotsAre DEF Acceptable
  <2>2. Requirements # <<>>  BY <1>1 DEF Acceptable
  <2>3. Requirements \in Seq([timeframe : Nat \ {0}, warmup_bars : Nat])  BY FeedAssumption
  <2> QED BY <2>1, <2>2, <2>3
<1>3. ASSUME NEW k \in 1..N PROVE k + 1 \in Slots /\ Candles(in, k + 1) = C[k]
  <2>1. k + 1 \in Slots /\ k + 1 # 1 /\ (k + 1) - 1 = k  BY SlotsAre
  <2>2. in.contexts[k] = ContextOf(e, C, k)  BY <1>1 DEF InputOf, ContextsOf
  <2>3. in.contexts[k].candles = C[k]  BY <2>2 DEF ContextOf
  <2> QED BY <2>1, <2>3 DEF Candles
<1>4. 1 \in Slots /\ Candles(in, 1) = e  BY <1>1, SlotsAre DEF Candles, InputOf
<1>5. \A s \in Slots : SameTimes(Candles(in, s), tc[s])  BY TwinCandlesAre
<1>6. tc \in Seq(Seq(ValidCandles)) /\ Len(tc) = N + 1
  <2>1. Slots = 1..(N + 1)  BY SlotsAre
  <2>2. tc = [s \in 1..(N + 1) |-> tc[s]]  BY <2>1 DEF TwinCandles
  <2> HIDE DEF tc
  <2>3. \A s \in 1..(N + 1) : tc[s] \in Seq(ValidCandles)  BY <1>5, <2>1 DEF SameTimes
  <2>4. tc \in [1..(N + 1) -> Seq(ValidCandles)]  BY <2>2, <2>3
  <2>5. N + 1 \in Nat  BY <1>2
  <2> QED BY <2>4, <2>5, FunctionIsSequence
<1> HIDE DEF tc
<1>7. /\ f = tc[1] /\ D \in Seq(Seq(ValidCandles)) /\ Len(D) = N
      /\ \A k \in 1..N : D[k] = tc[k + 1]
  <2>1. tc # <<>>  BY <1>2, <1>6
  <2>2. f = tc[1] /\ D \in Seq(Seq(ValidCandles)) /\ Len(D) = Len(tc) - 1
        /\ \A k \in 1..Len(D) : D[k] = tc[k + 1]
    BY <1>6, <2>1, HeadTailProperties
  <2> QED BY <1>2, <1>6, <2>2
<1> HIDE DEF f, D, N
<1>8. f \in Seq(ValidCandles) /\ SameTimes(e, f)  BY <1>4, <1>5, <1>7 DEF SameTimes
<1>9. \A k \in 1..N : SameTimes(C[k], D[k])  BY <1>3, <1>5, <1>7
<1>10. /\ Acceptable(f, D)
       /\ \A k \in 1..N : NoLookaheadMapping(f, D[k]) = NoLookaheadMapping(e, C[k])
  BY <1>1, <1>2, <1>7, <1>8, <1>9, AcceptableAgain DEF N
<1>11. twin = InputOf(f, D)
  <2>1. twin = FromVerified(f, D)  BY DEF TwinInput, f, D, tc
  <2> QED BY <1>7, <1>8, <1>10, <2>1, FromVerifiedAccepts
<1> HIDE DEF twin
<1>12. GoodInput(twin)  BY <1>7, <1>8, <1>10, <1>11 DEF GoodInput
<1>13. twin.execution = f /\ in.execution = e  BY <1>1, <1>11 DEF InputOf
<1>14. ASSUME NEW k \in 1..N
       PROVE  /\ twin.contexts[k].candles = D[k]
              /\ twin.contexts[k].mapping = in.contexts[k].mapping
              /\ twin.contexts[k].warmup_bars = in.contexts[k].warmup_bars
  <2>1. in.contexts[k] = ContextOf(e, C, k)  BY <1>1 DEF InputOf, ContextsOf, N
  <2>2. twin.contexts[k] = ContextOf(f, D, k)  BY <1>11 DEF InputOf, ContextsOf, N
  <2> QED BY <1>10, <2>1, <2>2 DEF ContextOf
<1>15. ASSUME NEW s \in Slots
       PROVE  /\ Candles(twin, s) = tc[s] /\ Shown(twin, i, s) = Shown(in, i, s)
              /\ s # 1 => twin.contexts[s - 1].warmup_bars = in.contexts[s - 1].warmup_bars
  <2>1. CASE s = 1  BY <1>7, <1>13, <2>1 DEF Candles, Shown
  <2>2. CASE s # 1
    <3>1. s - 1 \in 1..N /\ (s - 1) + 1 = s  BY <2>2, SlotsAre DEF N
    <3>2. Candles(twin, s) = D[s - 1] /\ D[s - 1] = tc[s]  BY <1>7, <1>14, <2>2, <3>1 DEF Candles
    <3> QED BY <1>14, <2>2, <3>1, <3>2 DEF Shown
  <2> QED BY <2>1, <2>2
<1>16. Len(twin.execution) = Len(in.execution)  BY <1>8, <1>13 DEF SameTimes
<1> QED BY <1>12, <1>15, <1>16 DEF twin, tc

\* A prefix is its elements.
LEMMA PrefixIs ==
  ASSUME NEW s, NEW n \in Nat
  PROVE  SubSeq(s, 1, n) = [k \in 1..n |-> s[k]]
OBVIOUS

\* What can be read of a history depends on what it shows.
LEMMA ReadableAgree ==
  ASSUME NEW a, NEW b, NEW n \in Nat, \A k \in 1..n : b[k] = a[k]
  PROVE  Readable([items |-> b, end |-> n]) = Readable([items |-> a, end |-> n])
<1> DEFINE g == [items |-> b, end |-> n]
           h == [items |-> a, end |-> n]
<1>1. g.items = b /\ g.end = n /\ h.items = a /\ h.end = n  OBVIOUS
<1> HIDE DEF g, h
<1>2. ASSUME NEW key \in (-Len(source))..Len(source) PROVE GetItem(g, key) = GetItem(h, key)
  <2> DEFINE index == IF key < 0 THEN n + key ELSE key
  <2>1. GetItem(g, key) = IF index \in 0..(n - 1) THEN b[index + 1] ELSE None
    BY <1>1 DEF GetItem
  <2>2. GetItem(h, key) = IF index \in 0..(n - 1) THEN a[index + 1] ELSE None
    BY <1>1 DEF GetItem
  <2> HIDE DEF index
  <2>3. index \in 0..(n - 1) => index + 1 \in 1..n  OBVIOUS
  <2> QED BY <2>1, <2>2, <2>3
<1>3. Readable(g) = Readable(h)  BY <1>2 DEF Readable
<1> QED BY <1>3 DEF g, h

\* What can be read of an indicator depends on the values it shows.
LEMMA ItemAgree ==
  ASSUME NEW a, NEW b, NEW n \in Nat \ {0}, \A k \in 1..n : b.values[k] = a.values[k]
  PROVE  /\ ReadableItem(Item(b, n)) = ReadableItem(Item(a, n))
         /\ Item(b, n).ready = Item(a, n).ready
<1> DEFINE g == [items |-> b.values, end |-> n]
           h == [items |-> a.values, end |-> n]
<1>1. Readable(g) = Readable(h)
  <2>1. n \in Nat  OBVIOUS
  <2> QED BY <2>1, ReadableAgree
<1>2. Latest(g) = Latest(h)
  <2>1. n # 0 /\ n \in 1..n  OBVIOUS
  <2>2. g.items = b.values /\ g.end = n /\ h.items = a.values /\ h.end = n  OBVIOUS
  <2> HIDE DEF g, h
  <2> QED BY <2>1, <2>2 DEF Latest
<1>3. SubSeq(b.values, 1, n) = SubSeq(a.values, 1, n)
  <2>1. /\ SubSeq(b.values, 1, n) = [k \in 1..n |-> b.values[k]]
        /\ SubSeq(a.values, 1, n) = [k \in 1..n |-> a.values[k]]
    BY PrefixIs
  <2> QED BY <2>1
<1>4. /\ Item(b, n) = [history |-> g, latest |-> Latest(g), ready |-> Latest(g) # None,
                       defined_visible_count |-> DefinedCount(SubSeq(b.values, 1, n)),
                       visible_prefix_hash |-> SubSeq(b.values, 1, n)]
      /\ Item(a, n) = [history |-> h, latest |-> Latest(h), ready |-> Latest(h) # None,
                       defined_visible_count |-> DefinedCount(SubSeq(a.values, 1, n)),
                       visible_prefix_hash |-> SubSeq(a.values, 1, n)]
  BY DEF Item
<1> DEFINE p == SubSeq(a.values, 1, n)
           l == Latest(h)
           x == [history |-> h, latest |-> l, ready |-> l # None,
                 defined_visible_count |-> DefinedCount(p), visible_prefix_hash |-> p]
           y == [history |-> g, latest |-> l, ready |-> l # None,
                 defined_visible_count |-> DefinedCount(p), visible_prefix_hash |-> p]
<1>5. Item(a, n) = x /\ Item(b, n) = y  BY <1>2, <1>3, <1>4
<1> HIDE DEF g, h, p, l
<1>6. ReadableItem(x) = [history |-> Readable(h), latest |-> l, ready |-> l # None,
                         defined_visible_count |-> DefinedCount(p), visible_prefix_hash |-> p]
  BY DEF ReadableItem
<1>7. ReadableItem(y) = [history |-> Readable(g), latest |-> l, ready |-> l # None,
                         defined_visible_count |-> DefinedCount(p), visible_prefix_hash |-> p]
  BY DEF ReadableItem
<1>8. ReadableItem(x) = ReadableItem(y) /\ x.ready = y.ready  BY <1>1, <1>6, <1>7
<1> HIDE DEF x, y
<1> QED BY <1>5, <1>8

\* What a provider sees of a slot's candles and indicators.
SeenCandles(x) == [x EXCEPT !.history = Readable(@)]
SeenSlot(x) ==
  IF x.indicators = None THEN x
  ELSE [x EXCEPT !.indicators.items = [key \in DOMAIN @ |-> ReadableItem(@[key])]]

\* What is seen of a view is what is seen of its slots.
LEMMA ObservedIs ==
  ASSUME NEW i, NEW A, NEW B, NEW r
  PROVE  Observed([bar_index |-> i, candles |-> A, slots |-> B, overall_ready |-> r])
           = [bar_index |-> i, candles |-> [s \in Slots |-> SeenCandles(A[s])],
              slots |-> [s \in Slots |-> SeenSlot(B[s])], overall_ready |-> r]
<1> DEFINE v == [bar_index |-> i, candles |-> A, slots |-> B, overall_ready |-> r]
<1>1. v.candles = A /\ v.slots = B  OBVIOUS
<1>2. Observed(v) = [v EXCEPT !.candles = [s \in Slots |-> SeenCandles(v.candles[s])],
                              !.slots = [s \in Slots |-> SeenSlot(v.slots[s])]]
  <2> HIDE DEF v
  <2> QED BY DEF Observed, SeenCandles, SeenSlot
<1>3. Observed(v) = [v EXCEPT !.candles = [s \in Slots |-> SeenCandles(A[s])],
                              !.slots = [s \in Slots |-> SeenSlot(B[s])]]
  <2> HIDE DEF v
  <2> QED BY <1>1, <1>2
<1> HIDE DEF SeenCandles, SeenSlot
<1> QED BY <1>3

\* Two verified inputs that a provider cannot tell apart at bar i.
Alike(in, twin, i) ==
  /\ GoodInput(in) /\ GoodInput(twin)
  /\ i \in 1..Len(in.execution) /\ i \in 1..Len(twin.execution)
  /\ \A s \in Slots :
       /\ SameCandlesUntil(Candles(in, s), Candles(twin, s), Shown(in, i, s))
       /\ Shown(twin, i, s) = Shown(in, i, s)
       /\ s # 1 => twin.contexts[s - 1].warmup_bars = in.contexts[s - 1].warmup_bars

\* The candles seen are the same.
LEMMA CandlesSeen ==
  ASSUME NEW in, NEW twin, NEW i, Alike(in, twin, i), NEW s \in Slots
  PROVE  /\ SeenCandles(CandlesAt(twin, i, s)) = SeenCandles(CandlesAt(in, i, s))
         /\ CandlesAt(twin, i, s).ready = CandlesAt(in, i, s).ready
<1> DEFINE n == Shown(in, i, s)
           a == Candles(in, s)
           b == Candles(twin, s)
           w == Warm(n, IF s = 1 THEN ExecutionWarmup ELSE in.contexts[s - 1].warmup_bars)
           g == [items |-> a, end |-> n]
           h == [items |-> b, end |-> n]
<1>1. SameCandlesUntil(a, b, n) /\ Shown(twin, i, s) = n  BY DEF Alike
<1>2. s # 1 => twin.contexts[s - 1].warmup_bars = in.contexts[s - 1].warmup_bars  BY DEF Alike
<1>3. CandlesAt(in, i, s) = [history |-> g, visible_count |-> n, ready |-> w]
  BY CandleViewIs DEF CandlesAt
<1>4. CandlesAt(twin, i, s) = [history |-> h, visible_count |-> n, ready |-> w]
  <2>1. CandlesAt(twin, i, s)
          = [history |-> [items |-> b, end |-> Shown(twin, i, s)],
             visible_count |-> Shown(twin, i, s),
             ready |-> Warm(Shown(twin, i, s), IF s = 1 THEN ExecutionWarmup
                                               ELSE twin.contexts[s - 1].warmup_bars)]
    BY CandleViewIs DEF CandlesAt
  <2>2. (IF s = 1 THEN ExecutionWarmup ELSE twin.contexts[s - 1].warmup_bars)
          = IF s = 1 THEN ExecutionWarmup ELSE in.contexts[s - 1].warmup_bars
    BY <1>2
  <2> HIDE DEF n, a, b
  <2> QED BY <1>1, <2>1, <2>2
<1>5. n \in Nat /\ \A k \in 1..n : b[k] = a[k]
  <2>1. Len(a) \in Nat  BY <1>1 DEF SameCandlesUntil
  <2> QED BY <1>1, <2>1 DEF SameCandlesUntil
<1>6. Readable(h) = Readable(g)
  <2> HIDE DEF n, a, b
  <2> QED BY <1>5, ReadableAgree
<1> HIDE DEF n, a, b, w, g, h
<1>7. /\ SeenCandles([history |-> g, visible_count |-> n, ready |-> w])
           = [history |-> Readable(g), visible_count |-> n, ready |-> w]
      /\ SeenCandles([history |-> h, visible_count |-> n, ready |-> w])
           = [history |-> Readable(h), visible_count |-> n, ready |-> w]
  BY DEF SeenCandles
<1>8. CandlesAt(in, i, s).ready = w /\ CandlesAt(twin, i, s).ready = w  BY <1>3, <1>4
<1> QED BY <1>3, <1>4, <1>6, <1>7, <1>8

\* The values seen of an indicator are the same.
LEMMA ItemsSeen ==
  ASSUME NotAFunction(None), NEW s \in Slots, NEW a, NEW b, NEW n \in Nat \ {0},
         SameCandlesUntil(a, b, n), NEW key \in Keys[s]
  PROVE  /\ ReadableItem(ItemsOf(s, b, n)[key]) = ReadableItem(ItemsOf(s, a, n)[key])
         /\ ItemsOf(s, b, n)[key].ready = ItemsOf(s, a, n)[key].ready
<1>1. ValidKey(key)  BY KeysAre
<1>2. a \in Seq(ValidCandles) /\ b \in Seq(ValidCandles)  BY DEF SameCandlesUntil
<1>3. Calculator(s, key, a).values = Values(key, a) /\ Calculator(s, key, b).values = Values(key, b)
  BY <1>1, <1>2, CalculatedIs DEF Calculator
<1>4. \A k \in 1..n : Calculator(s, key, b).values[k] = Calculator(s, key, a).values[k]
  <2>1. \A k \in 1..n : Values(key, b)[k] = Values(key, a)[k]  BY <1>1, ValuesAgree
  <2> QED BY <1>3, <2>1
<1>5. /\ ItemsOf(s, a, n)[key] = Item(Calculator(s, key, a), n)
      /\ ItemsOf(s, b, n)[key] = Item(Calculator(s, key, b), n)
  BY DEF ItemsOf
<1> DEFINE x == Calculator(s, key, a)
           y == Calculator(s, key, b)
<1> HIDE DEF x, y
<1>6. /\ ReadableItem(Item(y, n)) = ReadableItem(Item(x, n)) /\ Item(y, n).ready = Item(x, n).ready
  <2>1. \A k \in 1..n : y.values[k] = x.values[k]  BY <1>4 DEF x, y
  <2> QED BY <2>1, ItemAgree
<1> QED BY <1>5, <1>6 DEF x, y

\* What is seen of a slot with keys.
LEMMA SeenItems ==
  ASSUME NotAFunction(None), NEW s, NEW a, NEW n
  PROVE  SeenSlot([configured |-> TRUE, indicators |-> IndicatorsOf(s, a, n),
                   ready |-> IndicatorsOf(s, a, n).ready])
           = [configured |-> TRUE,
              indicators |-> [visible_count |-> n, timeframe |-> Timeframe(s),
                              items |-> [key \in Keys[s] |-> ReadableItem(ItemsOf(s, a, n)[key])],
                              ready |-> IndicatorsOf(s, a, n).ready],
              ready |-> IndicatorsOf(s, a, n).ready]
<1> DEFINE I == ItemsOf(s, a, n)
           r == \A key \in Keys[s] : I[key].ready
           x == [visible_count |-> n, timeframe |-> Timeframe(s), items |-> I, ready |-> r]
<1>1. IndicatorsOf(s, a, n) = x  BY DEF IndicatorsOf
<1>2. DOMAIN I = Keys[s]  BY DEF ItemsOf
<1>3. x # None  BY DEF NotAFunction
<1> HIDE DEF I, r
<1>4. x.ready = r  OBVIOUS
<1>5. SeenSlot([configured |-> TRUE, indicators |-> x, ready |-> r])
        = [configured |-> TRUE,
           indicators |-> [x EXCEPT !.items = [key \in DOMAIN I |-> ReadableItem(I[key])]],
           ready |-> r]
  <2>1. x.items = I  OBVIOUS
  <2> HIDE DEF x
  <2>2. [configured |-> TRUE, indicators |-> x, ready |-> r].indicators = x  OBVIOUS
  <2> QED BY <1>3, <2>1, <2>2 DEF SeenSlot
<1>6. [x EXCEPT !.items = [key \in DOMAIN I |-> ReadableItem(I[key])]]
        = [visible_count |-> n, timeframe |-> Timeframe(s),
           items |-> [key \in Keys[s] |-> ReadableItem(I[key])], ready |-> r]
  BY <1>2
<1>7. SeenSlot([configured |-> TRUE, indicators |-> x, ready |-> r])
        = [configured |-> TRUE,
           indicators |-> [visible_count |-> n, timeframe |-> Timeframe(s),
                           items |-> [key \in Keys[s] |-> ReadableItem(I[key])], ready |-> r],
           ready |-> r]
  BY <1>5, <1>6
<1> HIDE DEF x
<1>8. IndicatorsOf(s, a, n).ready = r  BY <1>1, <1>4
<1> QED BY <1>1, <1>7, <1>8 DEF I

\* The indicators seen of a slot are the same.
LEMMA SlotSeen ==
  ASSUME NotAFunction(None), NotAFunction(Refused), NEW in, NEW twin, NEW i,
         Alike(in, twin, i), NEW s \in Slots
  PROVE  /\ SeenSlot(IndicatorsAt(twin, i, s)) = SeenSlot(IndicatorsAt(in, i, s))
         /\ IndicatorsAt(twin, i, s).ready = IndicatorsAt(in, i, s).ready
<1> DEFINE n == Shown(in, i, s)
           a == Candles(in, s)
           b == Candles(twin, s)
<1>1. GoodInput(in) /\ GoodInput(twin)  BY DEF Alike
<1>2. SameCandlesUntil(a, b, n) /\ Shown(twin, i, s) = n  BY DEF Alike
<1>3. n \in 0..Len(a) /\ n \in 0..Len(b) /\ n \in Nat
  <2>1. Len(a) \in Nat /\ Len(b) = Len(a) /\ n \in 0..Len(a)  BY <1>2 DEF SameCandlesUntil
  <2> QED BY <2>1
<1>4. IndicatorsAt(in, i, s) = SlotView(BundleAt(in, s), n)  BY DEF IndicatorsAt
<1>5. IndicatorsAt(twin, i, s) = SlotView(BundleAt(twin, s), n)  BY <1>2 DEF IndicatorsAt
<1>6. CASE Keys[s] = {} \/ n = 0
  <2>1. SlotView(BundleAt(in, s), n) = SlotView(BundleAt(twin, s), n)
    <3> HIDE DEF n
    <3> QED BY <1>1, <1>3, <1>6, SlotViewIs
  <2> HIDE DEF n
  <2> QED BY <1>4, <1>5, <2>1
<1>7. CASE Keys[s] # {} /\ n # 0
  <2>1. n > 0  BY <1>3, <1>7
  <2> DEFINE x == [configured |-> TRUE, indicators |-> IndicatorsOf(s, a, n),
                   ready |-> IndicatorsOf(s, a, n).ready]
             y == [configured |-> TRUE, indicators |-> IndicatorsOf(s, b, n),
                   ready |-> IndicatorsOf(s, b, n).ready]
  <2>2. SlotView(BundleAt(in, s), n) = x /\ SlotView(BundleAt(twin, s), n) = y
    <3> HIDE DEF n
    <3> QED BY <1>1, <1>3, <1>7, <2>1, SlotViewIs DEF a, b
  <2>3. n \in Nat \ {0}  BY <1>3, <1>7
  <2>4. \A key \in Keys[s] :
          /\ ReadableItem(ItemsOf(s, b, n)[key]) = ReadableItem(ItemsOf(s, a, n)[key])
          /\ ItemsOf(s, b, n)[key].ready = ItemsOf(s, a, n)[key].ready
    <3> HIDE DEF n, a, b
    <3> QED BY <1>2, <2>3, ItemsSeen
  <2> HIDE DEF n, a, b
  <2>5. [key \in Keys[s] |-> ReadableItem(ItemsOf(s, b, n)[key])]
          = [key \in Keys[s] |-> ReadableItem(ItemsOf(s, a, n)[key])]
    BY <2>4
  <2>6. IndicatorsOf(s, b, n).ready = IndicatorsOf(s, a, n).ready
    <3>1. /\ IndicatorsOf(s, b, n).ready = \A key \in Keys[s] : ItemsOf(s, b, n)[key].ready
          /\ IndicatorsOf(s, a, n).ready = \A key \in Keys[s] : ItemsOf(s, a, n)[key].ready
      BY DEF IndicatorsOf
    <3>2. (\A key \in Keys[s] : ItemsOf(s, b, n)[key].ready)
            = (\A key \in Keys[s] : ItemsOf(s, a, n)[key].ready)
      BY <2>4
    <3> QED BY <3>1, <3>2
  <2>7. SeenSlot(x) = SeenSlot(y)
    <3> DEFINE r(c) == IndicatorsOf(s, c, n).ready
               I(c) == [key \in Keys[s] |-> ReadableItem(ItemsOf(s, c, n)[key])]
               X(c) == [configured |-> TRUE,
                        indicators |-> [visible_count |-> n, timeframe |-> Timeframe(s),
                                        items |-> I(c), ready |-> r(c)],
                        ready |-> r(c)]
    <3>1. SeenSlot(x) = X(a)  BY SeenItems DEF x
    <3>2. SeenSlot(y) = X(b)  BY SeenItems DEF y
    <3>3. I(a) = I(b) /\ r(a) = r(b)  BY <2>5, <2>6
    <3> HIDE DEF I, r
    <3>4. X(a) = X(b)  BY <3>3
    <3> HIDE DEF X
    <3> QED BY <3>1, <3>2, <3>4
  <2>8. x.ready = y.ready  BY <2>6
  <2> HIDE DEF x, y
  <2> QED BY <1>4, <1>5, <2>2, <2>7, <2>8
<1> QED BY <1>6, <1>7

\* What is seen of the view of a verified input.
LEMMA ViewSeen ==
  ASSUME NotAFunction(None), NotAFunction(Refused), NEW in, GoodInput(in),
         NEW i \in 1..Len(in.execution), NEW c, c.input = in, c.slots = BundlesOf(in)
  PROVE  Observed(ViewAt(c, i))
           = [bar_index |-> i, candles |-> [s \in Slots |-> SeenCandles(CandlesAt(in, i, s))],
              slots |-> [s \in Slots |-> SeenSlot(IndicatorsAt(in, i, s))],
              overall_ready |-> ReadyAt(in, i)]
<1> DEFINE A == [s \in Slots |-> CandlesAt(in, i, s)]
           B == [s \in Slots |-> IndicatorsAt(in, i, s)]
<1>1. ViewAt(c, i) = [bar_index |-> i, candles |-> A, slots |-> B, overall_ready |-> ReadyAt(in, i)]
  BY ViewIs
<1>2. /\ [s \in Slots |-> SeenCandles(A[s])] = [s \in Slots |-> SeenCandles(CandlesAt(in, i, s))]
      /\ [s \in Slots |-> SeenSlot(B[s])] = [s \in Slots |-> SeenSlot(IndicatorsAt(in, i, s))]
  OBVIOUS
<1> HIDE DEF A, B
<1>3. Observed([bar_index |-> i, candles |-> A, slots |-> B, overall_ready |-> ReadyAt(in, i)])
        = [bar_index |-> i, candles |-> [s \in Slots |-> SeenCandles(A[s])],
           slots |-> [s \in Slots |-> SeenSlot(B[s])], overall_ready |-> ReadyAt(in, i)]
  BY ObservedIs
<1> QED BY <1>1, <1>2, <1>3

\* The feed over the twin candles is the feed of the twin input.
LEMMA TwinIs ==
  ASSUME NotAFunction(None), NotAFunction(Refused), feed.slots = BundlesOf(feed.input),
         NEW i, NEW slot, NEW j, Hidden(feed.input, i, slot, j), NEW px \in Shapes
  PROVE  /\ Twin(slot, j, px).input = TwinInput(feed.input, slot, j, px)
         /\ Twin(slot, j, px).slots = BundlesOf(TwinInput(feed.input, slot, j, px))
<1> DEFINE in == feed.input
           candles == TwinCandles(in, slot, j, px)
           twin == TwinInput(in, slot, j, px)
           slots == [s \in Slots |-> IF feed.slots[s] = None THEN None
                       ELSE IndicatorBundle(candles[s], "exact", Timeframe(s),
                                            Genuine(s, candles[s]))]
<1>1. Twin(slot, j, px) = [input |-> twin, slots |-> slots]
  BY DEF Twin, TwinInput, TwinCandles
<1>2. /\ GoodInput(twin) /\ \A s \in Slots : Candles(twin, s) = candles[s]
  BY TwinInputIs
<1> HIDE DEF candles, twin
<1>3. ASSUME NEW s \in Slots PROVE slots[s] = BundleAt(twin, s)
  <2>1. feed.slots[s] = BundleAt(in, s)  BY DEF BundlesOf
  <2>2. candles[s] \in Seq(ValidCandles) /\ Canonical(candles[s], Timeframe(s))
    BY <1>2, SlotCandles
  <2>3. CASE Keys[s] = {}  BY <2>1, <2>3 DEF BundleAt
  <2>4. CASE Keys[s] # {}
    <3>1. BundleAt(in, s) # None
      <4>1. BundleAt(in, s) = Bundle(Candles(in, s), "exact", Timeframe(s),
                                     BundleSeries(s, Candles(in, s)))
        BY <2>4 DEF BundleAt, BundleOf
      <4> HIDE DEF in
      <4> QED BY <4>1, BundleParts
    <3>2. IndicatorBundle(candles[s], "exact", Timeframe(s), Genuine(s, candles[s]))
            = BundleOf(s, candles[s])
      BY <2>2, <2>4, GenuineAccepted
    <3>3. BundleAt(twin, s) = BundleOf(s, candles[s])  BY <1>2, <2>4 DEF BundleAt
    <3> QED BY <2>1, <3>1, <3>2, <3>3
  <2> QED BY <2>3, <2>4
<1>4. slots = BundlesOf(twin)  BY <1>3 DEF BundlesOf
<1> HIDE DEF slots
<1>5. [input |-> twin, slots |-> slots].input = twin /\ [input |-> twin, slots |-> slots].slots = slots
  OBVIOUS
<1> QED BY <1>1, <1>4, <1>5 DEF twin

\* A candle that has not closed influences nothing a provider can read.
LEMMA TwinSeen ==
  ASSUME NotAFunction(None), NotAFunction(Refused), feed.slots = BundlesOf(feed.input),
         NEW i, NEW slot, NEW j, Hidden(feed.input, i, slot, j), NEW px \in Shapes
  PROVE  Observed(ViewAt(Twin(slot, j, px), i)) = Observed(ViewAt(feed, i))
<1> DEFINE in == feed.input
           twin == TwinInput(in, slot, j, px)
           c == Twin(slot, j, px)
<1>1. GoodInput(in) /\ i \in 1..Len(in.execution)  BY DEF Hidden
<1>2. /\ GoodInput(twin) /\ Len(twin.execution) = Len(in.execution)
      /\ \A s \in Slots : /\ Candles(twin, s) = TwinCandles(in, slot, j, px)[s]
                          /\ Shown(twin, i, s) = Shown(in, i, s)
                          /\ s # 1 => twin.contexts[s - 1].warmup_bars
                                        = in.contexts[s - 1].warmup_bars
  BY TwinInputIs
<1>3. \A s \in Slots :
        SameCandlesUntil(Candles(in, s), TwinCandles(in, slot, j, px)[s], Shown(in, i, s))
  BY TwinCandlesAre
<1>4. c.input = twin /\ c.slots = BundlesOf(twin)  BY TwinIs
<1> HIDE DEF twin, c, in
<1>5. Alike(in, twin, i)  BY <1>1, <1>2, <1>3 DEF Alike
<1>6. /\ \A s \in Slots : SeenCandles(CandlesAt(twin, i, s)) = SeenCandles(CandlesAt(in, i, s))
      /\ \A s \in Slots : SeenSlot(IndicatorsAt(twin, i, s)) = SeenSlot(IndicatorsAt(in, i, s))
      /\ \A s \in Slots : CandlesAt(twin, i, s).ready = CandlesAt(in, i, s).ready
      /\ \A s \in Slots : IndicatorsAt(twin, i, s).ready = IndicatorsAt(in, i, s).ready
  BY <1>5, CandlesSeen, SlotSeen
<1>7. ReadyAt(twin, i) = ReadyAt(in, i)  BY <1>6 DEF ReadyAt
<1> DEFINE V(x) == [bar_index |-> i, candles |-> [s \in Slots |-> SeenCandles(CandlesAt(x, i, s))],
                    slots |-> [s \in Slots |-> SeenSlot(IndicatorsAt(x, i, s))],
                    overall_ready |-> ReadyAt(x, i)]
<1>8. V(twin) = V(in)
  <2>1. [s \in Slots |-> SeenCandles(CandlesAt(twin, i, s))]
          = [s \in Slots |-> SeenCandles(CandlesAt(in, i, s))]
    BY <1>6
  <2>2. [s \in Slots |-> SeenSlot(IndicatorsAt(twin, i, s))]
          = [s \in Slots |-> SeenSlot(IndicatorsAt(in, i, s))]
    BY <1>6
  <2> QED BY <1>7, <2>1, <2>2
<1>9. Observed(ViewAt(c, i)) = V(twin)
  <2>1. i \in 1..Len(twin.execution)  BY <1>1, <1>2
  <2> QED BY <1>2, <1>4, <2>1, ViewSeen
<1>10. Observed(ViewAt(feed, i)) = V(in)
  <2>1. feed.input = in /\ feed.slots = BundlesOf(in)  BY DEF in
  <2> QED BY <1>1, <2>1, ViewSeen
<1> HIDE DEF V
<1>11. Observed(ViewAt(c, i)) = Observed(ViewAt(feed, i))  BY <1>8, <1>9, <1>10
<1> QED BY <1>11 DEF c

-----------------------------------------------------------------------------
(* The candles a caller holds.                                              *)

\* A candle is its fields, in order.
LEMMA CandleParts ==
  ASSUME NEW c \in ValidCandles
  PROVE  /\ c \in [open_time : Int, close_time : Int, open : Int, high : Int, low : Int,
                   close : Int, volume : Nat]
         /\ c.open_time <= c.close_time /\ c.low <= c.open /\ c.open <= c.high
         /\ c.low <= c.close /\ c.close <= c.high
BY DEF ValidCandles

\* Later times leave a candle acceptable.
LEMMA Postponed ==
  ASSUME NEW c \in ValidCandles, NEW n \in {0, 1}
  PROVE  [c EXCEPT !.open_time = @ + n, !.close_time = @ + 1] \in ValidCandles
<1> DEFINE d == [c EXCEPT !.open_time = @ + n, !.close_time = @ + 1]
<1>1. /\ c \in [open_time : Int, close_time : Int, open : Int, high : Int, low : Int,
                close : Int, volume : Nat]
      /\ c.open_time <= c.close_time /\ c.low <= c.open /\ c.open <= c.high
      /\ c.low <= c.close /\ c.close <= c.high
  BY CandleParts
<1>2. d \in [open_time : Int, close_time : Int, open : Int, high : Int, low : Int,
             close : Int, volume : Nat]
  <2>1. d = [open_time |-> c.open_time + n, close_time |-> c.close_time + 1, open |-> c.open,
             high |-> c.high, low |-> c.low, close |-> c.close, volume |-> c.volume]
    <3>1. c = [open_time |-> c.open_time, close_time |-> c.close_time, open |-> c.open,
               high |-> c.high, low |-> c.low, close |-> c.close, volume |-> c.volume]
      BY <1>1
    <3> DEFINE o == c.open_time + n
               e == c.close_time + 1
    <3>2. [c EXCEPT !.open_time = o]
            = [open_time |-> o, close_time |-> c.close_time, open |-> c.open,
               high |-> c.high, low |-> c.low, close |-> c.close, volume |-> c.volume]
      <4> HIDE DEF o
      <4> QED BY <3>1
    <3>3. [[c EXCEPT !.open_time = o] EXCEPT !.close_time = e]
            = [open_time |-> o, close_time |-> e, open |-> c.open,
               high |-> c.high, low |-> c.low, close |-> c.close, volume |-> c.volume]
      <4> DEFINE r == [open_time |-> o, close_time |-> c.close_time, open |-> c.open,
                       high |-> c.high, low |-> c.low, close |-> c.close, volume |-> c.volume]
                 f == [c EXCEPT !.open_time = o]
      <4>1. [r EXCEPT !.close_time = e]
              = [open_time |-> o, close_time |-> e, open |-> c.open,
                 high |-> c.high, low |-> c.low, close |-> c.close, volume |-> c.volume]
        <5> HIDE DEF o, e
        <5> QED OBVIOUS
      <4>2. f = r  BY <3>2
      <4> HIDE DEF f, r
      <4>3. [f EXCEPT !.close_time = e] = [r EXCEPT !.close_time = e]  BY <4>2
      <4> QED BY <4>1, <4>3 DEF f
    <3>4. d = [[c EXCEPT !.open_time = o] EXCEPT !.close_time = e]  OBVIOUS
    <3> HIDE DEF d
    <3> QED BY <3>3, <3>4 DEF o, e
  <2>2. c.open_time + n \in Int /\ c.close_time + 1 \in Int  BY <1>1
  <2> HIDE DEF d
  <2> QED BY <1>1, <2>1, <2>2
<1>3. /\ d.open_time = c.open_time + n /\ d.close_time = c.close_time + 1
      /\ d.open = c.open /\ d.high = c.high /\ d.low = c.low /\ d.close = c.close
  BY <1>1
<1>4. c.open_time + n <= c.close_time + 1  BY <1>1
<1> HIDE DEF d
<1>5. d \in ValidCandles  BY <1>1, <1>2, <1>3, <1>4 DEF ValidCandles
<1> QED BY <1>5 DEF d

\* A later close leaves a candle acceptable.
LEMMA LateClose ==
  ASSUME NEW c \in ValidCandles
  PROVE  [c EXCEPT !.close_time = @ + 1] \in ValidCandles
<1>1. [c EXCEPT !.open_time = @ + 0, !.close_time = @ + 1] \in ValidCandles  BY Postponed
<1>2. [c EXCEPT !.open_time = @ + 0, !.close_time = @ + 1] = [c EXCEPT !.close_time = @ + 1]
  <2>1. c \in [open_time : Int, close_time : Int, open : Int, high : Int, low : Int,
               close : Int, volume : Nat]
    BY CandleParts
  <2>2. c.open_time + 0 = c.open_time  BY <2>1
  <2> QED BY <2>1, <2>2
<1> QED BY <1>1, <1>2

\* What a caller may hold instead are candles too.
LEMMA OthersAreCandles ==
  ASSUME NEW s \in Seq(ValidCandles), s # <<>>
  PROVE  Others(s) \subseteq Seq(ValidCandles)
<1> DEFINE n == Len(s)
<1>1. n \in Nat \ {0} /\ DOMAIN s = 1..n /\ \A i \in 1..n : s[i] \in ValidCandles
  BY EmptySeq, SequenceElements
<1>2. Last(s) \in ValidCandles  BY <1>1 DEF Last
<1> HIDE DEF n
<1>3. \A a, b \in 1..n : SubSeq(s, a, b) \in Seq(ValidCandles)
  <2> TAKE a, b \in 1..n
  <2>1. a \in Int /\ b \in Int /\ \A i \in a..b : s[i] \in ValidCandles  BY <1>1
  <2> QED BY <2>1, SubSeqProperties
<1>4. \A a, b \in Int : 1 <= a /\ b <= n => SubSeq(s, a, b) \in Seq(ValidCandles)
  <2> SUFFICES ASSUME NEW a \in Int, NEW b \in Int, 1 <= a, b <= n
               PROVE  SubSeq(s, a, b) \in Seq(ValidCandles)
    OBVIOUS
  <2>1. \A i \in a..b : s[i] \in ValidCandles  BY <1>1
  <2> QED BY <2>1, SubSeqProperties
<1>5. <<>> \in Seq(ValidCandles) /\ Tail(s) \in Seq(ValidCandles)
  BY EmptySeq, HeadTailProperties
<1>6. Front(s) \in Seq(ValidCandles)
  <2>1. 1 \in Int /\ n - 1 \in Int /\ 1 <= 1 /\ n - 1 <= n  BY <1>1
  <2>2. SubSeq(s, 1, n - 1) \in Seq(ValidCandles)  BY <1>4, <2>1
  <2> QED BY <2>2 DEF Front, n
<1>7. s \o <<Last(s)>> \in Seq(ValidCandles) /\ <<Last(s)>> \o s \in Seq(ValidCandles)
  <2>1. <<Last(s)>> \in Seq(ValidCandles)  BY <1>2
  <2> QED BY <2>1, ConcatProperties
<1>8. [s EXCEPT ![Len(s)].close_time = @ + 1] \in Seq(ValidCandles)
  <2> DEFINE c == [s[n] EXCEPT !.close_time = @ + 1]
  <2>1. n \in 1..n /\ n \in 1..Len(s)  BY <1>1 DEF n
  <2>2. c \in ValidCandles  BY <1>1, <2>1, LateClose
  <2>3. [s EXCEPT ![Len(s)].close_time = @ + 1] = [s EXCEPT ![n] = c]  BY DEF n
  <2> HIDE DEF c
  <2>4. [s EXCEPT ![n] = c] \in Seq(ValidCandles)  BY <2>1, <2>2, ExceptSeq
  <2> QED BY <2>3, <2>4
<1>9. [i \in DOMAIN s |-> [s[i] EXCEPT !.open_time = @ + 1, !.close_time = @ + 1]] \in Seq(ValidCandles)
  <2> DEFINE later == [i \in DOMAIN s |-> [s[i] EXCEPT !.open_time = @ + 1, !.close_time = @ + 1]]
  <2>1. \A i \in 1..n : [s[i] EXCEPT !.open_time = @ + 1, !.close_time = @ + 1] \in ValidCandles
    BY <1>1, Postponed
  <2>2. later \in [1..n -> ValidCandles]  BY <1>1, <2>1
  <2> HIDE DEF later
  <2>3. later \in Seq(ValidCandles)  BY <1>1, <2>2, FunctionIsSequence
  <2> QED BY <2>3 DEF later
<1>10. ASSUME NEW i \in 2..(n - 1) PROVE RemoveAt(s, i) \in Seq(ValidCandles)
  <2>1. i \in Int /\ i - 1 \in Int /\ i + 1 \in Int /\ n \in Int /\ i - 1 <= n /\ 1 <= i + 1
    BY <1>1
  <2>2. SubSeq(s, 1, i - 1) \in Seq(ValidCandles) /\ SubSeq(s, i + 1, n) \in Seq(ValidCandles)
    BY <1>4, <2>1
  <2>3. SubSeq(s, 1, i - 1) \o SubSeq(s, i + 1, n) \in Seq(ValidCandles)  BY <2>2, ConcatProperties
  <2> QED BY <2>3 DEF RemoveAt, n
<1>11. ASSUME NEW x \in Others(s) PROVE x \in Seq(ValidCandles)
  BY <1>5, <1>6, <1>7, <1>8, <1>9, <1>10 DEF Others, n
<1> QED BY <1>11

\* A sum of volumes is one.
LEMMA SumIsNatural ==
  ASSUME NEW s, NEW n \in Nat, \A k \in 1..n : s[k] \in Nat
  PROVE  Sum(s, n) \in Nat
<1>1. PICK x : /\ x \in [0..n -> Int] /\ x[0] = 0
               /\ \A k \in 1..n : x[k] = x[k - 1] + s[k]
               /\ Sum(s, n) = x[n]
  <2>1. \A k \in 1..n : s[k] \in Int  OBVIOUS
  <2> QED BY <2>1, SumRounds
<1> DEFINE K == {k \in 0..n : x[k] \in Nat}
<1>2. 0 \in K  BY <1>1
<1>3. ASSUME NEW k \in 1..n, k - 1 \in K PROVE k \in K
  <2>1. x[k - 1] \in Nat /\ s[k] \in Nat  BY <1>3
  <2>2. x[k] = x[k - 1] + s[k]  BY <1>1
  <2> QED BY <2>1, <2>2
<1>4. 0..n \subseteq K
  <2> HIDE DEF K
  <2> QED BY <1>2, <1>3, Rounds
<1> QED BY <1>1, <1>4

\* The extremes of a column of candles.
LEMMA BucketExtremes ==
  ASSUME NEW part \in Seq(ValidCandles), part # <<>>
  PROVE  LET high == Highest({part[i].high : i \in DOMAIN part})
             low == Lowest({part[i].low : i \in DOMAIN part}) IN
         /\ high \in Int /\ low \in Int
         /\ \A i \in DOMAIN part : low <= part[i].low /\ part[i].high <= high
<1> DEFINE n == Len(part)
           hs == [i \in 1..n |-> part[i].high]
           ls == [i \in 1..n |-> part[i].low]
           H == {part[i].high : i \in DOMAIN part}
           L == {part[i].low : i \in DOMAIN part}
<1>1. n \in Nat \ {0} /\ DOMAIN part = 1..n /\ \A i \in 1..n : part[i] \in ValidCandles
  BY EmptySeq, SequenceElements
<1>2. \A i \in 1..n : part[i].high \in Int /\ part[i].low \in Int  BY <1>1, CandleParts
<1> HIDE DEF n
<1>3. \A i \in 1..n : hs[i] \in Int /\ ls[i] \in Int /\ hs[i] = part[i].high /\ ls[i] = part[i].low
  BY <1>2
<1>4. {hs[i] : i \in 1..n} = H /\ {ls[i] : i \in 1..n} = L
  <2>1. \A i \in 1..n : hs[i] \in H /\ ls[i] \in L  BY <1>1, <1>3
  <2>2. \A i \in DOMAIN part : part[i].high \in {hs[j] : j \in 1..n} /\ part[i].low \in {ls[j] : j \in 1..n}
    BY <1>1, <1>3
  <2> HIDE DEF hs, ls
  <2> QED BY <2>1, <2>2
<1> HIDE DEF hs, ls
<1>5. /\ Lowest({ls[i] : i \in 1..n}) \in Int
      /\ \A i \in 1..n : Lowest({ls[j] : j \in 1..n}) <= ls[i]
  BY <1>1, <1>3, WithinExtremes
<1>6. /\ Highest({hs[i] : i \in 1..n}) \in Int
      /\ \A i \in 1..n : hs[i] <= Highest({hs[j] : j \in 1..n})
  BY <1>1, <1>3, WithinExtremes
<1> HIDE DEF H, L
<1>7. Lowest(L) \in Int /\ \A i \in 1..n : Lowest(L) <= part[i].low  BY <1>3, <1>4, <1>5
<1>8. Highest(H) \in Int /\ \A i \in 1..n : part[i].high <= Highest(H)  BY <1>3, <1>4, <1>6
<1> QED BY <1>1, <1>7, <1>8 DEF H, L

\* The summary of candles is a candle.
LEMMA SummaryIsCandle ==
  ASSUME NEW part \in Seq(ValidCandles), part # <<>>, NEW opens \in Int,
         NEW duration \in Nat \ {0}
  PROVE  AggregateBucket(part, opens, duration) \in ValidCandles
<1> DEFINE n == Len(part)
           high == Highest({part[i].high : i \in DOMAIN part})
           low == Lowest({part[i].low : i \in DOMAIN part})
           volume == Sum(Volumes(part), n)
           closes == ExpectedClose(opens, duration)
           open == part[1].open
           close == Last(part).close
           c == AggregateBucket(part, opens, duration)
<1>1. n \in Nat \ {0} /\ DOMAIN part = 1..n /\ \A i \in 1..n : part[i] \in ValidCandles
  BY EmptySeq, SequenceElements
<1>2. /\ high \in Int /\ low \in Int
      /\ \A i \in DOMAIN part : low <= part[i].low /\ part[i].high <= high
  BY BucketExtremes
<1>3. volume \in Nat
  <2>1. \A k \in 1..n : Volumes(part)[k] \in Nat
    <3>1. \A k \in 1..n : part[k].volume \in Nat  BY <1>1, CandleParts
    <3> HIDE DEF n
    <3> QED BY <1>1, <3>1 DEF Volumes
  <2> HIDE DEF n
  <2>2. n \in Nat  BY <1>1
  <2> QED BY <2>1, <2>2, SumIsNatural DEF n
<1>4. closes \in Int /\ opens <= closes
  <2>1. closes = opens + duration - 1  BY DEF ExpectedClose
  <2> QED BY <2>1
<1>5. /\ part[1] \in ValidCandles /\ Last(part) \in ValidCandles
      /\ low <= part[1].low /\ part[1].high <= high
      /\ low <= Last(part).low /\ Last(part).high <= high
  <2>1. 1 \in 1..n /\ n \in 1..n  BY <1>1
  <2> HIDE DEF n, high, low
  <2> QED BY <1>1, <1>2, <2>1 DEF Last, n
<1>6. /\ part[1].low \in Int /\ part[1].high \in Int /\ open \in Int
      /\ part[1].low <= open /\ open <= part[1].high
      /\ Last(part).low \in Int /\ Last(part).high \in Int /\ close \in Int
      /\ Last(part).low <= close /\ close <= Last(part).high
  BY <1>5, CandleParts
<1>7. low <= open /\ open <= high /\ low <= close /\ close <= high
  <2> HIDE DEF high, low, open, close
  <2> QED BY <1>2, <1>5, <1>6
<1>8. c = [open_time |-> opens, close_time |-> closes, open |-> open, high |-> high,
           low |-> low, close |-> close, volume |-> volume]
  BY DEF AggregateBucket, Candle
<1> HIDE DEF c, high, low, volume, closes, open, close
<1>9. c \in ValidCandles  BY <1>2, <1>3, <1>4, <1>6, <1>7, <1>8 DEF ValidCandles
<1> QED BY <1>9 DEF c

\* Resampled candles are candles.
LEMMA ResampledAreCandles ==
  ASSUME NEW s \in Seq(ValidCandles), NEW d \in Nat \ {0}, NEW T \in Nat \ {0},
         ResampleCandles(s, d, T) # Refused
  PROVE  ResampleCandles(s, d, T) \in Seq(ValidCandles)
<1> DEFINE ratio == T \div d
           all == AggregateCompleteBuckets(s, d, T)
           N == Len(s) \div ratio
           opens(b) == s[1].open_time + (b - 1) * T
<1>1. Derivable(d, T) /\ Canonical(s, d) /\ ResampleCandles(s, d, T) = all
  BY DEF ResampleCandles, FromVerifiedSeries
<1>2. ratio \in Nat \ {0}  BY <1>1, Ratio
<1>3. all = [b \in 1..N |-> AggregateBucket(Bucket(s, ratio, b), opens(b), T)]
  BY DEF AggregateCompleteBuckets
<1>4. N \in Nat
  <2>1. Len(s) \in Nat  OBVIOUS
  <2> HIDE DEF ratio
  <2>2. \A x \in Nat : x \div ratio \in Nat  BY <1>2
  <2> QED BY <2>1, <2>2
<1>5. s[1].open_time \in Int  BY <1>1, CanonicalTimes
<1> HIDE DEF ratio
<1>6. ASSUME NEW b \in 1..N
      PROVE  AggregateBucket(Bucket(s, ratio, b), opens(b), T) \in ValidCandles
  <2>1. b \in Int  BY <1>4
  <2>2. opens(b) \in Int
    <3>1. (b - 1) * T \in Int  BY <2>1
    <3> QED BY <1>5, <3>1
  <2>3. Bucket(s, ratio, b) \in Seq(ValidCandles) /\ Len(Bucket(s, ratio, b)) = ratio
    BY <1>2, BucketIs
  <2>4. Bucket(s, ratio, b) # <<>>
    <3>1. Len(<<>>) = 0  OBVIOUS
    <3> QED BY <1>2, <2>3, <3>1
  <2> HIDE DEF opens
  <2> QED BY <2>2, <2>3, <2>4, SummaryIsCandle
<1> HIDE DEF N, opens, all
<1>7. all \in [1..N -> ValidCandles]  BY <1>3, <1>6
<1>8. all \in Seq(ValidCandles)  BY <1>4, <1>7, FunctionIsSequence
<1> QED BY <1>1, <1>8

-----------------------------------------------------------------------------
(* What a caller supplies and rewrites.                                     *)

\* Another series under the same key.
LEMMA SameKeys ==
  ASSUME NEW own, NEW n \in Nat \ {0}, own = [i \in 1..n |-> own[i]],
         NEW r, r.key = own[1].key
  PROVE  LET x == [own EXCEPT ![1] = r] IN
         {x[i].key : i \in DOMAIN x} = {own[i].key : i \in 1..n}
<1> DEFINE x == [own EXCEPT ![1] = r]
<1>1. DOMAIN own = 1..n  OBVIOUS
<1>2. DOMAIN x = 1..n /\ \A i \in 1..n : x[i].key = own[i].key  BY <1>1
<1> HIDE DEF x
<1>3. {x[i].key : i \in DOMAIN x} = {own[i].key : i \in 1..n}  BY <1>2
<1> QED BY <1>3 DEF x

\* A field of a series other than its key.
LEMMA KeyStays ==
  ASSUME NotAFunction(None), NEW s \in Slots, NEW key \in Keys[s],
         NEW c \in Seq(ValidCandles), NEW v
  PROVE  LET r == Calculator(s, key, c) IN
         /\ [r EXCEPT !.values = v].key = key
         /\ [r EXCEPT !.defined_value_count = v].key = key
         /\ [r EXCEPT !.key = v].key = v
         /\ r.key = key
<1>1. ValidKey(key)  BY KeysAre
<1>2. /\ Calculator(s, key, c).key = key
      /\ \E a, b, e, f, g, h :
           Calculator(s, key, c) = [key |-> key, symbol |-> a, timeframe |-> b, input |-> e,
                 values |-> f, defined_value_count |-> g, first_defined |-> h]
  BY <1>1, CalculatedIs DEF Calculator
<1> DEFINE r == Calculator(s, key, c)
<1> HIDE DEF r
<1>3. PICK a, b, e, f, g, h :
        r = [key |-> key, symbol |-> a, timeframe |-> b, input |-> e,
             values |-> f, defined_value_count |-> g, first_defined |-> h]
  BY <1>2 DEF r
<1>4. [r EXCEPT !.values = v].key = key /\ [r EXCEPT !.defined_value_count = v].key = key
      /\ [r EXCEPT !.key = v].key = v
  BY <1>3
<1> QED BY <1>2, <1>4 DEF r

\* Whatever is supplied for a slot, a bundle that is accepted is the genuine one.
LEMMA ForgedIsGenuine ==
  ASSUME NotAFunction(None), GoodInput(input), NEW slot \in Slots, Keys[slot] # {},
         NEW forged \in Forged(slot),
         IndicatorBundle(Candles(input, slot), "exact", Timeframe(slot), forged) # Refused
  PROVE  IndicatorBundle(Candles(input, slot), "exact", Timeframe(slot), forged)
           = BundleOf(slot, Candles(input, slot))
<1> DEFINE C == Candles(input, slot)
           own == Genuine(slot, C)
           n == Cardinality(Keys[slot])
           v1 == [own[1].values EXCEPT ![Len(own[1].values)] = None]
           v2 == Tail(own[1].values) \o <<Last(own[1].values)>>
           k4 == [own[1].key EXCEPT !.period = 0]
<1>1. C \in Seq(ValidCandles)  BY SlotCandles
<1>2. /\ n \in Nat /\ DOMAIN own = 1..n /\ own = [i \in 1..n |-> own[i]] /\ Len(own) = n
      /\ \A i \in 1..n : own[i].key \in Keys[slot] /\ own[i] = Calculator(slot, own[i].key, C)
      /\ {own[i].key : i \in 1..n} = Keys[slot]
  BY <1>1, GenuineIs
<1>3. n \in Nat \ {0} /\ 1 \in 1..n
  <2> HIDE DEF n, own
  <2>1. PICK i \in 1..n : TRUE  BY <1>2
  <2> QED BY <1>2, <2>1
<1>4. /\ forged # <<>>
      /\ \A i \in DOMAIN forged :
           ValidKey(forged[i].key) /\ \A j \in 1..(i - 1) : forged[j].key # forged[i].key
  BY DEF IndicatorBundle
<1>5. \/ forged = [own EXCEPT ![1] = [own[1] EXCEPT !.values = v1]]
      \/ forged = [own EXCEPT ![1] = [own[1] EXCEPT !.values = v2]]
      \/ forged = [own EXCEPT ![1] = [own[1] EXCEPT !.defined_value_count = own[1].defined_value_count + 1]]
      \/ forged = [own EXCEPT ![1] = [own[1] EXCEPT !.key = k4]]
      \/ forged = own \o <<own[1]>>
      \/ \E x \in Slots : forged = Genuine(slot, Candles(input, x))
  BY <1>4 DEF Forged
<1> HIDE DEF C, own, n, v1, v2, k4
<1>6. own[1].key \in Keys[slot] /\ own[1] = Calculator(slot, own[1].key, C)  BY <1>2, <1>3
<1>7. \A v : /\ [own[1] EXCEPT !.values = v].key = own[1].key
             /\ [own[1] EXCEPT !.defined_value_count = v].key = own[1].key
             /\ [own[1] EXCEPT !.key = v].key = v
  BY <1>1, <1>6, KeyStays
<1>8. ASSUME NEW r, r.key = own[1].key, forged = [own EXCEPT ![1] = r]
      PROVE  {forged[i].key : i \in DOMAIN forged} = Keys[slot]
  <2> DEFINE x == [own EXCEPT ![1] = r]
  <2>1. {x[i].key : i \in DOMAIN x} = {own[i].key : i \in 1..n}  BY <1>2, <1>3, <1>8, SameKeys
  <2>2. forged = x  BY <1>8
  <2> HIDE DEF x
  <2> QED BY <1>2, <2>1, <2>2
<1>9. forged # [own EXCEPT ![1] = [own[1] EXCEPT !.key = k4]]
  <2> SUFFICES ASSUME forged = [own EXCEPT ![1] = [own[1] EXCEPT !.key = k4]] PROVE FALSE
    OBVIOUS
  <2>1. 1 \in DOMAIN forged /\ forged[1] = [own[1] EXCEPT !.key = k4]  BY <1>2, <1>3
  <2>2. own[1].key \in [code : PeriodCodes \cup {"true_range"}, period : Nat \cup {None}]
    BY <1>6, KeysAre
  <2>3. k4.period = 0  BY <2>2 DEF k4
  <2>4. forged[1].key = k4  BY <1>7, <2>1
  <2>5. ValidKey(k4)  BY <1>4, <2>1, <2>4
  <2>6. None # 0  BY NoneAssumption
  <2>7. 0 \notin 1..MaxPeriod
    <3>1. MaxPeriod \in Int  BY SMT DEF MaxPeriod
    <3> QED BY <3>1
  <2> QED BY <2>3, <2>5, <2>6, <2>7 DEF ValidKey
<1>10. forged # own \o <<own[1]>>
  <2> SUFFICES ASSUME forged = own \o <<own[1]>> PROVE FALSE  OBVIOUS
  <2> DEFINE S == {own[i] : i \in 1..n}
  <2>1. own \in Seq(S) /\ <<own[1]>> \in Seq(S) /\ Len(<<own[1]>>) = 1
    <3>1. own \in [1..n -> S]  BY <1>2
    <3>2. own[1] \in S  BY <1>3
    <3> HIDE DEF S
    <3>3. own \in Seq(S)  BY <1>2, <3>1, FunctionIsSequence
    <3> QED BY <3>2, <3>3
  <2> HIDE DEF S
  <2>2. /\ forged \in Seq(S) /\ Len(forged) = n + 1
        /\ \A i \in 1..(n + 1) : forged[i] = IF i <= n THEN own[i] ELSE <<own[1]>>[i - n]
    BY <1>2, <2>1, ConcatProperties
  <2>3. forged[1] = own[1] /\ forged[n + 1] = own[1]
    <3>1. 1 \in 1..(n + 1) /\ n + 1 \in 1..(n + 1) /\ 1 <= n /\ ~(n + 1 <= n) /\ (n + 1) - n = 1
      BY <1>2, <1>3
    <3> QED BY <2>2, <3>1
  <2>4. n + 1 \in DOMAIN forged /\ 1 \in 1..((n + 1) - 1)  BY <1>2, <1>3, <2>2
  <2> QED BY <1>4, <2>3, <2>4
<1>11. ASSUME NEW x \in Slots, forged = Genuine(slot, Candles(input, x))
       PROVE  {forged[i].key : i \in DOMAIN forged} = Keys[slot]
  <2> DEFINE D == Candles(input, x)
             m == Cardinality(Keys[slot])
  <2>1. D \in Seq(ValidCandles)  BY SlotCandles
  <2> HIDE DEF D
  <2>2. /\ DOMAIN Genuine(slot, D) = 1..m
        /\ {Genuine(slot, D)[i].key : i \in 1..m} = Keys[slot]
    BY <2>1, GenuineIs
  <2> QED BY <1>11, <2>2 DEF D
<1>12. {forged[i].key : i \in DOMAIN forged} = Keys[slot]
  BY <1>5, <1>7, <1>8, <1>9, <1>10, <1>11
<1> QED BY <1>12, AcceptedBundle

IsComposition(c) == \E x, y, h : c = [input |-> x, slots |-> y, hash |-> h]

\* Rewriting a field leaves the hash as it was, or empty.
LEMMA RewrittenHash ==
  ASSUME NEW c, IsComposition(c), NEW r \in Rewritten(c)
  PROVE  IsComposition(r) /\ (r.hash = c.hash \/ r.hash = <<>>)
<1>1. PICK x, y, h : c = [input |-> x, slots |-> y, hash |-> h]  BY DEF IsComposition
<1>2. c.input = x /\ c.slots = y /\ c.hash = h  BY <1>1
<1>3. \/ \E v : r = [c EXCEPT !.slots = v]
      \/ r = [c EXCEPT !.hash = <<>>]
      \/ \E v : r = [c EXCEPT !.input = v]
  <2>1. \/ r \in { [c EXCEPT !.slots[1] = None], [c EXCEPT !.slots[2] = c.slots[1]],
                   [c EXCEPT !.slots[1].object = "copy"],
                   [c EXCEPT !.slots[1].candles = Front(@)] }
        \/ r = [c EXCEPT !.hash = <<>>]
        \/ r \in { [c EXCEPT !.input.contexts[1].warmup_bars = 0],
                   [c EXCEPT !.input.contexts[1].mapping =
                      [i \in DOMAIN @ |-> Len(c.input.contexts[1].candles)]],
                   [c EXCEPT !.input.contexts[1].alignment_hash = None],
                   [c EXCEPT !.input.contexts[1].candles[1].volume = @ + 1],
                   [c EXCEPT !.input.execution = Front(@)] }
        \/ \E key \in Keys[1] : \E i \in DOMAIN c.input.execution :
             r = [c EXCEPT !.slots[1].series[key].values[i] = None,
                           !.slots[1].series[key].defined_value_count = 0]
    <3> DEFINE Touched(key) == { [c EXCEPT !.slots[1].series[key].values[i] = None,
                                          !.slots[1].series[key].defined_value_count = 0] :
                                i \in DOMAIN c.input.execution }
    <3>1. CASE r \in UNION {Touched(key) : key \in Keys[1]}
      <4>1. PICK key \in Keys[1] : r \in Touched(key)
        <5> HIDE DEF Touched
        <5> QED BY <3>1
      <4>2. PICK i \in DOMAIN c.input.execution :
              r = [c EXCEPT !.slots[1].series[key].values[i] = None,
                            !.slots[1].series[key].defined_value_count = 0]
        BY <4>1
      <4> QED BY <4>2
    <3>2. CASE r \notin UNION {Touched(key) : key \in Keys[1]}
      <4> DEFINE U == UNION {Touched(key) : key \in Keys[1]}
      <4>1. r \in Rewritten(c) \ U  BY <3>2
      <4>2. Rewritten(c) \ U \subseteq
              { [c EXCEPT !.slots[1] = None], [c EXCEPT !.slots[2] = c.slots[1]],
                [c EXCEPT !.slots[1].object = "copy"],
                [c EXCEPT !.slots[1].candles = Front(@)],
                [c EXCEPT !.hash = <<>>],
                [c EXCEPT !.input.contexts[1].warmup_bars = 0],
                [c EXCEPT !.input.contexts[1].mapping =
                  [i \in DOMAIN @ |-> Len(c.input.contexts[1].candles)]],
                [c EXCEPT !.input.contexts[1].alignment_hash = None],
                [c EXCEPT !.input.contexts[1].candles[1].volume = @ + 1],
                [c EXCEPT !.input.execution = Front(@)] }
        BY DEF Rewritten
      <4> HIDE DEF U
      <4> QED BY <4>1, <4>2
    <3> QED BY <3>1, <3>2
  <2>2. CASE r \in { [c EXCEPT !.slots[1] = None], [c EXCEPT !.slots[2] = c.slots[1]],
                     [c EXCEPT !.slots[1].object = "copy"],
                     [c EXCEPT !.slots[1].candles = Front(@)] }
    BY <2>2
  <2>3. CASE r \in { [c EXCEPT !.input.contexts[1].warmup_bars = 0],
                     [c EXCEPT !.input.contexts[1].mapping =
                        [i \in DOMAIN @ |-> Len(c.input.contexts[1].candles)]],
                     [c EXCEPT !.input.contexts[1].alignment_hash = None],
                     [c EXCEPT !.input.contexts[1].candles[1].volume = @ + 1],
                     [c EXCEPT !.input.execution = Front(@)] }
    BY <2>3
  <2>4. ASSUME NEW key \in Keys[1], NEW i \in DOMAIN c.input.execution,
               r = [c EXCEPT !.slots[1].series[key].values[i] = None,
                             !.slots[1].series[key].defined_value_count = 0]
        PROVE  \E v : r = [c EXCEPT !.slots = v]
    <3>1. PICK v, w : r = [[c EXCEPT !.slots = v] EXCEPT !.slots = w]  BY <2>4
    <3>2. [[c EXCEPT !.slots = v] EXCEPT !.slots = w] = [c EXCEPT !.slots = w]  BY <1>1
    <3> QED BY <3>1, <3>2
  <2> QED BY <2>1, <2>2, <2>3, <2>4
<1>4. \A v : /\ [c EXCEPT !.slots = v] = [input |-> x, slots |-> v, hash |-> h]
             /\ [c EXCEPT !.input = v] = [input |-> v, slots |-> y, hash |-> h]
             /\ [c EXCEPT !.hash = v] = [input |-> x, slots |-> y, hash |-> v]
  BY <1>1
<1>5. CASE \E v : r = [c EXCEPT !.slots = v]
  <2>1. PICK v : r = [input |-> x, slots |-> v, hash |-> h]  BY <1>4, <1>5
  <2> QED BY <1>2, <2>1 DEF IsComposition
<1>6. CASE r = [c EXCEPT !.hash = <<>>]
  <2>1. r = [input |-> x, slots |-> y, hash |-> <<>>]  BY <1>4, <1>6
  <2> QED BY <2>1 DEF IsComposition
<1>7. CASE \E v : r = [c EXCEPT !.input = v]
  <2>1. PICK v : r = [input |-> v, slots |-> y, hash |-> h]  BY <1>4, <1>7
  <2> QED BY <1>2, <2>1 DEF IsComposition
<1> QED BY <1>3, <1>5, <1>6, <1>7

\* What is composed of the genuine bundles has the hash of the genuine feed.
LEMMA ComposedHash ==
  ASSUME NotAFunction(None), NotAFunction(Refused), NEW in, GoodInput(in),
         Compose(in, BundlesOf(in)) # Refused
  PROVE  /\ IsComposition(Compose(in, BundlesOf(in)))
         /\ Compose(in, BundlesOf(in)).hash = FeedOf(in).hash
<1> DEFINE t == ReverifyInput(in)
           slots == BundlesOf(in)
           bound == [s \in DOMAIN slots |-> Rebind(slots[s], s, t)]
           hashes == [s \in DOMAIN bound |-> IF bound[s] = None THEN None ELSE bound[s].hash]
           result == Compose(in, slots)
<1>1. t # Refused /\ result = Composed(t, bound) /\ result # Refused
  <2> HIDE DEF slots
  <2>1. result = ComposeTrusted(t, slots)  BY DEF Compose, t
  <2>2. result # Refused  BY DEF slots
  <2> HIDE DEF t, result
  <2>3. t # Refused  BY <2>1, <2>2 DEF ComposeTrusted
  <2>4. result = Composed(t, bound)  BY <2>1, <2>2 DEF ComposeTrusted, bound
  <2> QED BY <2>2, <2>3, <2>4
<1>2. t.bundle_hash = in.bundle_hash
  <2>1. SameInput(in, t)  BY <1>1 DEF ReverifyInput
  <2> HIDE DEF t
  <2> QED BY <2>1 DEF SameInput
<1> HIDE DEF t, bound, result
<1>3. /\ \A s \in DOMAIN bound : bound[s] # Refused
      /\ result = [input |-> t, slots |-> bound, hash |-> <<t.bundle_hash, hashes>>]
  <2> HIDE DEF slots
  <2> QED BY <1>1 DEF Composed, hashes
<1>4. DOMAIN bound = Slots
  <2>1. DOMAIN slots = Slots  BY DEF BundlesOf
  <2> HIDE DEF slots
  <2> QED BY <2>1 DEF bound
<1>5. ASSUME NEW s \in Slots PROVE hashes[s] = HashAt(in, s)
  <2> DEFINE b == BundleAt(in, s)
  <2>1. hashes[s] = IF bound[s] = None THEN None ELSE bound[s].hash  BY <1>4
  <2>2. bound[s] = Rebind(b, s, t) /\ bound[s] # Refused
    <3>1. slots[s] = b /\ s \in DOMAIN slots  BY DEF BundlesOf
    <3> HIDE DEF b, slots
    <3> QED BY <1>3, <1>4, <3>1 DEF bound
  <2>3. CASE Keys[s] = {}
    <3>1. b = None /\ HashAt(in, s) = None  BY <2>3 DEF BundleAt, HashAt
    <3> HIDE DEF b, hashes
    <3>2. bound[s] = None  BY <2>2, <3>1 DEF Rebind
    <3> QED BY <2>1, <3>1, <3>2
  <2>4. CASE Keys[s] # {}
    <3> DEFINE C == Candles(in, s)
    <3>1. b = BundleOf(s, C) /\ HashAt(in, s) = BundleOf(s, C).hash
      BY <2>4 DEF BundleAt, HashAt
    <3>2. b # None
      <4>1. BundleOf(s, C) = Bundle(C, "exact", Timeframe(s), BundleSeries(s, C))
        BY DEF BundleOf
      <4> HIDE DEF b, C
      <4> QED BY <3>1, <4>1, BundleParts
    <3> HIDE DEF b, C, hashes
    <3>3. bound[s] = Bound(b, Rebuilt(b), s, t)  BY <2>2, <3>2 DEF Rebind
    <3>4. bound[s] = Rebuilt(b) /\ bound[s].hash = b.hash  BY <2>2, <3>3 DEF Bound
    <3>5. bound[s] # None
      <4>1. \E x, o, tf, f : Rebuilt(b) = Bundle(x, o, tf, f)
        <5>1. Rebuilt(b) = IndicatorBundle(b.candles, b.object, b.timeframe, SeriesOf(b))
          BY DEF Rebuilt
        <5> QED BY <2>2, <3>4, <5>1 DEF IndicatorBundle
      <4> QED BY <3>4, <4>1, BundleParts
    <3> QED BY <2>1, <3>1, <3>4, <3>5
  <2> QED BY <2>3, <2>4
<1>6. hashes = [s \in Slots |-> HashAt(in, s)]
  <2>1. hashes = [s \in Slots |-> hashes[s]]  BY <1>4
  <2> HIDE DEF hashes
  <2> QED BY <1>5, <2>1
<1> HIDE DEF hashes
<1>7. result.hash = <<in.bundle_hash, [s \in Slots |-> HashAt(in, s)]>>  BY <1>2, <1>3, <1>6
<1>8. FeedOf(in).hash = <<in.bundle_hash, [s \in Slots |-> HashAt(in, s)]>>  BY DEF FeedOf
<1>9. IsComposition(result)  BY <1>3 DEF IsComposition
<1> QED BY <1>7, <1>8, <1>9 DEF result

-----------------------------------------------------------------------------
(* The invariant.                                                          *)

CallerInv == source \in Seq(ValidCandles) /\ skip \in Nat

\* The caller's series are candles, whatever was damaged.
SeriesInv ==
  pc = "input" => series \in Seq(Seq(ValidCandles)) /\ Len(series) = Len(Requirements) + 1

InputInv == pc \in {"indicators", "compose", "open", "feeding"} => GoodInput(input)

BundlesInv == pc = "compose" => bundles = BundlesOf(input)

\* A rewritten composition still carries the hash it was given, or an empty one.
CompositionInv ==
  pc = "open" => /\ IsComposition(composition)
                 /\ composition.hash = FeedOf(input).hash \/ composition.hash = <<>>

ViewInv ==
  /\ pc # "feeding" => bar = 0 /\ view = None
  /\ pc = "feeding" =>
       /\ feed = FeedOf(input)
       /\ bar \in 0..Len(input.execution)
       /\ view = IF bar = 0 THEN None ELSE ViewAt(feed, bar)

FeedInv ==
  CallerInv /\ SeriesInv /\ InputInv /\ BundlesInv /\ CompositionInv /\ ViewInv

\* The invariant holds initially.
LEMMA FeedInit == Init => FeedInv
<1> SUFFICES ASSUME Init PROVE FeedInv  OBVIOUS
<1>1. source \in Seq(ValidCandles) /\ skip \in Nat
  <2>1. Sources \subseteq Seq(ValidCandles) /\ MaxSkip \in Nat  BY FeedAssumption
  <2> QED BY <2>1 DEF Init
<1>2. pc = "resample" /\ bar = 0 /\ view = None  BY DEF Init
<1> QED BY <1>1, <1>2
      DEF FeedInv, CallerInv, SeriesInv, InputInv, BundlesInv, CompositionInv, ViewInv

\* The execution bars are candles.
LEMMA ExecutionIsCandles ==
  ASSUME CallerInv
  PROVE  Execution \in Seq(ValidCandles)
<1> DEFINE n == Len(source)
<1>1. n \in Nat /\ \A i \in 1..n : source[i] \in ValidCandles  BY DEF CallerInv
<1> HIDE DEF n
<1>2. skip + 1 \in Int /\ \A i \in (skip + 1)..n : source[i] \in ValidCandles
  BY <1>1 DEF CallerInv
<1>3. SubSeq(source, skip + 1, n) \in Seq(ValidCandles)  BY <1>1, <1>2, SubSeqProperties
<1> QED BY <1>3 DEF Execution, n

\* The contexts are resampled into candles.
LEMMA ResampleStep ==
  ASSUME FeedInv, Resample
  PROVE  FeedInv'
<1> DEFINE contexts == [k \in DOMAIN Requirements |->
             ResampleCandles(source, ExecutionTf, Requirements[k].timeframe)]
           N == Len(Requirements)
<1>1. /\ pc = "resample" /\ bar' = bar /\ view' = view /\ bar = 0 /\ view = None
      /\ source' = source /\ skip' = skip
      /\ \/ pc' = "refused"
         \/ /\ pc' = "input" /\ series' = <<Execution>> \o contexts
            /\ \A k \in DOMAIN contexts : contexts[k] # Refused
  BY DEF Resample, Refuse, FeedInv, ViewInv
<1>2. CallerInv'  BY <1>1 DEF FeedInv, CallerInv
<1>3. CASE pc' = "refused"
  BY <1>1, <1>2, <1>3
     DEF FeedInv, SeriesInv, InputInv, BundlesInv, CompositionInv, ViewInv
<1>4. CASE pc' = "input" /\ series' = <<Execution>> \o contexts
           /\ \A k \in DOMAIN contexts : contexts[k] # Refused
  <2>1. N \in Nat /\ DOMAIN Requirements = 1..N  BY FeedAssumption
  <2>2. ASSUME NEW k \in 1..N PROVE contexts[k] \in Seq(ValidCandles)
    <3>1. source \in Seq(ValidCandles)  BY DEF FeedInv, CallerInv
    <3>2. ExecutionTf \in Nat \ {0} /\ Requirements[k].timeframe \in Nat \ {0}
      <4>1. k + 1 \in Slots /\ k + 1 # 1 /\ (k + 1) - 1 = k /\ Timeframe(k + 1) \in Nat \ {0}
        BY <2>1, SlotsAre
      <4> QED BY <4>1, FeedAssumption DEF Timeframe
    <3>3. contexts[k] = ResampleCandles(source, ExecutionTf, Requirements[k].timeframe)
      BY <2>1
    <3>4. contexts[k] # Refused  BY <1>4, <2>1
    <3> HIDE DEF contexts
    <3> QED BY <3>1, <3>2, <3>3, <3>4, ResampledAreCandles
  <2>3. contexts \in [1..N -> Seq(ValidCandles)]
    <3> DEFINE S == Seq(ValidCandles)
    <3>1. contexts = [k \in 1..N |-> contexts[k]]  BY <2>1
    <3>2. \A k \in 1..N : contexts[k] \in S  BY <2>2
    <3> HIDE DEF contexts, S, N
    <3>3. contexts \in [1..N -> S]  BY <3>1, <3>2
    <3> QED BY <3>3 DEF S
  <2> DEFINE S == Seq(ValidCandles)
  <2>4. Execution \in S  BY ExecutionIsCandles DEF FeedInv
  <2> HIDE DEF contexts, N, S
  <2>5. contexts \in Seq(S) /\ Len(contexts) = N
    <3>1. contexts \in [1..N -> S]  BY <2>3 DEF S
    <3> QED BY <2>1, <3>1, FunctionIsSequence
  <2>6. <<Execution>> \in Seq(S) /\ Len(<<Execution>>) = 1  BY <2>4
  <2>7. series' \in Seq(S) /\ Len(series') = 1 + N  BY <1>4, <2>5, <2>6, ConcatProperties
  <2>8. Len(series') = N + 1  BY <2>1, <2>7
  <2>9. SeriesInv'  BY <2>7, <2>8 DEF SeriesInv, S, N
  <2>10. pc' = "input"  BY <1>4
  <2> QED BY <1>1, <1>2, <2>9, <2>10
        DEF FeedInv, InputInv, BundlesInv, CompositionInv, ViewInv
<1> QED BY <1>1, <1>3, <1>4

\* A damaged series still holds candles.
LEMMA SupplyOtherStep ==
  ASSUME FeedInv, SupplyOther
  PROVE  FeedInv'
<1> DEFINE S == Seq(ValidCandles)
<1>1. pc = "input" /\ pc' = pc /\ UNCHANGED <<source, skip, bar, view>>  BY DEF SupplyOther
<1>2. PICK slot \in Slots :
        /\ series[slot] # <<>>
        /\ \E s \in Others(series[slot]) \cup {series[x] : x \in Slots \ {slot}} :
             series' = [series EXCEPT ![slot] = s]
  BY DEF SupplyOther
<1>0. PICK s \in Others(series[slot]) \cup {series[x] : x \in Slots \ {slot}} :
        series' = [series EXCEPT ![slot] = s]
  BY <1>2
<1>3. series \in Seq(S) /\ Len(series) = Len(Requirements) + 1
  BY <1>1 DEF FeedInv, SeriesInv
<1>4. Slots = 1..Len(series)  BY <1>3, SlotsAre
<1>5. s \in S
  <2>1. \A x \in Slots : series[x] \in S
    <3> HIDE DEF S
    <3> QED BY <1>3, <1>4
  <2>2. Others(series[slot]) \subseteq Seq(ValidCandles)
    <3>1. series[slot] \in Seq(ValidCandles) /\ series[slot] # <<>>  BY <1>2, <2>1
    <3> QED BY <3>1, OthersAreCandles
  <2> HIDE DEF S
  <2> QED BY <1>0, <2>1, <2>2 DEF S
<1>6. series' \in Seq(S) /\ Len(series') = Len(series)
  <2> HIDE DEF S
  <2> QED BY <1>0, <1>3, <1>4, <1>5, ExceptSeq
<1>7. SeriesInv'  BY <1>3, <1>6 DEF SeriesInv
<1> QED BY <1>1, <1>7
      DEF FeedInv, CallerInv, InputInv, BundlesInv, CompositionInv, ViewInv

\* A state without candles, bundles, composition or view to speak of.
LEMMA QuietStep ==
  ASSUME FeedInv, UNCHANGED <<source, skip, bar, view>>, pc # "feeding", pc' = "refused"
  PROVE  FeedInv'
BY DEF FeedInv, CallerInv, SeriesInv, InputInv, BundlesInv, CompositionInv, ViewInv

\* An input that is built is a verified one.
LEMMA BuildInputStep ==
  ASSUME NotAFunction(Refused), FeedInv, BuildInput
  PROVE  FeedInv'
<1> DEFINE S == Seq(ValidCandles)
           built == FromVerified(Head(series), Tail(series))
<1>1. /\ pc = "input" /\ UNCHANGED <<source, skip, series, bar, view>>
      /\ \/ pc' = "refused"
         \/ built # Refused /\ input' = built /\ pc' = "indicators"
  BY DEF BuildInput, Refuse
<1>2. CASE pc' = "refused"  BY <1>1, <1>2, QuietStep
<1>3. CASE built # Refused /\ input' = built /\ pc' = "indicators"
  <2>1. series \in Seq(S) /\ Len(series) = Len(Requirements) + 1
    BY <1>1 DEF FeedInv, SeriesInv
  <2>2. Len(Requirements) \in Nat  BY SlotsAre
  <2>3. series # <<>>
    <3>1. Len(<<>>) = 0  OBVIOUS
    <3> QED BY <2>1, <2>2, <3>1
  <2>4. Head(series) \in S /\ Tail(series) \in Seq(S)
    <3> HIDE DEF S
    <3> QED BY <2>1, <2>3, HeadTailProperties
  <2>5. built = IF Acceptable(Head(series), Tail(series))
                THEN InputOf(Head(series), Tail(series)) ELSE Refused
    BY <2>4, FromVerifiedAccepts
  <2>6. Acceptable(Head(series), Tail(series)) /\ built = InputOf(Head(series), Tail(series))
    <3> HIDE DEF built
    <3> QED BY <1>3, <2>5
  <2>7. GoodInput(built)  BY <2>4, <2>6 DEF GoodInput
  <2> HIDE DEF built
  <2> QED BY <1>1, <1>3, <2>7
        DEF FeedInv, CallerInv, SeriesInv, InputInv, BundlesInv, CompositionInv, ViewInv
<1> QED BY <1>1, <1>2, <1>3

\* What a slot's bundle is when all were accepted.
Accepted(s, supplied) ==
  IF Keys[s] = {} THEN None
  ELSE IndicatorBundle(Candles(input, s), "exact", Timeframe(s), supplied)

\* Bundles that are built, of genuine series or forged ones, are genuine.
LEMMA BuildBundlesStep ==
  ASSUME NotAFunction(None), NotAFunction(Refused), FeedInv, BuildBundles
  PROVE  FeedInv'
<1> DEFINE genuine == [s \in Slots |-> Genuine(s, Candles(input, s))]
<1>1. /\ pc = "indicators" /\ UNCHANGED <<source, skip, input, bar, view>>
      /\ \/ pc' = "refused"
         \/ /\ pc' = "compose"
            /\ \E supplied :
                 /\ bundles' = [s \in Slots |-> Accepted(s, supplied[s])]
                 /\ \A s \in Slots : bundles'[s] # Refused
                 /\ \/ supplied = genuine
                    \/ \E slot \in Slots : \E forged \in Forged(slot) :
                         Keys[slot] # {} /\ supplied = [genuine EXCEPT ![slot] = forged]
  BY DEF BuildBundles, Refuse, Accepted
<1>2. CASE pc' = "refused"  BY <1>1, <1>2, QuietStep
<1>3. CASE pc' = "compose"
  <2>1. PICK supplied :
          /\ bundles' = [s \in Slots |-> Accepted(s, supplied[s])]
          /\ \A s \in Slots : bundles'[s] # Refused
          /\ \/ supplied = genuine
             \/ \E slot \in Slots : \E forged \in Forged(slot) :
                  Keys[slot] # {} /\ supplied = [genuine EXCEPT ![slot] = forged]
    BY <1>1, <1>3
  <2>2. GoodInput(input)  BY <1>1 DEF FeedInv, InputInv
  <2>3. ASSUME NEW s \in Slots PROVE bundles'[s] = BundleAt(input, s)
    <3> DEFINE C == Candles(input, s)
    <3>1. bundles'[s] = Accepted(s, supplied[s]) /\ bundles'[s] # Refused  BY <2>1
    <3>2. supplied[s] = Genuine(s, C) \/ (Keys[s] # {} /\ supplied[s] \in Forged(s))
      BY <2>1
    <3>3. CASE Keys[s] = {}  BY <3>1, <3>3 DEF Accepted, BundleAt
    <3>4. CASE Keys[s] # {}
      <4>1. /\ bundles'[s] = IndicatorBundle(C, "exact", Timeframe(s), supplied[s])
            /\ BundleAt(input, s) = BundleOf(s, C)
        BY <3>1, <3>4 DEF Accepted, BundleAt
      <4>2. CASE supplied[s] = Genuine(s, C)
        <5>1. C \in Seq(ValidCandles) /\ Canonical(C, Timeframe(s))  BY <2>2, SlotCandles
        <5> HIDE DEF C
        <5>2. IndicatorBundle(C, "exact", Timeframe(s), Genuine(s, C)) = BundleOf(s, C)
          BY <3>4, <5>1, GenuineAccepted
        <5> QED BY <4>1, <4>2, <5>2
      <4>3. CASE supplied[s] \in Forged(s)
        <5> DEFINE forged == supplied[s]
        <5>1. forged \in Forged(s) /\ IndicatorBundle(C, "exact", Timeframe(s), forged) # Refused
          BY <3>1, <4>1, <4>3
        <5> HIDE DEF forged
        <5>2. IndicatorBundle(C, "exact", Timeframe(s), forged) = BundleOf(s, C)
          BY <2>2, <3>4, <5>1, ForgedIsGenuine
        <5> QED BY <4>1, <5>2 DEF forged
      <4> QED BY <3>2, <4>2, <4>3
    <3> QED BY <3>3, <3>4
  <2>4. bundles' = BundlesOf(input)
    <3>1. bundles' = [s \in Slots |-> bundles'[s]]  BY <2>1
    <3> QED BY <2>3, <3>1 DEF BundlesOf
  <2> QED BY <1>1, <1>3, <2>4
        DEF FeedInv, CallerInv, SeriesInv, InputInv, BundlesInv, CompositionInv, ViewInv
<1> QED BY <1>1, <1>2, <1>3

\* A composition of genuine bundles carries the hash of the genuine feed.
LEMMA ComposeInputStep ==
  ASSUME NotAFunction(None), NotAFunction(Refused), FeedInv, ComposeInput
  PROVE  FeedInv'
<1>1. /\ pc = "compose" /\ UNCHANGED <<source, skip, input, bar, view>>
      /\ \/ pc' = "refused"
         \/ /\ Compose(input, bundles) # Refused /\ pc' = "open"
            /\ composition' = Compose(input, bundles)
  BY DEF ComposeInput, Refuse
<1>2. GoodInput(input) /\ bundles = BundlesOf(input)
  BY <1>1 DEF FeedInv, InputInv, BundlesInv
<1>3. CASE pc' = "refused"  BY <1>1, <1>3, QuietStep
<1>4. CASE /\ Compose(input, bundles) # Refused /\ pc' = "open"
           /\ composition' = Compose(input, bundles)
  <2>1. IsComposition(composition') /\ composition'.hash = FeedOf(input).hash
    BY <1>2, <1>4, ComposedHash
  <2>2. input' = input  BY <1>1
  <2>3. FeedOf(input)' = FeedOf(input)
    BY <2>2 DEF FeedOf, BundlesOf, BundleAt, HashAt, Candles
  <2>4. IsComposition(composition)'  BY <2>1 DEF IsComposition
  <2> QED BY <1>1, <1>4, <2>1, <2>2, <2>3, <2>4
        DEF FeedInv, CallerInv, SeriesInv, InputInv, BundlesInv, CompositionInv, ViewInv
<1> QED BY <1>1, <1>3, <1>4

\* Rewriting a composition leaves its hash, or none.
LEMMA RewriteStep ==
  ASSUME FeedInv, Rewrite
  PROVE  FeedInv'
<1>1. /\ pc = "open" /\ pc' = pc /\ UNCHANGED <<source, skip, input, bar, view>>
      /\ composition' \in Rewritten(composition)
  BY DEF Rewrite
<1>2. IsComposition(composition)
      /\ (composition.hash = FeedOf(input).hash \/ composition.hash = <<>>)
  BY <1>1 DEF FeedInv, CompositionInv
<1>3. /\ IsComposition(composition')
      /\ composition'.hash = composition.hash \/ composition'.hash = <<>>
  BY <1>1, <1>2, RewrittenHash
<1> QED BY <1>1, <1>2, <1>3
      DEF FeedInv, CallerInv, SeriesInv, InputInv, BundlesInv, CompositionInv, ViewInv

\* A feed that opens is the genuine one.
LEMMA OpenFeedStep ==
  ASSUME NotAFunction(None), NotAFunction(Refused), FeedInv, OpenFeed
  PROVE  FeedInv'
<1>1. /\ pc = "open" /\ UNCHANGED <<source, skip, input, bar, view>>
      /\ \/ pc' = "refused"
         \/ /\ Reverify(composition) # Refused /\ pc' = "feeding"
            /\ feed' = Reverify(composition)
  BY DEF OpenFeed, Refuse
<1>2. CASE pc' = "refused"  BY <1>1, <1>2, QuietStep
<1>3. CASE /\ Reverify(composition) # Refused /\ pc' = "feeding"
           /\ feed' = Reverify(composition)
  <2>1. GoodInput(input) /\ bar = 0 /\ view = None
        /\ (composition.hash = FeedOf(input).hash \/ composition.hash = <<>>)
    BY <1>1 DEF FeedInv, InputInv, CompositionInv, ViewInv
  <2>2. feed' = FeedOf(input)  BY <1>3, <2>1, Reverified
  <2>3. bar \in 0..Len(input.execution)
    <3>1. input.execution \in Seq(ValidCandles)  BY <2>1, InputFacts
    <3> QED BY <2>1, <3>1
  <2> QED BY <1>1, <1>3, <2>1, <2>2, <2>3
        DEF FeedInv, CallerInv, SeriesInv, InputInv, BundlesInv, CompositionInv, ViewInv
<1> QED BY <1>1, <1>2, <1>3

\* Each view is that of the next bar.
LEMMA NextViewStep ==
  ASSUME FeedInv, NextView
  PROVE  FeedInv'
<1>1. /\ pc = "feeding" /\ pc' = pc /\ UNCHANGED <<source, skip, input, feed>>
      /\ bar < Len(feed.input.execution)
      /\ bar' = bar + 1 /\ view' = ViewAt(feed, bar + 1)
  BY DEF NextView
<1>2. GoodInput(input) /\ feed = FeedOf(input) /\ bar \in 0..Len(input.execution)
  BY <1>1 DEF FeedInv, InputInv, ViewInv
<1>3. feed.input = input  BY <1>2 DEF FeedOf
<1>4. bar' \in 0..Len(input.execution) /\ bar' # 0
  <2>1. input.execution \in Seq(ValidCandles)  BY <1>2, InputFacts
  <2>2. Len(input.execution) \in Nat  BY <2>1
  <2> QED BY <1>1, <1>2, <1>3, <2>2
<1> QED BY <1>1, <1>2, <1>4
      DEF FeedInv, CallerInv, SeriesInv, InputInv, BundlesInv, CompositionInv, ViewInv

\* Every step preserves the invariant.
LEMMA FeedNext ==
  ASSUME NotAFunction(None), NotAFunction(Refused), FeedInv, [Next]_vars
  PROVE  FeedInv'
<1>1. CASE Next
  BY <1>1, ResampleStep, SupplyOtherStep, BuildInputStep, BuildBundlesStep, ComposeInputStep,
     RewriteStep, OpenFeedStep, NextViewStep DEF Next
<1>2. CASE UNCHANGED vars
  BY <1>2
     DEF vars, FeedInv, CallerInv, SeriesInv, InputInv, BundlesInv, CompositionInv, ViewInv
<1> QED BY <1>1, <1>2

-----------------------------------------------------------------------------
(* Theorems.                                                               *)

\* The invariant holds in every reachable state.
LEMMA FeedReachable ==
  ASSUME NotAFunction(None), NotAFunction(Refused)
  PROVE  Spec => []FeedInv
<1>1. Init => FeedInv  BY FeedInit
<1>2. FeedInv /\ [Next]_vars => FeedInv'  BY FeedNext
<1> QED BY <1>1, <1>2, PTL DEF Spec

\* What holds whenever a view is shown.
LEMMA ViewingFacts ==
  ASSUME NotAFunction(None), NotAFunction(Refused), FeedInv, Viewing
  PROVE  /\ GoodInput(input) /\ feed.input = input /\ feed.slots = BundlesOf(input)
         /\ bar \in 1..Len(input.execution)
         /\ view = ViewAt(feed, bar)
         /\ Decision = input.execution[bar].close_time
         /\ \A s \in Slots : /\ view.candles[s] = CandlesAt(input, bar, s)
                             /\ view.slots[s] = IndicatorsAt(input, bar, s)
<1>1. pc = "feeding" /\ view # None  BY DEF Viewing
<1>2. /\ GoodInput(input) /\ feed = FeedOf(input) /\ bar \in 0..Len(input.execution)
      /\ view = IF bar = 0 THEN None ELSE ViewAt(feed, bar)
  BY <1>1 DEF FeedInv, InputInv, ViewInv
<1>3. feed.input = input /\ feed.slots = BundlesOf(input)  BY <1>2 DEF FeedOf
<1>4. bar \in 1..Len(input.execution) /\ view = ViewAt(feed, bar)
  <2>1. Len(input.execution) \in Nat
    <3>1. input.execution \in Seq(ValidCandles)  BY <1>2, InputFacts
    <3> QED BY <3>1
  <2>2. bar # 0  BY <1>1, <1>2
  <2> QED BY <1>2, <2>1, <2>2
<1>5. \A s \in Slots : /\ view.candles[s] = CandlesAt(input, bar, s)
                       /\ view.slots[s] = IndicatorsAt(input, bar, s)
  BY <1>2, <1>3, <1>4, ViewIs
<1>6. Decision = input.execution[bar].close_time  BY <1>3 DEF Decision
<1> QED BY <1>2, <1>3, <1>4, <1>5, <1>6

\* Whatever was supplied, forged or rewritten, a feed that opened is genuine.
THEOREM FeedAlwaysGenuine ==
  ASSUME NotAFunction(None), NotAFunction(Refused), None # Refused
  PROVE  Spec => []OnlyGenuine
<1>1. ASSUME FeedInv PROVE OnlyGenuine
  <2> SUFFICES ASSUME pc = "feeding"
               PROVE  /\ view # Refused
                      /\ \A s \in Slots :
                           LET candles == Candles(feed.input, s) IN
                           /\ Canonical(candles, Timeframe(s))
                           /\ s > 1 => feed.input.contexts[s - 1].warmup_bars
                                         = Requirements[s - 1].warmup_bars
                           /\ feed.slots[s] # None =>
                                \A key \in DOMAIN feed.slots[s].series :
                                  feed.slots[s].series[key]
                                    = Calculated(key, "symbol", Timeframe(s), candles)
    BY DEF OnlyGenuine
  <2>1. /\ GoodInput(input) /\ feed = FeedOf(input) /\ bar \in 0..Len(input.execution)
        /\ view = IF bar = 0 THEN None ELSE ViewAt(feed, bar)
    BY <1>1 DEF FeedInv, InputInv, ViewInv
  <2>2. feed.input = input /\ feed.slots = BundlesOf(input)  BY <2>1 DEF FeedOf
  <2>3. view # Refused
    <3>1. CASE bar = 0  BY <2>1, <3>1
    <3>2. CASE bar # 0
      <4>1. Len(input.execution) \in Nat
        <5>1. input.execution \in Seq(ValidCandles)  BY <2>1, InputFacts
        <5> QED BY <5>1
      <4>2. bar \in 1..Len(input.execution)  BY <2>1, <3>2, <4>1
      <4> QED BY <2>1, <2>2, <3>2, <4>2, ViewIs
    <3> QED BY <3>1, <3>2
  <2>4. ASSUME NEW s \in Slots
        PROVE  LET candles == Candles(feed.input, s) IN
               /\ Canonical(candles, Timeframe(s))
               /\ s > 1 => feed.input.contexts[s - 1].warmup_bars
                             = Requirements[s - 1].warmup_bars
               /\ feed.slots[s] # None =>
                    \A key \in DOMAIN feed.slots[s].series :
                      feed.slots[s].series[key]
                        = Calculated(key, "symbol", Timeframe(s), candles)
    <3> DEFINE C == Candles(input, s)
    <3>1. Canonical(C, Timeframe(s))  BY <2>1, SlotCandles
    <3>2. s > 1 => input.contexts[s - 1].warmup_bars = Requirements[s - 1].warmup_bars
      <4> SUFFICES ASSUME s > 1
                   PROVE  input.contexts[s - 1].warmup_bars = Requirements[s - 1].warmup_bars
        OBVIOUS
      <4>1. s - 1 \in 1..Len(Requirements)
        <5>1. s # 1
          <6>1. s \in Int  BY SlotsAre
          <6> QED BY <6>1
        <5> QED BY <5>1, SlotsAre
      <4> QED BY <2>1, <4>1, InputFacts
    <3>3. ASSUME feed.slots[s] # None
          PROVE  \A key \in DOMAIN feed.slots[s].series :
                   feed.slots[s].series[key] = Calculated(key, "symbol", Timeframe(s), C)
      <4>1. feed.slots[s] = BundleAt(input, s)  BY <2>2 DEF BundlesOf
      <4>2. feed.slots[s] = BundleOf(s, C)  BY <3>3, <4>1 DEF BundleAt
      <4>3. BundleOf(s, C).series = BundleSeries(s, C)
        <5>1. BundleOf(s, C) = Bundle(C, "exact", Timeframe(s), BundleSeries(s, C))
          BY DEF BundleOf
        <5> HIDE DEF C
        <5> QED BY <5>1, BundleParts
      <4>4. /\ DOMAIN BundleSeries(s, C) = Keys[s]
            /\ \A key \in Keys[s] :
                 BundleSeries(s, C)[key] = Calculated(key, "symbol", Timeframe(s), C)
        BY DEF BundleSeries, Calculator
      <4> HIDE DEF C
      <4> QED BY <4>2, <4>3, <4>4
    <3> QED BY <2>2, <3>1, <3>2, <3>3
  <2> QED BY <2>3, <2>4
<1>2. Spec => []FeedInv  BY FeedReachable
<1> QED BY <1>1, <1>2, PTL

\* Every indicator in a view says of the closed candles what it is defined to.
THEOREM IndicatorsAlwaysMeanWindows ==
  ASSUME NotAFunction(None), NotAFunction(Refused)
  PROVE  Spec => []IndicatorsMeanWindows
<1>1. ASSUME FeedInv PROVE IndicatorsMeanWindows
  <2> DEFINE item(s, key) == view.slots[s].indicators.items[key]
  <2> SUFFICES ASSUME Viewing, NEW s \in Slots, view.slots[s].indicators # None,
                      NEW key \in Keys[s]
               PROVE  LET candles == Candles(feed.input, s)
                          n == view.candles[s].visible_count
                      IN /\ Says(key, candles, n, item(s, key).latest)
                         /\ AverageSteps(key, candles, n, item(s, key).history)
    BY DEF IndicatorsMeanWindows
  <2>1. /\ GoodInput(input) /\ feed.input = input /\ bar \in 1..Len(input.execution)
        /\ view.candles[s] = CandlesAt(input, bar, s)
        /\ view.slots[s] = IndicatorsAt(input, bar, s)
    BY <1>1, ViewingFacts
  <2>2. view.candles[s].visible_count = Shown(input, bar, s)
    BY <2>1, CandleViewIs DEF CandlesAt
  <2>3. Says(key, Candles(input, s), Shown(input, bar, s),
             IndicatorsAt(input, bar, s).indicators.items[key].latest)
    BY <2>1, LatestSays
  <2>4. AverageSteps(key, Candles(input, s), Shown(input, bar, s),
                     IndicatorsAt(input, bar, s).indicators.items[key].history)
    BY <2>1, LatestSteps
  <2> QED BY <2>1, <2>2, <2>3, <2>4
<1>2. Spec => []FeedInv  BY FeedReachable
<1> QED BY <1>1, <1>2, PTL

\* A view shows every context candle that has closed, each resampled one the
\* summary of its own bars.
THEOREM ContextsAlwaysFresh ==
  ASSUME NotAFunction(None), NotAFunction(Refused)
  PROVE  Spec => []ContextsAreFresh
<1>1. ASSUME FeedInv PROVE ContextsAreFresh
  <2> SUFFICES ASSUME Viewing, NEW k \in DOMAIN Requirements
               PROVE  LET candles == feed.input.contexts[k].candles
                          shown == view.candles[k + 1].visible_count
                      IN /\ \A j \in DOMAIN candles :
                              j <= shown <=> candles[j].close_time <= Decision
                         /\ Resampled(k) => \A j \in 1..shown : Summarizes(candles[j], source)
    BY DEF ContextsAreFresh
  <2> DEFINE C == input.contexts[k].candles
             s == k + 1
             n == Shown(input, bar, s)
             T == Requirements[k].timeframe
  <2>1. k \in 1..Len(Requirements) /\ s \in Slots /\ s # 1 /\ s - 1 = k
    <3>1. k \in 1..Len(Requirements)  BY FeedAssumption
    <3> QED BY <3>1, SlotsAre
  <2>2. /\ GoodInput(input) /\ feed.input = input /\ bar \in 1..Len(input.execution)
        /\ Decision = input.execution[bar].close_time
        /\ view.candles[s] = CandlesAt(input, bar, s)
    BY <1>1, <2>1, ViewingFacts
  <2>3. view.candles[s].visible_count = n
    BY <2>1, <2>2, CandleViewIs DEF CandlesAt
  <2>4. Candles(input, s) = C /\ C \in Seq(ValidCandles)
    BY <2>1, <2>2, InputFacts DEF Candles
  <2> HIDE DEF s
  <2>5. /\ n \in 0..Len(C)
        /\ \A j \in 1..Len(C) : j <= n <=> C[j].close_time <= input.execution[bar].close_time
    BY <2>1, <2>2, <2>4, ShownIsClosed
  <2>6. DOMAIN C = 1..Len(C) /\ Len(C) \in Nat  BY <2>4
  <2>7. \A j \in DOMAIN C : j <= n <=> C[j].close_time <= Decision
    <3> HIDE DEF C, n
    <3> QED BY <2>2, <2>5, <2>6
  <2>8. ASSUME Resampled(k) PROVE \A j \in 1..n : Summarizes(C[j], source)
    <3>1. C = ResampleCandles(source, ExecutionTf, T)  BY <2>2, <2>8 DEF Resampled
    <3>2. C # Refused
      <4>1. C = [x \in DOMAIN C |-> C[x]]  BY <2>4
      <4> HIDE DEF C
      <4> QED BY <4>1 DEF NotAFunction
    <3>3. ExecutionTf \in Nat \ {0} /\ T \in Nat \ {0} /\ source \in Seq(ValidCandles)
      <4>1. Timeframe(s) \in Nat \ {0} /\ Timeframe(s) = T  BY <2>1, SlotsAre DEF Timeframe
      <4> QED BY <1>1, <4>1, FeedAssumption DEF FeedInv, CallerInv
    <3> HIDE DEF C, n, T
    <3>4. \A j \in 1..n : j \in 1..Len(C)  BY <2>5, <2>6
    <3> QED BY <3>1, <3>2, <3>3, <3>4, ResampledSummarizes
  <2> QED BY <2>2, <2>3, <2>7, <2>8 DEF s
<1>2. Spec => []FeedInv  BY FeedReachable
<1> QED BY <1>1, <1>2, PTL

\* No candle that closes after a bar influences what can be read at the bar.
THEOREM NeverFutureInfluence ==
  ASSUME NotAFunction(None), NotAFunction(Refused)
  PROVE  Spec => []NoFutureInfluence
<1>1. ASSUME FeedInv PROVE NoFutureInfluence
  <2> SUFFICES ASSUME Viewing, NEW slot \in Slots, NEW j \in DOMAIN Candles(feed.input, slot),
                      NEW px \in Shapes,
                      Candles(feed.input, slot)[j].close_time > Decision
               PROVE  Observed(ViewAt(Twin(slot, j, px), bar)) = Observed(view)
    BY DEF NoFutureInfluence
  <2>1. /\ GoodInput(input) /\ feed.input = input /\ feed.slots = BundlesOf(input)
        /\ bar \in 1..Len(input.execution) /\ view = ViewAt(feed, bar)
        /\ Decision = input.execution[bar].close_time
    BY <1>1, ViewingFacts
  <2>2. Candles(input, slot) \in Seq(ValidCandles)  BY <2>1, SlotCandles
  <2>3. j \in 1..Len(Candles(input, slot))  BY <2>1, <2>2
  <2>4. ~(j <= Shown(input, bar, slot))
    <3> DEFINE a == Candles(input, slot)[j].close_time
               d == input.execution[bar].close_time
    <3>1. d \in Int /\ (j <= Shown(input, bar, slot) <=> a <= d)
      BY <2>1, <2>3, ShownIsClosed
    <3>2. a \in Int /\ a > d
      <4>1. Candles(input, slot)[j] \in ValidCandles  BY <2>2, <2>3
      <4> QED BY <2>1, <4>1, CandleParts
    <3> HIDE DEF a, d
    <3>3. ~(a <= d)  BY <3>1, <3>2
    <3> QED BY <3>1, <3>3
  <2>5. Hidden(feed.input, bar, slot, j)  BY <2>1, <2>3, <2>4 DEF Hidden
  <2>6. feed.slots = BundlesOf(feed.input)  BY <2>1
  <2>7. Observed(ViewAt(Twin(slot, j, px), bar)) = Observed(ViewAt(feed, bar))
    BY <2>5, <2>6, TwinSeen
  <2> QED BY <2>1, <2>7
<1>2. Spec => []FeedInv  BY FeedReachable
<1> QED BY <1>1, <1>2, PTL
=============================================================================
