----------------------------- MODULE BacktestProofs -----------------------------
(***************************************************************************)
(* What the simulator guarantees for every policy, every input, of any     *)
(* length, and every decision provider.  A strategy's backtest is written  *)
(* as runs of that simulator, so what is proved of the engine holds of it; *)
(* then what the adapter adds: where a strategy's trades come from and     *)
(* what its counters say.  The engine's theorems are about                 *)
(* BacktestEngine!Spec and use nothing of StrategyBacktest.                *)
(***************************************************************************)
EXTENDS StrategyBacktest, LoopFacts

(***************************************************************************)
(* The inductive invariant: the properties, and what links the phases of a *)
(* bar to one another.                                                     *)
(***************************************************************************)

Running == {"fill", "protect", "decide", "end"}

BarInRange ==
  /\ phase = "validate" => bar = 1
  /\ phase \in Running => bar \in 1..Len(candles)
  /\ phase = "end" => bar = Len(candles)

\* An intent waits from a close to the next open, or to the end of the data.
IntentWaits ==
  /\ phase \in {"validate", "protect", "decide", "done"} => pending = None
  /\ unfilled # <<>> => phase \in {"end", "done", "failed"} /\ pending = None

\* The open position is the last fill, on this bar or an earlier one.
PositionIsLastFill ==
  position # None =>
    LET f == fills[2 * Len(trades) + 1] IN
    /\ position.id = Len(trades) + 1 /\ f.position = position.id
    /\ f.reason = "market_entry" /\ f.buy = (position.dir = "long")
    /\ f.qty = position.qty /\ f.price = position.entry /\ f.fee = position.fee
    /\ f.bar = position.bar /\ position.bar <= bar

\* The two halves of LevelsHonoured.
Survived ==
  phase \in {"decide", "end"} /\ position # None =>
    /\ ~Touches(position.dir, candles[bar], position.stop)
    /\ ~Reaches(position.dir, candles[bar], position.target)
ExitsByLevel ==
  \A n \in 1..Len(trades) : LET t == trades[n]  c == candles[fills[2 * n].bar] IN
    /\ t.reason = "take_profit" => ~Touches(t.dir, c, t.stop)
    /\ t.ambiguous <=> (t.reason = "stop_loss" /\ Reaches(t.dir, c, t.target))

\* FillsPairUp and NoLookahead, of one pair and of one fill.
PairFits(in, out, t, n) ==
  /\ <<in.position, out.position, t.position>> = <<n, n, n>>
  /\ in.reason = "market_entry" /\ out.reason = t.reason
  /\ in.buy = (t.dir = "long") /\ out.buy = (t.dir = "short")
  /\ <<in.qty, out.qty>> = <<t.qty, t.qty>>
  /\ <<in.price, out.price>> = <<t.entry, t.exit>>
  /\ t.held = out.bar - in.bar /\ t.held >= 0
  /\ t.fees = in.fee + out.fee
FillFits(f) ==
  /\ f.reason \in {"market_entry", "explicit_exit"} =>
       f.decided = f.bar - 1 /\ f.ref = candles[f.bar].open
  /\ f.reason \in {"stop_loss", "take_profit"} => f.decided = None
  /\ f.reason = "end_of_data" => f.bar = Len(candles)

\* Position ids are given in step with the trades.
IdsInStep == positionSeq = Len(trades) + (IF position = None THEN 0 ELSE 1)

BooksInv ==
  /\ EquityReconciles
  /\ IdsInStep
  /\ FillsPairUp
  /\ NoLookahead
  /\ ExitsByLevel

IInv ==
  /\ TypeOK
  /\ BarInRange
  /\ IntentWaits
  /\ PendingFits
  /\ PositionIsLastFill
  /\ Survived
  /\ BooksInv
-----------------------------------------------------------------------------
(* Prices and sequences.                                                   *)

\* Appending to a sequence keeps what was there.
LEMMA AppendKeeps ==
  ASSUME NEW S, NEW s \in Seq(S), NEW e \in S
  PROVE  /\ Append(s, e) \in Seq(S)
         /\ Len(Append(s, e)) = Len(s) + 1 /\ Len(s) \in Nat
         /\ \A i \in 1..Len(s) : Append(s, e)[i] = s[i] /\ s[i] \in S
         /\ Append(s, e)[Len(s) + 1] = e
OBVIOUS

\* Rounding to the tick, fees and gains are integers.
LEMMA MoneyTyped ==
  ASSUME NEW dir \in Directions, NEW ref \in Int
  PROVE  /\ EntryPrice(dir, ref) \in Int /\ ExitPrice(dir, ref) \in Int
         /\ Level(dir, ref) \in Int
         /\ \A qty \in Int : Fee(ref, qty) \in Int
         /\ \A pos \in Position : Gross(pos, ref) \in Int
<1>0. /\ Tick \in Nat \ {0} /\ FeeBps \in Nat /\ SlippageBps \in Int
      /\ Bps \in Nat \ {0} /\ Bps * Tick \in Nat \ {0}
  BY PolicyAssumption DEF Bps
<1>1. ASSUME NEW x \in Int PROVE FloorToTick(x) \in Int /\ CeilToTick(x) \in Int
  <2> DEFINE d == Bps * Tick
  <2>1. d \in Nat \ {0}  BY <1>0
  <2> HIDE DEF d
  <2>2. x \div d \in Int /\ (-x) \div d \in Int  BY <2>1
  <2>3. (x \div d) * Tick \in Int /\ -((-x) \div d) * Tick \in Int  BY <2>2, <1>0
  <2> QED BY <2>3 DEF FloorToTick, CeilToTick, d
<1>2. /\ ref * (Bps + SlippageBps) \in Int /\ ref * (Bps - SlippageBps) \in Int
      /\ ref * Bps \in Int
  BY <1>0
<1>3. BuyFill(ref) \in Int /\ SellFill(ref) \in Int  BY <1>1, <1>2 DEF BuyFill, SellFill
<1>4. \A qty \in Int : Fee(ref, qty) \in Int  BY <1>0 DEF Fee
<1>5. \A pos \in Position : Gross(pos, ref) \in Int  BY <1>0 DEF Gross, Position
<1> QED BY <1>1, <1>2, <1>3, <1>4, <1>5 DEF EntryPrice, ExitPrice, Level

\* Division by a positive number, rounding down.
LEMMA FloorDivision ==
  ASSUME NEW x \in Int, NEW d \in Nat \ {0}
  PROVE  /\ x \div d \in Int
         /\ (x \div d) * d <= x
         /\ x < (x \div d) * d + d
OBVIOUS

\* A multiple leaves no remainder.
LEMMA MultipleOf ==
  ASSUME NEW q \in Int, NEW d \in Nat \ {0}
  PROVE  (q * d) % d = 0
<1> DEFINE x == q * d
           r == x % d
           k == x \div d
<1>1. x \in Int /\ k \in Int /\ r \in 0..(d - 1) /\ x = d * k + r  OBVIOUS
<1>2. r = d * (q - k)  BY <1>1
<1>3. q - k \in Int  BY <1>1
<1>4. q - k >= 1 => d * (q - k) >= d  BY <1>3
<1>5. q - k <= -1 => d * (q - k) <= -d  BY <1>3
<1>6. q - k = 0 => d * (q - k) = 0  BY <1>3
<1> HIDE DEF r, k
<1> QED BY <1>1, <1>2, <1>3, <1>4, <1>5, <1>6

\* Slippage and rounding go against the trader, whatever the policy: a purchase
\* costs no less than the reference price and a sale brings no more, in whole ticks.
LEMMA RoundingIsAdverse ==
  ASSUME NEW ref \in Int
  PROVE  /\ BuyFill(ref) \in Int /\ BuyFill(ref) % Tick = 0
         /\ BuyFill(ref) > 0 => BuyFill(ref) >= ref
         /\ SellFill(ref) \in Int /\ SellFill(ref) % Tick = 0
         /\ SellFill(ref) > 0 => SellFill(ref) <= ref
<1> DEFINE d == Bps * Tick
<1>1. /\ Tick \in Nat \ {0} /\ Bps = 10000 /\ d \in Nat \ {0}
      /\ SlippageBps \in Int /\ Bps - SlippageBps > 0 /\ SlippageBps >= 0
  BY PolicyAssumption DEF Bps
<1>2. /\ BuyFill(ref) \in Int /\ BuyFill(ref) % Tick = 0
      /\ BuyFill(ref) > 0 => BuyFill(ref) >= ref
  <2> DEFINE x == ref * (Bps + SlippageBps)
             q == (-x) \div d
  <2>1. x \in Int /\ -x \in Int  BY <1>1
  <2>2. q \in Int /\ q * d <= -x /\ -x < q * d + d
    <3> HIDE DEF x, d
    <3> QED BY <1>1, <2>1, FloorDivision
  <2>3. BuyFill(ref) = (-q) * Tick
    <3>1. BuyFill(ref) = -q * Tick  BY DEF BuyFill, CeilToTick
    <3> HIDE DEF q
    <3> QED BY <1>1, <2>2, <3>1
  <2>4. (-q) * Tick \in Int /\ ((-q) * Tick) % Tick = 0
    <3> HIDE DEF q
    <3> QED BY <1>1, <2>2, MultipleOf
  <2>5. ASSUME (-q) * Tick > 0 PROVE (-q) * Tick >= ref
    <3>1. q <= -1
      <4> HIDE DEF q
      <4>1. q >= 0 => (-q) * Tick <= 0  BY <1>1, <2>2
      <4> QED BY <2>2, <2>4, <2>5, <4>1
    <3>2. x > 0
      <4> HIDE DEF q, x, d
      <4>1. q * d + d <= 0  BY <1>1, <2>2, <3>1
      <4>2. q * d \in Int  BY <1>1, <2>2
      <4> QED BY <1>1, <2>1, <2>2, <4>1, <4>2
    <3>3. ref > 0
      <4>1. ref <= 0 => x <= 0  BY <1>1
      <4> HIDE DEF x
      <4> QED BY <2>1, <3>2, <4>1
    <3>4. x >= ref * Bps
      <4>1. ref * (Bps + SlippageBps) = ref * Bps + ref * SlippageBps  BY <1>1
      <4>2. ref * SlippageBps >= 0 /\ ref * SlippageBps \in Int /\ ref * Bps \in Int  BY <1>1, <3>3
      <4> QED BY <4>1, <4>2
    <3>5. ((-q) * Tick) * Bps = -(q * d)
      <4> HIDE DEF q
      <4> QED BY <1>1, <2>2
    <3> DEFINE price == (-q) * Tick
    <3>6. price * Bps >= ref * Bps
      <4> HIDE DEF q, x, d
      <4>1. q * d \in Int /\ ref * Bps \in Int  BY <1>1, <2>2
      <4> QED BY <2>1, <2>2, <3>4, <3>5, <4>1
    <3>7. price >= ref
      <4> HIDE DEF price
      <4>1. price \in Int  BY <2>4 DEF price
      <4> QED BY <1>1, <3>6, <4>1
    <3> QED BY <3>7
  <2> HIDE DEF q
  <2> QED BY <2>3, <2>4, <2>5
<1>3. /\ SellFill(ref) \in Int /\ SellFill(ref) % Tick = 0
      /\ SellFill(ref) > 0 => SellFill(ref) <= ref
  <2> DEFINE x == ref * (Bps - SlippageBps)
             q == x \div d
             price == q * Tick
  <2>1. x \in Int  BY <1>1
  <2>2. q \in Int /\ q * d <= x
    <3> HIDE DEF x, d
    <3> QED BY <1>1, <2>1, FloorDivision
  <2>3. SellFill(ref) = price  BY DEF SellFill, FloorToTick
  <2>4. price \in Int /\ price % Tick = 0
    <3> HIDE DEF q
    <3> QED BY <1>1, <2>2, MultipleOf
  <2>5. ASSUME price > 0 PROVE price <= ref
    <3>1. price * Bps = q * d
      <4> HIDE DEF q
      <4> QED BY <1>1, <2>2
    <3>2. price * Bps <= x
      <4> HIDE DEF price, q, x, d
      <4> QED BY <2>2, <3>1
    <3>3. ref > 0
      <4>1. x > 0
        <5> HIDE DEF price, x
        <5> QED BY <1>1, <2>1, <2>4, <2>5, <3>2
      <4>2. ref <= 0 => x <= 0  BY <1>1
      <4> HIDE DEF x
      <4> QED BY <2>1, <4>1, <4>2
    <3>4. x <= ref * Bps
      <4>1. ref * (Bps - SlippageBps) = ref * Bps - ref * SlippageBps  BY <1>1
      <4>2. ref * SlippageBps >= 0 /\ ref * SlippageBps \in Int /\ ref * Bps \in Int  BY <1>1, <3>3
      <4> QED BY <4>1, <4>2
    <3> HIDE DEF price, x
    <3> QED BY <1>1, <2>1, <2>4, <3>2, <3>4
  <2> HIDE DEF price
  <2> QED BY <2>3, <2>4, <2>5
<1> QED BY <1>2, <1>3
-----------------------------------------------------------------------------
(* Sums, and the deepest fall of a curve.                                  *)

\* The sum of a sequence, round by round.
LEMMA TotalRounds ==
  ASSUME NEW s \in Seq(Int)
  PROVE  \E sum \in [0..Len(s) -> Int] :
           /\ sum[0] = 0 /\ \A n \in 1..Len(s) : sum[n] = sum[n - 1] + s[n]
           /\ Total(s) = sum[Len(s)]
<1> DEFINE N == Len(s)
           Round(F) == [n \in 0..N |-> IF n = 0 THEN 0 ELSE F[n - 1] + s[n]]
           sum == CHOOSE F : F = Round(F)
           step == [p \in (1..N) \X Int |-> p[2] + s[p[1]]]
<1>1. N \in Nat /\ \A n \in 1..N : s[n] \in Int  OBVIOUS
<1>2. step \in [(1..N) \X Int -> Int]  BY <1>1
<1>3. PICK f : LoopRun(f, N, Int, 0, step)
  <2> HIDE DEF step, N
  <2>1. 0 \in Int  OBVIOUS
  <2> QED BY <1>1, <1>2, <2>1, LoopExists
<1>a. f \in [0..N -> Int] /\ f[0] = 0 /\ \A n \in 1..N : f[n] = step[<<n, f[n - 1]>>]
  BY <1>3 DEF LoopRun
<1>4. ASSUME NEW n \in 1..N PROVE f[n] = f[n - 1] + s[n]
  <2>1. f[n - 1] \in Int  BY <1>a
  <2>2. step[<<n, f[n - 1]>>] = f[n - 1] + s[n]  BY <2>1
  <2> HIDE DEF step
  <2> QED BY <1>a, <2>2
<1>5. f = Round(f)
  <2>1. \A n \in 0..N : n = 0 \/ n \in 1..N  BY <1>1
  <2>2. \A n \in 0..N : f[n] = Round(f)[n]
    <3> HIDE DEF step
    <3> QED BY <1>a, <1>4, <2>1
  <2> HIDE DEF N, step
  <2> QED BY <1>a, <2>2
<1>6. sum = Round(sum)
  <2> HIDE DEF Round
  <2> QED BY <1>5
<1>7. sum[0] = 0 /\ \A n \in 1..N : sum[n] = sum[n - 1] + s[n]
  <2> HIDE DEF sum
  <2>1. \A n \in 0..N : sum[n] = IF n = 0 THEN 0 ELSE sum[n - 1] + s[n]  BY <1>6
  <2> QED BY <1>1, <2>1
<1> DEFINE K == {k \in 0..N : sum[k] \in Int}
<1>8. 0..N \subseteq K
  <2>1. 0 \in K
    <3> HIDE DEF sum
    <3> QED BY <1>1, <1>7
  <2>2. ASSUME NEW k \in 1..N, k - 1 \in K PROVE k \in K
    <3> HIDE DEF sum
    <3> QED BY <1>1, <1>7, <2>2
  <2> HIDE DEF K, N
  <2> QED BY <1>1, <2>1, <2>2, Rounds
<1>9. sum \in [0..N -> Int]
  <2> HIDE DEF sum
  <2>1. DOMAIN sum = 0..N /\ sum = [n \in 0..N |-> sum[n]]  BY <1>6
  <2>2. \A n \in 0..N : sum[n] \in Int  BY <1>8
  <2> QED BY <2>1, <2>2
<1>10. Total(s) = sum[N]  BY DEF Total
<1> HIDE DEF sum
<1> QED BY <1>7, <1>9, <1>10

\* Adding an amount adds it to the sum.
LEMMA TotalAppend ==
  ASSUME NEW s \in Seq(Int), NEW e \in Int
  PROVE  Total(s) \in Int /\ Total(Append(s, e)) = Total(s) + e
<1> DEFINE t == Append(s, e)
           N == Len(s)
<1>1. /\ N \in Nat /\ t \in Seq(Int) /\ Len(t) = N + 1 /\ t[N + 1] = e
      /\ \A n \in 1..N : t[n] = s[n] /\ s[n] \in Int
  OBVIOUS
<1>2. PICK f \in [0..N -> Int] :
        /\ f[0] = 0 /\ \A n \in 1..N : f[n] = f[n - 1] + s[n]
        /\ Total(s) = f[N]
  BY TotalRounds
<1>3. PICK g \in [0..(N + 1) -> Int] :
        /\ g[0] = 0 /\ \A n \in 1..(N + 1) : g[n] = g[n - 1] + t[n]
        /\ Total(t) = g[N + 1]
  <2> HIDE DEF t
  <2> QED BY <1>1, TotalRounds
<1> DEFINE K == {k \in 0..N : f[k] = g[k]}
<1>4. 0..N \subseteq K
  <2>1. 0 \in K  BY <1>1, <1>2, <1>3
  <2>2. ASSUME NEW k \in 1..N, k - 1 \in K PROVE k \in K
    <3>1. k \in 1..(N + 1) /\ g[k] = g[k - 1] + t[k] /\ t[k] = s[k]  BY <1>1, <1>3
    <3> HIDE DEF t
    <3> QED BY <1>2, <2>2, <3>1
  <2> HIDE DEF K, N
  <2> QED BY <1>1, <2>1, <2>2, Rounds
<1>5. f[N] = g[N]
  <2> HIDE DEF t
  <2> QED BY <1>1, <1>4
<1>6. g[N + 1] = g[N] + e
  <2>1. N + 1 \in 1..(N + 1) /\ (N + 1) - 1 = N  BY <1>1
  <2> HIDE DEF t, N
  <2> QED BY <1>1, <1>3, <2>1
<1>7. f[N] \in Int  BY <1>1
<1> HIDE DEF t, N
<1> QED BY <1>2, <1>3, <1>5, <1>6, <1>7 DEF t

\* Nothing sums to nothing.
LEMMA TotalEmpty == Total(<<>>) = 0
<1>1. <<>> \in Seq(Int) /\ Len(<<>>) = 0  OBVIOUS
<1> QED BY <1>1, TotalRounds

\* What a run's peak and deepest fall are after n points.
Deepest(s, n, peak, fall) ==
  /\ \E i \in 1..n : peak = s[i]
  /\ \A i \in 1..n : s[i] <= peak
  /\ \E i, j \in 1..n : i <= j /\ fall = s[i] - s[j]
  /\ \A i, j \in 1..n : i <= j => fall >= s[i] - s[j]

\* One more point.
LEMMA DeepestStep ==
  ASSUME NEW s \in Seq(Int), NEW n \in 1..Len(s), NEW peak \in Int, NEW fall \in Int,
         IF n = 1 THEN peak = s[1] /\ fall = 0 ELSE Deepest(s, n - 1, peak, fall),
         NEW higher, higher = IF s[n] > peak THEN s[n] ELSE peak,
         NEW deeper, deeper = IF higher - s[n] > fall THEN higher - s[n] ELSE fall
  PROVE  Deepest(s, n, higher, deeper) /\ higher \in Int /\ deeper \in Int
<1>1. \A i \in 1..n : s[i] \in Int  OBVIOUS
<1>2. higher \in Int /\ deeper \in Int  BY <1>1
<1>3. CASE n = 1
  <2>1. higher = s[1] /\ deeper = 0  BY <1>1, <1>3
  <2> QED BY <1>1, <1>2, <1>3, <2>1 DEF Deepest
<1>4. CASE n # 1
  <2>0. n - 1 \in Nat /\ \A i \in 1..n : i = n \/ i \in 1..(n - 1)  OBVIOUS
  <2>1. Deepest(s, n - 1, peak, fall)  BY <1>4
  <2>2. \E i \in 1..n : higher = s[i]
    <3>1. CASE s[n] > peak  BY <3>1
    <3>2. CASE ~(s[n] > peak)  BY <2>1, <3>2 DEF Deepest
    <3> QED BY <3>1, <3>2
  <2>3. \A i \in 1..n : s[i] <= higher
    <3>1. \A i \in 1..(n - 1) : s[i] <= peak  BY <2>1 DEF Deepest
    <3> QED BY <1>1, <2>0, <3>1
  <2>4. \E i, j \in 1..n : i <= j /\ deeper = s[i] - s[j]
    <3>1. CASE higher - s[n] > fall
      <4>1. PICK i \in 1..n : higher = s[i]  BY <2>2
      <4> QED BY <3>1, <4>1
    <3>2. CASE ~(higher - s[n] > fall)
      <4>1. PICK i \in 1..(n - 1), j \in 1..(n - 1) : i <= j /\ fall = s[i] - s[j]
        BY <2>1 DEF Deepest
      <4>2. i \in 1..n /\ j \in 1..n  OBVIOUS
      <4> QED BY <3>2, <4>1, <4>2
    <3> QED BY <3>1, <3>2
  <2>5. \A i, j \in 1..n : i <= j => deeper >= s[i] - s[j]
    <3> SUFFICES ASSUME NEW i \in 1..n, NEW j \in 1..n, i <= j PROVE deeper >= s[i] - s[j]
      OBVIOUS
    <3>1. CASE j = n
      <4>1. s[i] <= higher /\ s[i] \in Int /\ s[n] \in Int  BY <1>1, <2>3
      <4>2. deeper >= higher - s[n]  BY <1>1, <1>2
      <4> QED BY <1>2, <3>1, <4>1, <4>2
    <3>2. CASE j # n
      <4>1. i \in 1..(n - 1) /\ j \in 1..(n - 1)  BY <3>2
      <4>2. fall >= s[i] - s[j]  BY <2>1, <4>1 DEF Deepest
      <4>3. s[i] - s[j] \in Int  BY <1>1
      <4>4. higher - s[n] \in Int  BY <1>1, <1>2
      <4>5. deeper >= fall  BY <4>4
      <4> QED BY <1>2, <4>2, <4>3, <4>5
    <3> QED BY <3>1, <3>2
  <2> QED BY <1>2, <2>2, <2>3, <2>4, <2>5 DEF Deepest
<1> QED BY <1>3, <1>4

\* The running peak finds the deepest fall between any two points of the curve.
LEMMA DrawdownIsDeepest ==
  ASSUME NEW s \in Seq(Int), s # <<>>
  PROVE  MaxDrawdown(s) = DeepestFall(s)
<1> DEFINE N == Len(s)
           T == [peak : Int, fall : Int]
           Up(a, n) == IF s[n] > a.peak THEN s[n] ELSE a.peak
           Next1(a, n) == LET peak == Up(a, n)
                              fall == a.fall
                          IN [peak |-> peak, fall |-> IF peak - s[n] > fall THEN peak - s[n] ELSE fall]
           base == [peak |-> s[1], fall |-> 0]
           Round(F) == [n \in 0..N |-> IF n = 0 THEN base ELSE Next1(F[n - 1], n)]
           run == CHOOSE F : F = Round(F)
           step == [p \in (1..N) \X T |-> Next1(p[2], p[1])]
<1>1. N \in Nat \ {0} /\ (\A n \in 1..N : s[n] \in Int) /\ base \in T  OBVIOUS
<1>2. ASSUME NEW a \in T, NEW n \in 1..N PROVE Next1(a, n) \in T
  BY <1>1
<1>3. step \in [(1..N) \X T -> T]
  <2> HIDE DEF Next1, T, N
  <2> QED BY <1>2
<1>4. PICK f : LoopRun(f, N, T, base, step)
  <2>1. N \in Nat  BY <1>1
  <2> HIDE DEF step, N, T, base
  <2> QED BY <1>1, <1>3, <2>1, LoopExists
<1>a. f \in [0..N -> T] /\ f[0] = base /\ \A n \in 1..N : f[n] = step[<<n, f[n - 1]>>]
  <2> HIDE DEF step, N, T, base
  <2> QED BY <1>4 DEF LoopRun
<1>5. ASSUME NEW n \in 1..N PROVE f[n] = Next1(f[n - 1], n)
  <2> HIDE DEF T, Next1
  <2>1. f[n - 1] \in T  BY <1>1, <1>a
  <2>2. step[<<n, f[n - 1]>>] = Next1(f[n - 1], n)  BY <2>1
  <2> HIDE DEF step
  <2> QED BY <1>a, <2>2
<1>6. f = Round(f)
  <2>1. \A n \in 0..N : n = 0 \/ n \in 1..N  BY <1>1
  <2> HIDE DEF step, Next1, base, T
  <2>2. \A n \in 0..N : f[n] = Round(f)[n]  BY <1>a, <1>5, <2>1
  <2> HIDE DEF N
  <2> QED BY <1>a, <2>2
<1>7. run = Round(run)
  <2> HIDE DEF Round
  <2> QED BY <1>6
<1>8. run[0] = base /\ \A n \in 1..N : run[n] = Next1(run[n - 1], n)
  <2> HIDE DEF run, Next1, base
  <2>1. \A n \in 0..N : run[n] = IF n = 0 THEN base ELSE Next1(run[n - 1], n)  BY <1>7
  <2> QED BY <1>1, <2>1
<1> DEFINE Good(k) == /\ run[k].peak \in Int /\ run[k].fall \in Int
                      /\ IF k = 0 THEN run[0] = base ELSE Deepest(s, k, run[k].peak, run[k].fall)
           K == {k \in 0..N : Good(k)}
<1>9. 0 \in K
  <2> HIDE DEF run
  <2> QED BY <1>1, <1>8
<1>10. ASSUME NEW k \in 1..N, k - 1 \in K PROVE k \in K
  <2> DEFINE a == run[k - 1]
  <2>1. a.peak \in Int /\ a.fall \in Int
    <3> HIDE DEF run
    <3> QED BY <1>10
  <2>2. IF k = 1 THEN a.peak = s[1] /\ a.fall = 0 ELSE Deepest(s, k - 1, a.peak, a.fall)
    <3> HIDE DEF run
    <3> QED BY <1>10
  <2>3. run[k] = Next1(a, k)
    <3> HIDE DEF run, Next1
    <3> QED BY <1>8
  <2> DEFINE higher == Up(a, k)
             deeper == IF higher - s[k] > a.fall THEN higher - s[k] ELSE a.fall
  <2>4. run[k].peak = higher /\ run[k].fall = deeper
    <3> HIDE DEF run
    <3> QED BY <2>3
  <2>5. higher = IF s[k] > a.peak THEN s[k] ELSE a.peak  OBVIOUS
  <2>6. Deepest(s, k, higher, deeper) /\ higher \in Int /\ deeper \in Int
    <3> HIDE DEF a, higher
    <3> QED BY <2>1, <2>2, <2>5, DeepestStep
  <2> HIDE DEF run, higher, deeper
  <2> QED BY <2>4, <2>6
<1>11. N \in K
  <2> HIDE DEF K, N
  <2>1. 0..N \subseteq K  BY <1>1, <1>9, <1>10, Rounds
  <2> QED BY <1>1, <2>1
<1> DEFINE d == run[N].fall
<1>12. MaxDrawdown(s) = d  BY DEF MaxDrawdown
<1>13. Deepest(s, N, run[N].peak, d) /\ d \in Int
  <2> HIDE DEF run
  <2> QED BY <1>1, <1>11
<1> HIDE DEF d
<1> DEFINE Fall(e) == /\ \E i, j \in 1..N : i <= j /\ e = s[i] - s[j]
                      /\ \A i, j \in 1..N : i <= j => e >= s[i] - s[j]
<1> DEFINE S == {s[i] - s[j] : i, j \in 1..N}
<1> HIDE DEF run
<1>14. d \in S /\ Fall(d)
  <2>1. \E i, j \in 1..N : i <= j /\ d = s[i] - s[j]  BY <1>13 DEF Deepest
  <2>2. \A i, j \in 1..N : i <= j => d >= s[i] - s[j]  BY <1>13 DEF Deepest
  <2>3. d \in S  BY <2>1
  <2> HIDE DEF S, N
  <2> QED BY <2>1, <2>2, <2>3
<1>15. ASSUME NEW e \in S, Fall(e) PROVE e = d
  <2>1. e \in Int  BY <1>1
  <2>2. PICK i \in 1..N, j \in 1..N : i <= j /\ d = s[i] - s[j]  BY <1>14
  <2>3. e >= d  BY <1>15, <2>2
  <2>4. PICK k \in 1..N, l \in 1..N : k <= l /\ e = s[k] - s[l]  BY <1>15
  <2>5. d >= e  BY <1>14, <2>4
  <2> HIDE DEF Fall
  <2> QED BY <1>13, <2>1, <2>3, <2>5
<1>16. DeepestFall(s) = d
  <2>1. DeepestFall(s) = CHOOSE e \in S : Fall(e)  BY DEF DeepestFall
  <2> HIDE DEF S, Fall
  <2>2. LET e == CHOOSE x \in S : Fall(x) IN e \in S /\ Fall(e)  BY <1>14
  <2> QED BY <1>15, <2>1, <2>2
<1> QED BY <1>12, <1>16
-----------------------------------------------------------------------------
(* What a fill does to the books.                                          *)

\* FillsAreAdverse, of one fill.
Adverse(f) ==
  /\ f.price > 0 /\ f.price % Tick = 0
  /\ IF f.buy THEN f.price >= f.ref ELSE f.price <= f.ref

ExitReasons == {"explicit_exit", "stop_loss", "take_profit", "end_of_data"}

\* One fill and one trade, made of the open position.
Closed(f, t, reason, ref, decided, ambiguous) ==
  /\ fills' = Append(fills, f) /\ trades' = Append(trades, t)
  /\ equity' = equity + t.net + position.fee
  /\ curve' = Append(curve, equity')
  /\ netTotal' = netTotal + t.net
  /\ position' = None /\ UNCHANGED positionSeq
  /\ f.position = position.id /\ f.bar = bar /\ f.buy = (position.dir = "short")
  /\ f.reason = reason /\ f.ref = ref /\ f.decided = decided /\ f.qty = position.qty
  /\ t.position = position.id /\ t.dir = position.dir /\ t.qty = position.qty
  /\ t.entry = position.entry /\ t.exit = f.price /\ t.reason = reason
  /\ t.stop = position.stop /\ t.target = position.target
  /\ t.fees = position.fee + f.fee /\ t.net = t.gross - t.fees
  /\ t.held = bar - position.bar /\ t.ambiguous = ambiguous
  /\ Adverse(f)

\* _execute_exit either raises or writes exactly one fill and one trade.
LEMMA Closing ==
  ASSUME TypeOK, position # None, NEW reason \in ExitReasons, NEW ref \in Int,
         NEW decided \in Int \cup {None}, NEW ambiguous \in BOOLEAN, NEW next,
         Close(reason, ref, decided, ambiguous, next)
  PROVE  \/ Fail("exit_price") /\ UNCHANGED books
         \/ /\ \E f \in FillRecord, t \in Trade :
                 Closed(f, t, reason, ref, decided, ambiguous)
            /\ phase' = next /\ UNCHANGED error
<1> DEFINE price == ExitPrice(position.dir, ref)
           f == ExitFill(reason, ref, price, decided)
           t == ClosedTrade(reason, price, ambiguous)
<1>1. position \in Position /\ bar \in Nat  BY DEF TypeOK
<1>2. /\ position.id \in Nat /\ position.dir \in Directions /\ position.qty \in Int
      /\ position.bar \in Nat /\ position.entry \in Int /\ position.fee \in Int
      /\ position.stop \in Int /\ position.target \in Int
  BY <1>1 DEF Position, Money
<1>3. price \in Int  BY <1>2, MoneyTyped
<1> DEFINE fee == Fee(price, position.qty)
           gross == Gross(position, price)
<1>4. fee \in Int /\ gross \in Int  BY <1>1, <1>2, <1>3, MoneyTyped
<1>5. f \in FillRecord
  BY <1>1, <1>2, <1>3, <1>4 DEF ExitFill, FillRecord, Money, ExitReasons
<1>6. t \in Trade
  BY <1>1, <1>2, <1>3, <1>4 DEF ClosedTrade, Trade, Money, ExitReasons
<1>7. /\ t.net = gross - (position.fee + fee) /\ f.fee = fee
      /\ Proceeds(position, price) = gross - fee
      /\ t.fees = position.fee + f.fee /\ t.net = t.gross - t.fees
  BY DEF ClosedTrade, ExitFill, Proceeds
<1>8. equity + Proceeds(position, price) = equity + t.net + position.fee
  <2>1. equity \in Int /\ position.fee \in Int  BY <1>2 DEF TypeOK, Money
  <2> HIDE DEF fee, gross, f, t
  <2> QED BY <2>1, <1>4, <1>7
<1>9. CASE price <= 0  BY <1>9 DEF Close
<1>10. CASE ~(price <= 0)
  <2>1. /\ fills' = Append(fills, f) /\ trades' = Append(trades, t)
        /\ equity' = equity + Proceeds(position, price)
        /\ curve' = Append(curve, equity') /\ netTotal' = netTotal + t.net
        /\ position' = None /\ phase' = next /\ UNCHANGED <<error, positionSeq>>
    BY <1>10 DEF Close
  <2>2. /\ f.position = position.id /\ f.bar = bar /\ f.buy = (position.dir = "short")
        /\ f.reason = reason /\ f.ref = ref /\ f.decided = decided /\ f.qty = position.qty
        /\ f.price = price
    BY DEF ExitFill
  <2>3. /\ t.position = position.id /\ t.dir = position.dir /\ t.qty = position.qty
        /\ t.entry = position.entry /\ t.exit = price /\ t.reason = reason
        /\ t.stop = position.stop /\ t.target = position.target
        /\ t.held = bar - position.bar /\ t.ambiguous = ambiguous
    BY DEF ClosedTrade
  <2>a. Adverse(f)
    <3>1. f.ref = ref /\ f.price = price /\ price > 0  BY <1>3, <1>10 DEF ExitFill
    <3>2. CASE position.dir = "long"
      <4>1. price = SellFill(ref) /\ ~f.buy  BY <3>2 DEF ExitPrice, ExitFill
      <4> HIDE DEF f, price
      <4> QED BY <3>1, <4>1, RoundingIsAdverse DEF Adverse
    <3>3. CASE position.dir = "short"
      <4>1. price = BuyFill(ref) /\ f.buy  BY <3>3 DEF ExitPrice, ExitFill
      <4> HIDE DEF f, price
      <4> QED BY <3>1, <4>1, RoundingIsAdverse DEF Adverse
    <3> QED BY <1>2, <3>2, <3>3 DEF Directions
  <2> HIDE DEF f, t, price
  <2>4. Closed(f, t, reason, ref, decided, ambiguous)
    BY <2>1, <2>2, <2>3, <2>a, <1>7, <1>8 DEF Closed
  <2> QED BY <2>1, <2>4, <1>5, <1>6
<1> QED BY <1>9, <1>10

\* One fill, which is the open position.
Entered(f) ==
  /\ fills' = Append(fills, f)
  /\ position' \in Position /\ position' # None
  /\ equity' = equity - f.fee
  /\ curve' = Append(curve, equity')
  /\ UNCHANGED <<trades, netTotal>>
  /\ Adverse(f)
  /\ positionSeq' = positionSeq + 1
  /\ f.position = positionSeq + 1 /\ f.bar = bar /\ f.reason = "market_entry"
  /\ f.ref = candles[bar].open /\ f.decided = pending.at
  /\ f.buy = (position'.dir = "long") /\ position'.dir = pending.what.dir
  /\ position'.id = positionSeq + 1 /\ position'.bar = bar
  /\ f.qty = pending.what.qty
  /\ position'.qty = f.qty /\ position'.entry = f.price /\ position'.fee = f.fee

\* _execute_entry either raises or writes exactly one fill.
LEMMA Entering ==
  ASSUME TypeOK, BarInRange, FillEntry
  PROVE  \/ /\ \/ Fail("enter_while_open") /\ position # None
               \/ Fail("entry")
            /\ UNCHANGED <<pending, books>>
         \/ /\ \E f \in FillRecord : Entered(f)
            /\ position = None /\ pending' = None /\ phase' = "protect" /\ UNCHANGED error
<1> DEFINE e == pending.what
           price == EntryPrice(e.dir, MarketPrice)
           fee == Fee(price, e.qty)
<1>1. /\ pending \in Pending /\ e \in Enters /\ pending.at \in Int
      /\ e.dir \in Directions /\ e.qty \in Int /\ e.stop \in Int /\ e.target \in Int
  <2>1. pending \in Pending /\ e.kind = "enter"  BY DEF FillEntry, TypeOK
  <2>2. pending.what \in Enters \cup Exits /\ pending.at \in Int  BY <2>1 DEF Pending
  <2>3. e \in Enters  BY <2>1, <2>2 DEF Exits
  <2> QED BY <2>1, <2>2, <2>3 DEF Enters
<1>2. bar \in 1..Len(candles) /\ candles[bar] \in Candle
  BY DEF FillEntry, BarInRange, Running, TypeOK
<1>3. MarketPrice \in Int  BY <1>2 DEF MarketPrice, Candle
<1>4. price \in Int  BY <1>1, <1>3, MoneyTyped
<1>5. fee \in Int /\ Level(e.dir, e.stop) \in Int /\ Level(e.dir, e.target) \in Int
  BY <1>1, <1>4, MoneyTyped
<1>6. positionSeq + 1 \in Nat /\ bar \in Nat  BY DEF TypeOK
<1>7. CASE position = None /\ EntryAccepted(e, price)
  <2> DEFINE f == [position |-> positionSeq + 1, bar |-> bar, buy |-> (e.dir = "long"),
                   reason |-> "market_entry", ref |-> MarketPrice, price |-> price,
                   qty |-> e.qty, fee |-> fee, decided |-> pending.at]
             pos == [id |-> positionSeq + 1, dir |-> e.dir, qty |-> e.qty,
                     decided |-> pending.at, bar |-> bar, entry |-> price, fee |-> fee,
                     stop |-> Level(e.dir, e.stop), target |-> Level(e.dir, e.target)]
  <2>1. /\ fills' = Append(fills, f) /\ position' = pos
        /\ equity' = equity - fee /\ curve' = Append(curve, equity')
        /\ pending' = None /\ phase' = "protect" /\ UNCHANGED <<error, trades, netTotal>>
        /\ positionSeq' = positionSeq + 1
    BY <1>7 DEF FillEntry
  <2>2. f \in FillRecord  BY <1>1, <1>3, <1>4, <1>5, <1>6 DEF FillRecord, Money
  <2>3. pos \in Position  BY <1>1, <1>4, <1>5, <1>6 DEF Position, Money
  <2>4. pos # None  BY <2>3, NoneAssumption
  <2>5. f.ref = candles[bar].open  BY DEF MarketPrice
  <2>a. Adverse(f)
    <3>1. f.ref = MarketPrice /\ f.price = price /\ price > 0  BY <1>7 DEF EntryAccepted
    <3>2. CASE e.dir = "long"
      <4>1. price = BuyFill(MarketPrice) /\ f.buy  BY <3>2 DEF EntryPrice
      <4> HIDE DEF f, price
      <4> QED BY <1>3, <3>1, <4>1, RoundingIsAdverse DEF Adverse
    <3>3. CASE e.dir = "short"
      <4>1. price = SellFill(MarketPrice) /\ ~f.buy  BY <3>3 DEF EntryPrice
      <4> HIDE DEF f, price
      <4> QED BY <1>3, <3>1, <4>1, RoundingIsAdverse DEF Adverse
    <3> QED BY <1>1, <3>2, <3>3 DEF Directions
  <2>6. Entered(f)  BY <2>1, <2>3, <2>4, <2>5, <2>a DEF Entered
  <2> QED BY <1>7, <2>1, <2>2, <2>6
<1>8. CASE position # None
  BY <1>8 DEF FillEntry
<1>9. CASE position = None /\ ~EntryAccepted(e, price)
  BY <1>9 DEF FillEntry
<1> QED BY <1>7, <1>8, <1>9
-----------------------------------------------------------------------------
(* The books keep reconciling.                                             *)

\* FillsPairUp and NoLookahead speak of one trade and of one fill at a time.
LEMMA PairByPair ==
  /\ FillsPairUp <=>
       /\ Len(fills) = 2 * Len(trades) + (IF position = None THEN 0 ELSE 1)
       /\ \A n \in 1..Len(trades) : PairFits(fills[2 * n - 1], fills[2 * n], trades[n], n)
  /\ NoLookahead <=> \A n \in 1..Len(fills) : FillFits(fills[n])
BY DEF FillsPairUp, NoLookahead, PairFits, FillFits

\* A step that touches neither books nor input.
LEMMA BooksStay ==
  ASSUME BooksInv, UNCHANGED <<books, candles>>
  PROVE  BooksInv'
BY DEF BooksInv, books, EquityReconciles, IdsInStep, FillsPairUp, NoLookahead, ExitsByLevel

\* An entry opens the next pair of fills and costs its fee.
LEMMA EntryKeepsBooks ==
  ASSUME TypeOK, BarInRange, BooksInv, position = None, phase = "fill",
         pending.at = bar - 1, NEW f \in FillRecord, Entered(f), UNCHANGED <<candles, bar>>
  PROVE  BooksInv' /\ PositionIsLastFill'
<1>0. bar \in Nat /\ equity \in Int /\ netTotal \in Int /\ f.fee \in Int /\ InitialEquity * Bps \in Int
  BY PolicyAssumption DEF TypeOK, Money, FillRecord, Bps
<1>1. /\ Len(fills) = 2 * Len(trades) /\ Len(trades) \in Nat /\ Len(curve) \in Nat
      /\ equity = InitialEquity * Bps + netTotal
  BY <1>0 DEF BooksInv, FillsPairUp, EquityReconciles, TypeOK
<1>2. /\ fills' = Append(fills, f) /\ UNCHANGED <<trades, netTotal>>
      /\ equity' = equity - f.fee /\ curve' = Append(curve, equity')
      /\ position' # None /\ position'.fee = f.fee
  BY DEF Entered
<1>3. /\ Len(fills') = Len(fills) + 1
      /\ \A i \in 1..Len(fills) : fills'[i] = fills[i]
      /\ fills'[Len(fills) + 1] = f
  BY <1>2, AppendKeeps DEF TypeOK
<1>4. /\ Len(curve') = Len(curve) + 1 /\ curve'[Len(curve) + 1] = equity'
  <2>1. equity' \in Money  BY <1>0, <1>2 DEF Money
  <2> QED BY <1>2, <2>1, AppendKeeps DEF TypeOK
<1>5. EquityReconciles'
  BY <1>0, <1>1, <1>2, <1>4 DEF EquityReconciles
<1>p. positionSeq = Len(trades) /\ positionSeq' = positionSeq + 1
  BY <1>1 DEF BooksInv, IdsInStep, Entered
<1>a. IdsInStep'
  BY <1>1, <1>2, <1>p DEF IdsInStep
<1>6. \A n \in 1..Len(trades) : fills'[2 * n - 1] = fills[2 * n - 1] /\ fills'[2 * n] = fills[2 * n]
  BY <1>1, <1>3
<1>7. FillsPairUp'
  <2>1. \A n \in 1..Len(trades) : PairFits(fills[2 * n - 1], fills[2 * n], trades[n], n)
    BY PairByPair DEF BooksInv
  <2>2. \A n \in 1..Len(trades') : PairFits(fills'[2 * n - 1], fills'[2 * n], trades'[n], n)
    BY <1>2, <1>6, <2>1
  <2>3. Len(fills') = 2 * Len(trades') + (IF position' = None THEN 0 ELSE 1)
    BY <1>1, <1>2, <1>3
  <2> QED BY <2>2, <2>3 DEF FillsPairUp, PairFits
<1>8. NoLookahead'
  <2>1. /\ f.decided = f.bar - 1 /\ f.ref = candles[f.bar].open /\ f.reason = "market_entry"
    BY DEF Entered
  <2>2. FillFits(f)' /\ \A n \in 1..Len(fills) : FillFits(fills[n])
    BY <2>1, PairByPair DEF FillFits, BooksInv, Entered
  <2>3. \A n \in 1..Len(fills') : n \in 1..Len(fills) \/ n = Len(fills) + 1
    BY <1>1, <1>3
  <2> QED BY <1>3, <2>2, <2>3 DEF NoLookahead, FillFits
<1>9. ExitsByLevel'
  BY <1>2, <1>6 DEF ExitsByLevel, BooksInv
<1>10. PositionIsLastFill'
  BY <1>0, <1>1, <1>2, <1>3, <1>p DEF PositionIsLastFill, Entered
<1> QED BY <1>5, <1>a, <1>7, <1>8, <1>9, <1>10 DEF BooksInv

\* An exit closes the pair, and its trade takes back the entry fee that equity
\* has already paid.
LEMMA ExitKeepsBooks ==
  ASSUME TypeOK, BarInRange, BooksInv, PositionIsLastFill, position # None,
         NEW reason \in ExitReasons, NEW ref, NEW decided, NEW ambiguous \in BOOLEAN,
         NEW f \in FillRecord, NEW t \in Trade,
         Closed(f, t, reason, ref, decided, ambiguous), UNCHANGED candles,
         reason = "explicit_exit" => decided = bar - 1 /\ ref = candles[bar].open,
         reason \in {"stop_loss", "take_profit"} => decided = None,
         reason = "end_of_data" => bar = Len(candles),
         reason = "take_profit" => ~Touches(position.dir, candles[bar], position.stop),
         ambiguous <=> /\ reason = "stop_loss"
                       /\ Reaches(position.dir, candles[bar], position.target)
  PROVE  BooksInv'
<1>p. position \in Position  BY DEF TypeOK
<1>0. /\ bar \in Nat /\ equity \in Int /\ netTotal \in Int /\ t.net \in Int
      /\ position.fee \in Int /\ position.bar \in Nat /\ InitialEquity * Bps \in Int
  BY <1>p, PolicyAssumption DEF TypeOK, Money, Trade, Position, Bps
<1>1. /\ Len(fills) = 2 * Len(trades) + 1 /\ Len(trades) \in Nat /\ Len(curve) \in Nat
      /\ equity = InitialEquity * Bps + netTotal - position.fee
  BY <1>0 DEF BooksInv, FillsPairUp, EquityReconciles, TypeOK
<1>2. /\ fills' = Append(fills, f) /\ trades' = Append(trades, t)
      /\ equity' = equity + t.net + position.fee /\ curve' = Append(curve, equity')
      /\ netTotal' = netTotal + t.net /\ position' = None
  BY DEF Closed
<1>3. /\ Len(fills') = Len(fills) + 1
      /\ \A i \in 1..Len(fills) : fills'[i] = fills[i]
      /\ fills'[Len(fills) + 1] = f
  BY <1>2, AppendKeeps DEF TypeOK
<1>4. /\ Len(trades') = Len(trades) + 1
      /\ \A i \in 1..Len(trades) : trades'[i] = trades[i]
      /\ trades'[Len(trades) + 1] = t
  BY <1>2, AppendKeeps DEF TypeOK
<1>5. /\ Len(curve') = Len(curve) + 1 /\ curve'[Len(curve) + 1] = equity'
  <2>1. equity' \in Money  BY <1>0, <1>2 DEF Money
  <2> QED BY <1>2, <2>1, AppendKeeps DEF TypeOK
<1>6. EquityReconciles'
  <2>1. equity' = InitialEquity * Bps + netTotal'
    <3> DEFINE start == InitialEquity * Bps
    <3>1. start \in Int  BY <1>0
    <3> HIDE DEF start
    <3>2. equity = start + netTotal - position.fee  BY <1>1 DEF start
    <3>3. equity' = equity + t.net + position.fee /\ netTotal' = netTotal + t.net
      BY <1>2
    <3>4. netTotal \in Int /\ t.net \in Int /\ position.fee \in Int  BY <1>0
    <3>5. equity' = start + netTotal'  BY <3>1, <3>2, <3>3, <3>4
    <3> QED BY <3>5 DEF start
  <2>2. equity' = InitialEquity * Bps + netTotal' - 0
    <3>1. netTotal' \in Int /\ InitialEquity * Bps \in Int  BY <1>0, <1>2
    <3> QED BY <2>1, <3>1
  <2> QED BY <1>2, <1>5, <2>2 DEF EquityReconciles
<1>a. IdsInStep'
  <2>1. positionSeq = Len(trades) + 1 /\ positionSeq' = positionSeq
    BY DEF BooksInv, IdsInStep, Closed
  <2>2. Len(trades') \in Nat /\ positionSeq' = Len(trades')  BY <1>1, <1>4, <2>1
  <2> QED BY <1>2, <2>2 DEF IdsInStep
<1> DEFINE last == Len(trades) + 1
<1>7. /\ \A n \in 1..Len(trades) :
           /\ fills'[2 * n - 1] = fills[2 * n - 1] /\ fills'[2 * n] = fills[2 * n]
           /\ trades'[n] = trades[n]
      /\ fills'[2 * last - 1] = fills[2 * Len(trades) + 1] /\ fills'[2 * last] = f
      /\ trades'[last] = t
  <2>1. 2 * last - 1 = 2 * Len(trades) + 1 /\ 2 * last = Len(fills) + 1
        /\ 2 * Len(trades) + 1 \in 1..Len(fills)
    BY <1>1
  <2>2. \A n \in 1..Len(trades) : 2 * n - 1 \in 1..Len(fills) /\ 2 * n \in 1..Len(fills)
    BY <1>1
  <2> HIDE DEF last
  <2>3. /\ fills'[2 * last - 1] = fills[2 * Len(trades) + 1] /\ fills'[2 * last] = f
    BY <1>3, <2>1
  <2>4. trades'[last] = t  BY <1>4 DEF last
  <2> QED BY <1>3, <1>4, <2>2, <2>3, <2>4
<1>8. ASSUME NEW n \in 1..last, n \notin 1..Len(trades) PROVE n = last
  BY <1>1, <1>8
<1>9. FillsPairUp'
  <2>1. Len(fills') = 2 * Len(trades')  BY <1>1, <1>3, <1>4
  <2>2. PairFits(fills[2 * Len(trades) + 1], f, t, last)
    <3> DEFINE in == fills[2 * Len(trades) + 1]
    <3>1. /\ f.position = position.id /\ f.bar = bar /\ f.buy = (position.dir = "short")
          /\ f.reason = reason /\ f.qty = position.qty
          /\ t.position = position.id /\ t.dir = position.dir /\ t.qty = position.qty
          /\ t.entry = position.entry /\ t.exit = f.price /\ t.reason = reason
          /\ t.fees = position.fee + f.fee /\ t.held = bar - position.bar
      BY DEF Closed
    <3>2. /\ position.id = last /\ in.position = position.id
          /\ in.reason = "market_entry" /\ in.buy = (position.dir = "long")
          /\ in.qty = position.qty /\ in.price = position.entry /\ in.fee = position.fee
          /\ in.bar = position.bar /\ position.bar <= bar
      BY DEF PositionIsLastFill
    <3> HIDE DEF in, last
    <3>3. PairFits(in, f, t, last)  BY <1>0, <3>1, <3>2 DEF PairFits
    <3> QED BY <3>3 DEF in
  <2>3. \A n \in 1..Len(trades) : PairFits(fills[2 * n - 1], fills[2 * n], trades[n], n)
    BY PairByPair DEF BooksInv
  <2>4. \A n \in 1..last : PairFits(fills'[2 * n - 1], fills'[2 * n], trades'[n], n)
    BY <1>7, <1>8, <2>2, <2>3
  <2>5. \A n \in 1..Len(trades') : PairFits(fills'[2 * n - 1], fills'[2 * n], trades'[n], n)
    BY <1>4, <2>4
  <2>6. Len(fills') = 2 * Len(trades') + (IF position' = None THEN 0 ELSE 1)
    <3>1. Len(trades') \in Nat  BY <1>1, <1>4
    <3> QED BY <1>2, <2>1, <3>1
  <2> QED BY <2>5, <2>6 DEF FillsPairUp, PairFits
<1>10. NoLookahead'
  <2>1. f.bar = bar /\ f.reason = reason /\ f.ref = ref /\ f.decided = decided
    BY DEF Closed
  <2>2. \A n \in 1..Len(fills') : n \in 1..Len(fills) \/ n = Len(fills) + 1
    BY <1>1, <1>3
  <2>3. f.reason # "market_entry"  BY <2>1 DEF ExitReasons
  <2>4. FillFits(f)' /\ \A n \in 1..Len(fills) : FillFits(fills[n])
    BY <2>1, <2>3, PairByPair DEF FillFits, BooksInv, ExitReasons
  <2> QED BY <1>3, <2>2, <2>4 DEF NoLookahead, FillFits
<1>11. ExitsByLevel'
  <2>1. /\ f.bar = bar /\ t.reason = reason /\ t.dir = position.dir
        /\ t.stop = position.stop /\ t.target = position.target /\ t.ambiguous = ambiguous
    BY DEF Closed
  <2>2. LET c == candles'[fills'[2 * last].bar] IN
        /\ trades'[last].reason = "take_profit" =>
             ~Touches(trades'[last].dir, c, trades'[last].stop)
        /\ trades'[last].ambiguous <=>
             /\ trades'[last].reason = "stop_loss"
             /\ Reaches(trades'[last].dir, c, trades'[last].target)
    BY <1>7, <2>1
  <2> QED BY <1>4, <1>7, <1>8, <2>2 DEF ExitsByLevel, BooksInv
<1> QED BY <1>6, <1>a, <1>9, <1>10, <1>11 DEF BooksInv
-----------------------------------------------------------------------------
(* One step preserves the invariant.                                       *)

BooksTyped ==
  /\ position \in Position \cup {None}
  /\ equity \in Money /\ curve \in Seq(Money) /\ netTotal \in Money
  /\ fills \in Seq(FillRecord)
  /\ trades \in Seq(Trade)
  /\ positionSeq \in Nat

\* An exit, filled or refused, leaves the books well typed and reconciled.
LEMMA CloseKeeps ==
  ASSUME IInv, position # None, UNCHANGED <<candles, bar>>,
         NEW reason \in ExitReasons, NEW ref \in Int, NEW decided \in Int \cup {None},
         NEW ambiguous \in BOOLEAN, NEW next \in {"protect", "decide", "end"},
         Close(reason, ref, decided, ambiguous, next),
         reason = "explicit_exit" => decided = bar - 1 /\ ref = candles[bar].open,
         reason \in {"stop_loss", "take_profit"} => decided = None,
         reason = "end_of_data" => bar = Len(candles),
         reason = "take_profit" => ~Touches(position.dir, candles[bar], position.stop),
         ambiguous <=> /\ reason = "stop_loss"
                       /\ Reaches(position.dir, candles[bar], position.target)
  PROVE  /\ BooksTyped' /\ BooksInv' /\ PositionIsLastFill'
         /\ \/ phase' = "failed" /\ error' = "exit_price"
            \/ phase' = next /\ error' = error /\ position' = None
<1>i. TypeOK /\ BarInRange /\ BooksInv /\ PositionIsLastFill  BY DEF IInv
<1>1. CASE Fail("exit_price") /\ UNCHANGED books
  <2>1. BooksInv'  BY <1>i, <1>1, BooksStay
  <2>2. BooksTyped' /\ PositionIsLastFill'
    BY <1>i, <1>1 DEF BooksTyped, TypeOK, books, PositionIsLastFill
  <2> QED BY <1>1, <2>1, <2>2 DEF Fail
<1>2. ASSUME NEW f \in FillRecord, NEW t \in Trade,
             Closed(f, t, reason, ref, decided, ambiguous),
             phase' = next, UNCHANGED error
      PROVE  BooksTyped' /\ BooksInv' /\ PositionIsLastFill' /\ position' = None
  <2>1. BooksInv'  BY <1>i, <1>2, ExitKeepsBooks
  <2>2. /\ position' = None /\ fills' = Append(fills, f) /\ trades' = Append(trades, t)
        /\ equity' = equity + t.net + position.fee /\ curve' = Append(curve, equity')
        /\ netTotal' = netTotal + t.net /\ UNCHANGED positionSeq
    BY <1>2 DEF Closed
  <2>3. equity' \in Money /\ netTotal' \in Money
    <3>1. position \in Position  BY <1>i DEF TypeOK
    <3>2. equity \in Int /\ netTotal \in Int /\ t.net \in Int /\ position.fee \in Int
      BY <1>i, <3>1 DEF TypeOK, Money, Trade, Position
    <3> QED BY <2>2, <3>2 DEF Money
  <2>4. BooksTyped'
    BY <1>i, <2>2, <2>3, AppendKeeps DEF TypeOK, BooksTyped
  <2> QED BY <2>1, <2>2, <2>4 DEF PositionIsLastFill
<1> QED BY <1>i, <1>1, <1>2, Closing

\* A step between fills: everything about the books is as it was, on this bar
\* or the next one.
LEMMA QuietKeeps ==
  ASSUME IInv, UNCHANGED <<books, candles>>, bar' \in {bar, bar + 1}
  PROVE  BooksTyped' /\ BooksInv' /\ PositionIsLastFill'
<1>i. TypeOK /\ BooksInv /\ PositionIsLastFill  BY DEF IInv
<1>1. BooksInv'  BY <1>i, BooksStay
<1>2. BooksTyped'  BY <1>i DEF TypeOK, BooksTyped, books
<1>3. PositionIsLastFill'
  <2>1. position \in Position \cup {None} /\ bar \in Nat  BY <1>i DEF TypeOK
  <2>2. position # None => position.bar \in Nat  BY <2>1 DEF Position
  <2> QED BY <1>i, <2>1, <2>2 DEF books, PositionIsLastFill
<1> QED BY <1>1, <1>2, <1>3

\* The run starts flat, with the initial equity.
LEMMA InitInv == Init => IInv
<1> SUFFICES ASSUME Init PROVE IInv
  OBVIOUS
<1>0. InitialEquity * Bps \in Int /\ InitialEquity * Bps + 0 - 0 = InitialEquity * Bps
  BY PolicyAssumption DEF Bps
<1>1. TypeOK  BY <1>0, InputAssumption DEF Init, TypeOK, Money
<1>2. BooksInv
  BY <1>0 DEF Init, BooksInv, EquityReconciles, IdsInStep, FillsPairUp, NoLookahead, ExitsByLevel
<1> QED BY <1>1, <1>2, NoneAssumption
        DEF Init, IInv, BarInRange, IntentWaits, PendingFits, PositionIsLastFill, Survived,
            Running, Errors

\* Filling the pending intent at the open.
LEMMA FillKeeps ==
  ASSUME IInv, FillEntry \/ FillExit \/ NothingPending
  PROVE  IInv'
<1>i. TypeOK /\ BarInRange /\ IntentWaits /\ PendingFits /\ BooksInv  BY DEF IInv
<1>0. phase = "fill" /\ UNCHANGED <<candles, bar, unfilled, accepted>>
  BY DEF FillEntry, FillExit, NothingPending
<1>b. bar \in 1..Len(candles) /\ bar \in Nat /\ candles[bar] \in Candle
  BY <1>0, <1>i DEF BarInRange, Running, TypeOK
<1>u. unfilled = <<>>  BY <1>0, <1>i DEF IntentWaits
<1>f. pending # None => pending.at = bar - 1 /\ (pending.what.kind = "enter" <=> position = None)
  BY <1>0, <1>i DEF PendingFits
\* What is left to show once the books are known to be right.
<1>s. ASSUME BooksTyped', BooksInv', PositionIsLastFill',
             phase' \in {"protect", "failed"}, pending' \in {pending, None},
             phase' = "protect" => pending' = None,
             error' \in {error} \cup (Errors \ {"enter_while_open", "exit_while_flat"})
      PROVE  IInv'
  <2>1. TypeOK'
    BY <1>0, <1>i, <1>s DEF TypeOK, BooksTyped
  <2>2. BarInRange' /\ IntentWaits'
    BY <1>0, <1>b, <1>u, <1>s DEF BarInRange, IntentWaits, Running
  <2>3. PendingFits' /\ Survived'
    BY <1>i, <1>s DEF PendingFits, Survived
  <2> QED BY <1>s, <2>1, <2>2, <2>3 DEF IInv
<1>1. CASE FillEntry
  <2>1. pending # None /\ pending.what.kind = "enter"  BY <1>1 DEF FillEntry
  <2>2. position = None /\ pending.at = bar - 1  BY <1>f, <2>1
  <2>3. CASE Fail("entry") /\ UNCHANGED <<pending, books>>
    <3>1. BooksTyped' /\ BooksInv' /\ PositionIsLastFill'  BY <1>0, <2>3, QuietKeeps
    <3> QED BY <1>s, <2>3, <3>1 DEF Fail, Errors
  <2>4. ASSUME NEW f \in FillRecord, Entered(f), pending' = None, phase' = "protect",
               UNCHANGED error
        PROVE  IInv'
    <3>1. BooksInv' /\ PositionIsLastFill'  BY <1>0, <1>i, <2>2, <2>4, EntryKeepsBooks
    <3>2. /\ fills' = Append(fills, f) /\ position' \in Position
          /\ equity' = equity - f.fee /\ curve' = Append(curve, equity')
          /\ UNCHANGED <<trades, netTotal>> /\ positionSeq' = positionSeq + 1
      BY <2>4 DEF Entered
    <3>3. equity' \in Money  BY <1>i, <3>2 DEF TypeOK, Money, FillRecord
    <3>4. BooksTyped'  BY <1>i, <3>2, <3>3, AppendKeeps DEF TypeOK, BooksTyped
    <3> QED BY <1>s, <2>4, <3>1, <3>4
  <2> QED BY <1>1, <1>i, <2>2, <2>3, <2>4, Entering
<1>2. CASE FillExit
  <2>1. pending # None /\ pending.what.kind = "exit" /\ pending' = None
    BY <1>2 DEF FillExit
  <2>2. position # None /\ pending.at = bar - 1  BY <1>f, <2>1
  <2>3. Close("explicit_exit", MarketPrice, pending.at, FALSE, "protect")
    BY <1>2, <2>2 DEF FillExit
  <2>4. MarketPrice \in Int /\ MarketPrice = candles[bar].open /\ pending.at \in Int
    BY <1>b, <2>2 DEF MarketPrice, Candle
  <2>5. /\ BooksTyped' /\ BooksInv' /\ PositionIsLastFill'
        /\ \/ phase' = "failed" /\ error' = "exit_price"
           \/ phase' = "protect" /\ error' = error
    BY <1>0, <2>2, <2>3, <2>4, CloseKeeps DEF ExitReasons
  <2> QED BY <1>s, <2>1, <2>5 DEF Errors
<1>3. CASE NothingPending
  <2>1. BooksTyped' /\ BooksInv' /\ PositionIsLastFill'
    BY <1>3, QuietKeeps DEF NothingPending
  <2> QED BY <1>3, <1>s, <2>1 DEF NothingPending
<1> QED BY <1>1, <1>2, <1>3

\* Evaluating the stop and the target.
LEMMA ProtectKeeps ==
  ASSUME IInv, Protect
  PROVE  IInv'
<1>i. TypeOK /\ BarInRange /\ IntentWaits /\ PendingFits  BY DEF IInv
<1>0. phase = "protect" /\ UNCHANGED <<candles, bar, unfilled, pending, accepted>>
  BY DEF Protect
<1>b. bar \in 1..Len(candles) /\ bar \in Nat /\ candles[bar] \in Candle
  BY <1>0, <1>i DEF BarInRange, Running, TypeOK
<1>u. unfilled = <<>> /\ pending = None  BY <1>0, <1>i DEF IntentWaits
<1>t. ASSUME position # None
      PROVE  /\ StopHit <=> Touches(position.dir, candles[bar], position.stop)
             /\ TargetHit <=> Reaches(position.dir, candles[bar], position.target)
             /\ TargetHit \in BOOLEAN
             /\ position.stop \in Int /\ position.target \in Int
  <2>1. StopHit <=> Touches(position.dir, candles[bar], position.stop)
    BY DEF StopHit, Touches
  <2>2. TargetHit <=> Reaches(position.dir, candles[bar], position.target)
    BY DEF TargetHit, Reaches
  <2>3. position \in Position  BY <1>t, <1>i DEF TypeOK
  <2>4. /\ position.stop \in Int /\ position.target \in Int
        /\ candles[bar].low \in Int /\ candles[bar].high \in Int
    BY <2>3, <1>b DEF Position, Candle
  <2>5. TargetHit \in BOOLEAN
    <3>1. (candles[bar].high >= position.target) \in BOOLEAN  BY <2>4
    <3>2. (candles[bar].low <= position.target) \in BOOLEAN  BY <2>4
    <3>3. CASE position.dir = "long"  BY <3>1, <3>3, Zenon DEF TargetHit
    <3>4. CASE position.dir # "long"  BY <3>2, <3>4, Zenon DEF TargetHit
    <3> QED BY <3>3, <3>4
  <2> QED BY <2>1, <2>2, <2>4, <2>5
<1>s. ASSUME BooksTyped', BooksInv', PositionIsLastFill', Survived',
             phase' \in {"decide", "failed"},
             error' \in {error} \cup (Errors \ {"enter_while_open", "exit_while_flat"})
      PROVE  IInv'
  <2>1. TypeOK'  BY <1>0, <1>i, <1>s DEF TypeOK, BooksTyped
  <2>2. BarInRange' /\ IntentWaits'
    BY <1>0, <1>b, <1>u, <1>s DEF BarInRange, IntentWaits, Running
  <2>3. PendingFits'  BY <1>0, <1>u, <1>i, <1>s DEF PendingFits
  <2> QED BY <1>s, <2>1, <2>2, <2>3 DEF IInv
<1>1. CASE position # None /\ StopHit
  <2>1. Close("stop_loss", position.stop, None, TargetHit, "decide")
    BY <1>1 DEF Protect
  <2>2. /\ BooksTyped' /\ BooksInv' /\ PositionIsLastFill'
        /\ \/ phase' = "failed" /\ error' = "exit_price"
           \/ phase' = "decide" /\ error' = error /\ position' = None
    BY <1>0, <1>1, <1>t, <2>1, CloseKeeps DEF ExitReasons
  <2>3. Survived'  BY <2>2 DEF Survived
  <2> QED BY <1>s, <2>2, <2>3 DEF Errors
<1>2. CASE position # None /\ ~StopHit /\ TargetHit
  <2>1. Close("take_profit", position.target, None, FALSE, "decide")
    BY <1>2 DEF Protect
  <2>2. /\ BooksTyped' /\ BooksInv' /\ PositionIsLastFill'
        /\ \/ phase' = "failed" /\ error' = "exit_price"
           \/ phase' = "decide" /\ error' = error /\ position' = None
    BY <1>0, <1>2, <1>t, <2>1, CloseKeeps DEF ExitReasons
  <2>3. Survived'  BY <2>2 DEF Survived
  <2> QED BY <1>s, <2>2, <2>3 DEF Errors
<1>3. CASE position = None \/ (~StopHit /\ ~TargetHit)
  <2>1. phase' = "decide" /\ UNCHANGED <<error, books>>
    BY <1>3 DEF Protect
  <2>2. BooksTyped' /\ BooksInv' /\ PositionIsLastFill'  BY <1>0, <2>1, QuietKeeps
  <2>3. Survived'  BY <1>0, <1>3, <1>t, <2>1 DEF Survived, books
  <2> QED BY <1>s, <2>1, <2>2, <2>3
<1> QED BY <1>1, <1>2, <1>3

\* The provider's decision, and the move to the next bar.
LEMMA DecideKeeps ==
  ASSUME IInv,
         \/ DecideNothing \/ ProviderFails
         \/ \E n \in Intents, at \in {bar, bar - 1} : DecideIntent(n, at)
  PROVE  IInv'
<1>i. TypeOK /\ BarInRange /\ IntentWaits /\ PendingFits /\ Survived  BY DEF IInv
<1>0. phase = "decide" /\ UNCHANGED <<candles, unfilled, books>>
  BY DEF DecideNothing, ProviderFails, DecideIntent
<1>b. bar \in 1..Len(candles) /\ bar \in Nat /\ Len(candles) \in Nat
  BY <1>0, <1>i DEF BarInRange, Running, TypeOK
<1>u. unfilled = <<>> /\ pending = None  BY <1>0, <1>i DEF IntentWaits
<1>p. position' = position  BY <1>0 DEF books
\* Either the run fails, or it moves on with what is pending now.
<1>a. accepted' \subseteq Pending
  <2>1. UNCHANGED accepted \/ \E n \in Intents : accepted' = accepted \cup {[what |-> n, at |-> bar]}
    BY DEF DecideNothing, ProviderFails, DecideIntent, IntentAccepted
  <2> QED BY <1>b, <1>i, <2>1, InputAssumption DEF TypeOK, Pending
<1>s. ASSUME \/ phase' = "failed" /\ UNCHANGED <<bar, pending>>
                /\ error' \in {"intent", "provider"}
             \/ /\ NextBar /\ UNCHANGED error
                /\ \/ pending' = None
                   \/ /\ pending' \in Pending /\ pending'.at = bar
                      /\ pending'.what.kind = "enter" <=> position = None
      PROVE  IInv'
  <2>1. CASE phase' = "failed" /\ UNCHANGED <<bar, pending>> /\ error' \in {"intent", "provider"}
    <3>1. BooksTyped' /\ BooksInv' /\ PositionIsLastFill'  BY <1>0, <2>1, QuietKeeps
    <3>2. TypeOK'  BY <1>0, <1>a, <1>i, <2>1, <3>1 DEF TypeOK, BooksTyped, Errors
    <3>3. BarInRange' /\ IntentWaits' /\ PendingFits' /\ Survived'
      BY <1>0, <1>u, <2>1 DEF BarInRange, IntentWaits, PendingFits, Survived, Running
    <3> QED BY <3>1, <3>2, <3>3 DEF IInv
  <2>2. CASE /\ NextBar /\ UNCHANGED error
             /\ \/ pending' = None
                \/ /\ pending' \in Pending /\ pending'.at = bar
                   /\ pending'.what.kind = "enter" <=> position = None
    <3>1. \/ bar < Len(candles) /\ phase' = "fill" /\ bar' = bar + 1
          \/ bar = Len(candles) /\ phase' = "end" /\ bar' = bar
      BY <1>b, <2>2 DEF NextBar
    <3>2. BooksTyped' /\ BooksInv' /\ PositionIsLastFill'  BY <1>0, <3>1, QuietKeeps
    <3>3. TypeOK'
      BY <1>0, <1>a, <1>b, <1>i, <2>2, <3>1, <3>2 DEF TypeOK, BooksTyped
    <3>4. BarInRange' /\ IntentWaits'
      BY <1>0, <1>b, <1>u, <3>1 DEF BarInRange, IntentWaits, Running
    <3>5. PendingFits'
      <4>1. error' \notin {"enter_while_open", "exit_while_flat"}
        BY <1>i, <2>2 DEF PendingFits
      <4>2. bar' = bar + 1 => bar = bar' - 1  BY <1>b
      <4> QED BY <1>p, <2>2, <3>1, <4>1, <4>2 DEF PendingFits
    <3>6. Survived'  BY <1>0, <1>i, <1>p, <3>1 DEF Survived
    <3> QED BY <3>2, <3>3, <3>4, <3>5, <3>6 DEF IInv
  <2> QED BY <1>s, <2>1, <2>2
<1>1. CASE DecideNothing
  BY <1>1, <1>s, <1>u DEF DecideNothing
<1>2. CASE ProviderFails
  BY <1>2, <1>s DEF ProviderFails, Fail
<1>3. ASSUME NEW n \in Intents, NEW at \in {bar, bar - 1}, DecideIntent(n, at)
      PROVE  IInv'
  <2>1. CASE IntentAccepted(n, at)
    <3>1. NextBar /\ pending' = [what |-> n, at |-> at] /\ UNCHANGED error /\ at = bar
      BY <1>3, <2>1 DEF DecideIntent, IntentAccepted
    <3>2. n \in Enters \cup Exits  BY InputAssumption
    <3>3. pending' \in Pending /\ pending'.at = bar /\ pending'.what = n
      BY <1>b, <3>1, <3>2 DEF Pending
    <3>4. n.kind = "enter" <=> position = None
      BY <2>1, <3>2 DEF IntentAccepted, Enters, Exits
    <3> QED BY <1>s, <3>1, <3>3, <3>4
  <2>2. CASE ~IntentAccepted(n, at)
    BY <1>3, <1>s, <2>2 DEF DecideIntent, Fail
  <2> QED BY <2>1, <2>2
<1> QED BY <1>1, <1>2, <1>3

\* The end of the data: the intent that no bar will fill, the open position, the
\* summary.
LEMMA EndKeeps ==
  ASSUME IInv, DropPending \/ ForcedClose \/ Finish
  PROVE  IInv'
<1>i. TypeOK /\ BarInRange /\ IntentWaits /\ PendingFits /\ Survived  BY DEF IInv
<1>0. phase = "end" /\ UNCHANGED <<candles, bar, accepted>>
  BY DEF DropPending, ForcedClose, Finish
<1>b. /\ bar \in 1..Len(candles) /\ bar = Len(candles) /\ bar \in Nat
      /\ candles[bar] \in Candle
  BY <1>0, <1>i DEF BarInRange, Running, TypeOK
<1>1. CASE DropPending
  <2>1. unfilled' = Append(unfilled, pending) /\ pending \in Pending
    BY <1>1, <1>i DEF DropPending, TypeOK
  <2>2. /\ pending' = None /\ phase' = "end" /\ UNCHANGED <<error, books>>
    BY <1>0, <1>1 DEF DropPending
  <2>3. BooksTyped' /\ BooksInv' /\ PositionIsLastFill'  BY <1>0, <2>2, QuietKeeps
  <2>4. TypeOK'  BY <1>0, <1>i, <2>1, <2>2, <2>3 DEF TypeOK, BooksTyped
  <2>5. BarInRange' /\ IntentWaits' /\ PendingFits' /\ Survived'
    BY <1>0, <1>b, <1>i, <2>2
    DEF BarInRange, IntentWaits, PendingFits, Survived, Running, books
  <2> QED BY <2>3, <2>4, <2>5 DEF IInv
<1>2. CASE ForcedClose
  <2>0. pending = None /\ position # None /\ UNCHANGED <<pending, unfilled>>
    BY <1>2 DEF ForcedClose
  <2>1. /\ BooksTyped' /\ BooksInv' /\ PositionIsLastFill'
        /\ \/ phase' = "failed" /\ error' \in {"exit_price", "open_at_end"}
           \/ phase' = "end" /\ error' = error /\ position' = None
    <3>1. CASE forceClose
      <4>1. Close("end_of_data", candles[bar].close, None, FALSE, "end")
        BY <1>2, <3>1 DEF ForcedClose
      <4>2. candles[bar].close \in Int  BY <1>b DEF Candle
      <4> QED BY <1>0, <1>b, <2>0, <4>1, <4>2, CloseKeeps DEF ExitReasons
    <3>2. CASE ~forceClose
      <4>1. Fail("open_at_end") /\ UNCHANGED books  BY <1>2, <3>2 DEF ForcedClose
      <4>2. BooksTyped' /\ BooksInv' /\ PositionIsLastFill'  BY <1>0, <4>1, QuietKeeps
      <4> QED BY <4>1, <4>2 DEF Fail
    <3> QED BY <3>1, <3>2
  <2>2. TypeOK'  BY <1>0, <1>i, <2>0, <2>1 DEF TypeOK, BooksTyped, Errors
  <2>3. BarInRange' /\ IntentWaits' /\ PendingFits' /\ Survived'
    BY <1>0, <1>b, <1>i, <2>0, <2>1
    DEF BarInRange, IntentWaits, PendingFits, Survived, Running
  <2> QED BY <2>1, <2>2, <2>3 DEF IInv
<1>3. CASE Finish
  <2>1. /\ phase' = "done" /\ pending = None
        /\ UNCHANGED <<error, pending, books, unfilled>>
    BY <1>3 DEF Finish
  <2>2. BooksTyped' /\ BooksInv' /\ PositionIsLastFill'  BY <1>0, <2>1, QuietKeeps
  <2>3. TypeOK'  BY <1>0, <1>i, <2>1, <2>2 DEF TypeOK, BooksTyped
  <2>4. BarInRange' /\ IntentWaits' /\ PendingFits' /\ Survived'
    BY <1>i, <2>1 DEF BarInRange, IntentWaits, PendingFits, Survived, Running
  <2> QED BY <2>2, <2>3, <2>4 DEF IInv
<1> QED BY <1>1, <1>2, <1>3

\* Validation lets only a non-empty input reach the first bar.
LEMMA ValidateKeeps ==
  ASSUME IInv, Validate
  PROVE  IInv'
<1>i. TypeOK /\ BarInRange /\ IntentWaits /\ PendingFits  BY DEF IInv
<1>0. phase = "validate" /\ UNCHANGED <<candles, bar, pending, books, unfilled, accepted>>
  BY DEF Validate
<1>1. BooksTyped' /\ BooksInv' /\ PositionIsLastFill'  BY <1>0, QuietKeeps
<1>2. pending = None /\ unfilled = <<>>  BY <1>0, <1>i DEF IntentWaits
<1>3. \/ phase' = "fill" /\ error' = error /\ candles # <<>>
      \/ phase' = "failed" /\ error' = "input"
  BY DEF Validate, ValidCandles, Fail
<1>4. TypeOK'  BY <1>0, <1>i, <1>1, <1>3 DEF TypeOK, BooksTyped, Errors
<1>5. BarInRange' /\ IntentWaits' /\ PendingFits' /\ Survived'
  <2>1. candles # <<>> => 1 \in 1..Len(candles)  BY <1>i DEF TypeOK
  <2> QED BY <1>0, <1>i, <1>2, <1>3, <2>1
          DEF BarInRange, IntentWaits, PendingFits, Survived, Running
<1> QED BY <1>1, <1>4, <1>5 DEF IInv
-----------------------------------------------------------------------------
(* What is reported.                                                       *)

\* A step leaves the books alone, opens one position or closes it.
LEMMA StepOfBooks ==
  ASSUME IInv, [Next]_vars
  PROVE  \/ UNCHANGED books
         \/ position = None /\ \E f \in FillRecord : Entered(f)
         \/ /\ position # None
            /\ \E f \in FillRecord, t \in Trade :
                 Closed(f, t, t.reason, f.ref, f.decided, t.ambiguous)
<1>i. TypeOK /\ BarInRange  BY DEF IInv
<1>b. phase \in Running => bar \in 1..Len(candles) /\ candles[bar] \in Candle
  BY <1>i DEF BarInRange, TypeOK
<1>p. position # None => position.stop \in Int /\ position.target \in Int
  BY <1>i DEF TypeOK, Position
<1>c. ASSUME position # None, NEW reason \in ExitReasons, NEW ref \in Int,
             NEW decided \in Int \cup {None}, NEW ambiguous \in BOOLEAN, NEW next,
             Close(reason, ref, decided, ambiguous, next)
      PROVE  \/ UNCHANGED books
             \/ \E f \in FillRecord, t \in Trade :
                  Closed(f, t, t.reason, f.ref, f.decided, t.ambiguous)
  <2>1. ASSUME NEW f \in FillRecord, NEW t \in Trade,
               Closed(f, t, reason, ref, decided, ambiguous)
        PROVE  Closed(f, t, t.reason, f.ref, f.decided, t.ambiguous)
    <3>1. t.reason = reason /\ f.ref = ref /\ f.decided = decided /\ t.ambiguous = ambiguous
      BY <2>1 DEF Closed
    <3> QED BY <2>1, <3>1
  <2> QED BY <1>c, <1>i, <2>1, Closing
<1>1. CASE FillEntry  BY <1>1, <1>i, Entering
<1>2. CASE FillExit
  <2>1. CASE position = None  BY <1>2, <2>1 DEF FillExit
  <2>2. CASE position # None
    <3>1. /\ Close("explicit_exit", MarketPrice, pending.at, FALSE, "protect")
          /\ pending # None /\ phase = "fill"
      BY <1>2, <2>2 DEF FillExit
    <3>2. MarketPrice \in Int  BY <1>b, <3>1 DEF MarketPrice, Candle, Running
    <3>3. pending.at \in Int  BY <1>i, <3>1 DEF TypeOK, Pending
    <3> QED BY <1>c, <2>2, <3>1, <3>2, <3>3 DEF ExitReasons
  <2> QED BY <2>1, <2>2
<1>3. CASE Protect
  <2>1. CASE position # None /\ StopHit
    <3>1. Close("stop_loss", position.stop, None, TargetHit, "decide")
      BY <1>3, <2>1 DEF Protect
    <3>2. TargetHit \in BOOLEAN
      <4>1. (candles[bar].high >= position.target) \in BOOLEAN
        BY <1>b, <1>3, <1>p, <2>1 DEF Protect, Running, Candle
      <4>2. (candles[bar].low <= position.target) \in BOOLEAN
        BY <1>b, <1>3, <1>p, <2>1 DEF Protect, Running, Candle
      <4>3. CASE position.dir = "long"  BY <4>1, <4>3, Zenon DEF TargetHit
      <4>4. CASE position.dir # "long"  BY <4>2, <4>4, Zenon DEF TargetHit
      <4> QED BY <4>3, <4>4
    <3> QED BY <1>c, <1>p, <2>1, <3>1, <3>2 DEF ExitReasons
  <2>2. CASE position # None /\ ~StopHit /\ TargetHit
    <3>1. Close("take_profit", position.target, None, FALSE, "decide")
      BY <1>3, <2>2 DEF Protect
    <3> QED BY <1>c, <1>p, <2>2, <3>1 DEF ExitReasons
  <2>3. CASE position = None \/ (~StopHit /\ ~TargetHit)
    BY <1>3, <2>3 DEF Protect
  <2> QED BY <2>1, <2>2, <2>3
<1>4. CASE ForcedClose
  <2>1. CASE forceClose
    <3>1. /\ Close("end_of_data", candles[bar].close, None, FALSE, "end")
          /\ position # None /\ phase = "end"
      BY <1>4, <2>1 DEF ForcedClose
    <3>2. candles[bar].close \in Int  BY <1>b, <3>1 DEF Candle, Running
    <3> QED BY <1>c, <3>1, <3>2 DEF ExitReasons
  <2>2. CASE ~forceClose  BY <1>4, <2>2 DEF ForcedClose
  <2> QED BY <2>1, <2>2
<1>5. CASE UNCHANGED vars  BY <1>5 DEF vars, books
<1>6. CASE \/ Validate \/ NothingPending \/ DecideNothing \/ ProviderFails
           \/ \E n \in Intents, at \in {bar, bar - 1} : DecideIntent(n, at)
           \/ DropPending \/ Finish \/ Ended
  BY <1>6 DEF Validate, NothingPending, DecideNothing, ProviderFails, DecideIntent,
              DropPending, Finish, Ended, vars, books
<1> QED BY <1>1, <1>2, <1>3, <1>4, <1>5, <1>6 DEF Next

\* One more amount in a column.
LEMMA ColumnGrows ==
  ASSUME NEW a \in Seq(Int), NEW e \in Int, NEW b, DOMAIN b = 1..(Len(a) + 1),
         b = [n \in DOMAIN b |-> b[n]],
         \A n \in 1..Len(a) : b[n] = a[n], b[Len(a) + 1] = e
  PROVE  Total(b) = Total(a) + e /\ Total(a) \in Int
<1>1. b = Append(a, e)
  <2>1. \A n \in 1..(Len(a) + 1) : n \in 1..Len(a) \/ n = Len(a) + 1  OBVIOUS
  <2>2. \A n \in 1..(Len(a) + 1) : b[n] = Append(a, e)[n]  BY <2>1
  <2>3. Append(a, e) \in [1..(Len(a) + 1) -> Int]
    <3>1. Append(a, e) \in Seq(Int) /\ Len(Append(a, e)) = Len(a) + 1  OBVIOUS
    <3> QED BY <3>1, SequenceElements
  <2> QED BY <2>2, <2>3
<1> QED BY <1>1, TotalAppend

NetSum == Total([n \in DOMAIN trades |-> trades[n].net])
GrossSum == Total([n \in DOMAIN trades |-> trades[n].gross])
FeeSum == Total([n \in DOMAIN fills |-> fills[n].fee])

\* The sums that the summary will report, kept as the run goes on: net P&L is
\* gross P&L less the fees of all fills, but for the entry fee of the open
\* position, which no trade has yet.
SumsAgree ==
  /\ NetSum = netTotal
  /\ GrossSum - FeeSum = netTotal - (IF position = None THEN 0 ELSE position.fee)
  /\ GrossSum \in Int /\ FeeSum \in Int
  /\ curve # <<>>

\* The summary that has been reported is that of the books.
ReportIsOfBooks ==
  phase = "done" => position = None /\ summary = BuildSummary

ReportInv == FillsAreAdverse /\ SumsAgree /\ ReportIsOfBooks

\* A new fill adds its fee, a new trade its gains.
LEMMA SumsGrow ==
  ASSUME TypeOK
  PROVE  /\ NetSum \in Int /\ GrossSum \in Int /\ FeeSum \in Int
         /\ \A f \in FillRecord : fills' = Append(fills, f) => FeeSum' = FeeSum + f.fee
         /\ \A t \in Trade : trades' = Append(trades, t) =>
              NetSum' = NetSum + t.net /\ GrossSum' = GrossSum + t.gross
<1> DEFINE fees == [n \in DOMAIN fills |-> fills[n].fee]
           nets == [n \in DOMAIN trades |-> trades[n].net]
           gains == [n \in DOMAIN trades |-> trades[n].gross]
<1>1. /\ fills \in Seq(FillRecord) /\ Len(fills) \in Nat /\ DOMAIN fills = 1..Len(fills)
      /\ trades \in Seq(Trade) /\ Len(trades) \in Nat /\ DOMAIN trades = 1..Len(trades)
      /\ \A n \in 1..Len(fills) : fills[n] \in FillRecord
      /\ \A n \in 1..Len(trades) : trades[n] \in Trade
  BY SequenceElements DEF TypeOK
<1>2. /\ fees \in [1..Len(fills) -> Int]
      /\ nets \in [1..Len(trades) -> Int] /\ gains \in [1..Len(trades) -> Int]
  BY <1>1 DEF FillRecord, Trade, Money
<1>3. /\ fees \in Seq(Int) /\ Len(fees) = Len(fills)
      /\ nets \in Seq(Int) /\ Len(nets) = Len(trades)
      /\ gains \in Seq(Int) /\ Len(gains) = Len(trades)
  <2> HIDE DEF fees, nets, gains
  <2> QED BY <1>1, <1>2, FunctionIsSequence
<1>4. NetSum \in Int /\ GrossSum \in Int /\ FeeSum \in Int
  <2>1. \A a \in Seq(Int) : Total(a) \in Int  BY TotalAppend
  <2> HIDE DEF fees, nets, gains
  <2>2. Total(fees) \in Int /\ Total(nets) \in Int /\ Total(gains) \in Int  BY <1>3, <2>1
  <2> QED BY <2>2 DEF NetSum, GrossSum, FeeSum, fees, nets, gains
<1>5. ASSUME NEW f \in FillRecord, fills' = Append(fills, f)
      PROVE  FeeSum' = FeeSum + f.fee
  <2> DEFINE b == [n \in DOMAIN fills' |-> fills'[n].fee]
  <2>1. f.fee \in Int  BY DEF FillRecord, Money
  <2>2. /\ DOMAIN b = 1..(Len(fees) + 1) /\ b = [n \in DOMAIN b |-> b[n]]
        /\ \A n \in 1..Len(fees) : b[n] = fees[n]
        /\ b[Len(fees) + 1] = f.fee
    <3>1. /\ Len(fills') = Len(fills) + 1 /\ fills'[Len(fills) + 1] = f
          /\ \A n \in 1..Len(fills) : fills'[n] = fills[n]
          /\ fills' \in Seq(FillRecord)
      BY <1>1, <1>5, AppendKeeps
    <3>2. DOMAIN fills' = 1..(Len(fills) + 1)  BY <3>1, SequenceElements
    <3>3. Len(fees) = Len(fills)  BY <1>3
    <3>4. \A n \in 1..Len(fills) : n \in DOMAIN fills /\ n \in 1..(Len(fills) + 1)
      BY <1>1
    <3>5. Len(fills) + 1 \in DOMAIN fills'  BY <1>1, <3>2
    <3> QED BY <3>1, <3>2, <3>3, <3>4, <3>5
  <2>3. Total(b) = Total(fees) + f.fee
    <3> HIDE DEF b, fees
    <3> QED BY <1>3, <2>1, <2>2, ColumnGrows
  <2> QED BY <2>3 DEF FeeSum
<1>6. ASSUME NEW t \in Trade, trades' = Append(trades, t)
      PROVE  NetSum' = NetSum + t.net /\ GrossSum' = GrossSum + t.gross
  <2> DEFINE b == [n \in DOMAIN trades' |-> trades'[n].net]
             c == [n \in DOMAIN trades' |-> trades'[n].gross]
  <2>1. t.net \in Int /\ t.gross \in Int  BY DEF Trade, Money
  <2>2. /\ DOMAIN b = 1..(Len(nets) + 1) /\ b = [n \in DOMAIN b |-> b[n]]
        /\ \A n \in 1..Len(nets) : b[n] = nets[n]
        /\ b[Len(nets) + 1] = t.net
        /\ DOMAIN c = 1..(Len(gains) + 1) /\ c = [n \in DOMAIN c |-> c[n]]
        /\ \A n \in 1..Len(gains) : c[n] = gains[n]
        /\ c[Len(gains) + 1] = t.gross
    <3>1. /\ Len(trades') = Len(trades) + 1 /\ trades'[Len(trades) + 1] = t
          /\ \A n \in 1..Len(trades) : trades'[n] = trades[n]
          /\ trades' \in Seq(Trade)
      BY <1>1, <1>6, AppendKeeps
    <3>2. DOMAIN trades' = 1..(Len(trades) + 1)  BY <3>1, SequenceElements
    <3>3. Len(nets) = Len(trades) /\ Len(gains) = Len(trades)  BY <1>3
    <3>4. \A n \in 1..Len(trades) : n \in DOMAIN trades /\ n \in 1..(Len(trades) + 1)
      BY <1>1
    <3>5. Len(trades) + 1 \in DOMAIN trades'  BY <1>1, <3>2
    <3> QED BY <3>1, <3>2, <3>3, <3>4, <3>5
  <2>3. Total(b) = Total(nets) + t.net /\ Total(c) = Total(gains) + t.gross
    <3> HIDE DEF b, c, nets, gains
    <3> QED BY <1>3, <2>1, <2>2, ColumnGrows
  <2> QED BY <2>3 DEF NetSum, GrossSum
<1> QED BY <1>4, <1>5, <1>6
\* What FillsAreAdverse says of every fill stays true when one is added.
LEMMA AdverseStays ==
  ASSUME TypeOK, FillsAreAdverse, NEW f \in FillRecord, Adverse(f), fills' = Append(fills, f)
  PROVE  FillsAreAdverse'
<1>1. /\ Len(fills') = Len(fills) + 1 /\ Len(fills) \in Nat /\ fills'[Len(fills) + 1] = f
      /\ \A n \in 1..Len(fills) : fills'[n] = fills[n]
  BY AppendKeeps DEF TypeOK
<1>2. \A n \in 1..Len(fills) : Adverse(fills[n])  BY DEF FillsAreAdverse, Adverse
<1>3. \A n \in 1..Len(fills') : n \in 1..Len(fills) \/ n = Len(fills) + 1  BY <1>1
<1>4. \A n \in 1..Len(fills') : Adverse(fills'[n])  BY <1>1, <1>2, <1>3
<1> QED BY <1>4 DEF FillsAreAdverse, Adverse

\* Only finish reports, and what it reports stays.
LEMMA ReportStays ==
  ASSUME ReportIsOfBooks, [Next]_vars
  PROVE  ReportIsOfBooks'
<1> SUFFICES ASSUME phase' = "done" PROVE position' = None /\ summary' = BuildSummary'
  BY DEF ReportIsOfBooks
<1>1. \/ Finish
      \/ UNCHANGED vars
  <2>1. CASE Validate \/ NothingPending \/ DecideNothing \/ ProviderFails \/ DropPending \/ Ended
    BY <2>1 DEF Validate, NothingPending, DecideNothing, ProviderFails, DropPending, Ended,
                NextBar, Fail
  <2>2. CASE FillEntry \/ FillExit \/ Protect \/ ForcedClose
    BY <2>2 DEF FillEntry, FillExit, Protect, ForcedClose, Close, Fail
  <2>3. CASE \E n \in Intents, at \in {bar, bar - 1} : DecideIntent(n, at)
    BY <2>3 DEF DecideIntent, NextBar, Fail
  <2> QED BY <2>1, <2>2, <2>3 DEF Next
<1>2. CASE Finish
  <2>1. summary' = BuildSummary /\ UNCHANGED <<books, unfilled>> /\ position = None
    BY <1>2 DEF Finish
  <2> QED BY <2>1 DEF BuildSummary, books
<1>3. CASE UNCHANGED vars
  BY <1>3 DEF vars, ReportIsOfBooks, BuildSummary
<1> QED BY <1>1, <1>2, <1>3

LEMMA ReportStep ==
  ASSUME IInv, ReportInv, [Next]_vars
  PROVE  ReportInv'
<1>i. TypeOK /\ FillsAreAdverse /\ SumsAgree /\ ReportIsOfBooks
  BY DEF IInv, ReportInv
<1>n. netTotal \in Int /\ curve \in Seq(Int)  BY <1>i DEF TypeOK, Money
<1>1. ReportIsOfBooks'  BY <1>i, ReportStays
<1>2. CASE UNCHANGED books
  <2>1. FillsAreAdverse'  BY <1>i, <1>2 DEF FillsAreAdverse, books
  <2>2. SumsAgree'  BY <1>i, <1>2 DEF SumsAgree, NetSum, GrossSum, FeeSum, books
  <2> QED BY <1>1, <2>1, <2>2 DEF ReportInv
<1>3. ASSUME position = None, NEW f \in FillRecord, Entered(f)
      PROVE  ReportInv'
  <2>1. /\ fills' = Append(fills, f) /\ UNCHANGED <<trades, netTotal>> /\ Adverse(f)
        /\ curve' = Append(curve, equity') /\ position' # None /\ position'.fee = f.fee
        /\ equity' = equity - f.fee
    BY <1>3 DEF Entered
  <2>2. FillsAreAdverse'  BY <1>i, <2>1, AdverseStays
  <2>3. f.fee \in Int /\ equity' \in Int  BY <1>i, <2>1 DEF FillRecord, Money, TypeOK
  <2>4. /\ FeeSum' = FeeSum + f.fee /\ NetSum' = NetSum /\ GrossSum' = GrossSum
    BY <1>i, <2>1, SumsGrow DEF NetSum, GrossSum
  <2>5. curve' # <<>>
    <3>1. Len(curve') = Len(curve) + 1 /\ Len(curve) \in Nat  BY <1>n, <2>1, <2>3, AppendKeeps
    <3> QED BY <3>1
  <2>6. SumsAgree'
    <3>1. NetSum \in Int /\ GrossSum \in Int /\ FeeSum \in Int  BY <1>i, SumsGrow
    <3>2. NetSum = netTotal /\ GrossSum - FeeSum = netTotal - 0  BY <1>3, <1>i DEF SumsAgree
    <3>3. GrossSum - (FeeSum + f.fee) = netTotal - f.fee  BY <1>n, <2>3, <3>1, <3>2
    <3>4. GrossSum' - FeeSum' = netTotal' - position'.fee  BY <2>1, <2>4, <3>3
    <3>5. NetSum' = netTotal' /\ GrossSum' \in Int /\ FeeSum' \in Int
      BY <2>1, <2>3, <2>4, <3>1, <3>2
    <3> QED BY <2>1, <2>5, <3>4, <3>5 DEF SumsAgree
  <2> QED BY <1>1, <2>2, <2>6 DEF ReportInv
<1>4. ASSUME position # None, NEW f \in FillRecord, NEW t \in Trade,
             Closed(f, t, t.reason, f.ref, f.decided, t.ambiguous)
      PROVE  ReportInv'
  <2>1. /\ fills' = Append(fills, f) /\ trades' = Append(trades, t) /\ Adverse(f)
        /\ curve' = Append(curve, equity') /\ position' = None
        /\ equity' = equity + t.net + position.fee
        /\ netTotal' = netTotal + t.net
        /\ t.fees = position.fee + f.fee /\ t.net = t.gross - t.fees
    BY <1>4 DEF Closed
  <2>2. FillsAreAdverse'  BY <1>i, <2>1, AdverseStays
  <2>3. /\ f.fee \in Int /\ t.net \in Int /\ t.gross \in Int /\ position.fee \in Int
        /\ equity' \in Int
    <3>1. position \in Position /\ equity \in Int  BY <1>4, <1>i DEF TypeOK, Money
    <3>2. f.fee \in Int /\ t.net \in Int /\ t.gross \in Int /\ position.fee \in Int
      BY <3>1 DEF FillRecord, Trade, Position, Money
    <3> QED BY <2>1, <3>1, <3>2
  <2>4. /\ FeeSum' = FeeSum + f.fee /\ NetSum' = NetSum + t.net
        /\ GrossSum' = GrossSum + t.gross
    BY <1>i, <2>1, SumsGrow
  <2>5. curve' # <<>>
    <3>1. Len(curve') = Len(curve) + 1 /\ Len(curve) \in Nat  BY <1>n, <2>1, <2>3, AppendKeeps
    <3> QED BY <3>1
  <2>6. SumsAgree'
    <3>1. NetSum \in Int /\ GrossSum \in Int /\ FeeSum \in Int  BY <1>i, SumsGrow
    <3>2. NetSum = netTotal /\ GrossSum - FeeSum = netTotal - position.fee
      BY <1>4, <1>i DEF SumsAgree
    <3>3. t.net = t.gross - (position.fee + f.fee) /\ netTotal' = netTotal + t.net
      BY <2>1
    <3> DEFINE gross == GrossSum  fees == FeeSum  net == NetSum
               gain == t.gross  plus == t.net  exitFee == f.fee  entryFee == position.fee
    <3>a. /\ gross \in Int /\ fees \in Int /\ net \in Int /\ gain \in Int /\ plus \in Int
          /\ exitFee \in Int /\ entryFee \in Int /\ netTotal \in Int
      BY <1>n, <2>3, <3>1
    <3>b. /\ net = netTotal /\ gross - fees = netTotal - entryFee
          /\ plus = gain - (entryFee + exitFee) /\ netTotal' = netTotal + plus
          /\ FeeSum' = fees + exitFee /\ NetSum' = net + plus /\ GrossSum' = gross + gain
      BY <2>4, <3>2, <3>3
    <3> HIDE DEF gross, fees, net, gain, plus, exitFee, entryFee
    <3>5. GrossSum' - FeeSum' = netTotal' - 0  BY <3>a, <3>b
    <3>6. NetSum' = netTotal' /\ GrossSum' \in Int /\ FeeSum' \in Int
      BY <3>a, <3>b
    <3> QED BY <2>1, <2>5, <3>5, <3>6 DEF SumsAgree
  <2> QED BY <1>1, <2>2, <2>6 DEF ReportInv
<1> QED BY <1>2, <1>3, <1>4, StepOfBooks

LEMMA ReportInit == Init => ReportInv
<1> SUFFICES ASSUME Init PROVE ReportInv  OBVIOUS
<1>1. /\ fills = <<>> /\ trades = <<>> /\ curve = <<equity>> /\ netTotal = 0
      /\ position = None /\ phase = "validate"
  BY DEF Init
<1>2. /\ [n \in DOMAIN trades |-> trades[n].net] = <<>>
      /\ [n \in DOMAIN trades |-> trades[n].gross] = <<>>
      /\ [n \in DOMAIN fills |-> fills[n].fee] = <<>>
  BY <1>1
<1>3. NetSum = 0 /\ GrossSum = 0 /\ FeeSum = 0
  BY <1>2, TotalEmpty DEF NetSum, GrossSum, FeeSum
<1>4. curve # <<>>  BY <1>1
<1> QED BY <1>1, <1>3, <1>4 DEF ReportInv, FillsAreAdverse, SumsAgree, ReportIsOfBooks

\* The sizes of disjoint sets add up.
LEMMA DisjointUnion ==
  ASSUME NEW S, NEW T, IsFiniteSet(S), IsFiniteSet(T), S \cap T = {}
  PROVE  /\ IsFiniteSet(S \cup T)
         /\ Cardinality(S \cup T) = Cardinality(S) + Cardinality(T)
<1>1. Cardinality(S) \in Nat /\ Cardinality(T) \in Nat  BY FS_CardinalityType
<1>2. Cardinality(S \cap T) = 0  BY FS_EmptySet
<1>3. IsFiniteSet(S \cup T)
      /\ Cardinality(S \cup T) = Cardinality(S) + Cardinality(T) - Cardinality(S \cap T)
  BY FS_Union
<1> QED BY <1>1, <1>2, <1>3

\* Four disjoint classes, some perhaps empty, that cover the first n numbers.
Partition(n, A, B, C, D) ==
  /\ A \cup B \cup C \cup D = 1..n
  /\ A \cap B = {} /\ (A \cup B) \cap C = {} /\ (A \cup B \cup C) \cap D = {}

\* The sizes of the classes of a partition add up.
LEMMA Classes ==
  ASSUME NEW n \in Nat, NEW A, NEW B, NEW C, NEW D, Partition(n, A, B, C, D)
  PROVE  Cardinality(A) + Cardinality(B) + Cardinality(C) + Cardinality(D) = n
<1>0. /\ A \cup B \cup C \cup D = 1..n
      /\ A \cap B = {} /\ (A \cup B) \cap C = {} /\ (A \cup B \cup C) \cap D = {}
  BY DEF Partition
<1>1. IsFiniteSet(1..n) /\ Cardinality(1..n) = n  BY FS_Interval
<1>2. IsFiniteSet(A) /\ IsFiniteSet(B) /\ IsFiniteSet(C) /\ IsFiniteSet(D)
  <2>1. A \in SUBSET (1..n) /\ B \in SUBSET (1..n) /\ C \in SUBSET (1..n) /\ D \in SUBSET (1..n)
    BY <1>0
  <2> QED BY <1>1, <2>1, FS_Subset
<1> DEFINE AB == A \cup B  ABC == AB \cup C  ABCD == ABC \cup D
<1>3. IsFiniteSet(AB) /\ Cardinality(AB) = Cardinality(A) + Cardinality(B)
  BY <1>0, <1>2, DisjointUnion
<1>4. IsFiniteSet(ABC) /\ Cardinality(ABC) = Cardinality(AB) + Cardinality(C)
  <2>1. AB \cap C = {}  BY <1>0
  <2> HIDE DEF AB
  <2> QED BY <1>2, <1>3, <2>1, DisjointUnion
<1>5. Cardinality(ABCD) = Cardinality(ABC) + Cardinality(D)
  <2>1. ABC \cap D = {}  BY <1>0
  <2> HIDE DEF ABC
  <2> QED BY <1>2, <1>4, <2>1, DisjointUnion
<1>6. ABCD = 1..n  BY <1>0
<1> HIDE DEF AB, ABC, ABCD
<1> QED BY <1>1, <1>3, <1>4, <1>5, <1>6

-----------------------------------------------------------------------------
(* Every accepted intent is resolved once.                                 *)

\* Before a bar is decided no intent of that bar has been accepted.
DecidedEarlier ==
  phase \in {"validate", "fill", "protect", "decide"} => \A a \in accepted : a.at < bar

ResolveInv == IntentsResolveOnce /\ DecidedEarlier

\* One more fill.
LEMMA FillsGrow ==
  ASSUME TypeOK, NEW f \in FillRecord, fills' = Append(fills, f)
  PROVE  LET last == Len(fills) + 1 IN
         /\ DOMAIN fills' = DOMAIN fills \cup {last} /\ last \notin DOMAIN fills
         /\ fills'[last] = f
         /\ \A n \in DOMAIN fills : fills'[n] = fills[n] /\ n \in DOMAIN fills'
<1>1. fills \in Seq(FillRecord)  BY DEF TypeOK
<1>2. /\ fills' \in Seq(FillRecord) /\ Len(fills') = Len(fills) + 1 /\ Len(fills) \in Nat
      /\ fills'[Len(fills) + 1] = f
      /\ \A n \in 1..Len(fills) : fills'[n] = fills[n]
  BY <1>1, AppendKeeps
<1>3. DOMAIN fills = 1..Len(fills) /\ DOMAIN fills' = 1..(Len(fills) + 1)
  BY <1>1, <1>2, SequenceElements
<1> QED BY <1>2, <1>3

\* A step that neither fills nor drops nor accepts an intent.
LEMMA ResolvedStays ==
  ASSUME IntentsResolveOnce, UNCHANGED <<fills, unfilled, accepted>>,
         \/ UNCHANGED pending
         \/ pending' = None /\ phase' = "failed",
         phase = "failed" => phase' = "failed", TypeOK
  PROVE  IntentsResolveOnce'
<1>1. \A a \in accepted : a # None  BY NoneAssumption DEF TypeOK
<1>2. /\ \A a : Filled(a)' <=> Filled(a)
      /\ \A a : Dropped(a)' <=> Dropped(a)
      /\ \A n, a : CarriedOut(n, a)' <=> CarriedOut(n, a)
  BY DEF Filled, Dropped, CarriedOut
<1>3. \A a \in accepted' :
        /\ ~(Filled(a)' /\ Dropped(a)') /\ ~(pending' = a /\ (Filled(a)' \/ Dropped(a)'))
        /\ phase' # "failed" => pending' = a \/ Filled(a)' \/ Dropped(a)'
  BY <1>1, <1>2 DEF IntentsResolveOnce
<1>4. \A n \in DOMAIN fills' :
        fills'[n].decided # None => \E a \in accepted' : CarriedOut(n, a)'
  BY <1>2 DEF IntentsResolveOnce
<1>5. /\ \A m, n \in DOMAIN fills' :
           fills'[m].decided = fills'[n].decided /\ fills'[m].decided # None => m = n
      /\ Len(unfilled') <= 1
      /\ {unfilled'[n] : n \in DOMAIN unfilled'} \cup ({pending'} \ {None}) \subseteq accepted'
  BY DEF IntentsResolveOnce
<1> QED BY <1>3, <1>4, <1>5 DEF IntentsResolveOnce, Filled, Dropped, CarriedOut

\* A fill without a decision resolves nothing.
LEMMA ProtectedFillResolves ==
  ASSUME TypeOK, IntentsResolveOnce, UNCHANGED <<pending, unfilled, accepted>>,
         NEW f \in FillRecord, fills' = Append(fills, f), f.decided = None,
         phase # "failed"
  PROVE  IntentsResolveOnce'
<1> DEFINE last == Len(fills) + 1
<1>1. /\ DOMAIN fills' = DOMAIN fills \cup {last} /\ last \notin DOMAIN fills
      /\ fills'[last] = f
      /\ \A n \in DOMAIN fills : fills'[n] = fills[n] /\ n \in DOMAIN fills'
  BY FillsGrow
<1> HIDE DEF last
<1>2. \A a \in accepted : a.at # None  BY NoneAssumption DEF TypeOK, Pending
<1>3. /\ \A a \in accepted : Filled(a)' <=> Filled(a)
      /\ \A a : Dropped(a)' <=> Dropped(a)
      /\ \A n \in DOMAIN fills : \A a : CarriedOut(n, a)' <=> CarriedOut(n, a)
  <2>1. \A a \in accepted : Filled(a)' <=> Filled(a)
    BY <1>1, <1>2 DEF Filled
  <2> QED BY <1>1, <2>1 DEF Dropped, CarriedOut
<1>4. \A m, n \in DOMAIN fills' :
        fills'[m].decided = fills'[n].decided /\ fills'[m].decided # None => m = n
  BY <1>1 DEF IntentsResolveOnce
<1>5. \A n \in DOMAIN fills' :
        fills'[n].decided # None => \E a \in accepted' : CarriedOut(n, a)'
  BY <1>1, <1>3 DEF IntentsResolveOnce
<1>6. \A a \in accepted' :
        /\ ~(Filled(a)' /\ Dropped(a)') /\ ~(pending' = a /\ (Filled(a)' \/ Dropped(a)'))
        /\ phase' # "failed" => pending' = a \/ Filled(a)' \/ Dropped(a)'
  BY <1>3 DEF IntentsResolveOnce
<1> QED BY <1>4, <1>5, <1>6 DEF IntentsResolveOnce, Filled, Dropped, CarriedOut

\* The fill of what was pending resolves it, and nothing else.
LEMMA PendingFillResolves ==
  ASSUME TypeOK, IntentsResolveOnce, UNCHANGED <<unfilled, accepted>>, unfilled = <<>>,
         pending # None, pending' = None, phase # "failed",
         NEW f \in FillRecord, fills' = Append(fills, f), f.decided = pending.at,
         IF pending.what.kind = "exit" THEN f.reason = "explicit_exit"
         ELSE /\ f.reason = "market_entry"
              /\ f.qty = pending.what.qty /\ f.buy = (pending.what.dir = "long")
  PROVE  IntentsResolveOnce'
<1> DEFINE last == Len(fills) + 1
<1>1. /\ DOMAIN fills' = DOMAIN fills \cup {last} /\ last \notin DOMAIN fills
      /\ fills'[last] = f
      /\ \A n \in DOMAIN fills : fills'[n] = fills[n] /\ n \in DOMAIN fills'
  BY FillsGrow
<1> HIDE DEF last
<1>p. PICK p \in accepted : p = pending
  BY DEF IntentsResolveOnce
<1>k. PICK k : k = last
  OBVIOUS
<1>2. p.at # None /\ ~Filled(p)
  BY <1>p, NoneAssumption DEF IntentsResolveOnce, TypeOK, Pending
<1>3. /\ \A a \in accepted : a # None
      /\ \A a : ~Dropped(a) /\ ~Dropped(a)'
      /\ \A a : Filled(a) => Filled(a)'
      /\ Filled(p)'
      /\ \A n \in DOMAIN fills : \A a : CarriedOut(n, a)' <=> CarriedOut(n, a)
  <2>1. \A a \in accepted : a # None  BY NoneAssumption DEF TypeOK
  <2>2. \A a : ~Dropped(a) /\ ~Dropped(a)'  BY DEF Dropped
  <2>3. \A a : Filled(a) => Filled(a)'  BY <1>1 DEF Filled
  <2>4. \E n \in DOMAIN fills' : fills'[n].decided = p.at  BY <1>1, <1>p
  <2>5. Filled(p)'  BY <2>4 DEF Filled
  <2> QED BY <1>1, <2>1, <2>2, <2>3, <2>5 DEF CarriedOut
<1>4. \A m, n \in DOMAIN fills' :
        fills'[m].decided = fills'[n].decided /\ fills'[m].decided # None => m = n
  <2>1. \A n \in DOMAIN fills : fills[n].decided # f.decided  BY <1>2, <1>p DEF Filled
  <2> QED BY <1>1, <2>1 DEF IntentsResolveOnce
<1>5. \A n \in DOMAIN fills' :
        fills'[n].decided # None => \E a \in accepted' : CarriedOut(n, a)'
  <2>1. CarriedOut(k, p)'  BY <1>1, <1>k, <1>p DEF CarriedOut
  <2> QED BY <1>1, <1>k, <1>3, <2>1 DEF IntentsResolveOnce
<1>6. \A a \in accepted' :
        /\ ~(Filled(a)' /\ Dropped(a)') /\ ~(pending' = a /\ (Filled(a)' \/ Dropped(a)'))
        /\ phase' # "failed" => pending' = a \/ Filled(a)' \/ Dropped(a)'
  BY <1>3, <1>p DEF IntentsResolveOnce
<1> QED BY <1>4, <1>5, <1>6 DEF IntentsResolveOnce, Filled, Dropped, CarriedOut

\* What every step keeps of the two facts.
LEMMA ResolveStep ==
  ASSUME IInv, ResolveInv, [Next]_vars
  PROVE  ResolveInv'
<1>i. TypeOK /\ IntentWaits /\ BarInRange /\ IntentsResolveOnce /\ DecidedEarlier
  BY DEF IInv, ResolveInv
<1>b. bar \in Nat  BY <1>i DEF TypeOK
<1>d. \A a \in accepted : a.at \in Int  BY <1>i DEF TypeOK, Pending
\* An exit of the open position, or its refusal.
<1>c. ASSUME NEW reason \in ExitReasons, NEW ref \in Int, NEW decided \in Int \cup {None},
             NEW ambiguous \in BOOLEAN, NEW next, position # None,
             Close(reason, ref, decided, ambiguous, next)
      PROVE  \/ phase' = "failed" /\ UNCHANGED fills
             \/ \E f \in FillRecord : /\ fills' = Append(fills, f)
                                      /\ f.decided = decided /\ f.reason = reason
  <2>1. CASE Fail("exit_price") /\ UNCHANGED books  BY <2>1 DEF Fail, books
  <2>2. ASSUME NEW f \in FillRecord, NEW t \in Trade,
               Closed(f, t, reason, ref, decided, ambiguous)
        PROVE  \E g \in FillRecord : /\ fills' = Append(fills, g)
                                     /\ g.decided = decided /\ g.reason = reason
    BY <2>2 DEF Closed
  <2> QED BY <1>c, <1>i, <2>1, <2>2, Closing
<1>x. phase \in Running => bar \in 1..Len(candles) /\ candles[bar] \in Candle
  BY <1>i DEF BarInRange, TypeOK
<1>y. position # None => position.stop \in Int /\ position.target \in Int
  BY <1>i DEF TypeOK, Position
\* An exit without a decision.
<1>z. ASSUME NEW reason \in ExitReasons, NEW ref \in Int, NEW ambiguous \in BOOLEAN,
             NEW next, position # None, Close(reason, ref, None, ambiguous, next),
             UNCHANGED <<pending, unfilled, accepted>>, phase # "failed"
      PROVE  IntentsResolveOnce'
  <2>1. CASE phase' = "failed" /\ UNCHANGED fills  BY <1>i, <1>z, <2>1, ResolvedStays
  <2>2. ASSUME NEW f \in FillRecord, fills' = Append(fills, f), f.decided = None
        PROVE  IntentsResolveOnce'
    BY <1>i, <1>z, <2>2, ProtectedFillResolves
  <2>3. \/ phase' = "failed" /\ UNCHANGED fills
        \/ \E f \in FillRecord : fills' = Append(fills, f) /\ f.decided = None
    <3> DEFINE decided == None
    <3>1. decided \in Int \cup {None} /\ Close(reason, ref, decided, ambiguous, next)
      BY <1>z
    <3> HIDE DEF decided
    <3>2. \/ phase' = "failed" /\ UNCHANGED fills
          \/ \E f \in FillRecord : fills' = Append(fills, f) /\ f.decided = decided
      BY <1>c, <1>z, <3>1
    <3> QED BY <3>2 DEF decided
  <2> QED BY <2>1, <2>2, <2>3
<1>1. CASE FillEntry
  <2>0. /\ pending # None /\ pending.what.kind = "enter" /\ phase = "fill"
        /\ UNCHANGED <<bar, unfilled, accepted>> /\ unfilled = <<>>
    BY <1>1, <1>i DEF FillEntry, IntentWaits
  <2>1. CASE UNCHANGED <<pending, books>> /\ phase' = "failed"
    <3>1. IntentsResolveOnce'  BY <1>i, <2>0, <2>1, ResolvedStays DEF books
    <3> QED BY <2>1, <3>1 DEF ResolveInv, DecidedEarlier
  <2>2. ASSUME NEW f \in FillRecord, Entered(f), pending' = None, phase' = "protect"
        PROVE  ResolveInv'
    <3>1. /\ fills' = Append(fills, f) /\ f.decided = pending.at /\ f.reason = "market_entry"
          /\ f.qty = pending.what.qty /\ f.buy = (pending.what.dir = "long")
      BY <2>2 DEF Entered
    <3>2. IntentsResolveOnce'  BY <1>i, <2>0, <2>2, <3>1, PendingFillResolves
    <3> QED BY <1>i, <2>0, <2>2, <3>2 DEF ResolveInv, DecidedEarlier
  <2> QED BY <1>1, <1>i, <2>1, <2>2, Entering DEF Fail
<1>2. CASE FillExit
  <2>0. /\ pending # None /\ pending.what.kind = "exit" /\ phase = "fill" /\ pending' = None
        /\ UNCHANGED <<bar, unfilled, accepted>> /\ unfilled = <<>> /\ pending.at \in Int
        /\ phase' \in {"failed", "protect"}
    BY <1>2, <1>i DEF FillExit, IntentWaits, TypeOK, Pending, Close, Fail
  <2>1. DecidedEarlier'  BY <1>i, <2>0 DEF DecidedEarlier
  <2>2. CASE phase' = "failed" /\ UNCHANGED fills
    <3>1. IntentsResolveOnce'  BY <1>i, <2>0, <2>2, ResolvedStays
    <3> QED BY <2>1, <3>1 DEF ResolveInv
  <2>3. ASSUME NEW f \in FillRecord, fills' = Append(fills, f), f.decided = pending.at,
               f.reason = "explicit_exit"
        PROVE  ResolveInv'
    <3>1. IntentsResolveOnce'  BY <1>i, <2>0, <2>3, PendingFillResolves
    <3> QED BY <2>1, <3>1 DEF ResolveInv
  <2>4. CASE position = None  BY <1>2, <2>2, <2>4 DEF FillExit, Fail, books
  <2>5. CASE position # None
    <3>1. Close("explicit_exit", MarketPrice, pending.at, FALSE, "protect")
      BY <1>2, <2>5 DEF FillExit
    <3>2. MarketPrice \in Int  BY <1>x, <2>0 DEF MarketPrice, Candle, Running
    <3>3. \/ phase' = "failed" /\ UNCHANGED fills
          \/ \E f \in FillRecord : /\ fills' = Append(fills, f)
                                   /\ f.decided = pending.at /\ f.reason = "explicit_exit"
      <4> DEFINE reason == "explicit_exit"  ref == MarketPrice  decided == pending.at
                 next == "protect"
      <4>1. /\ reason \in ExitReasons /\ ref \in Int /\ decided \in Int \cup {None}
            /\ Close(reason, ref, decided, FALSE, next)
        BY <2>0, <3>1, <3>2 DEF ExitReasons
      <4> HIDE DEF reason, ref, decided, next
      <4>2. \/ phase' = "failed" /\ UNCHANGED fills
            \/ \E f \in FillRecord : /\ fills' = Append(fills, f)
                                     /\ f.decided = decided /\ f.reason = reason
        BY <1>c, <2>5, <4>1
      <4> QED BY <4>2 DEF decided, reason
    <3> QED BY <2>2, <2>3, <3>3
  <2> QED BY <2>4, <2>5
<1>3. CASE Protect
  <2>0. /\ phase = "protect" /\ UNCHANGED <<bar, pending, unfilled, accepted>>
        /\ phase' \in {"failed", "decide"}
    BY <1>3 DEF Protect, Close, Fail
  <2>1. DecidedEarlier'  BY <1>i, <2>0 DEF DecidedEarlier
  <2>2. CASE position # None /\ StopHit
    <3>1. Close("stop_loss", position.stop, None, TargetHit, "decide")
      BY <1>3, <2>2 DEF Protect
    <3>2. TargetHit \in BOOLEAN
      <4>1. (candles[bar].high >= position.target) \in BOOLEAN
        BY <1>x, <1>y, <2>0, <2>2 DEF Running, Candle
      <4>2. (candles[bar].low <= position.target) \in BOOLEAN
        BY <1>x, <1>y, <2>0, <2>2 DEF Running, Candle
      <4>3. CASE position.dir = "long"  BY <4>1, <4>3, Zenon DEF TargetHit
      <4>4. CASE position.dir # "long"  BY <4>2, <4>4, Zenon DEF TargetHit
      <4> QED BY <4>3, <4>4
    <3>3. IntentsResolveOnce'  BY <1>y, <1>z, <2>0, <2>2, <3>1, <3>2 DEF ExitReasons
    <3> QED BY <2>1, <3>3 DEF ResolveInv
  <2>3. CASE position # None /\ ~StopHit /\ TargetHit
    <3>1. Close("take_profit", position.target, None, FALSE, "decide")
      BY <1>3, <2>3 DEF Protect
    <3>2. IntentsResolveOnce'  BY <1>y, <1>z, <2>0, <2>3, <3>1 DEF ExitReasons
    <3> QED BY <2>1, <3>2 DEF ResolveInv
  <2>4. CASE position = None \/ (~StopHit /\ ~TargetHit)
    <3>1. UNCHANGED books  BY <1>3, <2>4 DEF Protect
    <3>2. IntentsResolveOnce'  BY <1>i, <2>0, <3>1, ResolvedStays DEF books
    <3> QED BY <2>1, <3>2 DEF ResolveInv
  <2> QED BY <2>2, <2>3, <2>4
<1>4. CASE ForcedClose
  <2>0. /\ phase = "end" /\ UNCHANGED <<bar, pending, unfilled, accepted>>
        /\ phase' \in {"failed", "end"} /\ position # None
    BY <1>4 DEF ForcedClose, Close, Fail
  <2>1. DecidedEarlier'  BY <2>0 DEF DecidedEarlier
  <2>2. CASE forceClose
    <3>1. Close("end_of_data", candles[bar].close, None, FALSE, "end")
      BY <1>4, <2>2 DEF ForcedClose
    <3>2. candles[bar].close \in Int  BY <1>x, <2>0 DEF Candle, Running
    <3>3. IntentsResolveOnce'  BY <1>z, <2>0, <3>1, <3>2 DEF ExitReasons
    <3> QED BY <2>1, <3>3 DEF ResolveInv
  <2>3. CASE ~forceClose
    <3>1. UNCHANGED books  BY <1>4, <2>3 DEF ForcedClose
    <3>2. IntentsResolveOnce'  BY <1>i, <2>0, <3>1, ResolvedStays DEF books
    <3> QED BY <2>1, <3>2 DEF ResolveInv
  <2> QED BY <2>2, <2>3
<1>5. CASE \/ Validate \/ NothingPending \/ ProviderFails \/ Finish \/ Ended
           \/ UNCHANGED vars
  <2>1. /\ UNCHANGED <<fills, bar, pending, unfilled, accepted>>
        /\ phase = "failed" => phase' = "failed"
        /\ phase' \in {phase, "failed", "done", "fill", "protect"}
        /\ phase' = "fill" => phase \in {"validate", "fill"}
        /\ phase' = "protect" => phase \in {"fill", "protect"}
    BY <1>5 DEF Validate, NothingPending, ProviderFails, Finish, Ended, Fail, vars, books
  <2>2. IntentsResolveOnce'  BY <1>i, <2>1, ResolvedStays
  <2>3. DecidedEarlier'  BY <1>i, <2>1 DEF DecidedEarlier
  <2> QED BY <2>2, <2>3 DEF ResolveInv
\* The close of a bar, with nothing pending and nothing dropped yet.
<1>n. phase = "decide" => pending = None /\ unfilled = <<>>  BY <1>i DEF IntentWaits
<1>6. CASE DecideNothing
  <2>1. /\ UNCHANGED <<fills, pending, unfilled, accepted>> /\ phase = "decide"
        /\ bar' \in {bar, bar + 1} /\ phase' \in {"fill", "end"}
    BY <1>6, <1>n DEF DecideNothing, NextBar, books
  <2>2. IntentsResolveOnce'  BY <1>i, <2>1, ResolvedStays
  <2>3. DecidedEarlier'  BY <1>b, <1>d, <1>i, <2>1 DEF DecidedEarlier
  <2> QED BY <2>2, <2>3 DEF ResolveInv
<1>7. ASSUME NEW n \in Intents, NEW at \in {bar, bar - 1}, DecideIntent(n, at)
      PROVE  ResolveInv'
  <2>0. phase = "decide" /\ UNCHANGED <<fills, unfilled>>
    BY <1>7 DEF DecideIntent, books
  <2>1. CASE ~IntentAccepted(n, at)
    <3>1. phase' = "failed" /\ UNCHANGED <<pending, accepted>>
      BY <1>7, <2>1 DEF DecideIntent, Fail
    <3>2. IntentsResolveOnce'  BY <1>i, <2>0, <3>1, ResolvedStays
    <3> QED BY <3>1, <3>2 DEF ResolveInv, DecidedEarlier
  <2>2. CASE IntentAccepted(n, at)
    <3>1. /\ pending' = [what |-> n, at |-> bar] /\ accepted' = accepted \cup {pending'}
          /\ \/ bar' = bar + 1 /\ phase' = "fill"
             \/ phase' = "end"
      BY <1>7, <2>2 DEF DecideIntent, IntentAccepted, NextBar
    <3>2. PICK p : p = pending'  OBVIOUS
    <3>3. p.at = bar /\ p \in Pending
      BY <1>b, <3>1, <3>2, InputAssumption DEF Pending
    <3>4. ResolveInv' <=> IntentsResolveOnce' /\ DecidedEarlier'  BY DEF ResolveInv
    <3>5. DecidedEarlier'
      BY <1>b, <1>d, <1>i, <2>0, <3>1, <3>2, <3>3 DEF DecidedEarlier
    <3>6. \A a \in accepted : a.at < bar  BY <1>i, <2>0 DEF DecidedEarlier
    <3>7. \A m \in DOMAIN fills : fills[m].decided # bar
      <4> SUFFICES ASSUME NEW m \in DOMAIN fills, fills[m].decided = bar PROVE FALSE
        OBVIOUS
      <4>1. bar # None  BY <1>b, NoneAssumption
      <4>2. PICK a \in accepted : CarriedOut(m, a)
        BY <1>i, <4>1 DEF IntentsResolveOnce
      <4>3. a.at = bar  BY <4>2 DEF CarriedOut
      <4> QED BY <1>b, <3>6, <4>3
    <3>8. /\ \A a : Filled(a)' <=> Filled(a)
          /\ \A a : ~Dropped(a) /\ ~Dropped(a)'
          /\ \A m, a : CarriedOut(m, a)' <=> CarriedOut(m, a)
          /\ ~Filled(p)
      BY <1>n, <2>0, <3>3, <3>7 DEF Filled, Dropped, CarriedOut
    <3>9. \A a \in accepted : Filled(a)
      <4>1. \A a \in accepted : a # None  BY <1>i, NoneAssumption DEF TypeOK
      <4> QED BY <1>i, <1>n, <2>0, <3>8, <4>1 DEF IntentsResolveOnce
    <3>10. \A a \in accepted' :
             /\ ~(Filled(a)' /\ Dropped(a)') /\ ~(pending' = a /\ (Filled(a)' \/ Dropped(a)'))
             /\ phase' # "failed" => pending' = a \/ Filled(a)' \/ Dropped(a)'
      BY <3>1, <3>2, <3>8, <3>9
    <3>11. \A m \in DOMAIN fills' :
             fills'[m].decided # None => \E a \in accepted' : CarriedOut(m, a)'
      <4>1. accepted \subseteq accepted'  BY <3>1
      <4> QED BY <1>i, <2>0, <3>8, <4>1 DEF IntentsResolveOnce
    <3>12. /\ \A l, m \in DOMAIN fills' :
                fills'[l].decided = fills'[m].decided /\ fills'[l].decided # None => l = m
           /\ Len(unfilled') <= 1
           /\ {unfilled'[m] : m \in DOMAIN unfilled'} \cup ({pending'} \ {None})
                \subseteq accepted'
      BY <1>i, <1>n, <2>0, <3>1 DEF IntentsResolveOnce
    <3>13. IntentsResolveOnce'
      BY <3>10, <3>11, <3>12 DEF IntentsResolveOnce, Filled, Dropped, CarriedOut
    <3> QED BY <3>4, <3>5, <3>13
  <2> QED BY <2>1, <2>2
<1>8. CASE DropPending
  <2>0. /\ phase = "end" /\ phase' = "end" /\ UNCHANGED <<fills, accepted>> /\ pending # None
        /\ unfilled' = Append(unfilled, pending) /\ pending' = None
    BY <1>8 DEF DropPending, books
  <2>1. PICK p \in accepted : p = pending
    BY <1>i, <2>0 DEF IntentsResolveOnce
  <2>2. unfilled = <<>>  BY <1>i, <2>0 DEF IntentWaits
  <2>3. unfilled' = <<p>> /\ Len(unfilled') = 1 /\ DOMAIN unfilled' = {1} /\ unfilled'[1] = p
    BY <2>0, <2>1, <2>2
  <2>4. /\ \A a : Filled(a)' <=> Filled(a)
        /\ \A a : ~Dropped(a) /\ (Dropped(a)' <=> a = p)
        /\ \A m, a : CarriedOut(m, a)' <=> CarriedOut(m, a)
        /\ ~Filled(p)
    <3>1. \A a : Dropped(a)' <=> a = p  BY <2>3 DEF Dropped
    <3>2. \A a : ~Dropped(a)  BY <2>2 DEF Dropped
    <3>3. ~Filled(p)  BY <1>i, <2>1 DEF IntentsResolveOnce
    <3> QED BY <2>0, <3>1, <3>2, <3>3 DEF Filled, CarriedOut
  <2>5. \A a \in accepted' :
          /\ ~(Filled(a)' /\ Dropped(a)') /\ ~(pending' = a /\ (Filled(a)' \/ Dropped(a)'))
          /\ phase' # "failed" => pending' = a \/ Filled(a)' \/ Dropped(a)'
    <3>1. \A a \in accepted : a # None  BY <1>i, NoneAssumption DEF TypeOK
    <3>2. \A a \in accepted : a = p \/ Filled(a)
      BY <1>i, <2>0, <2>1, <2>4 DEF IntentsResolveOnce
    <3> QED BY <2>0, <2>4, <3>1, <3>2
  <2>6. \A m \in DOMAIN fills' :
          fills'[m].decided # None => \E a \in accepted' : CarriedOut(m, a)'
    BY <1>i, <2>0, <2>4 DEF IntentsResolveOnce
  <2>7. /\ \A l, m \in DOMAIN fills' :
             fills'[l].decided = fills'[m].decided /\ fills'[l].decided # None => l = m
        /\ Len(unfilled') <= 1
        /\ {unfilled'[m] : m \in DOMAIN unfilled'} \cup ({pending'} \ {None}) \subseteq accepted'
    BY <1>i, <2>0, <2>1, <2>3 DEF IntentsResolveOnce
  <2>8. IntentsResolveOnce'
    BY <2>5, <2>6, <2>7 DEF IntentsResolveOnce, Filled, Dropped, CarriedOut
  <2>9. DecidedEarlier'  BY <2>0 DEF DecidedEarlier
  <2> QED BY <2>8, <2>9 DEF ResolveInv
<1> QED BY <1>1, <1>2, <1>3, <1>4, <1>5, <1>6, <1>7, <1>8 DEF Next

LEMMA ResolveInit == Init => ResolveInv
<1> SUFFICES ASSUME Init PROVE ResolveInv  OBVIOUS
<1>1. /\ fills = <<>> /\ unfilled = <<>> /\ accepted = {} /\ pending = None
  BY DEF Init
<1> QED BY <1>1 DEF ResolveInv, IntentsResolveOnce, DecidedEarlier
-----------------------------------------------------------------------------
(* The theorems.                                                           *)

\* Every step of a run preserves the invariant.
LEMMA NextInv == IInv /\ [Next]_vars => IInv'
<1> SUFFICES ASSUME IInv, [Next]_vars PROVE IInv'
  OBVIOUS
<1>1. CASE UNCHANGED vars
  <2>1. BooksInv'  BY <1>1, BooksStay DEF IInv, vars, books
  <2> QED BY <1>1, <2>1 DEF vars, IInv, TypeOK, BarInRange, IntentWaits, PendingFits,
             PositionIsLastFill, Survived
<1>2. CASE Ended  BY <1>1, <1>2 DEF Ended
<1> QED BY <1>1, <1>2, ValidateKeeps, FillKeeps, ProtectKeeps, DecideKeeps, EndKeeps DEF Next

\* The invariant holds of every reachable state.
LEMMA Invariance == Spec => []IInv
BY InitInv, NextInv, PTL DEF Spec

\* So do the report and what it is made of.
LEMMA ReportInvariance == Spec => [](IInv /\ ReportInv)
BY InitInv, NextInv, ReportInit, ReportStep, PTL DEF Spec

\* Prices, money and records stay what the engine's types say they are.
THEOREM TypeCorrect == Spec => []TypeOK
<1>1. IInv => TypeOK  BY DEF IInv
<1> QED BY <1>1, Invariance, PTL

\* At every moment realized equity is initial equity plus the net P&L of the
\* closed trades less the entry fee of the open position.
THEOREM EquityAlwaysReconciles == Spec => []EquityReconciles
<1>1. IInv => EquityReconciles  BY DEF IInv, BooksInv
<1> QED BY <1>1, Invariance, PTL

\* The engine never meets an intent that no longer fits the position.
THEOREM PendingAlwaysFits == Spec => []PendingFits
<1>1. IInv => PendingFits  BY DEF IInv
<1> QED BY <1>1, Invariance, PTL

\* Every trade is made of one entry fill and the exit fill that follows it.
THEOREM FillsAlwaysPairUp == Spec => []FillsPairUp
<1>1. IInv => FillsPairUp  BY DEF IInv, BooksInv
<1> QED BY <1>1, Invariance, PTL

\* No decision is ever filled on a bar whose close the provider had seen.
THEOREM NeverLooksAhead == Spec => []NoLookahead
<1>1. IInv => NoLookahead  BY DEF IInv, BooksInv
<1> QED BY <1>1, Invariance, PTL

\* Every intent the engine accepted waits, has been filled once as it asked, or
\* is reported unfilled, and never two of these; a fill that carries a decision
\* carries out one intent.
THEOREM IntentsAlwaysResolveOnce == Spec => []IntentsResolveOnce
<1>1. ResolveInv => IntentsResolveOnce  BY DEF ResolveInv
<1> QED BY <1>1, InitInv, NextInv, ResolveInit, ResolveStep, PTL DEF Spec

\* A bar that touches a level closes the position on that bar, stop first.
THEOREM LevelsAlwaysHonoured == Spec => []LevelsHonoured
<1>1. IInv => LevelsHonoured
  BY DEF IInv, BooksInv, Survived, ExitsByLevel, LevelsHonoured
<1> QED BY <1>1, Invariance, PTL

\* Slippage and tick rounding are never in the trader's favour, for any policy.
THEOREM FillsAlwaysAdverse == Spec => []FillsAreAdverse
<1>1. ReportInv => FillsAreAdverse  BY DEF ReportInv
<1> QED BY <1>1, ReportInvariance, PTL

\* However long the run, the report adds up: the totals are those of the trades
\* and fills, every trade is counted once by outcome and once by reason, and the
\* drawdown is the deepest fall of the equity curve.
THEOREM SummaryAlwaysReconciles == Spec => []SummaryReconciles
<1>1. IInv /\ ReportInv => SummaryReconciles
  <2> SUFFICES ASSUME IInv, ReportInv, phase = "done" PROVE SummaryReconciles
    BY DEF SummaryReconciles
  <2>1. position = None /\ summary = BuildSummary /\ SumsAgree
    BY DEF ReportInv, ReportIsOfBooks
  <2>2. /\ summary.final = equity /\ summary.net = NetSum /\ summary.gross = GrossSum
        /\ summary.fees = FeeSum /\ summary.drawdown = MaxDrawdown(curve)
        /\ summary.closed = Len(trades)
        /\ summary.wins = Cardinality({n \in DOMAIN trades : trades[n].net > 0})
        /\ summary.losses = Cardinality({n \in DOMAIN trades : trades[n].net < 0})
        /\ summary.flats = Cardinality({n \in DOMAIN trades : trades[n].net = 0})
        /\ \A r \in ExitReasons :
             summary.byReason[r] = Cardinality({n \in DOMAIN trades : trades[n].reason = r})
    BY <2>1 DEF BuildSummary, NetSum, GrossSum, FeeSum, ExitReasons
  <2>3. /\ netTotal \in Int /\ InitialEquity * Bps \in Int
        /\ trades \in Seq(Trade) /\ curve \in Seq(Int)
    BY PolicyAssumption DEF IInv, TypeOK, Money, Bps
  <2>4. /\ Len(trades) \in Nat /\ DOMAIN trades = 1..Len(trades)
        /\ \A n \in 1..Len(trades) : trades[n] \in Trade
    BY <2>3, SequenceElements
  <2>5. summary.final = InitialEquity * Bps + summary.net
    <3>1. equity = InitialEquity * Bps + netTotal - 0
      BY <2>1 DEF IInv, BooksInv, EquityReconciles
    <3> DEFINE start == InitialEquity * Bps
    <3>2. start \in Int  BY <2>3
    <3>3. equity = start + netTotal - 0  BY <3>1
    <3> HIDE DEF start
    <3>4. equity = start + netTotal  BY <2>3, <3>2, <3>3
    <3>5. summary.final = start + summary.net  BY <2>1, <2>2, <3>4 DEF SumsAgree
    <3> QED BY <3>5 DEF start
  <2>6. summary.net = netTotal /\ summary.net = summary.gross - summary.fees
    BY <2>1, <2>2, <2>3 DEF SumsAgree
  <2>7. summary.closed = summary.wins + summary.losses + summary.flats
    <3> DEFINE W == {n \in DOMAIN trades : trades[n].net > 0}
               L == {n \in DOMAIN trades : trades[n].net < 0}
               F == {n \in DOMAIN trades : trades[n].net = 0}
               E == {}
    <3>1. \A n \in DOMAIN trades : trades[n].net \in Int  BY <2>4 DEF Trade, Money
    <3>2. W \cup L \cup F \cup E = 1..Len(trades)  BY <2>4, <3>1
    <3>3. W \cap L = {} /\ (W \cup L) \cap F = {} /\ (W \cup L \cup F) \cap E = {}
      BY <3>1
    <3>4. IsFiniteSet(W) /\ IsFiniteSet(L) /\ IsFiniteSet(F)
      <4>1. W \in SUBSET (1..Len(trades)) /\ L \in SUBSET (1..Len(trades))
            /\ F \in SUBSET (1..Len(trades))
        BY <2>4
      <4>2. IsFiniteSet(1..Len(trades))  BY <2>4, FS_Interval
      <4> HIDE DEF W, L, F
      <4> QED BY <4>1, <4>2, FS_Subset
    <3>6. Cardinality(E) = 0  BY FS_EmptySet
    <3> HIDE DEF W, L, F, E
    <3>5. Cardinality(W) + Cardinality(L) + Cardinality(F) + Cardinality(E) = Len(trades)
      <4>1. Len(trades) \in Nat  BY <2>4
      <4>2. Partition(Len(trades), W, L, F, E)  BY <3>2, <3>3 DEF Partition
      <4> QED BY <4>1, <4>2, Classes
    <3>7. Cardinality(W) \in Nat /\ Cardinality(L) \in Nat /\ Cardinality(F) \in Nat
      BY <3>4, FS_CardinalityType
    <3>8. Len(trades) = Cardinality(W) + Cardinality(L) + Cardinality(F)
      BY <3>5, <3>6, <3>7
    <3> QED BY <2>2, <3>8 DEF W, L, F
  <2>8. summary.closed = summary.byReason["end_of_data"] + summary.byReason["stop_loss"]
          + summary.byReason["take_profit"] + summary.byReason["explicit_exit"]
    <3> DEFINE R(r) == {n \in DOMAIN trades : trades[n].reason = r}
    <3>1. \A n \in DOMAIN trades : trades[n].reason \in ExitReasons
      BY <2>4 DEF Trade, ExitReasons
    <3>2. R("end_of_data") \cup R("stop_loss") \cup R("take_profit") \cup R("explicit_exit")
            = 1..Len(trades)
      BY <2>4, <3>1 DEF ExitReasons
    <3>3. /\ R("end_of_data") \cap R("stop_loss") = {}
          /\ (R("end_of_data") \cup R("stop_loss")) \cap R("take_profit") = {}
          /\ (R("end_of_data") \cup R("stop_loss") \cup R("take_profit"))
               \cap R("explicit_exit") = {}
      OBVIOUS
    <3>4. \A r \in ExitReasons : summary.byReason[r] = Cardinality(R(r))  BY <2>2
    <3> HIDE DEF R
    <3>5. Cardinality(R("end_of_data")) + Cardinality(R("stop_loss"))
            + Cardinality(R("take_profit")) + Cardinality(R("explicit_exit")) = Len(trades)
      <4> DEFINE A == R("end_of_data")  B == R("stop_loss")
                 C == R("take_profit")  D == R("explicit_exit")
      <4>1. Len(trades) \in Nat  BY <2>4
      <4>2. A \cup B \cup C \cup D = 1..Len(trades)  BY <3>2
      <4>3. A \cap B = {} /\ (A \cup B) \cap C = {} /\ (A \cup B \cup C) \cap D = {}
        BY <3>3
      <4>4. Cardinality(A) + Cardinality(B) + Cardinality(C) + Cardinality(D) = Len(trades)
        <5> HIDE DEF A, B, C, D
        <5>1. Partition(Len(trades), A, B, C, D)  BY <4>2, <4>3 DEF Partition
        <5> QED BY <4>1, <5>1, Classes
      <4> QED BY <4>4
    <3> QED BY <2>2, <3>4, <3>5 DEF ExitReasons
  <2>9. summary.drawdown = DeepestFall(curve)
    BY <2>1, <2>2, <2>3, DrawdownIsDeepest DEF SumsAgree
  <2> QED BY <2>5, <2>6, <2>7, <2>8, <2>9 DEF SummaryReconciles
<1> QED BY <1>1, ReportInvariance, PTL

-----------------------------------------------------------------------------
(* The strategy's backtest. *)

\* Every step of the adapted run is a step of the engine or leaves it alone.
LEMMA StepRefines == [StrategyNext]_strategyVars => [Next]_vars
<1> SUFFICES ASSUME [StrategyNext]_strategyVars PROVE [Next]_vars  OBVIOUS
<1>1. CASE Start  BY <1>1 DEF Start, Next
<1>2. CASE EngineStep  BY <1>2 DEF EngineStep, Next
<1>3. CASE SkipDecision  BY <1>3 DEF SkipDecision, Next
<1>4. CASE CallProvider
  <2>1. CASE DecideNothing \/ ProviderFails  BY <2>1 DEF Next
  <2>2. CASE \E n \in Intents, at \in {bar, bar - 1} : Adapted(n, at)
    BY <2>2 DEF Adapted, Next
  <2> QED BY <1>4, <2>1, <2>2 DEF CallProvider
<1>5. CASE Wrap  BY <1>5 DEF Wrap
<1>6. CASE Over \/ UNCHANGED strategyVars  BY <1>6 DEF Over, strategyVars
<1> QED BY <1>1, <1>2, <1>3, <1>4, <1>5, <1>6 DEF StrategyNext

\* MultiTimeframeBacktestRunner hands the adapter to the unchanged engine, and
\* is written so: what is proved of Spec may be used of StrategySpec.
LEMMA RunsTheEngine == StrategySpec => Spec
<1>1. StrategyInit => Init  BY DEF StrategyInit
<1>2. [StrategyNext]_strategyVars => [Next]_vars  BY StepRefines
<1> QED BY <1>1, <1>2, PTL DEF StrategySpec, Spec

\* The books of a strategy's backtest are those of the engine: equity
\* reconciles, fills pair up and are adverse, nothing is filled on the bar it
\* was decided, no intent is lost or resolved twice, and the totals are those of
\* the trades.
THEOREM StrategyBooksAreSound ==
  StrategySpec => [](/\ EquityReconciles /\ FillsPairUp /\ NoLookahead
                     /\ IntentsResolveOnce /\ LevelsHonoured /\ FillsAreAdverse /\ SummaryReconciles)
<1> QED
  BY RunsTheEngine, EquityAlwaysReconciles, FillsAlwaysPairUp, NeverLooksAhead,
     IntentsAlwaysResolveOnce, LevelsAlwaysHonoured, FillsAlwaysAdverse, SummaryAlwaysReconciles, PTL

----------------------------------------------------------------------------
(* The counts of the envelope. *)

\* The number of bars the adapter has answered.
AnsweredCount == IF phase \in {"end", "done"} THEN Len(candles) ELSE bar - 1

CountsInv ==
  /\ invocations \in Nat /\ skipped \in Nat
  /\ phase # "failed" => invocations + skipped = AnsweredCount
  /\ phase \notin {"failed", "end", "done"} => bar <= Len(candles) \/ phase = "validate"
  /\ phase \in {"end", "done"} => bar = Len(candles)
  /\ phase = "validate" => bar = 1
  /\ ~refused

LEMMA CountsInit == StrategyInit => CountsInv
BY DEF StrategyInit, Init, CountsInv, AnsweredCount

\* Moving to the next bar answers one more.
LEMMA NextBarAnswers ==
  ASSUME TypeOK, CountsInv, phase = "decide", NextBar, UNCHANGED <<candles, refused>>,
         \/ invocations' = invocations + 1 /\ skipped' = skipped
         \/ invocations' = invocations /\ skipped' = skipped + 1
  PROVE  CountsInv'
<1>1. bar \in Nat /\ Len(candles) \in Nat /\ bar <= Len(candles)
  BY DEF TypeOK, CountsInv
<1>2. invocations' + skipped' = bar
  BY <1>1 DEF CountsInv, AnsweredCount
<1> QED BY <1>1, <1>2 DEF CountsInv, AnsweredCount, NextBar

\* A failed run has no counts to reconcile.
LEMMA FailureKeepsCounts ==
  ASSUME CountsInv, phase' = "failed", UNCHANGED <<refused>>,
         invocations' \in Nat, skipped' \in Nat
  PROVE  CountsInv'
BY DEF CountsInv

LEMMA CountsStep ==
  ASSUME TypeOK, CountsInv, [StrategyNext]_strategyVars PROVE CountsInv'
<1> USE DEF Fail
<1>0. bar \in Nat /\ Len(candles) \in Nat /\ invocations \in Nat /\ skipped \in Nat
  BY DEF TypeOK, CountsInv
<1>1. CASE Start
  <2>1. Len(candles) >= 1 \/ phase' = "failed"
    BY <1>1, <1>0 DEF Start, Validate, ValidCandles, TypeOK
  <2> QED BY <1>1, <2>1, <1>0, FailureKeepsCounts
    DEF Start, Validate, CountsInv, AnsweredCount, adapter
<1>2. CASE EngineStep
  <2>1. UNCHANGED <<candles, bar, invocations, skipped, refused>>
    BY <1>2 DEF EngineStep, FillEntry, FillExit, NothingPending, Protect, DropPending,
                ForcedClose, Finish, adapter
  <2>2. \/ phase' = "failed"
        \/ phase \in {"fill", "protect"} /\ phase' \in {"protect", "decide"}
        \/ phase = "end" /\ phase' \in {"end", "done"}
    BY <1>2 DEF EngineStep, FillEntry, FillExit, NothingPending, Protect, DropPending,
                ForcedClose, Finish, Close
  <2> QED BY <2>1, <2>2, <1>0 DEF CountsInv, AnsweredCount
<1>3. CASE SkipDecision
  BY <1>3, <1>0, NextBarAnswers DEF SkipDecision, DecideNothing
<1>4. CASE CallProvider
  <2>1. invocations' = invocations + 1 /\ UNCHANGED <<candles, skipped, refused>>
    BY <1>4 DEF CallProvider, DecideNothing, ProviderFails, Adapted, DecideIntent
  <2>2. phase = "decide" /\ (NextBar \/ phase' = "failed")
    BY <1>4 DEF CallProvider, DecideNothing, ProviderFails, Adapted, DecideIntent
  <2>3. CASE NextBar  BY <2>1, <2>2, <2>3, NextBarAnswers
  <2>4. CASE phase' = "failed"  BY <2>1, <2>4, <1>0, FailureKeepsCounts
  <2> QED BY <2>2, <2>3, <2>4
<1>5. CASE Wrap
  BY <1>5, <1>0 DEF Wrap, CountsInv, AnsweredCount, vars, books
<1>6. CASE Over \/ UNCHANGED strategyVars
  BY <1>6 DEF Over, strategyVars, adapter, vars, books, CountsInv, AnsweredCount
<1> QED BY <1>1, <1>2, <1>3, <1>4, <1>5, <1>6 DEF StrategyNext

\* An envelope is never refused because calls and skips do not add up to the
\* number of execution candles (StrategyBacktestEnvelope.from_run).
THEOREM CountsAlwaysAddUp ==
  StrategySpec => [](~refused /\ (phase = "done" => invocations + skipped = Len(candles)))
<1>1. StrategySpec => []TypeOK
  BY RunsTheEngine, TypeCorrect, PTL
<1>2. StrategyInit => CountsInv  BY CountsInit
<1>3. TypeOK /\ CountsInv /\ [StrategyNext]_strategyVars => CountsInv'  BY CountsStep
<1>4. CountsInv => ~refused /\ (phase = "done" => invocations + skipped = Len(candles))
  BY DEF CountsInv, AnsweredCount
<1> QED BY <1>1, <1>2, <1>3, <1>4, PTL DEF StrategySpec

----------------------------------------------------------------------------
(* What the adapter sees of a bar is what has closed by the clock. *)

\* The input has been verified, and stays what it is.
Verified ==
  /\ candles \in Seq(Candle)
  /\ strategy \in Strategies /\ contexts \in Contexts[strategy]
  /\ VerifiedInput(strategy, contexts)

\* The candles of a canonical series close in order.
LEMMA CanonicalInOrder ==
  ASSUME NEW series, Len(series) \in Nat, DOMAIN series = 1..Len(series),
         \A i \in 1..Len(series) : series[i].open_time \in Int,
         NEW duration \in Nat \ {0}, Market!Canonical(series, duration)
  PROVE  InOrder(series)
<1> DEFINE N == Len(series)
           Before(i, j) == series[i].open_time <= series[j].open_time
           K == {k \in 0..N : \A j \in 1..k : \A i \in 1..j : Before(i, j)}
<1>1. 0 \in K  OBVIOUS
<1>2. ASSUME NEW k \in 1..N, k - 1 \in K PROVE k \in K
  <2>1. ASSUME NEW i \in 1..k PROVE Before(i, k)
    <3>1. CASE i = k  BY <3>1
    <3>2. CASE i # k
      <4>1. i \in 1..(k - 1) /\ k - 1 \in 1..(N - 1) /\ (k - 1) + 1 = k  BY <3>2
      <4>2. series[k].open_time = series[k - 1].open_time + duration
        BY <4>1 DEF Market!Canonical
      <4>3. Before(i, k - 1)  BY <1>2, <4>1
      <4> QED BY <4>1, <4>2, <4>3
    <3> QED BY <3>1, <3>2
  <2>2. \A j \in 1..k : j = k \/ j \in 1..(k - 1)  OBVIOUS
  <2> HIDE DEF Before
  <2> QED BY <1>2, <2>1, <2>2
<1>3. 0..N \subseteq K
  <2> HIDE DEF K
  <2> QED BY <1>1, <1>2, Rounds
<1>4. \A j \in 1..N : series[j].close_time = series[j].open_time + duration - 1
  BY DEF Market!Canonical, Market!ExpectedClose
<1>5. \A j \in 1..N : \A i \in 1..j : Before(i, j)
  <2>1. N \in K  BY <1>3
  <2> QED BY <2>1
<1>6. ASSUME NEW j \in 1..N, NEW i \in 1..j
      PROVE  series[j].close_time \in Int /\ series[i].close_time <= series[j].close_time
  <2>1. i \in 1..N /\ Before(i, j)  BY <1>5
  <2> QED BY <1>4, <2>1
<1>7. \A j \in 1..N : series[j].close_time \in Int  BY <1>4
<1> QED BY <1>6, <1>7 DEF InOrder

\* The mapping of the alignment counts the context candles that have closed.
LEMMA MappingCounts ==
  ASSUME NEW execution, NEW context, InOrder(execution), InOrder(context),
         DOMAIN execution = 1..Len(execution)
  PROVE  \A b \in 1..Len(execution) :
           Market!NoLookaheadMapping(execution, context)[b] =
             Cardinality(ClosedAt(context, execution[b].close_time))
<1>1. \A from, close : Market!Advance(context, from, close) = Advanced(context, from, close)
  BY DEF Market!Advance, Advanced
<1> HIDE DEF Market!Advance
<1> QED BY <1>1, MappingLoop DEF Market!NoLookaheadMapping

\* A verified input is made of candles that close in order.
LEMMA VerifiedInOrder ==
  ASSUME Verified
  PROVE  /\ InOrder(ExecutionCandles) /\ Len(ExecutionCandles) = Len(candles)
         /\ DOMAIN ExecutionCandles = 1..Len(candles)
         /\ Len(strategy.slots) \in Nat /\ DOMAIN strategy.slots = 1..Len(strategy.slots)
         /\ \A s \in DOMAIN strategy.slots \ {1} :
              InOrder(contexts[s - 1]) /\ DOMAIN contexts[s - 1] = 1..Len(contexts[s - 1])
<1>1. /\ strategy.slots \in Seq(Slot) /\ contexts \in Seq(Seq(ContextCandle))
      /\ Len(strategy.slots) = Len(contexts) + 1
  BY StrategyAssumption DEF Verified
<1>2. ExecutionCandles \in Seq(ContextCandle) /\ Len(ExecutionCandles) = Len(candles)
  <2>1. \A i \in 1..Len(candles) : candles[i] \in Candle
    BY SequenceElements DEF Verified
  <2>2. Len(candles) \in Nat /\ DOMAIN candles = 1..Len(candles)
    BY SequenceElements DEF Verified
  <2>3. ExecutionCandles \in [1..Len(candles) -> ContextCandle]
    BY <2>1, <2>2 DEF ExecutionCandles, Candle, ContextCandle
  <2> QED BY <2>2, <2>3, FunctionIsSequence
<1>3. \A s \in DOMAIN strategy.slots : strategy.slots[s].timeframe \in Nat \ {0}
  <2>1. \A s \in DOMAIN strategy.slots : strategy.slots[s] \in Slot
    BY <1>1, SequenceElements
  <2> QED BY <2>1 DEF Slot
<1>4. InOrder(ExecutionCandles)
  <2>1. Market!Canonical(ExecutionCandles, strategy.slots[1].timeframe)
    BY DEF Verified, VerifiedInput
  <2>2. strategy.slots[1].timeframe \in Nat \ {0}  BY <1>1, <1>3
  <2>3. \A i \in 1..Len(ExecutionCandles) : ExecutionCandles[i].open_time \in Int
    <3>1. \A i \in 1..Len(ExecutionCandles) : ExecutionCandles[i] \in ContextCandle
      BY <1>2, SequenceElements
    <3> HIDE DEF ExecutionCandles
    <3> QED BY <3>1 DEF ContextCandle
  <2> HIDE DEF ExecutionCandles
  <2> QED BY <1>2, <2>1, <2>2, <2>3, CanonicalInOrder
<1>5. ASSUME NEW s \in DOMAIN strategy.slots \ {1}
      PROVE  InOrder(contexts[s - 1]) /\ DOMAIN contexts[s - 1] = 1..Len(contexts[s - 1])
  <2> DEFINE k == s - 1
             alignment(i) == Market!ContextAlignment("symbol", ExecutionCandles,
               strategy.slots[1].timeframe, contexts[i], strategy.slots[i + 1].timeframe)
             alignments == [i \in DOMAIN contexts |-> alignment(i)]
  <2>1. k \in DOMAIN contexts /\ k + 1 = s  BY <1>1
  <2>2. Market!MultiContextAlignment(alignments) # None
    BY DEF Verified, VerifiedInput
  <2>3. alignments[k] # None
    <3> HIDE DEF alignment
    <3>1. k \in DOMAIN alignments  BY <2>1
    <3> QED BY <2>2, <3>1 DEF Market!MultiContextAlignment
  <2>4. alignment(k) # None
    <3> HIDE DEF alignment
    <3> QED BY <2>1, <2>3
  <2>5. Market!Canonical(contexts[k], strategy.slots[s].timeframe)
    BY <2>1, <2>4 DEF Market!ContextAlignment
  <2>6. /\ Len(contexts[k]) \in Nat /\ DOMAIN contexts[k] = 1..Len(contexts[k])
        /\ \A i \in 1..Len(contexts[k]) : contexts[k][i].open_time \in Int
    <3>1. contexts[k] \in Seq(ContextCandle)  BY <1>1, <2>1, SequenceElements
    <3>2. \A i \in 1..Len(contexts[k]) : contexts[k][i] \in ContextCandle
      BY <3>1, SequenceElements
    <3> HIDE DEF k
    <3> QED BY <3>1, <3>2, SequenceElements DEF ContextCandle
  <2> QED BY <1>3, <2>5, <2>6, CanonicalInOrder
<1> QED BY <1>1, <1>2, <1>4, <1>5

\* So the view of a bar holds of every slot the candles that have closed when
\* the bar closes, and the provider is called at the bars that are warm.
LEMMA ReadyIsWarm ==
  ASSUME Verified, NEW b \in 1..Len(candles)
  PROVE  OverallReady(b) <=> WarmAt(b)
<1>1. ASSUME NEW s \in DOMAIN strategy.slots
      PROVE  VisibleCount(s, b) = ClosedByClock(s, b) /\ ClosedByClock(s, b) \in Nat
  <2>1. CASE s = 1  BY <2>1 DEF VisibleCount, ClosedByClock, Verified
  <2>2. CASE s # 1
    <3>1. InOrder(ExecutionCandles) /\ InOrder(contexts[s - 1])
      BY <2>2, VerifiedInOrder
    <3>2. ExecutionCandles[b].close_time = candles[b].closeTime
      BY DEF ExecutionCandles, Verified
    <3>3. ClosedByClock(s, b) =
            Cardinality(ClosedAt(contexts[s - 1], ExecutionCandles[b].close_time))
      BY <2>2, <3>2, VerifiedInOrder DEF ClosedByClock, ClosedAt
    <3>4. VisibleCount(s, b) = Market!NoLookaheadMapping(ExecutionCandles, contexts[s - 1])[b]
      BY <2>2 DEF VisibleCount
    <3>5. VisibleCount(s, b) = ClosedByClock(s, b)
      <4> HIDE DEF ExecutionCandles
      <4> QED BY <3>1, <3>3, <3>4, VerifiedInOrder, MappingCounts
    <3>6. ExecutionCandles[b].close_time \in Int  BY <3>1, VerifiedInOrder DEF InOrder
    <3>7. ClosedByClock(s, b) \in 0..Len(contexts[s - 1])  BY <3>1, <3>3, <3>6, ClosedFirst
    <3>8. Len(contexts[s - 1]) \in Nat  BY <3>1 DEF InOrder
    <3> QED BY <3>5, <3>7, <3>8
  <2> QED BY <2>1, <2>2
<1>2. ASSUME NEW s \in DOMAIN strategy.slots
      PROVE  strategy.slots[s].warmup \in Nat /\ strategy.slots[s].indicators_from \in Nat
  <2>1. strategy.slots \in Seq(Slot)  BY StrategyAssumption DEF Verified
  <2>2. strategy.slots[s] \in Slot  BY <2>1, SequenceElements
  <2> QED BY <2>2 DEF Slot
<1> QED BY <1>1, <1>2 DEF OverallReady, WarmAt

----------------------------------------------------------------------------
(* Whose the trades are. *)

\* What waits for the next open was decided by a warm strategy, within what its
\* definition supports.
PendingIsTheStrategys ==
  pending # None =>
    /\ WarmAt(pending.at)
    /\ pending.what.kind = "enter" => pending.what.dir \in strategy.supported

StrategyInv ==
  /\ Verified
  /\ PendingIsTheStrategys
  /\ TradesAreTheStrategys

\* The clock does not change.
LEMMA WarmStays ==
  ASSUME UNCHANGED <<strategy, contexts, candles>>
  PROVE  \A b : WarmAt(b)' <=> WarmAt(b)
BY DEF WarmAt, ClosedByClock

\* Neither does the input.
LEMMA InputStays ==
  ASSUME [StrategyNext]_strategyVars PROVE UNCHANGED <<strategy, contexts, candles>>
<1>1. CASE Start  BY <1>1 DEF Start, Validate, adapter
<1>2. CASE EngineStep
  BY <1>2 DEF EngineStep, FillEntry, FillExit, NothingPending, Protect, DropPending,
              ForcedClose, Finish, adapter
<1>3. CASE SkipDecision  BY <1>3 DEF SkipDecision, DecideNothing
<1>4. CASE CallProvider
  BY <1>4 DEF CallProvider, DecideNothing, ProviderFails, Adapted, DecideIntent
<1>5. CASE Wrap  BY <1>5 DEF Wrap, vars
<1>6. CASE Over \/ UNCHANGED strategyVars  BY <1>6 DEF Over, strategyVars, adapter, vars
<1> QED BY <1>1, <1>2, <1>3, <1>4, <1>5, <1>6 DEF StrategyNext

LEMMA VerifiedStays ==
  ASSUME Verified, UNCHANGED <<strategy, contexts, candles>> PROVE Verified'
BY DEF Verified, VerifiedInput, ExecutionCandles

\* A step that opens and closes nothing.
LEMMA NoTrade ==
  ASSUME TradesAreTheStrategys, UNCHANGED <<strategy, contexts, candles>>,
         UNCHANGED <<fills, trades, position>>
  PROVE  TradesAreTheStrategys'
BY WarmStays DEF TradesAreTheStrategys

\* A fill decided at a warm close, of a position in a supported direction.
LEMMA OneMoreFill ==
  ASSUME TypeOK, TradesAreTheStrategys, UNCHANGED <<strategy, contexts, candles>>,
         NEW f \in FillRecord, fills' = Append(fills, f),
         f.decided # None => WarmAt(f.decided)
  PROVE  (\A n \in DOMAIN fills : fills[n].decided # None => WarmAt(fills[n].decided))'
<1>1. fills \in Seq(FillRecord)  BY DEF TypeOK
<1>2. fills' \in Seq(FillRecord) /\ Len(fills') = Len(fills) + 1 /\ Len(fills) \in Nat
  BY <1>1, AppendKeeps
<1>3. DOMAIN fills = 1..Len(fills) /\ DOMAIN fills' = 1..Len(fills')
  BY <1>1, <1>2, SequenceElements
<1>4. ASSUME NEW n \in DOMAIN fills', fills'[n].decided # None
      PROVE  WarmAt(fills'[n].decided)
  <2>1. CASE n = Len(fills) + 1
    <3>1. fills'[n] = f  BY <1>1, <2>1, AppendKeeps
    <3> QED BY <1>4, <3>1
  <2>2. CASE n # Len(fills) + 1
    <3>1. n \in DOMAIN fills  BY <1>2, <1>3, <2>2
    <3>2. fills'[n] = fills[n]  BY <1>1, <1>3, <3>1, AppendKeeps
    <3> QED BY <1>4, <3>1, <3>2 DEF TradesAreTheStrategys
  <2> QED BY <2>1, <2>2
<1>5. \A n \in DOMAIN fills' : fills'[n].decided # None => (WarmAt(fills[n].decided))'
  <2> SUFFICES ASSUME NEW n \in DOMAIN fills', fills'[n].decided # None
               PROVE  (WarmAt(fills[n].decided))'
    OBVIOUS
  <2>1. WarmAt(fills'[n].decided)  BY <1>4
  <2> QED BY <2>1 DEF WarmAt, ClosedByClock
<1> QED BY <1>5

\* An exit books a trade of the position.
LEMMA ExitIsTheStrategys ==
  ASSUME TypeOK, TradesAreTheStrategys, UNCHANGED <<strategy, contexts, candles>>,
         position # None, NEW reason \in ExitReasons, NEW ref \in Int,
         NEW decided \in Int \cup {None}, NEW ambiguous \in BOOLEAN, NEW next,
         Close(reason, ref, decided, ambiguous, next),
         decided # None => WarmAt(decided)
  PROVE  TradesAreTheStrategys'
<1>1. CASE UNCHANGED books  BY <1>1, NoTrade DEF books
<1>2. ASSUME NEW f \in FillRecord, NEW t \in Trade, Closed(f, t, reason, ref, decided, ambiguous)
      PROVE  TradesAreTheStrategys'
  <2>1. /\ fills' = Append(fills, f) /\ trades' = Append(trades, t) /\ position' = None
        /\ f.decided = decided /\ t.dir = position.dir
    BY <1>2 DEF Closed
  <2>2. (\A n \in DOMAIN fills : fills[n].decided # None => WarmAt(fills[n].decided))'
    BY <2>1, OneMoreFill
  <2>3. trades \in Seq(Trade)  BY DEF TypeOK
  <2>4. /\ trades' \in Seq(Trade) /\ Len(trades') = Len(trades) + 1 /\ Len(trades) \in Nat
        /\ DOMAIN trades = 1..Len(trades)
    BY <2>1, <2>3, AppendKeeps, SequenceElements
  <2>5. \A n \in DOMAIN trades' : trades'[n].dir \in strategy.supported
    <3> SUFFICES ASSUME NEW n \in DOMAIN trades' PROVE trades'[n].dir \in strategy.supported
      OBVIOUS
    <3>1. n \in 1..(Len(trades) + 1)  BY <2>4, SequenceElements
    <3>2. CASE n = Len(trades) + 1
      <4>1. trades'[n] = t  BY <2>1, <2>3, <3>2, AppendKeeps
      <4> QED BY <2>1, <4>1 DEF TradesAreTheStrategys
    <3>3. CASE n # Len(trades) + 1
      <4>1. n \in 1..Len(trades)  BY <2>4, <3>1, <3>3
      <4>2. trades'[n] = trades[n]  BY <2>1, <2>3, <4>1, AppendKeeps
      <4> QED BY <2>4, <4>1, <4>2 DEF TradesAreTheStrategys
    <3> QED BY <3>2, <3>3
  <2> QED BY <2>1, <2>2, <2>5 DEF TradesAreTheStrategys
<1> QED BY <1>1, <1>2, Closing

\* The steps of the engine.
LEMMA EngineStepIsTheStrategys ==
  ASSUME IInv, StrategyInv, EngineStep
  PROVE  StrategyInv'
<1>0. UNCHANGED <<strategy, contexts, candles>> /\ TypeOK /\ BarInRange
  <2>1. [StrategyNext]_strategyVars  BY DEF StrategyNext
  <2> QED BY <2>1, InputStays DEF IInv
<1>1. Verified'  BY <1>0, VerifiedStays DEF StrategyInv
<1>2. PendingIsTheStrategys'
  <2>1. UNCHANGED pending \/ pending' = None
    BY DEF EngineStep, FillEntry, FillExit, NothingPending, Protect, DropPending,
           ForcedClose, Finish
  <2>2. CASE pending' = None  BY <2>2 DEF PendingIsTheStrategys
  <2>3. CASE UNCHANGED pending
    <3>1. pending # None => (WarmAt(pending.at))'
      BY <1>0, <2>3 DEF StrategyInv, PendingIsTheStrategys, WarmAt, ClosedByClock
    <3> QED BY <1>0, <2>3, <3>1 DEF StrategyInv, PendingIsTheStrategys
  <2> QED BY <2>1, <2>2, <2>3
<1>3. TradesAreTheStrategys'
  <2>0. TradesAreTheStrategys /\ PendingIsTheStrategys  BY DEF StrategyInv
  <2>b. phase \in Running => bar \in 1..Len(candles) /\ candles[bar] \in Candle
    BY <1>0 DEF BarInRange, TypeOK
  <2>p. position # None => position.stop \in Int /\ position.target \in Int
    BY <1>0 DEF TypeOK, Position
  <2>1. CASE FillEntry
    <3>1. CASE UNCHANGED books  BY <1>0, <2>0, <3>1, NoTrade DEF books
    <3>2. ASSUME NEW f \in FillRecord, Entered(f)  PROVE TradesAreTheStrategys'
      <4>1. /\ fills' = Append(fills, f) /\ f.decided = pending.at
            /\ UNCHANGED trades /\ position'.dir = pending.what.dir
        BY <3>2 DEF Entered
      <4>2. pending # None /\ pending.what.kind = "enter"  BY <2>1 DEF FillEntry
      <4>3. WarmAt(f.decided) /\ pending.what.dir \in strategy.supported
        BY <2>0, <4>1, <4>2 DEF PendingIsTheStrategys
      <4>4. (\A n \in DOMAIN fills : fills[n].decided # None => WarmAt(fills[n].decided))'
        BY <1>0, <2>0, <4>1, <4>3, OneMoreFill
      <4> QED BY <1>0, <2>0, <4>1, <4>3, <4>4 DEF TradesAreTheStrategys
    <3> QED BY <1>0, <2>1, <3>1, <3>2, Entering
  <2>2. CASE FillExit
    <3>1. CASE position = None  BY <1>0, <2>0, <2>2, <3>1, NoTrade DEF FillExit, books
    <3>2. CASE position # None
      <4>1. /\ Close("explicit_exit", MarketPrice, pending.at, FALSE, "protect")
            /\ pending # None /\ phase = "fill"
        BY <2>2, <3>2 DEF FillExit
      <4>2. MarketPrice \in Int  BY <2>b, <4>1 DEF MarketPrice, Candle, Running
      <4>3. pending.at \in Int  BY <1>0, <4>1 DEF TypeOK, Pending
      <4>4. WarmAt(pending.at)  BY <2>0, <4>1 DEF PendingIsTheStrategys
      <4> QED BY <1>0, <2>0, <3>2, <4>1, <4>2, <4>3, <4>4, ExitIsTheStrategys DEF ExitReasons
    <3> QED BY <3>1, <3>2
  <2>3. CASE Protect
    <3>1. CASE UNCHANGED books  BY <1>0, <2>0, <3>1, NoTrade DEF books
    <3>2. CASE position # None /\ StopHit
      <4>1. Close("stop_loss", position.stop, None, TargetHit, "decide")
        BY <2>3, <3>2 DEF Protect
      <4>2. TargetHit \in BOOLEAN
        <5>1. (candles[bar].high >= position.target) \in BOOLEAN
          BY <2>b, <2>3, <2>p, <3>2 DEF Protect, Running, Candle
        <5>2. (candles[bar].low <= position.target) \in BOOLEAN
          BY <2>b, <2>3, <2>p, <3>2 DEF Protect, Running, Candle
        <5>3. CASE position.dir = "long"  BY <5>1, <5>3, Zenon DEF TargetHit
        <5>4. CASE position.dir # "long"  BY <5>2, <5>4, Zenon DEF TargetHit
        <5> QED BY <5>3, <5>4
      <4> QED BY <1>0, <2>0, <2>p, <3>2, <4>1, <4>2, ExitIsTheStrategys DEF ExitReasons
    <3>3. CASE position # None /\ ~StopHit /\ TargetHit
      <4>1. Close("take_profit", position.target, None, FALSE, "decide")
        BY <2>3, <3>3 DEF Protect
      <4> QED BY <1>0, <2>0, <2>p, <3>3, <4>1, ExitIsTheStrategys DEF ExitReasons
    <3> QED BY <2>3, <3>1, <3>2, <3>3 DEF Protect
  <2>4. CASE ForcedClose
    <3>1. CASE UNCHANGED books  BY <1>0, <2>0, <3>1, NoTrade DEF books
    <3>2. CASE forceClose
      <4>1. /\ Close("end_of_data", candles[bar].close, None, FALSE, "end")
            /\ position # None /\ phase = "end"
        BY <2>4, <3>2 DEF ForcedClose
      <4>2. candles[bar].close \in Int  BY <2>b, <4>1 DEF Candle, Running
      <4> QED BY <1>0, <2>0, <4>1, <4>2, ExitIsTheStrategys DEF ExitReasons
    <3> QED BY <2>4, <3>1, <3>2 DEF ForcedClose
  <2>5. CASE NothingPending \/ DropPending \/ Finish
    BY <1>0, <2>0, <2>5, NoTrade DEF NothingPending, DropPending, Finish, books
  <2> QED BY <2>1, <2>2, <2>3, <2>4, <2>5 DEF EngineStep
<1> QED BY <1>1, <1>2, <1>3 DEF StrategyInv

\* The steps of the adapter.
LEMMA AdapterStepIsTheStrategys ==
  ASSUME IInv, StrategyInv, Start \/ SkipDecision \/ CallProvider \/ Wrap \/ Over \/ UNCHANGED strategyVars
  PROVE  StrategyInv'
<1>0. UNCHANGED <<strategy, contexts, candles>> /\ BarInRange
  <2>1. [StrategyNext]_strategyVars  BY DEF StrategyNext
  <2> QED BY <2>1, InputStays DEF IInv
<1>1. Verified'  BY <1>0, VerifiedStays DEF StrategyInv
<1>2. TradesAreTheStrategys'
  <2>1. UNCHANGED <<fills, trades, position>>
    BY DEF Start, Validate, SkipDecision, CallProvider, DecideNothing, ProviderFails, Adapted,
           DecideIntent, Wrap, Over, strategyVars, vars, books
  <2> QED BY <1>0, <2>1, NoTrade DEF StrategyInv
<1>3. PendingIsTheStrategys'
  <2>1. CASE UNCHANGED pending
    BY <1>0, <2>1 DEF StrategyInv, PendingIsTheStrategys, WarmAt, ClosedByClock
  <2>2. ASSUME NEW n \in Intents, NEW at \in {bar, bar - 1}, CallProvider, Adapted(n, at)
        PROVE  PendingIsTheStrategys'
    <3>1. CASE ProviderFails  BY <2>1, <3>1 DEF ProviderFails
    <3>2. CASE DecideIntent(n, at) /\ ~IntentAccepted(n, at)
      BY <2>1, <3>2 DEF DecideIntent
    <3>3. CASE /\ DecideIntent(n, at) /\ IntentAccepted(n, at)
               /\ n.kind = "enter" => n.dir \in strategy.supported
      <4>1. pending' = [what |-> n, at |-> bar] /\ pending'.what = n /\ pending'.at = bar
        BY <3>3 DEF DecideIntent, IntentAccepted
      <4>2. WarmAt(bar)
        <5>1. OverallReady(bar) /\ phase = "decide"  BY <2>2 DEF CallProvider
        <5>2. bar \in 1..Len(candles)  BY <1>0, <5>1 DEF BarInRange, Running
        <5> QED BY <5>1, <5>2, ReadyIsWarm DEF StrategyInv
      <4>3. (WarmAt(pending.at))'  BY <1>0, <4>1, <4>2 DEF WarmAt, ClosedByClock
      <4> QED BY <1>0, <3>3, <4>1, <4>3 DEF PendingIsTheStrategys
    <3> QED BY <2>2, <3>1, <3>2, <3>3 DEF Adapted
  <2>4. phase = "decide" => pending = None  BY DEF IInv, IntentWaits
  <2>3. UNCHANGED pending \/ \E n \in Intents, at \in {bar, bar - 1} : CallProvider /\ Adapted(n, at)
    BY <2>4 DEF Start, Validate, SkipDecision, CallProvider, DecideNothing, ProviderFails,
           Wrap, Over, strategyVars, vars
  <2> QED BY <2>1, <2>2, <2>3
<1> QED BY <1>1, <1>2, <1>3 DEF StrategyInv

\* A strategy trades on its own decisions only.
LEMMA StrategyInvariance == StrategySpec => [](IInv /\ StrategyInv)
<1>1. StrategyInit => StrategyInv
  <2> SUFFICES ASSUME StrategyInit PROVE StrategyInv  OBVIOUS
  <2>1. Verified  BY InputAssumption DEF StrategyInit, Init, Verified
  <2> QED BY <2>1 DEF StrategyInit, Init, StrategyInv, PendingIsTheStrategys, TradesAreTheStrategys
<1>2. IInv /\ StrategyInv /\ [StrategyNext]_strategyVars => StrategyInv'
  BY EngineStepIsTheStrategys, AdapterStepIsTheStrategys DEF StrategyNext
<1>3. StrategySpec => []IInv
  BY RunsTheEngine, Invariance, PTL
<1> QED BY <1>1, <1>2, <1>3, PTL DEF StrategySpec

\* Whatever the strategy, its warm-ups and its contexts: every fill that carries
\* a decision was decided at a close at which every timeframe was warm by the
\* clock (a stop, a target and the end of the data carry none), and every trade
\* goes in a direction the definition supports.
THEOREM TradesAlwaysTheStrategys == StrategySpec => []TradesAreTheStrategys
<1>1. StrategyInv => TradesAreTheStrategys  BY DEF StrategyInv
<1> QED BY <1>1, StrategyInvariance, PTL

----------------------------------------------------------------------------
(* Calls and skips, bar by bar. *)

\* The bars at which every timeframe is warm.
WarmBars == {b \in 1..Len(candles) : WarmAt(b)}

\* The counts, of the first n bars.
Tallied(n) ==
  /\ invocations = Cardinality((1..n) \cap WarmBars)
  /\ skipped = Cardinality((1..n) \ WarmBars)

\* Answering the close of one more bar.
LEMMA OneMoreAnswer ==
  ASSUME NEW b \in Nat \ {0}, NEW Warm
  PROVE  /\ b \in Warm =>
              /\ Cardinality((1..b) \cap Warm) = Cardinality((1..(b - 1)) \cap Warm) + 1
              /\ Cardinality((1..b) \ Warm) = Cardinality((1..(b - 1)) \ Warm)
         /\ b \notin Warm =>
              /\ Cardinality((1..b) \cap Warm) = Cardinality((1..(b - 1)) \cap Warm)
              /\ Cardinality((1..b) \ Warm) = Cardinality((1..(b - 1)) \ Warm) + 1
<1> DEFINE W(n) == (1..n) \cap Warm
           C(n) == (1..n) \ Warm
<1>1. IsFiniteSet(1..(b - 1)) /\ W(b - 1) \subseteq 1..(b - 1) /\ C(b - 1) \subseteq 1..(b - 1)
  BY FS_Interval
<1>2. IsFiniteSet(W(b - 1)) /\ IsFiniteSet(C(b - 1))
  <2> HIDE DEF W, C
  <2> QED BY <1>1, FS_Subset
<1>3. b \notin W(b - 1) /\ b \notin C(b - 1)  OBVIOUS
<1>4. 1..b = (1..(b - 1)) \cup {b}  OBVIOUS
<1>5. CASE b \in Warm
  <2>1. W(b) = W(b - 1) \cup {b} /\ C(b) = C(b - 1)  BY <1>4, <1>5
  <2> HIDE DEF W, C
  <2>2. Cardinality(W(b)) = Cardinality(W(b - 1)) + 1  BY <1>2, <1>3, <2>1, FS_AddElement
  <2>3. Cardinality(C(b)) = Cardinality(C(b - 1))  BY <2>1
  <2> QED BY <1>5, <2>2, <2>3 DEF W, C
<1>6. CASE b \notin Warm
  <2>1. C(b) = C(b - 1) \cup {b} /\ W(b) = W(b - 1)  BY <1>4, <1>6
  <2> HIDE DEF W, C
  <2>2. Cardinality(C(b)) = Cardinality(C(b - 1)) + 1  BY <1>2, <1>3, <2>1, FS_AddElement
  <2>3. Cardinality(W(b)) = Cardinality(W(b - 1))  BY <2>1
  <2> QED BY <1>6, <2>2, <2>3 DEF W, C
<1> QED BY <1>5, <1>6

\* The counts are tallied bar by bar.
TallyInv == phase # "failed" => Tallied(AnsweredCount)

LEMMA TallyStep ==
  ASSUME IInv, CountsInv, StrategyInv, TallyInv, [StrategyNext]_strategyVars
  PROVE  TallyInv'
<1>0. UNCHANGED <<strategy, contexts, candles>>  BY InputStays
<1>1. WarmBars' = WarmBars  BY <1>0 DEF WarmBars, WarmAt, ClosedByClock
<1>2. /\ bar \in Nat \ {0} /\ Len(candles) \in Nat
      /\ phase = "decide" => bar \in 1..Len(candles)
  BY DEF IInv, TypeOK, BarInRange, Running
\* A step that answers nothing.
<1>3. ASSUME UNCHANGED <<invocations, skipped>>, phase # "failed",
             phase' = "failed" \/ AnsweredCount' = AnsweredCount
      PROVE  TallyInv'
  BY <1>1, <1>3 DEF TallyInv, Tallied
\* A step that answers the bar.
<1>4. ASSUME phase = "decide", NextBar,
             IF bar \in WarmBars THEN invocations' = invocations + 1 /\ UNCHANGED skipped
                                 ELSE skipped' = skipped + 1 /\ UNCHANGED invocations
      PROVE  TallyInv'
  <2>1. AnsweredCount = bar - 1 /\ AnsweredCount' = bar
    BY <1>0, <1>2, <1>4 DEF AnsweredCount, NextBar
  <2>2. Tallied(bar - 1)  BY <1>4, <2>1 DEF TallyInv
  <2>3. /\ invocations' = Cardinality((1..bar) \cap WarmBars)
        /\ skipped' = Cardinality((1..bar) \ WarmBars)
    BY <1>2, <1>4, <2>2, OneMoreAnswer DEF Tallied
  <2> QED BY <1>1, <2>1, <2>3 DEF TallyInv, Tallied
<1>5. CASE Start
  <2>1. phase = "validate" /\ phase' \in {"fill", "failed"} /\ UNCHANGED <<bar, invocations, skipped>>
    BY <1>5 DEF Start, Validate, Fail, adapter
  <2> QED BY <1>3, <2>1 DEF AnsweredCount
<1>6. CASE EngineStep
  <2>1. UNCHANGED <<bar, invocations, skipped>>
    BY <1>6 DEF EngineStep, FillEntry, FillExit, NothingPending, Protect, DropPending,
                ForcedClose, Finish, adapter
  <2>2. \/ phase' = "failed" /\ phase # "failed"
        \/ phase \in {"fill", "protect"} /\ phase' \in {"protect", "decide"}
        \/ phase = "end" /\ phase' \in {"end", "done"}
    BY <1>6 DEF EngineStep, FillEntry, FillExit, NothingPending, Protect, DropPending,
                ForcedClose, Finish, Close, Fail
  <2> QED BY <1>0, <1>3, <2>1, <2>2 DEF AnsweredCount
<1>7. CASE SkipDecision
  <2>1. /\ phase = "decide" /\ NextBar /\ skipped' = skipped + 1 /\ UNCHANGED invocations
        /\ ~OverallReady(bar)
    BY <1>7 DEF SkipDecision, DecideNothing
  <2>2. bar \notin WarmBars  BY <1>2, <2>1, ReadyIsWarm DEF WarmBars, StrategyInv
  <2> QED BY <1>4, <2>1, <2>2
<1>8. CASE CallProvider
  <2>1. /\ invocations' = invocations + 1 /\ UNCHANGED skipped
        /\ phase = "decide" /\ (NextBar \/ phase' = "failed") /\ OverallReady(bar)
    BY <1>8 DEF CallProvider, DecideNothing, ProviderFails, Adapted, DecideIntent, Fail
  <2>2. bar \in WarmBars  BY <1>2, <2>1, ReadyIsWarm DEF WarmBars, StrategyInv
  <2>3. CASE NextBar  BY <1>4, <2>1, <2>2, <2>3
  <2>4. CASE phase' = "failed"  BY <2>4 DEF TallyInv
  <2> QED BY <2>1, <2>3, <2>4
<1>9. CASE Wrap
  BY <1>3, <1>9 DEF Wrap, vars, AnsweredCount
<1>10. CASE Over \/ UNCHANGED strategyVars
  <2>1. UNCHANGED <<phase, bar, candles, invocations, skipped>>
    BY <1>10 DEF Over, strategyVars, vars, adapter
  <2> QED BY <1>1, <2>1 DEF TallyInv, Tallied, AnsweredCount
<1> QED BY <1>5, <1>6, <1>7, <1>8, <1>9, <1>10 DEF StrategyNext

\* Every bar at which all timeframes are warm is offered to the provider exactly
\* once, every other bar is skipped, and no envelope is refused for its counts,
\* for every strategy and every pair of series (StrategyBacktestEnvelope.from_run).
THEOREM CountsAlwaysReconcile == StrategySpec => []CountsReconcile
<1>1. StrategyInit => TallyInv
  <2> SUFFICES ASSUME StrategyInit PROVE TallyInv  OBVIOUS
  <2>1. /\ invocations = 0 /\ skipped = 0 /\ AnsweredCount = 0
    BY DEF StrategyInit, Init, AnsweredCount
  <2>2. (1..0) \cap WarmBars = {} /\ (1..0) \ WarmBars = {}  OBVIOUS
  <2> QED BY <2>1, <2>2, FS_EmptySet DEF TallyInv, Tallied
<1>2. IInv /\ StrategyInv /\ CountsInv /\ TallyInv /\ [StrategyNext]_strategyVars => TallyInv'
  BY TallyStep
<1>3. IInv /\ CountsInv /\ TallyInv => CountsReconcile
  <2> SUFFICES ASSUME IInv, CountsInv, TallyInv PROVE CountsReconcile  OBVIOUS
  <2>1. ASSUME phase # "failed"
        PROVE  /\ invocations = Cardinality({b \in Answered : WarmAt(b)})
               /\ skipped = Cardinality({b \in Answered : ~WarmAt(b)})
    <3>1. Answered = 1..AnsweredCount  BY DEF Answered, AnsweredCount
    <3>2. bar \in Nat /\ Len(candles) \in Nat  BY DEF IInv, TypeOK
    <3>3. AnsweredCount <= Len(candles) /\ AnsweredCount \in Nat
      BY <2>1, <3>2 DEF AnsweredCount, IInv, TypeOK, BarInRange, Running
    <3>4. /\ {b \in Answered : WarmAt(b)} = (1..AnsweredCount) \cap WarmBars
          /\ {b \in Answered : ~WarmAt(b)} = (1..AnsweredCount) \ WarmBars
      BY <3>1, <3>2, <3>3 DEF WarmBars
    <3> QED BY <2>1, <3>4 DEF TallyInv, Tallied
  <2> QED BY <2>1 DEF CountsReconcile, CountsInv
<1>4. StrategySpec => []CountsInv
  <2>1. StrategySpec => []TypeOK  BY RunsTheEngine, TypeCorrect, PTL
  <2> QED BY <2>1, CountsInit, CountsStep, PTL DEF StrategySpec
<1> QED BY <1>1, <1>2, <1>3, <1>4, StrategyInvariance, PTL DEF StrategySpec
===============================================================================
