------------------------------ MODULE Indicators ------------------------------
(***************************************************************************)
(* The closed set of indicator calculators over a candle series: rolling   *)
(* and prior rolling extrema with a monotonic deque of indexes, the        *)
(* exponential average of closes, true range and Wilder's average of it.   *)
(*                                                                         *)
(* Positions count from 1.  Averages are exact fractions: the code's       *)
(* Decimals round at 50 digits.  A series carries the candles it was       *)
(* calculated from, which stand for their hash.                            *)
(***************************************************************************)
EXTENDS MarketSeries

CONSTANT None   \* an undefined value

PriorCodes == {"prior_rolling_highest", "prior_rolling_lowest"}
WindowCodes == {"rolling_highest", "rolling_lowest"} \cup PriorCodes
AverageCodes == {"ema_close", "wilder_atr"}
PeriodCodes == WindowCodes \cup AverageCodes
HighCodes == {"rolling_highest", "prior_rolling_highest"}

MaxPeriod == 1000000

ASSUME NoneAssumption == None \notin Int

\* IndicatorSeriesKey: the code with its period, none for true range.
ValidKey(key) ==
  \/ key.code = "true_range" /\ key.period = None
  \/ key.code \in PeriodCodes /\ key.period \in 1..MaxPeriod

----------------------------------------------------------------------------
(* The deque.  Its front is the index of the window's extreme. *)

\* x stays behind a new value y only while it is strictly more extreme.
Beats(x, y, wantMax) == IF wantMax THEN x > y ELSE x < y

PopBack(deque, s, value, wantMax) ==
  LET kept == {k \in DOMAIN deque : Beats(s[deque[k]], value, wantMax)} IN
  IF kept = {} THEN <<>>
  ELSE SubSeq(deque, 1, Highest(kept))

\* Faulty variant: an index expires one position late.
PopFrontLate(deque, left) == SelectSeq(deque, LAMBDA k : k >= left - 1)

PopFront(deque, left) ==
  LET kept == {k \in DOMAIN deque : deque[k] >= left} IN
  IF kept = {} THEN <<>>
  ELSE SubSeq(deque, Lowest(kept), Len(deque))

Push(deque, s, i, wantMax) == Append(PopBack(deque, s, s[i], wantMax), i)

\* _rolling_extrema: pushed first, expired next.
RollingExtrema(s, period, wantMax) ==
  LET deque[i \in 0..Len(s)] ==
        IF i = 0 THEN <<>>
        ELSE IF i < period THEN Push(deque[i - 1], s, i, wantMax)
        ELSE PopFront(Push(deque[i - 1], s, i, wantMax), i - period + 1)
  IN [i \in DOMAIN s |-> IF i < period THEN None ELSE s[Head(deque[i])]]

\* _prior_extrema: the first period candles seed the deque, and from then on
\* an index expires before the next is pushed.
PriorExtrema(s, period, wantMax) ==
  LET deque[i \in 0..Len(s)] ==
        IF i = 0 THEN <<>>
        ELSE IF i <= period THEN Push(deque[i - 1], s, i, wantMax)
        ELSE Push(PopFront(deque[i - 1], i - period + 1), s, i, wantMax)
  IN [i \in DOMAIN s |-> IF i <= period THEN None ELSE s[Head(deque[i - 1])]]

----------------------------------------------------------------------------
(* Averages. *)

Abs(x) == IF x < 0 THEN -x ELSE x

TrueRange(candles) ==
  [i \in DOMAIN candles |->
     LET c == candles[i]
         ranges == {c.high - c.low} \cup
           IF i = 1 THEN {}
           ELSE {Abs(c.high - candles[i - 1].close), Abs(c.low - candles[i - 1].close)}
     IN Highest(ranges)]

Fraction(n, d) == [num |-> n, den |-> d]

\* The mean of the first period values, then
\* (keep * previous + gain * value) / (keep + gain).
Smoothed(s, period, keep, gain) ==
  LET average[i \in 1..Len(s)] ==
        IF i <= period THEN Fraction(Sum(s, period), period)
        ELSE Fraction(keep * average[i - 1].num + gain * s[i] * average[i - 1].den,
                      (keep + gain) * average[i - 1].den)
  IN [i \in DOMAIN s |->
        IF period = 1 THEN Fraction(s[i], 1)
        ELSE IF i < period THEN None ELSE average[i]]

\* Faulty variant: smoothed by 1 / period, as Wilder's average is.
EmaCloseWilder(closes, period) == Smoothed(closes, period, period - 1, 1)

\* previous + 2 / (period + 1) * (close - previous)
EmaClose(closes, period) == Smoothed(closes, period, period - 1, 2)

WilderAtr(ranges, period) == Smoothed(ranges, period, period - 1, 1)

----------------------------------------------------------------------------
(* The result of a calculator. *)

DefinedCount(values) == Len(SelectSeq(values, LAMBDA v : v # None))
Defined(values) == {i \in DOMAIN values : values[i] # None}

\* _enforce_code_invariants
UndefinedPrefix(key) ==
  IF key.code = "true_range" THEN 0
  ELSE IF key.code \in PriorCodes THEN key.period ELSE key.period - 1

WellShaped(key, values) ==
  /\ Defined(values) = {i \in DOMAIN values : i > UndefinedPrefix(key)}
  /\ key.code = "true_range" => \A i \in DOMAIN values : values[i] >= 0
  /\ key.code = "wilder_atr" => \A i \in Defined(values) : values[i].num >= 0

Highs(candles) == [i \in DOMAIN candles |-> candles[i].high]
Lows(candles) == [i \in DOMAIN candles |-> candles[i].low]
Closes(candles) == [i \in DOMAIN candles |-> candles[i].close]

\* recalculate_indicator_series
Values(key, candles) ==
  LET extremes == IF key.code \in HighCodes THEN Highs(candles) ELSE Lows(candles)
      wantMax == key.code \in HighCodes
  IN CASE key.code = "true_range" -> TrueRange(candles)
       [] key.code = "ema_close" -> EmaClose(Closes(candles), key.period)
       [] key.code = "wilder_atr" -> WilderAtr(TrueRange(candles), key.period)
       [] key.code \in PriorCodes -> PriorExtrema(extremes, key.period, wantMax)
       [] OTHER -> RollingExtrema(extremes, key.period, wantMax)

\* _calculated_indicator_series; None when it refuses the values.
SeriesOfValues(key, symbol, timeframe, candles, values) ==
  IF ~ValidKey(key) \/ ~WellShaped(key, values) THEN None
  ELSE [key |-> key, symbol |-> symbol, timeframe |-> timeframe, input |-> candles,
        values |-> values, defined_value_count |-> DefinedCount(values),
        first_defined |-> IF Defined(values) = {} THEN None
                          ELSE Lowest(Defined(values))]

Calculated(key, symbol, timeframe, candles) ==
  SeriesOfValues(key, symbol, timeframe, candles, Values(key, candles))
=============================================================================
