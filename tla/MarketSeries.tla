----------------------------- MODULE MarketSeries -----------------------------
(***************************************************************************)
(* Candle series of a timeframe: the canonical series every consumer       *)
(* requires, the resampling of a finer series into complete buckets, and   *)
(* the alignment that tells which context candles have closed when an      *)
(* execution candle closes.                                                *)
(*                                                                         *)
(* A timeframe is its duration in ticks, the smallest unit of time, and    *)
(* time starts on a Monday at midnight, so that the boundaries of every    *)
(* timeframe, weeks included, are its multiples.  A candle's quantities    *)
(* are its volume: the others are summed in the same way.                  *)
(***************************************************************************)
EXTENDS Integers, Sequences, SequencesExt

CONSTANT Refused   \* the outcome of a validation error

Candle(opens, closes, px, volume) ==
  [open_time |-> opens, close_time |-> closes, open |-> px.open, high |-> px.high,
   low |-> px.low, close |-> px.close, volume |-> volume]

\* The candles that Candle accepts.
ValidCandles ==
  {c \in [open_time : Int, close_time : Int, open : Int, high : Int, low : Int,
          close : Int, volume : Nat] :
     /\ c.open_time <= c.close_time
     /\ c.low <= c.open /\ c.open <= c.high /\ c.low <= c.close /\ c.close <= c.high}

Lowest(S) == CHOOSE x \in S : \A y \in S : x <= y
Highest(S) == CHOOSE x \in S : \A y \in S : y <= x

\* The sum of the first n elements of a sequence.
Sum(s, n) ==
  LET total[k \in 0..n] == IF k = 0 THEN 0 ELSE total[k - 1] + s[k] IN total[n]

AlignFloor(t, duration) == t - (t % duration)

IsAligned(t, duration) == t = AlignFloor(t, duration)

ExpectedClose(opens, duration) == opens + duration - 1

\* require_canonical_series; the alignment and the indicators check the same.
Canonical(s, duration) ==
  /\ s # <<>>
  /\ \A i \in DOMAIN s :
       /\ IsAligned(s[i].open_time, duration)
       /\ s[i].close_time = ExpectedClose(s[i].open_time, duration)
  /\ \A i \in 1..(Len(s) - 1) : s[i + 1].open_time = s[i].open_time + duration

----------------------------------------------------------------------------
(* Derivation and resampling. *)

MaxDerivationRatio == 10080

Derivable(source, target) ==
  /\ source < target /\ target % source = 0
  /\ target \div source \in 1..MaxDerivationRatio

Bucket(s, ratio, b) == SubSeq(s, (b - 1) * ratio + 1, b * ratio)

Volumes(candles) == [i \in DOMAIN candles |-> candles[i].volume]

AggregateBucket(children, opens, duration) ==
  Candle(opens, ExpectedClose(opens, duration),
    [open |-> children[1].open, close |-> Last(children).close,
     high |-> Highest({children[i].high : i \in DOMAIN children}),
     low |-> Lowest({children[i].low : i \in DOMAIN children})],
    Sum(Volumes(children), Len(children)))

AggregateCompleteBuckets(s, source, target) ==
  LET ratio == target \div source IN
  [b \in 1..(Len(s) \div ratio) |->
     AggregateBucket(Bucket(s, ratio, b), s[1].open_time + (b - 1) * target, target)]

\* The children of every bucket open where the bucket expects them.
Placed(s, source, target) ==
  LET ratio == target \div source IN
  \A b \in 1..(Len(s) \div ratio) : \A k \in 1..ratio :
    Bucket(s, ratio, b)[k].open_time =
      s[1].open_time + (b - 1) * target + (k - 1) * source

\* verify_complete_bucket_relationship
CompleteBuckets(s, result, source, target) ==
  /\ Len(s) % (target \div source) = 0
  /\ Len(result) = Len(s) \div (target \div source)
  /\ IsAligned(s[1].open_time, target)
  /\ Placed(s, source, target)
  /\ result = AggregateCompleteBuckets(s, source, target)
  /\ Last(s).close_time = Last(result).close_time

\* ResampledCandleSeries.from_verified_series
FromVerifiedSeries(s, result, source, target) ==
  IF /\ Derivable(source, target)
     /\ Canonical(s, source) /\ Canonical(result, target)
     /\ CompleteBuckets(s, result, source, target)
  THEN result ELSE Refused

ResampleCandles(s, source, target) ==
  IF /\ Derivable(source, target) /\ Canonical(s, source)
     /\ Len(s) % (target \div source) = 0
     /\ IsAligned(s[1].open_time, target)
     /\ Placed(s, source, target)
  THEN FromVerifiedSeries(s, AggregateCompleteBuckets(s, source, target), source, target)
  ELSE Refused

----------------------------------------------------------------------------
(* Alignment.  Position i of a mapping holds the number of context candles *)
(* closed when execution candle i closes; the code holds that number less  *)
(* one, and None for zero.                                                 *)

\* The while loop that advances the context index up to a decision close.
Advance(context, from, close) ==
  LET closed[n \in 0..Len(context)] ==
        IF n < Len(context) /\ context[n + 1].close_time <= close
        THEN closed[n + 1] ELSE n
  IN closed[from]

\* Faulty variant: at most one context candle per execution candle.
NoLookaheadMappingStepwise(execution, context) ==
  LET m[i \in 0..Len(execution)] ==
        IF i = 0 THEN 0
        ELSE IF /\ m[i - 1] < Len(context)
                /\ context[m[i - 1] + 1].close_time <= execution[i].close_time
             THEN m[i - 1] + 1 ELSE m[i - 1]
  IN [i \in DOMAIN execution |-> m[i]]

NoLookaheadMapping(execution, context) ==
  LET m[i \in 0..Len(execution)] ==
        IF i = 0 THEN 0 ELSE Advance(context, m[i - 1], execution[i].close_time)
  IN [i \in DOMAIN execution |-> m[i]]

\* _assert_mapping_bound_to_candles
MappingBound(execution, context, mapping) ==
  /\ Len(mapping) = Len(execution)
  /\ \A i \in DOMAIN mapping :
       /\ mapping[i] \in 0..Len(context)
       /\ mapping[i] > 0 =>
            /\ context[mapping[i]].close_time <= execution[i].close_time
            /\ \A j \in 1..(i - 1) : mapping[j] <= mapping[i]
  /\ mapping = NoLookaheadMapping(execution, context)

\* ContextAlignment.from_candles; candles stand for their own hashes.
ContextAlignment(symbol, execution, executionTf, context, contextTf) ==
  LET mapping == NoLookaheadMapping(execution, context) IN
  IF /\ Derivable(executionTf, contextTf)
     /\ Canonical(execution, executionTf) /\ Canonical(context, contextTf)
     /\ MappingBound(execution, context, mapping)
  THEN [symbol |-> symbol, execution |-> execution, executionTf |-> executionTf,
        context |-> context, contextTf |-> contextTf, mapping |-> mapping]
  ELSE Refused

\* MultiContextAlignment.from_alignments
MultiContextAlignment(alignments) ==
  IF /\ alignments # <<>> /\ \A i \in DOMAIN alignments : alignments[i] # Refused
     /\ \A i \in DOMAIN alignments :
          /\ alignments[i].symbol = alignments[1].symbol
          /\ alignments[i].executionTf = alignments[1].executionTf
          /\ alignments[i].execution = alignments[1].execution
          /\ alignments[i].contextTf # alignments[1].executionTf
     /\ \A i, j \in DOMAIN alignments :
          i < j => alignments[i].contextTf < alignments[j].contextTf
  THEN alignments ELSE Refused
=============================================================================
