----------------------------- MODULE DecisionFeed -----------------------------
(***************************************************************************)
(* What a multi-timeframe strategy sees.  A caller resamples its candles   *)
(* into the context timeframes, builds the verified input of a backtest,   *)
(* calculates indicator series over each timeframe, binds them to the      *)
(* input and opens a feed, which gives one view per execution bar.  On the *)
(* way a caller may supply a damaged candle series or a forged indicator   *)
(* series, and rewrite a field of the composition after it was built; the  *)
(* feed rebuilds everything it is given.                                   *)
(*                                                                         *)
(* Content stands for its own hash: a hash field holds what was hashed.    *)
(* There is one symbol.  Slot 1 is the execution timeframe and slot k + 1  *)
(* the k-th context; positions count from 1.                               *)
(***************************************************************************)
EXTENDS MarketSeries, Indicators

CONSTANTS
  ExecutionTf, ExecutionWarmup,
  Requirements,   \* the definition's contexts: [timeframe, warmup_bars]
  Keys,           \* for every slot the indicator keys, {} when unconfigured
  Shapes,         \* prices and volumes of a candle
  Sources,        \* the caller's candles
  FaultSources,   \* those for which faults are explored as well
  MaxSkip,        \* bound on the candles before the first execution bar
  MaxFaults

ASSUME FeedAssumption ==
  /\ ExecutionTf \in Nat \ {0} /\ ExecutionWarmup \in Nat
  /\ Requirements \in Seq([timeframe : Nat \ {0}, warmup_bars : Nat])
  /\ Keys \in Seq(SUBSET [code : PeriodCodes \cup {"true_range"}, period : Nat \cup {None}])
  /\ Len(Keys) = Len(Requirements) + 1
  /\ \A s \in DOMAIN Keys : IsFiniteSet(Keys[s]) /\ \A key \in Keys[s] : ValidKey(key)
  /\ \A px \in Shapes : Candle(0, 0, px, px.volume) \in ValidCandles
  /\ Sources \subseteq Seq(ValidCandles) /\ FaultSources \subseteq Sources
  /\ MaxSkip \in Nat /\ MaxFaults \in Nat

VARIABLES
  source,         \* the caller's candles of the execution timeframe
  skip,           \* how many of them come before the execution bars
  series,         \* candle series supplied for every slot
  input,          \* the verified input
  bundles,        \* the indicator bundle of every slot, None when unconfigured
  composition,    \* the submitted composition
  feed,           \* the composition the feed rebuilt
  bar, view,      \* the bar viewed last and its view
  faults, pc

vars == <<source, skip, series, input, bundles, composition, feed, bar, view, faults, pc>>

Slots == DOMAIN Keys
Timeframe(slot) == IF slot = 1 THEN ExecutionTf ELSE Requirements[slot - 1].timeframe

----------------------------------------------------------------------------
(* The verified input. *)

ContextInput(requirement, candles, alignment) ==
  [timeframe |-> requirement.timeframe, warmup_bars |-> requirement.warmup_bars,
   candles |-> candles, mapping |-> alignment.mapping, alignment_hash |-> alignment]

\* MultiTimeframeBacktestInput.from_verified
FromVerified(execution, contexts) ==
  LET alignments ==
        [k \in DOMAIN contexts |->
           ContextAlignment("symbol", execution, ExecutionTf,
                            contexts[k], Requirements[k].timeframe)]
      inputs ==
        [k \in DOMAIN contexts |-> ContextInput(Requirements[k], contexts[k], alignments[k])]
  IN IF \/ Requirements = <<>> \/ Len(contexts) # Len(Requirements)
        \/ ~Canonical(execution, ExecutionTf)
        \/ \E k \in DOMAIN contexts :
             \/ ~Derivable(ExecutionTf, Requirements[k].timeframe)
             \/ ~Canonical(contexts[k], Requirements[k].timeframe)
        \/ MultiContextAlignment(alignments) = Refused
     THEN Refused
     ELSE [execution |-> execution, contexts |-> inputs,
           bundle_hash |-> <<execution, ExecutionWarmup, inputs>>]

Candles(in, slot) == IF slot = 1 THEN in.execution ELSE in.contexts[slot - 1].candles

\* _require_mtf_identity_match: candles, warm-ups and hashes, not the mapping.
SameInput(submitted, trusted) ==
  /\ submitted.execution = trusted.execution
  /\ submitted.bundle_hash = trusted.bundle_hash
  /\ \A k \in DOMAIN trusted.contexts : \A f \in {"timeframe", "warmup_bars", "candles",
       "alignment_hash"} : submitted.contexts[k][f] = trusted.contexts[k][f]

ReverifyInput(submitted) ==
  LET trusted == FromVerified(submitted.execution,
        [k \in DOMAIN submitted.contexts |-> submitted.contexts[k].candles])
  IN IF trusted # Refused /\ SameInput(submitted, trusted) THEN trusted ELSE Refused

----------------------------------------------------------------------------
(* Indicator bundles.  The object tells an equal copy of a tuple apart. *)

Bundle(candles, object, timeframe, calculated) ==
  [candles |-> candles, object |-> object, timeframe |-> timeframe,
   series |-> calculated, hash |-> <<candles, timeframe, calculated>>]

\* Faulty variant: the caller's series are kept.
IndicatorBundleTrusting(candles, object, timeframe, supplied) ==
  IF ~Canonical(candles, timeframe) \/ supplied = <<>> THEN Refused
  ELSE Bundle(candles, object, timeframe,
         [key \in {supplied[i].key : i \in DOMAIN supplied} |->
            supplied[CHOOSE i \in DOMAIN supplied : supplied[i].key = key]])

\* IndicatorSeriesBundle.from_verified: a sorted tuple of series with unique
\* keys is a function of the keys.
IndicatorBundle(candles, object, timeframe, supplied) ==
  IF \/ ~Canonical(candles, timeframe) \/ supplied = <<>>
     \/ \E i \in DOMAIN supplied :
          \/ ~ValidKey(supplied[i].key)
          \/ supplied[i] # Calculated(supplied[i].key, "symbol", timeframe, candles)
          \/ \E j \in 1..(i - 1) : supplied[j].key = supplied[i].key
  THEN Refused
  ELSE Bundle(candles, object, timeframe,
         [key \in {supplied[i].key : i \in DOMAIN supplied} |->
            Calculated(key, "symbol", timeframe, candles)])

SeriesOf(bundle) ==
  LET keys == SetToSeq(DOMAIN bundle.series) IN
  [i \in DOMAIN keys |-> bundle.series[keys[i]]]

Rebuilt(bundle) ==
  IndicatorBundle(bundle.candles, bundle.object, bundle.timeframe, SeriesOf(bundle))

\* The checks of what was rebuilt of a bundle.
Bound(bundle, rebuilt, slot, in) ==
  IF /\ rebuilt # Refused /\ rebuilt.hash = bundle.hash
     /\ bundle.timeframe = Timeframe(slot)
     /\ bundle.candles = Candles(in, slot) /\ bundle.object = "exact"
  THEN rebuilt ELSE Refused

\* _rebind_indicator_bundle
Rebind(bundle, slot, in) ==
  IF bundle = None THEN None ELSE Bound(bundle, Rebuilt(bundle), slot, in)

\* MultiTimeframeIndicatorInput.from_verified, from its end to its beginning.
Composed(trusted, bound) ==
  IF (\E s \in DOMAIN bound : bound[s] = Refused) \/ (\A s \in DOMAIN bound : bound[s] = None)
  THEN Refused
  ELSE [input |-> trusted, slots |-> bound,
        hash |-> <<trusted.bundle_hash, [s \in DOMAIN bound |->
                   IF bound[s] = None THEN None ELSE bound[s].hash]>>]

ComposeTrusted(trusted, slots) ==
  IF trusted = Refused \/ Len(slots) # Len(Requirements) + 1 THEN Refused
  ELSE Composed(trusted, [s \in DOMAIN slots |-> Rebind(slots[s], s, trusted)])

Compose(in, slots) == ComposeTrusted(ReverifyInput(in), slots)

\* require_indicator_composition_identity_match
SameComposition(submitted, trusted) ==
  /\ SameInput(submitted.input, trusted.input)
  /\ \A s \in DOMAIN trusted.slots :
       LET left == submitted.slots[s]  right == trusted.slots[s] IN
       /\ left = None <=> right = None
       /\ left # None =>
            /\ left.timeframe = right.timeframe /\ left.candles = right.candles
            /\ left.series = right.series /\ left.hash = right.hash
  /\ submitted.hash = trusted.hash

\* What was rebuilt, when it is what was submitted.
Matching(submitted, trusted) ==
  IF trusted # Refused /\ SameComposition(submitted, trusted) THEN trusted ELSE Refused

\* reverify_indicator_composition, then IndicatorDecisionFeed.from_bundle.
Reverify(submitted) == Matching(submitted, Compose(submitted.input, submitted.slots))

----------------------------------------------------------------------------
(* Views. *)

\* Faulty variant: a negative index counts from the end of the source.
GetItemFromEnd(history, key) ==
  LET index == IF key < 0 THEN Len(history.items) + key ELSE key IN
  IF index \in 0..(Len(history.items) - 1) /\ (key < 0 \/ index < history.end)
  THEN history.items[index + 1] ELSE None

\* __getitem__ of a visible history, with Python's indexes.
GetItem(history, key) ==
  LET index == IF key < 0 THEN history.end + key ELSE key IN
  IF index \in 0..(history.end - 1) THEN history.items[index + 1] ELSE None

Latest(history) == IF history.end = 0 THEN None ELSE history.items[history.end]

\* required_visible_count: at least one closed candle.
Warm(visible, warmup) == visible >= IF warmup < 1 THEN 1 ELSE warmup

Item(calculated, n) ==
  LET history == [items |-> calculated.values, end |-> n] IN
  [history |-> history, latest |-> Latest(history), ready |-> Latest(history) # None,
   defined_visible_count |-> DefinedCount(SubSeq(calculated.values, 1, n)),
   visible_prefix_hash |-> SubSeq(calculated.values, 1, n)]

\* IndicatorDecisionFeed.view_at
IndicatorView(bundle, n) ==
  IF n \notin 1..Len(bundle.candles) THEN Refused
  ELSE LET items == [key \in DOMAIN bundle.series |-> Item(bundle.series[key], n)] IN
       [visible_count |-> n, timeframe |-> bundle.timeframe, items |-> items,
        ready |-> \A key \in DOMAIN items : items[key].ready]

CandleView(in, i, slot) ==
  LET end == IF slot = 1 THEN i ELSE in.contexts[slot - 1].mapping[i]
      warmup == IF slot = 1 THEN ExecutionWarmup ELSE in.contexts[slot - 1].warmup_bars
  IN [history |-> [items |-> Candles(in, slot), end |-> end],
      visible_count |-> end, ready |-> Warm(end, warmup)]

\* The indicators of a slot look back from its own latest closed candle.
SlotView(bundle, n) ==
  IF bundle = None THEN [configured |-> FALSE, indicators |-> None, ready |-> TRUE]
  ELSE IF n = 0 THEN [configured |-> TRUE, indicators |-> None, ready |-> FALSE]
  ELSE LET shown == IndicatorView(bundle, n) IN
       [configured |-> TRUE, indicators |-> shown,
        ready |-> IF shown = Refused THEN FALSE ELSE shown.ready]

\* The checks of the composed view between candles and indicators.
Consistent(candles, shown, slot) ==
  shown.indicators # None =>
    /\ shown.indicators # Refused
    /\ shown.indicators.visible_count = candles.visible_count
    /\ shown.indicators.timeframe = Timeframe(slot)

\* MultiTimeframeIndicatorDecisionFeed.view_at
ViewAt(c, i) ==
  LET candles == [s \in Slots |-> CandleView(c.input, i, s)]
      shown == [s \in Slots |-> SlotView(c.slots[s], candles[s].visible_count)]
  IN IF i \notin DOMAIN c.input.execution \/ \E s \in Slots : ~Consistent(candles[s], shown[s], s)
     THEN Refused
     ELSE [bar_index |-> i, candles |-> candles, slots |-> shown,
           overall_ready |-> \A s \in Slots : candles[s].ready /\ shown[s].ready]

----------------------------------------------------------------------------
(* The caller. *)

Init ==
  /\ source \in Sources /\ skip \in 0..MaxSkip
  /\ faults \in IF source \in FaultSources THEN {0, MaxFaults} ELSE {MaxFaults}
  /\ series = <<>> /\ input = None /\ bundles = None /\ composition = None
  /\ feed = None /\ bar = 0 /\ view = None /\ pc = "resample"

Execution == SubSeq(source, skip + 1, Len(source))

Refuse == pc' = "refused"

\* The contexts are resampled from all candles, the execution bars are the last.
Resample ==
  /\ pc = "resample"
  /\ LET contexts == [k \in DOMAIN Requirements |->
           ResampleCandles(source, ExecutionTf, Requirements[k].timeframe)]
     IN IF \E k \in DOMAIN contexts : contexts[k] = Refused
        THEN Refuse /\ UNCHANGED series
        ELSE series' = <<Execution>> \o contexts /\ pc' = "input"
  /\ UNCHANGED <<source, skip, input, bundles, composition, feed, bar, view, faults>>

\* Other series a caller may hold: damaged, shorter, or of another timeframe.
Others(s) ==
  { <<>>, Tail(s), Front(s), s \o <<Last(s)>>, <<Last(s)>> \o s,
    [s EXCEPT ![Len(s)].close_time = @ + 1] }
  \cup { [i \in DOMAIN s |-> [s[i] EXCEPT !.open_time = @ + 1, !.close_time = @ + 1]] }
  \cup { RemoveAt(s, i) : i \in 2..(Len(s) - 1) }

SupplyOther ==
  /\ pc = "input" /\ faults < MaxFaults /\ faults' = faults + 1
  /\ \E slot \in {s \in Slots : series[s] # <<>>} :
       \E s \in Others(series[slot]) \cup {series[x] : x \in Slots \ {slot}} :
         series' = [series EXCEPT ![slot] = s]
  /\ UNCHANGED <<source, skip, input, bundles, composition, feed, bar, view, pc>>

BuildInput ==
  /\ pc = "input"
  /\ LET built == FromVerified(Head(series), Tail(series)) IN
     IF built = Refused THEN Refuse /\ UNCHANGED input
     ELSE input' = built /\ pc' = "indicators"
  /\ UNCHANGED <<source, skip, series, bundles, composition, feed, bar, view, faults>>

Genuine(slot, candles) ==
  LET keys == SetToSeq(Keys[slot]) IN
  [i \in DOMAIN keys |-> Calculated(keys[i], "symbol", Timeframe(slot), candles)]

\* Series another program may have produced for a slot.
Forged(slot) ==
  LET own == Genuine(slot, Candles(input, slot)) IN
  { [own EXCEPT ![1].values[Len(own[1].values)] = None],
    [own EXCEPT ![1].values = Tail(@) \o <<Last(@)>>],
    [own EXCEPT ![1].defined_value_count = @ + 1],
    [own EXCEPT ![1].key.period = 0],
    own \o <<own[1]>>, <<>> }
  \cup {Genuine(slot, Candles(input, x)) : x \in Slots \ {slot}}

\* The bundles, of genuine series or, in one slot, of others.
BuildBundles ==
  /\ pc = "indicators"
  /\ LET genuine == [s \in Slots |-> Genuine(s, Candles(input, s))]
         Build(supplied) ==
           LET built == [s \in Slots |-> IF Keys[s] = {} THEN None
                 ELSE IndicatorBundle(Candles(input, s), "exact", Timeframe(s), supplied[s])]
           IN IF \E s \in Slots : built[s] = Refused
              THEN Refuse /\ UNCHANGED bundles
              ELSE bundles' = built /\ pc' = "compose"
     IN \/ Build(genuine) /\ UNCHANGED faults
        \/ /\ faults < MaxFaults /\ faults' = faults + 1
           /\ \E slot \in {s \in Slots : Keys[s] # {}} : \E forged \in Forged(slot) :
                Build([genuine EXCEPT ![slot] = forged])
  /\ UNCHANGED <<source, skip, series, input, composition, feed, bar, view>>

ComposeInput ==
  /\ pc = "compose"
  /\ LET built == Compose(input, bundles) IN
     IF built = Refused THEN Refuse /\ UNCHANGED composition
     ELSE composition' = built /\ pc' = "open"
  /\ UNCHANGED <<source, skip, series, input, bundles, feed, bar, view, faults>>

\* Compositions with one field rewritten.
Rewritten(c) ==
  { [c EXCEPT !.slots[1] = None], [c EXCEPT !.slots[2] = c.slots[1]],
    [c EXCEPT !.slots[1].object = "copy"],
    [c EXCEPT !.slots[1].candles = Front(@)],
    [c EXCEPT !.hash = <<>>],
    [c EXCEPT !.input.contexts[1].warmup_bars = 0],
    [c EXCEPT !.input.contexts[1].mapping = [i \in DOMAIN @ |-> Len(c.input.contexts[1].candles)]],
    [c EXCEPT !.input.contexts[1].alignment_hash = None],
    [c EXCEPT !.input.contexts[1].candles[1].volume = @ + 1],
    [c EXCEPT !.input.execution = Front(@)] }
  \cup UNION { { [c EXCEPT !.slots[1].series[key].values[i] = None,
                           !.slots[1].series[key].defined_value_count = 0] :
                 i \in DOMAIN c.input.execution } : key \in Keys[1] }

Rewrite ==
  /\ pc = "open" /\ faults < MaxFaults /\ faults' = faults + 1
  /\ composition' \in Rewritten(composition)
  /\ UNCHANGED <<source, skip, series, input, bundles, feed, bar, view, pc>>

OpenFeed ==
  /\ pc = "open"
  /\ LET trusted == Reverify(composition) IN
     IF trusted = Refused THEN Refuse /\ UNCHANGED feed
     ELSE feed' = trusted /\ pc' = "feeding"
  /\ UNCHANGED <<source, skip, series, input, bundles, composition, bar, view, faults>>

NextView ==
  /\ pc = "feeding" /\ bar < Len(feed.input.execution)
  /\ bar' = bar + 1 /\ view' = ViewAt(feed, bar + 1)
  /\ UNCHANGED <<source, skip, series, input, bundles, composition, feed, faults, pc>>

Next ==
  \/ Resample \/ SupplyOther \/ BuildInput \/ BuildBundles \/ ComposeInput
  \/ Rewrite \/ OpenFeed \/ NextView

Spec == Init /\ [][Next]_vars

----------------------------------------------------------------------------
(* Properties. *)

\* What a provider can read of a history: by every Python index.
Readable(history) ==
  [key \in (-Len(source))..Len(source) |-> GetItem(history, key)]

\* What it can read in a view, the hashes of complete series excepted.
ReadableItem(item) == [item EXCEPT !.history = Readable(item.history)]

Observed(v) ==
  [v EXCEPT
     !.candles = [s \in Slots |-> [v.candles[s] EXCEPT !.history = Readable(@)]],
     !.slots = [s \in Slots |->
       IF v.slots[s].indicators = None THEN v.slots[s]
       ELSE [v.slots[s] EXCEPT !.indicators.items =
               [key \in DOMAIN @ |-> ReadableItem(@[key])]]]]

\* The feed over candles of which one has other prices.
Twin(slot, j, px) ==
  LET candles == [s \in Slots |->
        IF s # slot THEN Candles(feed.input, s)
        ELSE [Candles(feed.input, s) EXCEPT ![j] =
                Candle(@.open_time, @.close_time, px, px.volume)]]
  IN [input |-> FromVerified(Head(candles), Tail(candles)),
      slots |-> [s \in Slots |-> IF feed.slots[s] = None THEN None
                  ELSE IndicatorBundle(candles[s], "exact", Timeframe(s),
                                       Genuine(s, candles[s]))]]

Viewing == pc = "feeding" /\ view # None
Decision == feed.input.execution[bar].close_time

\* Nothing a provider can read at a bar depends on a candle, of any timeframe,
\* that closes later (histories' __getitem__, alignment, prefix hashes).
NoFutureInfluence ==
  Viewing =>
    \A slot \in Slots : \A j \in DOMAIN Candles(feed.input, slot) : \A px \in Shapes :
      /\ Candles(feed.input, slot)[j].close_time > Decision
      /\ Candles(feed.input, slot)[j].open # px.open
      =>
        Observed(ViewAt(Twin(slot, j, px), bar)) = Observed(view)

Resampled(k) ==
  feed.input.contexts[k].candles =
    ResampleCandles(source, ExecutionTf, Requirements[k].timeframe)

\* c summarizes the candles of s that lie inside it.
Summarizes(c, s) ==
  LET inside == {i \in DOMAIN s : c.open_time <= s[i].open_time /\ s[i].close_time <= c.close_time}
      first == Lowest(inside)
      last == Highest(inside)
  IN /\ c.open = s[first].open /\ c.close = s[last].close
     /\ c.high = Highest({s[i].high : i \in inside})
     /\ c.low = Lowest({s[i].low : i \in inside})
     /\ c.volume = Sum(Volumes(s), last) - Sum(Volumes(s), first - 1)
     /\ s[last].close_time = c.close_time

\* A view shows every context candle that has closed, also the one this very
\* bar completes and those before the first bar, and a resampled one is the
\* summary of its own bars (_compute_no_lookahead_mapping, aggregate_bucket).
ContextsAreFresh ==
  Viewing =>
    \A k \in DOMAIN Requirements :
      LET candles == feed.input.contexts[k].candles
          shown == view.candles[k + 1].visible_count
      IN /\ \A j \in DOMAIN candles : j <= shown <=> candles[j].close_time <= Decision
         /\ Resampled(k) => \A j \in 1..shown : Summarizes(candles[j], source)

Between(x, fraction, y) == x * fraction.den <= fraction.num /\ fraction.num <= y * fraction.den

\* The range of a candle and the close before it.
RangeAt(candles, i) ==
  LET before == IF i = 1 THEN {} ELSE {candles[i - 1].close} IN
  Highest({candles[i].high} \cup before) - Lowest({candles[i].low} \cup before)

\* What the n-th value of a series says of its candles.
Says(key, candles, n, value) ==
  LET from == IF key.code \in PriorCodes THEN n - key.period ELSE n - key.period + 1
      to == IF key.code \in PriorCodes THEN n - 1 ELSE n
  IN IF key.code = "true_range" THEN value = RangeAt(candles, n)
     ELSE IF from < 1 THEN value = None
     ELSE CASE key.code \in HighCodes -> value = Highest({candles[i].high : i \in from..to})
            [] key.code \in WindowCodes \ HighCodes ->
                 value = Lowest({candles[i].low : i \in from..to})
            [] key.code = "ema_close" ->
                 Between(Lowest({candles[i].close : i \in 1..n}), value,
                         Highest({candles[i].close : i \in 1..n}))
            [] OTHER -> Between(Lowest({RangeAt(candles, i) : i \in 1..n}), value,
                                Highest({RangeAt(candles, i) : i \in 1..n}))

\* A warm average is the mean of its first period inputs, and then goes from
\* the value shown before it towards each input x:
\* (period - 1 + gain) * value = (period - 1) * previous + gain * x.
Steps(value, previous, inputs, n, period, gain) ==
  IF n = period THEN value.num * period = Sum(inputs, period) * value.den
  ELSE value.num * ((period - 1 + gain) * previous.den) =
         ((period - 1) * previous.num + gain * inputs[n] * previous.den) * value.den

\* The average that a provider reads as the last value of a history, and the
\* one before it: a smoothing of 2 / (period + 1) of closes, Wilder's
\* 1 / period of ranges.
AverageSteps(key, candles, n, history) ==
  LET inputs == [i \in DOMAIN candles |->
                   IF key.code = "ema_close" THEN candles[i].close ELSE RangeAt(candles, i)]
  IN key.code \in AverageCodes /\ n >= key.period =>
       Steps(GetItem(history, -1), GetItem(history, -2), inputs, n, key.period,
             IF key.code = "ema_close" THEN 2 ELSE 1)

\* The latest value of every indicator in a view is what its definition says
\* of the closed candles of its own timeframe: the extreme of exactly the
\* window, an average within what it averages, undefined before it is warm;
\* and two average values it can read in a row are one smoothing step apart
\* (_rolling_extrema, _prior_extrema, ema_close, wilder_atr).
IndicatorsMeanWindows ==
  Viewing =>
    \A s \in Slots : view.slots[s].indicators # None =>
      \A key \in Keys[s] :
        LET candles == Candles(feed.input, s)
            n == view.candles[s].visible_count
            item == view.slots[s].indicators.items[key]
        IN Says(key, candles, n, item.latest) /\ AverageSteps(key, candles, n, item.history)

\* Whatever was supplied, forged or rewritten, a feed that opened holds the
\* definition's requirements, canonical candles, and for each slot exactly what
\* the calculators say of that slot's candles, and it never fails on a bar
\* (reverify_indicator_composition, IndicatorSeriesBundle.from_verified).
OnlyGenuine ==
  pc = "feeding" =>
    /\ view # Refused
    /\ \A s \in Slots :
         LET candles == Candles(feed.input, s) IN
         /\ Canonical(candles, Timeframe(s))
         /\ s > 1 => feed.input.contexts[s - 1].warmup_bars = Requirements[s - 1].warmup_bars
         /\ feed.slots[s] # None =>
              \A key \in DOMAIN feed.slots[s].series :
                feed.slots[s].series[key] = Calculated(key, "symbol", Timeframe(s), candles)
=============================================================================
