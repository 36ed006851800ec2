--------------------------- MODULE StrategyBacktest ---------------------------
(***************************************************************************)
(* A strategy's backtest: the engine of BacktestEngine, run behind the     *)
(* adapter that shows the provider the multi-timeframe view of each bar.   *)
(* The adapter skips the provider while some timeframe is not warm, counts *)
(* skips and calls, and refuses directions the definition does not         *)
(* support; the result is then bound to its input in an envelope.          *)
(*                                                                         *)
(* Slot 1 is the execution timeframe and slot k + 1 the k-th context.  A   *)
(* slot may have indicators; those are ready from a number of candles on   *)
(* (Indicators!UndefinedPrefix), 0 where none are configured.              *)
(***************************************************************************)
EXTENDS BacktestEngine

CONSTANTS
  Strategies,   \* [supported : SUBSET Directions,
                \*  slots : sequence of [timeframe, warmup, indicators_from]]
  Contexts      \* for a strategy the context candles it may be given

Slot == [timeframe : Nat \ {0}, warmup : Nat, indicators_from : Nat]
ContextCandle == [open_time : Int, close_time : Int]

\* A definition has one slot for the execution and one for each context.
ASSUME StrategyAssumption ==
  /\ Strategies \subseteq [supported : SUBSET Directions, slots : Seq(Slot)]
  /\ \A s \in Strategies : \A series \in Contexts[s] :
       series \in Seq(Seq(ContextCandle)) /\ Len(s.slots) = Len(series) + 1

VARIABLES
  strategy, contexts,
  invocations,  \* provider_invocation_count
  skipped,      \* warmup_skipped_decision_count
  envelope,     \* the StrategyBacktestEnvelope, or None
  refused       \* whether its counts were refused

adapter == <<strategy, contexts, invocations, skipped, envelope, refused>>
strategyVars == <<vars, adapter>>

Market == INSTANCE MarketSeries WITH Refused <- None

----------------------------------------------------------------------------
(* The view of a bar, as far as it decides whether the provider is called. *)

\* The execution candles by their times.
ExecutionCandles ==
  [i \in DOMAIN candles |-> [open_time |-> candles[i].t, close_time |-> candles[i].closeTime]]

\* Faulty variant: the context candle that the bar falls into is counted.
VisibleCountForming(slot, b) ==
  IF slot = 1 THEN b
  ELSE Market!Advance(contexts[slot - 1], 0, candles[b].t + strategy.slots[slot].timeframe)

\* visible_count of the slot's history at bar b.
VisibleCount(slot, b) ==
  IF slot = 1 THEN b
  ELSE Market!NoLookaheadMapping(ExecutionCandles, contexts[slot - 1])[b]

\* Faulty variant: ready from the candle after the warm-up.
OverallReadyLate(b) ==
  \A s \in DOMAIN strategy.slots :
    LET visible == VisibleCount(s, b) IN
    /\ visible >= 1 /\ visible > strategy.slots[s].warmup
    /\ visible >= strategy.slots[s].indicators_from

\* MultiTimeframeIndicatorDecisionView.overall_ready
OverallReady(b) ==
  \A s \in DOMAIN strategy.slots :
    LET visible == VisibleCount(s, b) IN
    /\ visible >= 1 /\ visible >= strategy.slots[s].warmup
    /\ visible >= strategy.slots[s].indicators_from

\* MultiTimeframeBacktestInput.from_verified has accepted the candles.
VerifiedInput(s, series) ==
  /\ Market!Canonical(ExecutionCandles, s.slots[1].timeframe)
  /\ Market!MultiContextAlignment(
       [k \in DOMAIN series |->
          Market!ContextAlignment("symbol", ExecutionCandles, s.slots[1].timeframe,
                                  series[k], s.slots[k + 1].timeframe)]) # None

----------------------------------------------------------------------------
StrategyInit ==
  /\ Init
  /\ strategy \in Strategies
  /\ contexts \in Contexts[strategy]
  /\ VerifiedInput(strategy, contexts)
  /\ invocations = 0 /\ skipped = 0 /\ envelope = None /\ refused = FALSE

\* The engine gets the candles of the verified input and their own hash.
Start ==
  /\ Validate /\ (ValidCandles(candles) => phase' = "fill")
  /\ UNCHANGED adapter

EngineStep ==
  /\ \/ FillEntry \/ FillExit \/ NothingPending \/ Protect
     \/ DropPending \/ ForcedClose \/ Finish
  /\ UNCHANGED adapter

SkipDecision ==
  /\ DecideNothing
  /\ ~OverallReady(bar)
  /\ skipped' = skipped + 1
  /\ UNCHANGED <<strategy, contexts, invocations, envelope, refused>>

\* What becomes of an intent the provider returned.
Adapted(n, at) ==
  IF n.kind = "enter" /\ n.dir \notin strategy.supported
  THEN ProviderFails ELSE DecideIntent(n, at)

\* A call that fails has been counted.
CallProvider ==
  /\ phase = "decide" /\ OverallReady(bar)
  /\ \/ DecideNothing
     \/ ProviderFails
     \/ \E n \in Intents, at \in {bar, bar - 1} : Adapted(n, at)
  /\ invocations' = invocations + 1
  /\ UNCHANGED <<strategy, contexts, skipped, envelope, refused>>

\* StrategyBacktestEnvelope.from_run; the result is of this input and policy.
Wrap ==
  /\ phase = "done" /\ envelope = None /\ ~refused
  /\ IF invocations + skipped = Len(candles)
     THEN /\ envelope' = [result |-> summary, calls |-> invocations, skips |-> skipped]
          /\ UNCHANGED refused
     ELSE refused' = TRUE /\ UNCHANGED envelope
  /\ UNCHANGED <<vars, strategy, contexts, invocations, skipped>>

Over ==
  /\ phase = "failed" \/ envelope # None \/ refused
  /\ UNCHANGED strategyVars

StrategyNext == Start \/ EngineStep \/ SkipDecision \/ CallProvider \/ Wrap \/ Over

StrategySpec == StrategyInit /\ [][StrategyNext]_strategyVars

----------------------------------------------------------------------------
(* Properties. *)

\* How many candles of a slot have closed when bar b closes, by the clock.
ClosedByClock(slot, b) ==
  IF slot = 1 THEN b
  ELSE Cardinality({j \in DOMAIN contexts[slot - 1] :
                      contexts[slot - 1][j].close_time <= candles[b].closeTime})

WarmAt(b) ==
  \A s \in DOMAIN strategy.slots :
    \A needed \in {1, strategy.slots[s].warmup, strategy.slots[s].indicators_from} :
      ClosedByClock(s, b) >= needed

\* A strategy trades on its own decisions only: each was made at a close at
\* which every timeframe was warm by the clock, and goes in a direction the
\* definition supports (MultiTimeframeProviderAdapter.on_bar_close).
TradesAreTheStrategys ==
  /\ \A n \in DOMAIN fills : fills[n].decided # None => WarmAt(fills[n].decided)
  /\ \A n \in DOMAIN trades : trades[n].dir \in strategy.supported
  /\ position # None => position.dir \in strategy.supported

\* The bars whose close the adapter has answered.
Answered ==
  IF phase \in {"end", "done"} THEN 1 .. Len(candles) ELSE 1 .. bar - 1

\* Every bar at which all timeframes were warm was offered to the provider
\* once, every other one was skipped, and an envelope is never refused for its
\* counts (StrategyBacktestEnvelope.from_run).
CountsReconcile ==
  /\ phase # "failed" =>
       /\ invocations = Cardinality({b \in Answered : WarmAt(b)})
       /\ skipped = Cardinality({b \in Answered : ~WarmAt(b)})
  /\ ~refused
===============================================================================
