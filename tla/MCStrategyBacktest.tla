-------------------------- MODULE MCStrategyBacktest --------------------------
(* Five bars of five ticks, with contexts of ten and fifteen.  The contexts   *)
(* open before the first bar, at it, or so late that they are never warm, and *)
(* end before or after the last bar.                                          *)
EXTENDS StrategyBacktest

Shape(o, h, l, c) == [open |-> o, high |-> h, low |-> l, close |-> c]
Shapes == {Shape(20, 22, 18, 20), Shape(20, 30, 12, 22)}
MCInputs ==
  {[i \in 1..5 |-> [t |-> 5 * i, closeTime |-> 5 * i + 4, open |-> f[i].open,
                    high |-> f[i].high, low |-> f[i].low, close |-> f[i].close]] :
     f \in {g \in [1..5 -> Shapes] : g[2] = g[4] /\ g[1] = g[5]}}

MCIntents ==
  {[kind |-> "exit"]} \cup
  {[kind |-> "enter", dir |-> "long", qty |-> 2, stop |-> 15, target |-> 27],
   [kind |-> "enter", dir |-> "short", qty |-> 2, stop |-> 27, target |-> 15]}

SlotOf(timeframe, warmup, from) ==
  [timeframe |-> timeframe, warmup |-> warmup, indicators_from |-> from]
MCStrategies ==
  { [supported |-> {"long", "short"}, slots |-> <<SlotOf(5, 0, 0), SlotOf(10, 1, 0)>>],
    [supported |-> {"long"}, slots |-> <<SlotOf(5, 2, 3), SlotOf(10, 0, 2)>>],
    [supported |-> {"short"}, slots |-> <<SlotOf(5, 1, 0), SlotOf(10, 2, 0), SlotOf(15, 0, 0)>>] }

Series(from, n, duration) ==
  [i \in 1..n |-> [open_time |-> from + (i - 1) * duration,
                   close_time |-> from + i * duration - 1]]
MCContexts ==
  [s \in MCStrategies |->
     IF Len(s.slots) = 2
     THEN {<<Series(from, n, 10)>> : from \in {-10, 0, 10, 20}, n \in 1..3}
     ELSE {<<Series(from, 3, 10), Series(later, 2, 15)>> : from \in {0, 10}, later \in {-15, 0, 15}}]
=============================================================================
