---------------------------- MODULE MCDecisionFeed ----------------------------
(* Six candles of two ticks, of which up to two come before the first bar, so  *)
(* that contexts of two and three candles are both forming, closing on a bar   *)
(* and closed before it.  The first candle rises, the last does not fall and   *)
(* the others have any of three shapes, which differ in their opens; the       *)
(* source opens on a boundary of both contexts, or of one.                     *)
EXTENDS DecisionFeed

MCShapes == { [open |-> 1, high |-> 2, low |-> 1, close |-> 2, volume |-> 1],
              [open |-> 3, high |-> 4, low |-> 2, close |-> 2, volume |-> 0],
              [open |-> 2, high |-> 3, low |-> 2, close |-> 3, volume |-> 2] }

Market(shapes, from) ==
  [i \in 1..6 |-> Candle(from + 2 * (i - 1), from + 2 * i - 1, shapes[i], shapes[i].volume)]

MCFaultSources ==
  {Market([i \in 1..6 |-> CHOOSE px \in MCShapes : px.open = 1 + ((i * i) % 3)], from) : from \in {0, 6}}
MCSources ==
  {Market(shapes, 0) : shapes \in {f \in [1..6 -> MCShapes] : f[1].open = 1 /\ f[6].open # 3}}
  \cup MCFaultSources
  \cup {Market([i \in 1..6 |-> CHOOSE px \in MCShapes : px.open = 1], 4)}

MCRequirements ==
  << [timeframe |-> 4, warmup_bars |-> 2], [timeframe |-> 6, warmup_bars |-> 0] >>

Key(code, period) == [code |-> code, period |-> period]
MCKeys ==
  << {Key("rolling_highest", 2), Key("prior_rolling_lowest", 2), Key("ema_close", 3),
      Key("true_range", None)},
     {Key("wilder_atr", 2), Key("rolling_lowest", 1)},
     {} >>
=============================================================================
