---------------------------- MODULE BacktestEngine ----------------------------
(***************************************************************************)
(* BacktestEngine.run: the bar-based simulator.  The provider's decisions  *)
(* are not known, so every output it could return, and an exception, is a  *)
(* choice of the model.  One bar is three steps, in the order of the code: *)
(* execute the pending intent at the open, evaluate the stop and the       *)
(* target, call the provider at the close.                                 *)
(*                                                                         *)
(* Prices and quantities are integers.  Money is kept exact by counting it *)
(* in units of 1/Bps of price times quantity: a fee of f bps on a notional *)
(* n is the integer n * f, a gain of n is n * Bps.                         *)
(***************************************************************************)
EXTENDS Integers, Sequences, FiniteSets

CONSTANTS
  Inputs,          \* candle sequences the engine may be run on
  Intents,         \* what a provider may ask for, see Intent
  Duration,        \* the timeframe's duration
  InitialEquity, FeeBps, SlippageBps, Tick, QuantityStep, MinQuantity,
  MinNotional,     \* the BacktestPolicy
  None

Bps == 10000

Candle == [t : Int, closeTime : Int, open : Int, high : Int, low : Int, close : Int]

Directions == {"long", "short"}
Enters == [kind : {"enter"}, dir : Directions, qty : Int, stop : Int, target : Int]
Exits == [kind : {"exit"}]

ASSUME PolicyAssumption ==
  /\ InitialEquity \in Nat \ {0}
  /\ FeeBps \in Nat
  /\ SlippageBps \in 0 .. Bps - 1
  /\ {Tick, QuantityStep, MinQuantity, Duration} \subseteq Nat \ {0}
  /\ MinNotional \in Nat

ASSUME InputAssumption ==
  /\ Inputs \subseteq Seq(Candle)
  /\ Intents \subseteq Enters \cup Exits

Money == Int
FillRecord == [position : Nat, bar : Nat, buy : BOOLEAN, ref : Int, price : Int,
               qty : Int, fee : Money, decided : Int \cup {None},
               reason : {"market_entry", "explicit_exit", "stop_loss",
                         "take_profit", "end_of_data"}]
Trade == [position : Nat, dir : Directions, qty : Int, entry : Int, exit : Int,
          gross : Money, fees : Money, net : Money, stop : Int, target : Int,
          held : Int, ambiguous : BOOLEAN,
          reason : {"explicit_exit", "stop_loss", "take_profit", "end_of_data"}]
Position == [id : Nat, dir : Directions, qty : Int, decided : Int, bar : Nat,
             entry : Int, fee : Money, stop : Int, target : Int]
Pending == [what : Enters \cup Exits, at : Int]

Errors == {"input", "enter_while_open", "entry", "exit_while_flat", "exit_price", "intent",
           "provider", "open_at_end"}
ASSUME NoneAssumption == None \notin Position \cup Pending \cup Int /\ None \notin Errors

VARIABLES
  forceClose,      \* the policy's force_close_at_end
  phase,           \* where the run is
  error,           \* why it was abandoned, or None
  candles,         \* the input
  bar,             \* number of the current bar, from 1
  pending,         \* the intent decided at the last close, with its bar, or None
  position,        \* the open position, or None
  equity,          \* realized equity, in money units
  curve,           \* equity_curve
  fills, trades,
  positionSeq,     \* position_seq, the last position id given
  unfilled,        \* the unfilled intents
  summary,
  netTotal,        \* history: the net P&L of the trades so far
  accepted         \* history: the intents accepted so far, with their bars

vars == <<forceClose, phase, error, candles, bar, pending, position, equity, curve, fills,
          trades, positionSeq, unfilled, summary, netTotal, accepted>>
books == <<position, equity, curve, fills, trades, positionSeq, netTotal>>

Init ==
  /\ forceClose \in BOOLEAN
  /\ phase = "validate"
  /\ error = None
  /\ candles \in Inputs
  /\ bar = 1
  /\ pending = None
  /\ position = None
  /\ equity = InitialEquity * Bps
  /\ curve = <<equity>>
  /\ fills = << >>
  /\ trades = << >>
  /\ positionSeq = 0
  /\ unfilled = << >>
  /\ summary = None
  /\ netTotal = 0
  /\ accepted = {}

Fail(why) ==
  /\ phase' = "failed"
  /\ error' = why

-----------------------------------------------------------------------------
(* Prices.  A scaled price is a price times Bps, before it is rounded.     *)

FloorToTick(scaled) == (scaled \div (Bps * Tick)) * Tick
CeilToTick(scaled) == -((-scaled) \div (Bps * Tick)) * Tick

\* Faulty variant: rounds to the cheaper tick.
BuyFillDown(ref) == FloorToTick(ref * (Bps + SlippageBps))

\* Adverse slippage, then rounding against the trader.
BuyFill(ref) == CeilToTick(ref * (Bps + SlippageBps))
SellFill(ref) == FloorToTick(ref * (Bps - SlippageBps))

EntryPrice(dir, ref) == IF dir = "long" THEN BuyFill(ref) ELSE SellFill(ref)
ExitPrice(dir, ref) == IF dir = "long" THEN SellFill(ref) ELSE BuyFill(ref)

\* normalize_long_stop, normalize_long_target and their short counterparts.
Level(dir, price) ==
  IF dir = "long" THEN FloorToTick(price * Bps) ELSE CeilToTick(price * Bps)

Bracketed(dir, stop, price, target) ==
  IF dir = "long" THEN stop < price /\ price < target
                  ELSE target < price /\ price < stop

Fee(price, qty) == price * qty * FeeBps
Gross(pos, price) ==
  (IF pos.dir = "long" THEN price - pos.entry ELSE pos.entry - price) * pos.qty * Bps

\* Faulty variant: the entry fee, already paid, is charged again.
ProceedsNet(pos, price) == Gross(pos, price) - Fee(price, pos.qty) - pos.fee

\* What an exit adds to realized equity.
Proceeds(pos, price) == Gross(pos, price) - Fee(price, pos.qty)

-----------------------------------------------------------------------------
(* Input validation.                                                       *)

ValidCandles(s) ==
  /\ s # << >>
  /\ \A n \in 1 .. Len(s) : /\ s[n].t % Duration = 0
                            /\ s[n].closeTime = s[n].t + Duration - 1
  /\ \A n \in 1 .. Len(s) - 1 : s[n + 1].t = s[n].t + Duration

\* The caller may also expect another hash of the candles.
Validate ==
  /\ phase = "validate"
  /\ \E hashMatches \in BOOLEAN :
       IF ValidCandles(candles) /\ hashMatches
       THEN phase' = "fill" /\ UNCHANGED error
       ELSE Fail("input")
  /\ UNCHANGED <<forceClose, candles, bar, pending, books, unfilled, summary, accepted>>

-----------------------------------------------------------------------------
(* Steps 1 to 4: the pending market intent, at the open.                   *)

\* Faulty variant: the close the decision was made on.
DecisionPrice == candles[bar - 1].close

\* The reference price of a market intent.
MarketPrice == candles[bar].open

EntryAccepted(e, price) ==
  /\ price > 0
  /\ Bracketed(e.dir, e.stop, price, e.target)
  /\ price * e.qty >= MinNotional
  /\ Level(e.dir, e.stop) > 0
  /\ Level(e.dir, e.target) > 0
  /\ Bracketed(e.dir, Level(e.dir, e.stop), price, Level(e.dir, e.target))

FillEntry ==
  LET ref == MarketPrice
      price == EntryPrice(pending.what.dir, ref)
      fee == Fee(price, pending.what.qty)
  IN
  /\ phase = "fill"
  /\ pending # None /\ pending.what.kind = "enter"
  /\ IF position # None THEN Fail("enter_while_open") /\ UNCHANGED <<pending, books>>
     ELSE IF ~EntryAccepted(pending.what, price) THEN Fail("entry") /\ UNCHANGED <<pending, books>>
     ELSE
     /\ position' = [id |-> positionSeq + 1, dir |-> pending.what.dir, qty |-> pending.what.qty,
                     decided |-> pending.at, bar |-> bar, entry |-> price, fee |-> fee,
                     stop |-> Level(pending.what.dir, pending.what.stop),
                     target |-> Level(pending.what.dir, pending.what.target)]
     /\ fills' = Append(fills, [position |-> positionSeq + 1, bar |-> bar,
                                buy |-> (pending.what.dir = "long"), reason |-> "market_entry",
                                ref |-> ref, price |-> price, qty |-> pending.what.qty,
                                fee |-> fee, decided |-> pending.at])
     /\ positionSeq' = positionSeq + 1
     /\ equity' = equity - fee
     /\ curve' = Append(curve, equity')
     /\ pending' = None
     /\ phase' = "protect"
     /\ UNCHANGED <<error, trades, netTotal>>
  /\ UNCHANGED <<forceClose, candles, bar, unfilled, summary, accepted>>

\* Faulty variant: the exit is booked on the side of the entry.
ExitFillSameSide(reason, ref, price, decided) ==
  [position |-> position.id, bar |-> bar, buy |-> (position.dir = "long"),
   reason |-> reason, ref |-> ref, price |-> price, qty |-> position.qty,
   fee |-> Fee(price, position.qty), decided |-> decided]

ExitFill(reason, ref, price, decided) ==
  [position |-> position.id, bar |-> bar, buy |-> (position.dir = "short"),
   reason |-> reason, ref |-> ref, price |-> price, qty |-> position.qty,
   fee |-> Fee(price, position.qty), decided |-> decided]

ClosedTrade(reason, price, ambiguous) ==
  LET fees == position.fee + Fee(price, position.qty)
      gross == Gross(position, price)
  IN [position |-> position.id, dir |-> position.dir, qty |-> position.qty,
      entry |-> position.entry, exit |-> price, reason |-> reason,
      stop |-> position.stop, target |-> position.target,
      gross |-> gross, fees |-> fees, net |-> gross - fees,
      held |-> bar - position.bar, ambiguous |-> ambiguous]

\* _execute_exit: one fill and one trade, or an error before either.
Close(reason, ref, decided, ambiguous, next) ==
  LET price == ExitPrice(position.dir, ref)
      trade == ClosedTrade(reason, price, ambiguous)
  IN
  IF price <= 0 THEN Fail("exit_price") /\ UNCHANGED books
  ELSE
  /\ fills' = Append(fills, ExitFill(reason, ref, price, decided))
  /\ trades' = Append(trades, trade)
  /\ equity' = equity + Proceeds(position, price)
  /\ curve' = Append(curve, equity')
  /\ netTotal' = netTotal + trade.net
  /\ position' = None
  /\ phase' = next
  /\ UNCHANGED <<error, positionSeq>>

FillExit ==
  /\ phase = "fill"
  /\ pending # None /\ pending.what.kind = "exit"
  /\ IF position = None THEN Fail("exit_while_flat") /\ UNCHANGED books
     ELSE Close("explicit_exit", MarketPrice, pending.at, FALSE, "protect")
  /\ pending' = None
  /\ UNCHANGED <<forceClose, candles, bar, unfilled, summary, accepted>>

NothingPending ==
  /\ phase = "fill"
  /\ pending = None
  /\ phase' = "protect"
  /\ UNCHANGED <<forceClose, error, candles, bar, pending, books, unfilled, summary, accepted>>

-----------------------------------------------------------------------------
(* Steps 5 to 7: the protective levels, stop first.                        *)

StopHit == IF position.dir = "long" THEN candles[bar].low <= position.stop
                                    ELSE candles[bar].high >= position.stop
TargetHit == IF position.dir = "long" THEN candles[bar].high >= position.target
                                      ELSE candles[bar].low <= position.target

\* Faulty variant: the target is looked at first.
ProtectTargetFirst ==
  /\ phase = "protect"
  /\ IF position # None /\ TargetHit
     THEN Close("take_profit", position.target, None, FALSE, "decide")
     ELSE IF position # None /\ StopHit
     THEN Close("stop_loss", position.stop, None, FALSE, "decide")
     ELSE phase' = "decide" /\ UNCHANGED <<error, books>>
  /\ UNCHANGED <<forceClose, candles, bar, pending, unfilled, summary, accepted>>

Protect ==
  /\ phase = "protect"
  /\ IF position # None /\ StopHit
     THEN Close("stop_loss", position.stop, None, TargetHit, "decide")
     ELSE IF position # None /\ TargetHit
     THEN Close("take_profit", position.target, None, FALSE, "decide")
     ELSE phase' = "decide" /\ UNCHANGED <<error, books>>
  /\ UNCHANGED <<forceClose, candles, bar, pending, unfilled, summary, accepted>>

-----------------------------------------------------------------------------
(* Steps 8 to 10: the provider decides on the closed bar.                  *)

NextBar == IF bar < Len(candles) THEN phase' = "fill" /\ bar' = bar + 1
                                 ELSE phase' = "end" /\ UNCHANGED bar

Aligned(q) == q > 0 /\ q >= MinQuantity /\ q % QuantityStep = 0

\* validate_for_policy, then the checks against the engine's own state.
IntentAccepted(n, at) ==
  /\ at = bar
  /\ n.kind = "enter" => /\ Aligned(n.qty) /\ n.stop > 0 /\ n.target > 0
                         /\ position = None
  /\ n.kind = "exit" => position # None

DecideNothing ==
  /\ phase = "decide"
  /\ NextBar
  /\ pending' = None
  /\ UNCHANGED <<forceClose, error, candles, books, unfilled, summary, accepted>>

\* The intent names the bar it was decided on; a provider may name another.
DecideIntent(n, at) ==
  /\ phase = "decide"
  /\ IF IntentAccepted(n, at)
     THEN /\ NextBar /\ UNCHANGED error
          /\ pending' = [what |-> n, at |-> at]
          /\ accepted' = accepted \cup {pending'}
     ELSE Fail("intent") /\ UNCHANGED <<bar, pending, accepted>>
  /\ UNCHANGED <<forceClose, candles, books, unfilled, summary>>

\* An exception, a value that is not a tuple, or more than one intent.
ProviderFails ==
  /\ phase = "decide"
  /\ Fail("provider")
  /\ UNCHANGED <<forceClose, candles, bar, pending, books, unfilled, summary, accepted>>

-----------------------------------------------------------------------------
(* End of data.                                                            *)

DropPending ==
  /\ phase = "end"
  /\ pending # None
  /\ unfilled' = Append(unfilled, pending)
  /\ pending' = None
  /\ UNCHANGED <<forceClose, phase, error, candles, bar, books, summary, accepted>>

\* Faulty variant: booked as the exit that was still pending.
ForcedCloseDecided ==
  /\ phase = "end"
  /\ pending = None /\ position # None
  /\ IF forceClose
     THEN Close("end_of_data", candles[bar].close,
                IF unfilled = << >> THEN None ELSE unfilled[1].at, FALSE, "end")
     ELSE Fail("open_at_end") /\ UNCHANGED books
  /\ UNCHANGED <<forceClose, candles, bar, pending, unfilled, summary, accepted>>

ForcedClose ==
  /\ phase = "end"
  /\ pending = None /\ position # None
  /\ IF forceClose
     THEN Close("end_of_data", candles[bar].close, None, FALSE, "end")
     ELSE Fail("open_at_end") /\ UNCHANGED books
  /\ UNCHANGED <<forceClose, candles, bar, pending, unfilled, summary, accepted>>

\* The sum of a sequence of amounts.
Total(amounts) ==
  LET sum[n \in 0..Len(amounts)] == IF n = 0 THEN 0 ELSE sum[n - 1] + amounts[n]
  IN sum[Len(amounts)]

\* Faulty variant: the fall from the first point only.
FallFromStart(s) ==
  LET fall[n \in 0..Len(s)] ==
        IF n = 0 THEN 0 ELSE IF s[1] - s[n] > fall[n - 1] THEN s[1] - s[n] ELSE fall[n - 1]
  IN fall[Len(s)]

\* The running peak and the deepest fall from it.
MaxDrawdown(s) ==
  LET run[n \in 0..Len(s)] ==
        IF n = 0 THEN [peak |-> s[1], fall |-> 0]
        ELSE LET peak == IF s[n] > run[n - 1].peak THEN s[n] ELSE run[n - 1].peak
                 fall == run[n - 1].fall
             IN [peak |-> peak, fall |-> IF peak - s[n] > fall THEN peak - s[n] ELSE fall]
  IN run[Len(s)].fall

BuildSummary ==
  [final |-> equity,
   gross |-> Total([n \in DOMAIN trades |-> trades[n].gross]),
   net |-> Total([n \in DOMAIN trades |-> trades[n].net]),
   fees |-> Total([n \in DOMAIN fills |-> fills[n].fee]),
   wins |-> Cardinality({n \in DOMAIN trades : trades[n].net > 0}),
   losses |-> Cardinality({n \in DOMAIN trades : trades[n].net < 0}),
   flats |-> Cardinality({n \in DOMAIN trades : trades[n].net = 0}),
   closed |-> Len(trades),
   byReason |-> [r \in {"end_of_data", "stop_loss", "take_profit", "explicit_exit"} |->
                   Cardinality({n \in DOMAIN trades : trades[n].reason = r})],
   unfilled |-> Len(unfilled),
   drawdown |-> MaxDrawdown(curve)]

Finish ==
  /\ phase = "end"
  /\ pending = None /\ position = None
  /\ summary' = BuildSummary
  /\ phase' = "done"
  /\ UNCHANGED <<forceClose, error, candles, bar, pending, books, unfilled, accepted>>

\* run has returned or raised.
Ended ==
  /\ phase \in {"done", "failed"}
  /\ UNCHANGED vars

Next ==
  \/ Validate
  \/ FillEntry
  \/ FillExit
  \/ NothingPending
  \/ Protect
  \/ DecideNothing
  \/ \E n \in Intents, at \in {bar, bar - 1} : DecideIntent(n, at)
  \/ ProviderFails
  \/ DropPending
  \/ ForcedClose
  \/ Finish
  \/ Ended

Spec == Init /\ [][Next]_vars
-----------------------------------------------------------------------------
(* Properties.                                                             *)

TypeOK ==
  /\ phase \in {"validate", "fill", "protect", "decide", "end", "done", "failed"}
  /\ error \in Errors \cup {None}
  /\ candles \in Seq(Candle)
  /\ bar \in Nat \ {0}
  /\ pending \in Pending \cup {None}
  /\ position \in Position \cup {None}
  /\ equity \in Money /\ curve \in Seq(Money) /\ netTotal \in Money
  /\ fills \in Seq(FillRecord)
  /\ trades \in Seq(Trade)
  /\ positionSeq \in Nat
  /\ unfilled \in Seq(Pending)
  /\ accepted \subseteq Pending

\* Nothing is charged twice and nothing is forgotten: realized equity is the
\* initial equity, plus the net P&L of the closed trades, less the entry fee of
\* the position that is open; the equity curve ends in it.
EquityReconciles ==
  /\ equity = InitialEquity * Bps + netTotal
              - (IF position = None THEN 0 ELSE position.fee)
  /\ curve[Len(curve)] = equity

\* The engine's own checks "Cannot enter while a position is open" and "Cannot
\* exit while flat" never fire: an intent accepted at a close still fits the
\* position when it is executed at the next open.
PendingFits ==
  /\ pending # None /\ phase = "fill" =>
       /\ pending.at = bar - 1
       /\ pending.what.kind = "enter" <=> position = None
  /\ error \notin {"enter_while_open", "exit_while_flat"}

\* Fills alternate entry and exit, and the n-th trade is made of exactly the
\* n-th such pair: same position, same quantity, opposite sides, in bar order.
FillsPairUp ==
  /\ Len(fills) = 2 * Len(trades) + (IF position = None THEN 0 ELSE 1)
  /\ \A n \in 1 .. Len(trades) :
       LET in == fills[2 * n - 1]  out == fills[2 * n]  t == trades[n] IN
       /\ <<in.position, out.position, t.position>> = <<n, n, n>>
       /\ in.reason = "market_entry" /\ out.reason = t.reason
       /\ in.buy = (t.dir = "long") /\ out.buy = (t.dir = "short")
       /\ <<in.qty, out.qty>> = <<t.qty, t.qty>>
       /\ <<in.price, out.price>> = <<t.entry, t.exit>>
       /\ t.held = out.bar - in.bar /\ t.held >= 0
       /\ t.fees = in.fee + out.fee

\* No lookahead: what was decided on a bar is filled at the open of the next
\* one, never on the bar whose close the provider saw; only the stop, the
\* target and the end of the data fill without a decision.
NoLookahead ==
  \A n \in 1 .. Len(fills) : LET f == fills[n] IN
    /\ f.reason \in {"market_entry", "explicit_exit"} =>
         f.decided = f.bar - 1 /\ f.ref = candles[f.bar].open
    /\ f.reason \in {"stop_loss", "take_profit"} => f.decided = None
    /\ f.reason = "end_of_data" => f.bar = Len(candles)

\* Every intent the engine accepted is resolved exactly once, as what it asked
\* for: it waits, or one fill carries out its decision, or it is reported
\* unfilled.  A run that is abandoned may lose it, and resolves none twice.
CarriedOut(n, a) ==
  /\ fills[n].decided = a.at
  /\ IF a.what.kind = "exit" THEN fills[n].reason = "explicit_exit"
     ELSE /\ fills[n].reason = "market_entry"
          /\ fills[n].qty = a.what.qty /\ fills[n].buy = (a.what.dir = "long")
Filled(a) == \E n \in DOMAIN fills : fills[n].decided = a.at
Dropped(a) == \E n \in DOMAIN unfilled : unfilled[n] = a
IntentsResolveOnce ==
  /\ \A m, n \in DOMAIN fills :
       fills[m].decided = fills[n].decided /\ fills[m].decided # None => m = n
  /\ \A n \in DOMAIN fills :
       fills[n].decided # None => \E a \in accepted : CarriedOut(n, a)
  /\ Len(unfilled) <= 1
  /\ \A a \in accepted :
       /\ ~(Filled(a) /\ Dropped(a)) /\ ~(pending = a /\ (Filled(a) \/ Dropped(a)))
       /\ phase # "failed" => pending = a \/ Filled(a) \/ Dropped(a)
  /\ {unfilled[n] : n \in DOMAIN unfilled} \cup ({pending} \ {None}) \subseteq accepted

\* A bar that touches a level closes the position on that bar, the stop before
\* the target: a position the provider is shown at a close has survived the
\* bar, and no trade took profit on a bar that also touched its stop.
Touches(dir, c, stop) == IF dir = "long" THEN c.low <= stop ELSE c.high >= stop
Reaches(dir, c, target) == IF dir = "long" THEN c.high >= target ELSE c.low <= target
LevelsHonoured ==
  /\ (phase \in {"decide", "end"} /\ position # None) =>
       /\ ~Touches(position.dir, candles[bar], position.stop)
       /\ ~Reaches(position.dir, candles[bar], position.target)
  /\ \A n \in 1 .. Len(trades) : LET t == trades[n]  c == candles[fills[2 * n].bar] IN
       /\ t.reason = "take_profit" => ~Touches(t.dir, c, t.stop)
       /\ t.ambiguous <=> /\ t.reason = "stop_loss"
                          /\ Reaches(t.dir, c, t.target)

\* Slippage and tick rounding are never in the trader's favour, and every fill
\* is at a positive multiple of the tick.
FillsAreAdverse ==
  \A n \in 1 .. Len(fills) : LET f == fills[n] IN
    /\ f.price > 0 /\ f.price % Tick = 0
    /\ IF f.buy THEN f.price >= f.ref ELSE f.price <= f.ref

\* What is reported adds up: final equity is initial equity plus net P&L, net
\* is gross less the fees of all fills, every trade is counted once by outcome
\* and once by reason, and the drawdown is the deepest fall between any two
\* points of the equity curve.
DeepestFall(s) ==
  CHOOSE d \in {s[i] - s[j] : i, j \in 1 .. Len(s)} :
    /\ \E i, j \in 1 .. Len(s) : i <= j /\ d = s[i] - s[j]
    /\ \A i, j \in 1 .. Len(s) : i <= j => d >= s[i] - s[j]
SummaryReconciles ==
  phase = "done" =>
    /\ summary.final = InitialEquity * Bps + summary.net
    /\ summary.net = netTotal /\ summary.net = summary.gross - summary.fees
    /\ summary.closed = summary.wins + summary.losses + summary.flats
    /\ summary.closed = summary.byReason["end_of_data"] + summary.byReason["stop_loss"]
         + summary.byReason["take_profit"] + summary.byReason["explicit_exit"]
    /\ summary.drawdown = DeepestFall(curve)
===============================================================================
