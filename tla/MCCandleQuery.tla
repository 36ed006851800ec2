---------------------------- MODULE MCCandleQuery ----------------------------
(* Up to three candles on the open times 0, 2 and 4, of which a client may     *)
(* name every one, an unaligned time and a limit of zero.  Three pages of one  *)
(* candle need two cursors; every CSV of up to three rows is stored once.      *)
EXTENDS CandleQuery

MCBounds == {0, 1, 2, 4}
MCLimits == 0..2
=============================================================================
