---------------------------- MODULE MCKlinesFetch ----------------------------
(* Every range and clock on five open times, every response of up to three    *)
(* rows in any order: gaps, duplicates, stale rows and rows past the end.     *)
EXTENDS KlinesFetch

MCRetryAfters == {-3, 0, 9}
=============================================================================
