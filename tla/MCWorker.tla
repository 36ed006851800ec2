------------------------------- MODULE MCWorker -------------------------------
(* Two signals, so that one may follow the other at any point of a shutdown.  *)
EXTENDS Worker
=============================================================================
