----------------------------- MODULE WorkerProofs -----------------------------
(***************************************************************************)
(* That a shutdown is clean, for any number of signals sent at any moment. *)
(***************************************************************************)
EXTENDS Worker, TLAPS

TypeOK ==
  /\ mode \in {"run", "check"} /\ platform \in {"unix", "windows"}
  /\ disposition \in [Signals -> {"kill", "cancel", "stop"}]
  /\ pending \in BOOLEAN /\ stop \in BOOLEAN /\ cancel \in BOOLEAN /\ cancelled \in BOOLEAN
  /\ conn \in {"none", "open", "idle"}
  /\ late \in Nat

\* Which handlers are installed when: none before asyncio.run, both once the
\* worker has started, never in a check; so only a worker is asked to stop.
HandlersInstalled ==
  /\ pc = "boot" => disposition = [s \in Signals |-> "kill"]
  /\ Started => \A s \in Signals : disposition[s] = "stop"
  /\ mode = "check" => pc # "install" /\ \A s \in Signals : disposition[s] # "stop"
  /\ mode = "check" \/ pc = "boot" => ~pending /\ ~stop

\* On Unix a request reaches the coroutine only where it awaits, so not between
\* the test of the loop and the check; on Windows at most once in between.
LateInv ==
  /\ platform = "unix" => late = 0 /\ (pc = "check" => ~stop)
  /\ platform = "windows" =>
       late <= 1 /\ (late > 0 => stop) /\ (pc \in {"boot", "install", "check"} => late = 0)

\* A worker that is disposing was cancelled or asked to stop.
CleanInv ==
  /\ mode = "run" /\ pc = "dispose" /\ ~cancelled => stop
  /\ outcome = "clean" => stop

\* A worker can be cancelled only by a signal from before its handlers, and so
\* only while it has not connected.
ConnInv ==
  /\ mode = "run" /\ (cancel \/ pc \in {"boot", "install"}) => conn = "none"
  /\ pc = "ended" /\ (mode = "run" \/ outcome # "interrupted") => conn = "none"

IInv == TypeOK /\ HandlersInstalled /\ LateInv /\ CleanInv /\ ConnInv

----------------------------------------------------------------------------
LEMMA InitInv == Init => IInv
<1> SUFFICES ASSUME Init PROVE IInv  OBVIOUS
<1> USE DEF Init
<1>1. TypeOK  BY DEF TypeOK
<1>2. HandlersInstalled  BY DEF HandlersInstalled, Started
<1>3. LateInv /\ CleanInv /\ ConnInv  BY DEF LateInv, CleanInv, ConnInv
<1> QED BY <1>1, <1>2, <1>3 DEF IInv

\* No step of the coroutine breaks the invariant.
LEMMA CoroutineStep == IInv /\ Coroutine => IInv'
<1> SUFFICES ASSUME IInv, Coroutine PROVE IInv'  OBVIOUS
<1> USE DEF IInv, TypeOK, HandlersInstalled, LateInv, CleanInv, ConnInv, Started, Signals,
            world, signals
<1>1. CASE Boot  BY <1>1 DEF Boot
<1>2. CASE InstallHandlers  BY <1>2 DEF InstallHandlers
<1>3. CASE TestStop  BY <1>3 DEF TestStop
<1>4. CASE BeginCheck  BY <1>4 DEF BeginCheck
<1>5. CASE Connect  BY <1>5 DEF Connect, Checked
<1>6. CASE Query  BY <1>6 DEF Query, Checked
<1>7. CASE Wait  BY <1>7 DEF Wait
<1>8. CASE Wake  BY <1>8 DEF Wake
<1>9. CASE Timeout  BY <1>9 DEF Timeout
<1>10. CASE RaiseCancelled  BY <1>10 DEF RaiseCancelled, Suspended, End
<1>11. CASE Dispose  BY <1>11 DEF Dispose, End
<1> QED
  BY <1>1, <1>2, <1>3, <1>4, <1>5, <1>6, <1>7, <1>8, <1>9, <1>10, <1>11 DEF Coroutine

\* A signal may arrive at any time.
LEMMA SignalStep == ASSUME NEW s \in Signals, IInv, Signal(s) PROVE IInv'
<1> USE DEF IInv, TypeOK, HandlersInstalled, LateInv, CleanInv, ConnInv, Started, world
<1>1. CASE disposition[s] = "kill"
  BY <1>1 DEF Signal, End
<1>2. CASE disposition[s] = "cancel"
  BY <1>2 DEF Signal, End
<1>3. CASE disposition[s] = "stop"
  BY <1>3 DEF Signal
<1> QED BY <1>1, <1>2, <1>3

LEMMA InvStep == IInv /\ [Next]_vars => IInv'
<1> SUFFICES ASSUME IInv, [Next]_vars PROVE IInv'  OBVIOUS
<1> USE DEF IInv, TypeOK, HandlersInstalled, LateInv, CleanInv, ConnInv, Started,
            world, signals
<1>1. CASE Coroutine  BY <1>1, CoroutineStep
<1>2. CASE \E s \in Signals : Signal(s)  BY <1>2, SignalStep
<1>3. CASE Deliver  BY <1>3 DEF Deliver, Suspended
<1>4. CASE DatabaseChanges  BY <1>4 DEF DatabaseChanges
<1>5. CASE UNCHANGED vars  BY <1>5 DEF vars
<1> QED BY <1>1, <1>2, <1>3, <1>4, <1>5 DEF Next

\* However many signals arrive and whenever they do, a started worker cannot be
\* killed by one, stops only because it was asked to, begins no check after
\* that and leaves no connection behind (WorkerService.run).
THEOREM ShutdownIsAlwaysClean == Spec => []ShutdownIsClean
<1>1. IInv => ShutdownIsClean
  BY DEF IInv, TypeOK, HandlersInstalled, LateInv, CleanInv, ConnInv, ShutdownIsClean
<1> QED BY <1>1, InitInv, InvStep, PTL DEF Spec
===============================================================================
