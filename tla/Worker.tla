-------------------------------- MODULE Worker --------------------------------
(***************************************************************************)
(* The worker process: WorkerService.run, which checks the database,       *)
(* idles and stops on a signal, and the one-shot WorkerService.check.  The *)
(* coroutine is interrupted only where it awaits; signals arrive at any    *)
(* time.  On Unix the event loop delivers them to request_shutdown while   *)
(* the coroutine is suspended, on Windows their handler runs between any   *)
(* two instructions.  A signal whose handler is not installed yet meets    *)
(* the process's own: SIGTERM kills it, SIGINT cancels the coroutine once  *)
(* asyncio.run has begun, and a second one ends the process at once.       *)
(***************************************************************************)
EXTENDS Naturals

CONSTANT MaxSignals   \* bound on the signals sent

VARIABLES
  mode,          \* "run" or "check"
  platform,      \* "unix" or "windows"
  disposition,   \* what a signal does: "kill", "cancel" or "stop"
  pending,       \* a handled signal the event loop has not delivered yet
  stop,          \* _stop_event
  cancel,        \* a cancellation not raised yet
  cancelled,
  pc,
  dbUp,          \* whether PostgreSQL answers
  conn,          \* the pool's connection: "none", "open" (checked out) or "idle"
  ready,         \* what the last check found
  outcome,       \* how the process ended
  sent, late     \* history: signals sent, checks begun after a stop request

vars == <<mode, platform, disposition, pending, stop, cancel, cancelled, pc, dbUp, conn,
          ready, outcome, sent, late>>
world == <<mode, platform>>
signals == <<disposition, pending, stop, cancel, sent>>

Signals == {"SIGINT", "SIGTERM"}
Suspended == pc \in {"connect", "query", "idle", "dispose"}

Init ==
  /\ mode \in {"run", "check"} /\ platform \in {"unix", "windows"}
  /\ disposition = [s \in Signals |-> "kill"]
  /\ pending = FALSE /\ stop = FALSE /\ cancel = FALSE /\ cancelled = FALSE
  /\ pc = "boot" /\ dbUp \in BOOLEAN /\ conn = "none" /\ ready = FALSE
  /\ outcome = "running" /\ sent = 0 /\ late = 0

----------------------------------------------------------------------------
(* The coroutine. *)

\* main: asyncio.run takes SIGINT over; the engine connects on first use.
Boot ==
  /\ pc = "boot"
  /\ disposition' = [disposition EXCEPT !["SIGINT"] = "cancel"]
  /\ pc' = IF mode = "run" THEN "install" ELSE "check"
  /\ UNCHANGED <<world, pending, stop, cancel, cancelled, dbUp, conn, ready, outcome, sent, late>>

\* Faulty variant: only SIGINT is handled.
InstallHandlersOne ==
  /\ pc = "install"
  /\ disposition' = [disposition EXCEPT !["SIGINT"] = "stop"] /\ pc' = "loop"
  /\ UNCHANGED <<world, pending, stop, cancel, cancelled, dbUp, conn, ready, outcome, sent, late>>

\* _install_signal_handlers: SIGINT, then SIGTERM.
InstallHandlers ==
  /\ pc = "install"
  /\ IF disposition["SIGINT"] # "stop"
     THEN disposition' = [disposition EXCEPT !["SIGINT"] = "stop"] /\ UNCHANGED pc
     ELSE disposition' = [disposition EXCEPT !["SIGTERM"] = "stop"] /\ pc' = "loop"
  /\ UNCHANGED <<world, pending, stop, cancel, cancelled, dbUp, conn, ready, outcome, sent, late>>

TestStop ==
  /\ pc = "loop"
  /\ pc' = IF stop THEN "dispose" ELSE "check"
  /\ UNCHANGED <<world, signals, cancelled, dbUp, conn, ready, outcome, late>>

\* check_database_ready starts.
BeginCheck ==
  /\ pc = "check" /\ pc' = "connect"
  /\ late' = IF stop THEN late + 1 ELSE late
  /\ UNCHANGED <<world, signals, cancelled, dbUp, conn, ready, outcome>>

Checked(result) ==
  /\ ready' = result /\ pc' = IF mode = "run" THEN "wait" ELSE "dispose"

\* engine.connect(): an idle connection is tried before it is used.
Connect ==
  /\ pc = "connect" /\ ~cancel
  /\ IF dbUp THEN conn' = "open" /\ pc' = "query" /\ UNCHANGED ready
             ELSE conn' = "none" /\ Checked(FALSE)
  /\ UNCHANGED <<world, signals, cancelled, dbUp, outcome, late>>

\* SELECT 1; the connection goes back to the pool or is discarded.
Query ==
  /\ pc = "query" /\ ~cancel
  /\ conn' = IF dbUp THEN "idle" ELSE "none"
  /\ Checked(dbUp)
  /\ UNCHANGED <<world, signals, cancelled, dbUp, outcome, late>>

Wait ==
  /\ pc = "wait"
  /\ pc' = IF stop THEN "loop" ELSE "idle"
  /\ UNCHANGED <<world, signals, cancelled, dbUp, conn, ready, outcome, late>>

Wake ==
  /\ pc = "idle" /\ stop /\ pc' = "loop"
  /\ UNCHANGED <<world, signals, cancelled, dbUp, conn, ready, outcome, late>>

\* Faulty variant: the event is cleared for the next wait.
TimeoutClearing ==
  /\ pc = "idle" /\ pc' = "loop" /\ stop' = FALSE
  /\ UNCHANGED <<world, disposition, pending, cancel, sent, cancelled, dbUp, conn, ready,
                 outcome, late>>

\* wait_for gives up; the event may have been set at the same moment.
Timeout ==
  /\ pc = "idle" /\ pc' = "loop"
  /\ UNCHANGED <<world, signals, cancelled, dbUp, conn, ready, outcome, late>>

End(how) == pc' = "ended" /\ outcome' = how

\* CancelledError is raised at the await the coroutine has reached.
RaiseCancelled ==
  /\ Suspended /\ cancel
  /\ cancel' = FALSE /\ cancelled' = TRUE
  /\ IF pc = "dispose" THEN End("interrupted") /\ UNCHANGED conn
     ELSE /\ pc' = "dispose" /\ UNCHANGED outcome
          /\ conn' = IF pc = "query" THEN "none" ELSE conn
  /\ UNCHANGED <<world, disposition, pending, stop, sent, dbUp, ready, late>>

\* finally: dispose_engine; the exit status of a check is what it found.
Dispose ==
  /\ pc = "dispose" /\ ~cancel
  /\ conn' = "none"
  /\ End(IF cancelled THEN "interrupted" ELSE IF mode = "run" THEN "clean"
         ELSE IF ready THEN "0" ELSE "1")
  /\ UNCHANGED <<world, signals, cancelled, dbUp, ready, late>>

Coroutine ==
  \/ Boot \/ InstallHandlers \/ TestStop \/ BeginCheck \/ Connect \/ Query
  \/ Wait \/ Wake \/ Timeout \/ RaiseCancelled \/ Dispose

----------------------------------------------------------------------------
(* The world. *)

Signal(s) ==
  /\ pc # "ended" /\ sent < MaxSignals /\ sent' = sent + 1
  /\ CASE disposition[s] = "kill" ->
            /\ End("killed") /\ conn' = "none" /\ UNCHANGED <<pending, stop, cancel>>
       [] disposition[s] = "cancel" /\ (cancel \/ cancelled) ->
            End("interrupted") /\ UNCHANGED <<conn, pending, stop, cancel>>
       [] disposition[s] = "cancel" /\ ~(cancel \/ cancelled) ->
            cancel' = TRUE /\ UNCHANGED <<pc, outcome, conn, pending, stop>>
       [] OTHER ->
            /\ IF platform = "unix" THEN pending' = TRUE /\ UNCHANGED stop
                                    ELSE stop' = TRUE /\ UNCHANGED pending
            /\ UNCHANGED <<pc, outcome, conn, cancel>>
  /\ UNCHANGED <<world, disposition, cancelled, dbUp, ready, late>>

\* The event loop calls request_shutdown.
Deliver ==
  /\ Suspended /\ pending
  /\ pending' = FALSE /\ stop' = TRUE
  /\ UNCHANGED <<world, disposition, cancel, sent, cancelled, pc, dbUp, conn, ready, outcome, late>>

DatabaseChanges ==
  /\ dbUp' = ~dbUp
  /\ UNCHANGED <<world, signals, cancelled, pc, conn, ready, outcome, late>>

Next == Coroutine \/ (\E s \in Signals : Signal(s)) \/ Deliver \/ DatabaseChanges

\* The coroutine goes on: connecting and SELECT 1 end, with an answer or an
\* error, and waits time out.  The event loop looks for signals in every
\* iteration, so one cannot be passed over again and again.
Spec ==
  /\ Init /\ [][Next]_vars
  /\ WF_vars(Coroutine) /\ SF_vars(Deliver)

----------------------------------------------------------------------------
(* Properties. *)

Started == mode = "run" /\ pc \notin {"boot", "install", "ended"}

\* A worker that has started cannot be killed by either signal, leaves its loop only
\* because it was asked to, begins no further check once it was asked (one, on
\* Windows, when the request comes between the test and the check), and keeps
\* no connection when it has ended (WorkerService.run).
ShutdownIsClean ==
  /\ Started => \A s \in Signals : disposition[s] = "stop"
  /\ outcome = "clean" => stop
  /\ late <= IF platform = "windows" THEN 1 ELSE 0
  /\ pc = "ended" /\ (mode = "run" \/ outcome # "interrupted") => conn = "none"

\* A signal is never lost, wherever it finds the worker, even when it comes
\* with the timeout of the wait: the worker ends (_stop_event, request_shutdown).
ShutdownHappens == (pending \/ stop \/ cancel) ~> pc = "ended"
===============================================================================
