------------------------------ MODULE Lifecycle ------------------------------
(***************************************************************************)
(* How the service ends: run, the goroutine that waits for a signal and    *)
(* calls srv.Shutdown, the janitor's select and its stop channel, and the  *)
(* requests in flight.  Both channels are unbuffered: a send and its       *)
(* receive are one step.  main ends the process as soon as run returns.    *)
(***************************************************************************)
EXTENDS Naturals

CONSTANT Requests  \* requests the service may receive

VARIABLES
  main,      \* run: where it is, or what it returned
  notifier,  \* the goroutine started by run
  outcome,   \* what srv.Shutdown returned
  janitor,   \* cancelStaleOrdersJanitor
  ticks,     \* ticks waiting in t.C
  request    \* the requests

vars == <<main, notifier, outcome, janitor, ticks, request>>

Init ==
  /\ main = "serving"
  /\ notifier = "waiting"
  /\ outcome = "none"
  /\ janitor = "select"
  /\ ticks = 0
  /\ request = [r \in Requests |-> "none"]

\* logger.Fatal(a.run(mux)): nothing runs after run has returned.
Returned == main \in {"nil", "error"}

InFlight == {r \in Requests : request[r] = "serving"}

-----------------------------------------------------------------------------
(* Requests                                                                *)

\* The listeners are open until Shutdown closes them.
Accept(r) ==
  /\ ~Returned
  /\ notifier = "waiting"
  /\ request[r] = "none"
  /\ request' = [request EXCEPT ![r] = "serving"]
  /\ UNCHANGED <<main, notifier, outcome, janitor, ticks>>

Answer(r) ==
  /\ ~Returned
  /\ request[r] = "serving"
  /\ request' = [request EXCEPT ![r] = "answered"]
  /\ UNCHANGED <<main, notifier, outcome, janitor, ticks>>

-----------------------------------------------------------------------------
(* The goroutine that waits for SIGINT or SIGTERM                          *)

\* From here on no connection is accepted.
Signal ==
  /\ ~Returned
  /\ notifier = "waiting"
  /\ notifier' = "shutdown"
  /\ UNCHANGED <<main, outcome, janitor, ticks, request>>

\* Mutant of Drained: Close in place of Shutdown.
Closed == TRUE

Drained == InFlight = {}

ShutdownDone ==
  /\ ~Returned
  /\ notifier = "shutdown"
  /\ Drained
  /\ notifier' = "send"
  /\ outcome' = "nil"
  /\ UNCHANGED <<main, janitor, ticks, request>>

\* Mutant of ShutdownExpires: Shutdown with context.Background().
ShutdownWaits == FALSE /\ UNCHANGED vars

\* Its 5 seconds are over, whether or not the last request was just answered.
ShutdownExpires ==
  /\ ~Returned
  /\ notifier = "shutdown"
  /\ notifier' = "send"
  /\ outcome' = "error"
  /\ UNCHANGED <<main, janitor, ticks, request>>

-----------------------------------------------------------------------------
(* run                                                                     *)

\* ListenAndServe fails for another reason than Shutdown.
ListenFails ==
  /\ main = "serving"
  /\ notifier = "waiting"
  /\ main' = "error"
  /\ UNCHANGED <<notifier, outcome, janitor, ticks, request>>

\* ListenAndServe returns ErrServerClosed, while Shutdown is still at work.
ServerClosed ==
  /\ main = "serving"
  /\ notifier # "waiting"
  /\ main' = "await"
  /\ UNCHANGED <<notifier, outcome, janitor, ticks, request>>

\* shutdown <- srv.Shutdown(ctx) and err = <-shutdown.
ReceiveOutcome ==
  /\ main = "await"
  /\ notifier = "send"
  /\ notifier' = "done"
  /\ main' = IF outcome = "nil" THEN "stop" ELSE "error"
  /\ UNCHANGED <<outcome, janitor, ticks, request>>

\* a.stop <- struct{}{} and case <-a.stop.
StopJanitor ==
  /\ main = "stop"
  /\ janitor = "select"
  /\ main' = "nil"
  /\ janitor' = "stopped"
  /\ UNCHANGED <<notifier, outcome, ticks, request>>

-----------------------------------------------------------------------------
(* The janitor                                                             *)

\* The channel of a Ticker holds one tick; more are dropped.
TickerFires ==
  /\ ~Returned
  /\ ticks = 0
  /\ ticks' = 1
  /\ UNCHANGED <<main, notifier, outcome, janitor, request>>

\* Mutant of StartRound: a select with a default case.
StartRoundEarly ==
  /\ ~Returned
  /\ janitor = "select"
  /\ janitor' = "round"
  /\ ticks' = ticks - 1
  /\ UNCHANGED <<main, notifier, outcome, request>>

StartRound ==
  /\ ~Returned
  /\ janitor = "select"
  /\ ticks > 0
  /\ janitor' = "round"
  /\ ticks' = ticks - 1
  /\ UNCHANGED <<main, notifier, outcome, request>>

\* CancelStale and Delete are over, or their 10 seconds are.
EndRound ==
  /\ ~Returned
  /\ janitor = "round"
  /\ janitor' = "select"
  /\ UNCHANGED <<main, notifier, outcome, ticks, request>>

Exited == Returned /\ UNCHANGED vars

Next ==
  \/ \E r \in Requests : Accept(r) \/ Answer(r)
  \/ Signal \/ ShutdownDone \/ ShutdownExpires
  \/ ListenFails \/ ServerClosed \/ ReceiveOutcome \/ StopJanitor
  \/ TickerFires \/ StartRound \/ EndRound
  \/ Exited

\* Goroutines run, and contexts end.  No request need ever be answered.  Select
\* chooses at random between a tick and the stop, so it does not shun the stop.
Fairness ==
  /\ WF_vars(ShutdownExpires)
  /\ WF_vars(ServerClosed)
  /\ WF_vars(ReceiveOutcome)
  /\ WF_vars(EndRound)
  /\ SF_vars(StopJanitor)

Spec == Init /\ [][Next]_vars /\ Fairness

-----------------------------------------------------------------------------

\* Every variable has its type: a tick waits in t.C or none does.
TypeOK ==
  /\ main \in {"serving", "await", "stop", "nil", "error"}
  /\ notifier \in {"waiting", "shutdown", "send", "done"}
  /\ outcome \in {"none", "nil", "error"}
  /\ janitor \in {"select", "round", "stopped"}
  /\ ticks \in 0 .. 1
  /\ request \in [Requests -> {"none", "serving", "answered"}]

\* When run returns nil, every request it accepted has been answered and no round
\* of the janitor is cut short by the end of the process.
CleanStop ==
  main = "nil" => InFlight = {} /\ janitor = "stopped"

\* The strengthening of CleanStop: once Shutdown has found the server idle it stays
\* idle, and run asks the janitor to stop only then.
IInv ==
  /\ TypeOK
  /\ outcome = "nil" => InFlight = {} /\ notifier \in {"send", "done"}
  /\ main \in {"stop", "nil"} => outcome = "nil"
  /\ (main = "nil") <=> (janitor = "stopped")

\* A signal ends the process, also when requests hang, and run, the goroutine and
\* the janitor never wait for one another for ever.
SignalExits == notifier # "waiting" ~> Returned
=============================================================================
