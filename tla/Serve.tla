------------------------------- MODULE Serve -------------------------------
(***************************************************************************)
(* The process: serve in src/cmd/alertlens/main.go, the HTTP server, the   *)
(* Slack client's Run with its event consumer                              *)
(* (src/internal/slack/client.go), and the service's Run as one step.      *)
(*                                                                         *)
(* A select that waits is woken by the first case to become ready; one     *)
(* that finds several cases ready takes any of them.  serve has both       *)
(* moments: it starts three goroutines before it reaches its select.       *)
(***************************************************************************)
EXTENDS Sequences, Naturals

VARIABLES
  signalled,   \* ctx is done
  main,        \* where serve is
  woken,       \* the case that woke the select: "server", "slack", "signal"
  cancelled,   \* cancelRun has been called
  closing,     \* srv.Shutdown has closed the listener
  http,        \* whether srv.Serve runs
  serverErr,   \* channel of capacity 1
  slack,       \* where slackClient.Run is
  socketErr,   \* whether RunContext returned an error
  slackErr,    \* channel of capacity 1
  consumer,    \* the goroutine in consume
  connected,   \* what Ready looks at
  service,     \* whether worker.Run runs
  result,      \* what serve will return
  mishap       \* ghost: something stopped by itself, HTTP did not close in time,
               \* or the signal came before serve reached its select

mainVars == <<main, woken, cancelled, closing, result>>
httpVars == <<http, serverErr>>
slackVars == <<slack, socketErr, slackErr, consumer, connected>>
vars == <<signalled, mainVars, httpVars, slackVars, service, mishap>>

RunDone == signalled \/ cancelled      \* runCtx
\* The consumer's context ends with runCtx or when RunContext has returned.
ConsumeDone == RunDone \/ slack \in {"stopping", "drained", "marked", "done"}

Init ==
  /\ signalled = FALSE /\ main = "starting" /\ woken = "none"
  /\ cancelled = FALSE /\ closing = FALSE
  /\ http = "serving" /\ serverErr = <<>>
  /\ slack = "auth" /\ socketErr = FALSE /\ slackErr = <<>>
  /\ consumer = "absent" /\ connected = FALSE
  /\ service = "running" /\ result = "none" /\ mishap = FALSE

---------------------------------------------------------------------------
(* Events that the select of serve waits for *)

\* The event of case c happens; it wakes a select that waits.
Wakes(c) ==
  /\ woken' = IF main = "waiting" THEN c ELSE woken
  /\ main' = IF main = "waiting" THEN "woken" ELSE main
  /\ UNCHANGED <<cancelled, closing, result>>

Signal ==
  /\ ~signalled
  /\ signalled' = TRUE
  /\ mishap' = (mishap \/ main = "starting")
  /\ Wakes("signal")
  /\ UNCHANGED <<httpVars, slackVars, service>>

ServerReturns(err) ==
  /\ http = "serving"
  /\ IF closing THEN err = "closed" /\ UNCHANGED mishap
     ELSE err = "error" /\ mishap' = TRUE
  /\ http' = "stopped"
  /\ serverErr' = <<err>>
  /\ Wakes("server")
  /\ UNCHANGED <<signalled, slackVars, service>>

SlackReturns(err) ==
  /\ slack' = "done"
  /\ slackErr' = <<err>>
  /\ Wakes("slack")

---------------------------------------------------------------------------
(* slackClient.Run and consume *)

StartConsumer == "idle"

Authenticate ==
  /\ slack = "auth"
  /\ slack' = "running"
  /\ consumer' = StartConsumer
  /\ UNCHANGED <<signalled, mainVars, httpVars, socketErr, slackErr, connected, service, mishap>>

\* An error of auth.test is returned whether or not the context is done.
AuthFails ==
  /\ slack = "auth"
  /\ mishap' = (mishap \/ ~RunDone)
  /\ SlackReturns("error")
  /\ UNCHANGED <<signalled, httpVars, socketErr, consumer, connected, service>>

\* RunContext returns because its context is done, or by itself.
SocketEnds ==
  /\ slack = "running"
  /\ slack' = "stopping"
  /\ socketErr' \in BOOLEAN
  /\ mishap' = (mishap \/ ~RunDone)
  /\ UNCHANGED <<signalled, mainVars, httpVars, slackErr, consumer, connected, service>>

ConsumeEvent ==
  /\ consumer = "idle"
  /\ \/ connected' \in BOOLEAN /\ UNCHANGED consumer
     \/ consumer' = "handling" /\ UNCHANGED connected
  /\ UNCHANGED <<signalled, mainVars, httpVars, slack, socketErr, slackErr, service, mishap>>

HandlerReturns ==
  /\ consumer = "handling"
  /\ consumer' = "idle"
  /\ UNCHANGED <<signalled, mainVars, httpVars, slack, socketErr, slackErr, connected, service, mishap>>

ConsumeEnds ==
  /\ consumer = "idle"
  /\ ConsumeDone
  /\ consumer' = "done"
  /\ UNCHANGED <<signalled, mainVars, httpVars, slack, socketErr, slackErr, connected, service, mishap>>

\* Mutant: Run does not wait for the consumer.
ConsumerGone == slack = "stopping"
\* <-eventsDone
EventsDone == slack = "stopping" /\ consumer = "done"

AwaitConsumer ==
  /\ EventsDone
  /\ slack' = "drained"
  /\ UNCHANGED <<signalled, mainVars, httpVars, socketErr, slackErr, consumer, connected, service, mishap>>

MarkDisconnected ==
  /\ slack = "drained"
  /\ slack' = "marked"
  /\ connected' = FALSE
  /\ UNCHANGED <<signalled, mainVars, httpVars, socketErr, slackErr, consumer, service, mishap>>

ReportSlack ==
  /\ slack = "marked"
  /\ SlackReturns(IF ~RunDone /\ socketErr THEN "error" ELSE "nil")
  /\ UNCHANGED <<signalled, httpVars, socketErr, consumer, connected, service, mishap>>

\* worker.Run returns some time after its context is done: see Service.
ServiceReturns ==
  /\ service = "running"
  /\ RunDone
  /\ service' = "done"
  /\ UNCHANGED <<signalled, mainVars, httpVars, slackVars, mishap>>

---------------------------------------------------------------------------
(* serve *)

Ready(c) ==
  CASE c = "server" -> serverErr # <<>>
    [] c = "slack" -> slackErr # <<>>
    [] OTHER -> signalled
Cases == {"server", "slack", "signal"}

\* Mutant: a Slack client that returns nil is no error.
QuietStop(err) == IF err = "nil" THEN "none" ELSE "slack"
SlackResult(err) == IF err = "nil" THEN "stopped" ELSE "slack"

\* Mutant: cancelRun is only deferred, to when serve has returned.
CancelDeferred == cancelled
CancelRun == TRUE

\* What the select does with the case that it takes, and cancelRun.
TakeCase(c) ==
  /\ main' = "selected"
  /\ cancelled' = CancelRun
  /\ CASE c = "server" -> /\ serverErr' = <<>>
                          /\ result' = IF serverErr[1] = "closed" THEN result ELSE "serve"
                          /\ UNCHANGED slackErr
       [] c = "slack" -> /\ slackErr' = <<>>
                         /\ result' = SlackResult(slackErr[1])
                         /\ UNCHANGED serverErr
       [] OTHER -> UNCHANGED <<serverErr, slackErr, result>>
  /\ woken' = c
  /\ UNCHANGED <<signalled, closing, http, slack, socketErr, consumer, connected, service, mishap>>

Select ==
  /\ main = "starting"
  /\ \/ \E c \in Cases : Ready(c) /\ TakeCase(c)
     \/ /\ \A c \in Cases : ~Ready(c)
        /\ main' = "waiting"
        /\ UNCHANGED <<signalled, woken, cancelled, closing, result, httpVars, slackVars, service, mishap>>

Wake == main = "woken" /\ TakeCase(woken)

CloseListener ==
  /\ main = "selected"
  /\ ~closing
  /\ closing' = TRUE
  /\ UNCHANGED <<signalled, main, woken, cancelled, result, httpVars, slackVars, service, mishap>>

\* srv.Shutdown returns: all connections idle, or the 5 s are over.
ShutdownReturns ==
  /\ main = "selected"
  /\ closing
  /\ main' = "awaitServer"
  /\ \/ UNCHANGED <<result, mishap>>
     \/ mishap' = TRUE /\ result' = IF result = "none" THEN "shutdown" ELSE result
  /\ UNCHANGED <<signalled, woken, cancelled, closing, httpVars, slackVars, service>>

\* serverFinished: the select has already received from serverErr.
AwaitServer ==
  /\ main = "awaitServer"
  /\ main' = "awaitSlack"
  /\ IF woken = "server" THEN UNCHANGED <<serverErr, result>>
     ELSE /\ serverErr # <<>>
          /\ serverErr' = <<>>
          /\ result' = IF serverErr[1] = "error" /\ result = "none" THEN "serve" ELSE result
  /\ UNCHANGED <<signalled, woken, cancelled, closing, http, slackVars, service, mishap>>

\* Mutant: the context is not looked at again.
AnyError(err) == err = "error" /\ result = "none"
LateError(err) == err = "error" /\ result = "none" /\ ~signalled

AwaitSlack ==
  /\ main = "awaitSlack"
  /\ main' = "awaitService"
  /\ IF woken = "slack" THEN UNCHANGED <<slackErr, result>>
     ELSE /\ slackErr # <<>>
          /\ slackErr' = <<>>
          /\ result' = IF LateError(slackErr[1]) THEN "slack" ELSE result
  /\ UNCHANGED <<signalled, woken, cancelled, closing, httpVars, slack, socketErr, consumer,
                 connected, service, mishap>>

\* Mutant: serve does not wait for the service.
ServiceLeft == TRUE
ServiceDone == service = "done"

AwaitService ==
  /\ main = "awaitService"
  /\ ServiceDone
  /\ main' = "returned"
  /\ UNCHANGED <<signalled, woken, cancelled, closing, result, httpVars, slackVars, service, mishap>>

Terminated == main = "returned" /\ UNCHANGED vars

---------------------------------------------------------------------------
SlackStep ==
  \/ Authenticate \/ AuthFails \/ SocketEnds \/ AwaitConsumer \/ MarkDisconnected \/ ReportSlack
ConsumerStep == ConsumeEvent \/ HandlerReturns \/ ConsumeEnds
MainStep ==
  \/ Select \/ Wake \/ CloseListener \/ ShutdownReturns \/ AwaitServer \/ AwaitSlack \/ AwaitService

Next ==
  \/ Signal
  \/ \E err \in {"closed", "error"} : ServerReturns(err)
  \/ SlackStep \/ ConsumerStep \/ ServiceReturns \/ MainStep
  \/ Terminated

Spec == Init /\ [][Next]_vars

\* The goroutines keep running; a handler returns, for its context is done; a
\* socket or an auth.test whose context is done returns; the consumer takes the
\* done case in the end.  Nothing else has to stop by itself.
Fairness ==
  /\ WF_vars(MainStep)
  /\ WF_vars(ServerReturns("closed"))
  /\ WF_vars(ServiceReturns)
  /\ WF_vars(RunDone /\ (Authenticate \/ AuthFails \/ SocketEnds))
  /\ WF_vars(AwaitConsumer \/ MarkDisconnected \/ ReportSlack)
  /\ WF_vars(HandlerReturns)
  /\ SF_vars(ConsumeEnds)

FairSpec == Spec /\ Fairness

---------------------------------------------------------------------------
(* Properties *)

\* serve leaves no goroutine behind: when it returns, the HTTP server, the Slack
\* client, its consumer and the service have stopped.
NothingLeftBehind ==
  main = "returned" =>
    http = "stopped" /\ slack = "done" /\ consumer \in {"absent", "done"} /\ service = "done"

\* Once the Slack client's Run has returned nobody sets the connection flag any
\* more: readiness stays off and no handler runs.
UnreadyAfterRun == slack = "done" => ~connected /\ consumer # "handling"

\* A process that stops by itself never reports success.
StopIsReported == main = "returned" /\ ~signalled => result # "none"

\* A signal while everything works is a clean exit.  (One that comes before the
\* select may find the Slack client's result ready beside ctx.Done(); the case
\* that takes it does not look at ctx.Err() and reports the stop as an error.)
GracefulExit == main = "returned" /\ ~mishap => result = "none"

\* Every stop ends the process: one asked for, and one of the HTTP server or of
\* the Slack client, which serve's select takes.
ServeReturns == signalled \/ main = "selected" ~> main = "returned"

=============================================================================
