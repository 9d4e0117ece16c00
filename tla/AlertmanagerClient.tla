------------------------- MODULE AlertmanagerClient -------------------------
(***************************************************************************)
(* One call of Active (src/internal/alertmanager/client.go), the query     *)
(* that verifies an alert before Holmes is asked: at most MaxAttempts      *)
(* requests, a pause between them, a context that may end at any moment    *)
(* and an Alertmanager whose alerts change meanwhile.                      *)
(*                                                                         *)
(* Alertmanager's answer is abstracted to the set of its active alerts and *)
(* an alert to its two labels; the order of the alerts is left out.        *)
(***************************************************************************)
EXTENDS Naturals

CONSTANTS
  Alerts,       \* what may fire
  Alertname,    \* the alerts with the label alertname that is asked for
  Namespace,    \* the alerts with the label namespace that is asked for
  MaxAttempts   \* maxAttempts

ASSUME AlertmanagerAssumption ==
  /\ Alertname \subseteq Alerts /\ Namespace \subseteq Alerts
  /\ MaxAttempts \in Nat \ {0}

\* What activeOnce makes of an attempt.  "transport" stands for an error of
\* http.Client.Do (its timeout included), "server" for a status of 5xx, "status"
\* for the other statuses outside 2xx, and "body" for an answer that cannot be
\* read, is too long or is not JSON.
Transient == {"transport", "server"}
Definitive == {"status", "body", "context"}

VARIABLES
  pc,         \* "request", "sent", "pause", "returned"
  attempt,    \* the loop's variable
  cancelled,  \* ctx is done
  firing,     \* Alertmanager's active alerts
  result,     \* what Active returned: [err, alerts]
  last,       \* what the last attempt came to; "none" before
  asked,      \* ghost: requests that were sent
  truths      \* ghost: what matched at some moment since the last request

vars == <<pc, attempt, cancelled, firing, result, last, asked, truths>>

\* Mutant: the namespace is not compared.
MatchAnyNamespace(alerts) == alerts \cap Alertname
Matching(alerts) == alerts \cap Alertname \cap Namespace

NoResult == [err |-> "none", alerts |-> {}]

Init ==
  /\ pc = "request" /\ attempt = 0
  /\ cancelled = FALSE
  /\ firing \in SUBSET Alerts
  /\ result = NoResult /\ last = "none"
  /\ asked = 0 /\ truths = {}

---------------------------------------------------------------------------
(* The environment *)

Cancel ==
  /\ ~cancelled
  /\ cancelled' = TRUE
  /\ UNCHANGED <<pc, attempt, firing, result, last, asked, truths>>

AlertsChange ==
  /\ firing' \in SUBSET Alerts
  /\ truths' = truths \cup {firing' \cap Alertname \cap Namespace}
  /\ UNCHANGED <<pc, attempt, cancelled, result, last, asked>>

---------------------------------------------------------------------------
(* Active and activeOnce *)

Return(err, alerts) ==
  /\ pc' = "returned"
  /\ result' = [err |-> err, alerts |-> alerts]
  /\ UNCHANGED <<attempt, cancelled, firing, asked, truths>>

\* Mutant: a body that breaks off is asked for again.
RetryBody(outcome) ==
  outcome = "server" \/ (outcome \in {"transport", "context", "body"} /\ ~cancelled)
\* Mutant: an error of Do is retried whatever became of the context.
RetryAnyError(outcome) == outcome \in {"transport", "context", "server"}
\* The retry result of activeOnce.
Retry(outcome) ==
  outcome = "server" \/ (outcome \in {"transport", "context"} /\ ~cancelled)

\* Mutant: one attempt too few.
LastButOne == attempt + 2 = MaxAttempts
LastAttempt == attempt + 1 = MaxAttempts

\* The outcome of an attempt that brought no alerts.
Fails(outcome) ==
  /\ last' = outcome
  /\ IF Retry(outcome) /\ ~LastAttempt
     THEN /\ pc' = "pause"
          /\ UNCHANGED <<attempt, cancelled, firing, result, asked, truths>>
     ELSE Return(outcome, {})

Request ==
  /\ pc = "request"
  /\ ~cancelled
  /\ pc' = "sent"
  /\ asked' = asked + 1
  /\ truths' = {firing \cap Alertname \cap Namespace}
  /\ UNCHANGED <<attempt, cancelled, firing, result, last>>

\* Do refuses to send a request whose context is done.
RequestRefused ==
  /\ pc = "request"
  /\ cancelled
  /\ Fails("context")

AttemptFails ==
  /\ pc = "sent"
  /\ \E outcome \in {"transport", "server", "status", "body"} : Fails(outcome)

AttemptAnswers ==
  /\ pc = "sent"
  /\ last' = "ok"
  /\ Return("ok", Matching(firing))

\* Mutant: one timer for all pauses, which fires once.
TimerReused == attempt = 0
TimerArmed == TRUE

NextAttempt == attempt + 1

\* A pause takes (attempt + 1) * 100 ms; both cases of the select may be ready.
TimerFires ==
  /\ pc = "pause"
  /\ TimerArmed
  /\ pc' = "request"
  /\ attempt' = NextAttempt
  /\ UNCHANGED <<cancelled, firing, result, last, asked, truths>>

PauseCancelled ==
  /\ pc = "pause"
  /\ cancelled
  /\ Return("context", {})
  /\ UNCHANGED last

Terminated == pc = "returned" /\ UNCHANGED vars

Step ==
  \/ Request \/ RequestRefused \/ AttemptFails \/ AttemptAnswers
  \/ TimerFires \/ PauseCancelled

Next == Cancel \/ AlertsChange \/ Step \/ Terminated

Spec == Init /\ [][Next]_vars

\* The client's timeout ends every attempt, and a timer fires.
FairSpec == Spec /\ WF_vars(Step)

---------------------------------------------------------------------------
(* Properties *)

\* Types, and never more than MaxAttempts requests: attempt counts those sent.
TypeOK ==
  /\ pc \in {"request", "sent", "pause", "returned"}
  /\ attempt \in 0 .. MaxAttempts - 1
  /\ cancelled \in BOOLEAN
  /\ firing \in SUBSET Alerts
  /\ result \in [err : Transient \cup Definitive \cup {"none", "ok"}, alerts : SUBSET Alerts]
  /\ last \in Transient \cup Definitive \cup {"none", "ok"}
  /\ asked \in 0 .. MaxAttempts
  /\ truths \subseteq SUBSET Alerts

\* An alert is verified against the truth: the alerts that Active returns are
\* exactly those with both labels that fired at one moment after the last
\* request was sent, however often the call was retried while they changed.
AnswerWasTrue == result.err = "ok" => result.alerts \in truths

\* A definitive answer stands: a status below 500, a body that cannot be used
\* and an end of the context are never asked again.
DefinitiveStands == pc \in {"request", "pause"} => last \in Transient \cup {"none"}

\* Active gives up on a passing failure only when it has sent every request it
\* is allowed, or when its context has ended.
GivesUpLate ==
  pc = "returned" /\ result.err \in Transient \cup {"context"} =>
    asked = MaxAttempts \/ cancelled

\* Once the context has ended the loop goes round at most once more: a status of
\* 5xx may still lead into a pause, and the pause to one more attempt, when both
\* cases of the select are ready; but that attempt is refused, and it is the last.
LeavesAfterCancel ==
  \A n \in 0 .. MaxAttempts - 1 : [](cancelled /\ attempt = n => [](attempt <= n + 1))

\* Every call returns.
Returns == <>(pc = "returned")

=============================================================================
