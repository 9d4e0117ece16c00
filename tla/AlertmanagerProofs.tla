------------------------- MODULE AlertmanagerProofs -------------------------
(***************************************************************************)
(* What is proved about a call of Active, for any alerts and any number of *)
(* attempts.  CallInv relates the loop's counter to the requests sent and  *)
(* says what the loop knows at each of its stations.                       *)
(***************************************************************************)
EXTENDS AlertmanagerClient, TLAPS

CallInv ==
  /\ pc = "request" => asked = attempt /\ last \in Transient \cup {"none"}
  /\ pc \in {"sent", "pause"} => asked = attempt + 1
  /\ pc = "sent" => Matching(firing) \in truths
  /\ pc = "pause" => attempt + 1 # MaxAttempts /\ last \in Transient
  /\ pc # "returned" => result = NoResult
  /\ result.err = "context" => cancelled

Inv == TypeOK /\ CallInv /\ AnswerWasTrue /\ GivesUpLate

\* The invariant holds before the call.
LEMMA Initially == Init => Inv
<1> SUFFICES ASSUME Init PROVE Inv
  OBVIOUS
<1>1. result = [err |-> "none", alerts |-> {}] /\ result.err = "none"
  BY DEF Init, NoResult
<1>2. TypeOK
  <2>1. 0 \in 0 .. MaxAttempts - 1 /\ 0 \in 0 .. MaxAttempts
    BY AlertmanagerAssumption
  <2>2. result \in [err : Transient \cup Definitive \cup {"none", "ok"}, alerts : SUBSET Alerts]
    BY <1>1
  <2> QED BY <2>1, <2>2 DEF Init, TypeOK
<1>3. CallInv
  BY <1>1 DEF Init, CallInv, NoResult
<1> QED BY <1>1, <1>2, <1>3 DEF Inv, AnswerWasTrue, GivesUpLate, Transient, Init

\* An attempt that brought no alerts, whatever the reason.
LEMMA FailsPreserves ==
  ASSUME Inv, NEW outcome \in Transient \cup Definitive,
         Fails(outcome),
         \/ pc = "sent" /\ outcome # "context"
         \/ pc = "request" /\ outcome = "context" /\ cancelled
  PROVE  Inv'
<1>0. attempt \in Nat /\ MaxAttempts \in Nat \ {0} /\ attempt < MaxAttempts
  BY AlertmanagerAssumption DEF Inv, TypeOK
<1>1. CASE Retry(outcome) /\ ~LastAttempt
  <2>1. pc = "sent" /\ outcome \in Transient /\ attempt + 1 # MaxAttempts
    BY <1>1 DEF Retry, LastAttempt, Transient, Definitive
  <2>2. /\ pc' = "pause" /\ last' = outcome
        /\ UNCHANGED <<attempt, cancelled, firing, result, asked, truths>>
    BY <1>1 DEF Fails
  <2> QED
    BY <2>1, <2>2, <1>0 DEF Inv, TypeOK, CallInv, AnswerWasTrue, GivesUpLate, NoResult, Transient,
       Definitive, Matching
<1>2. CASE ~(Retry(outcome) /\ ~LastAttempt)
  <2>1. /\ pc' = "returned" /\ result' = [err |-> outcome, alerts |-> {}] /\ last' = outcome
        /\ UNCHANGED <<attempt, cancelled, firing, asked, truths>>
    BY <1>2 DEF Fails, Return
  <2>2. outcome \in Transient => asked = MaxAttempts \/ cancelled
    BY <1>0, <1>2 DEF Retry, LastAttempt, Transient, Inv, CallInv
  <2>3. outcome = "context" => cancelled
    OBVIOUS
  <2> QED
    BY <2>1, <2>2, <2>3, <1>0 DEF Inv, TypeOK, CallInv, AnswerWasTrue, GivesUpLate, Transient, Definitive
<1> QED BY <1>1, <1>2

\* Every step of the call keeps it.
LEMMA StepPreserves == Inv /\ [Next]_vars => Inv'
<1> SUFFICES ASSUME Inv, [Next]_vars PROVE Inv'
  OBVIOUS
<1>0. attempt \in Nat /\ MaxAttempts \in Nat \ {0} /\ attempt < MaxAttempts
  BY AlertmanagerAssumption DEF Inv, TypeOK
<1> USE DEF Inv, TypeOK, CallInv, AnswerWasTrue, GivesUpLate, Transient, Definitive
<1>1. CASE Cancel
  BY <1>1, <1>0 DEF Cancel, Matching
<1>2. CASE AlertsChange
  BY <1>2, <1>0 DEF AlertsChange, Matching
<1>3. CASE Request
  <2>1. truths' = {firing \cap Alertname \cap Namespace} /\ truths' \subseteq SUBSET Alerts
    BY <1>3 DEF Request
  <2>2. Matching(firing)' \in truths'
    BY <1>3, <2>1 DEF Request, Matching
  <2>3. result' = result /\ result = NoResult /\ result.err = "none"
    BY <1>3 DEF Request, NoResult
  <2>4. pc' = "sent" /\ asked' = attempt' + 1 /\ asked' \in 0 .. MaxAttempts
    BY <1>3, <1>0 DEF Request
  <2> QED BY <1>3, <1>0, <2>1, <2>2, <2>3, <2>4 DEF Request
<1>4. CASE RequestRefused
  BY <1>4, FailsPreserves DEF RequestRefused
<1>5. CASE AttemptFails
  <2>1. PICK outcome \in {"transport", "server", "status", "body"} : Fails(outcome)
    BY <1>5 DEF AttemptFails
  <2> QED BY <1>5, <2>1, FailsPreserves DEF AttemptFails
<1>6. CASE AttemptAnswers
  <2>1. Matching(firing) \in SUBSET Alerts
    BY DEF Matching
  <2> QED BY <1>6, <1>0, <2>1 DEF AttemptAnswers, Return
<1>7. CASE TimerFires
  BY <1>7, <1>0 DEF TimerFires, TimerArmed, NextAttempt
<1>8. CASE PauseCancelled
  BY <1>8, <1>0 DEF PauseCancelled, Return
<1>9. CASE UNCHANGED vars
  BY <1>9 DEF vars, Matching
<1> QED
  BY <1>1, <1>2, <1>3, <1>4, <1>5, <1>6, <1>7, <1>8, <1>9 DEF Next, Step, Terminated

\* So it always holds.
LEMMA Invariance == Spec => []Inv
<1>1. Init => Inv BY Initially
<1>2. Inv /\ [Next]_vars => Inv' BY StepPreserves
<1> QED BY <1>1, <1>2, PTL DEF Spec

\* Types, and never more than MaxAttempts requests for one call (Active).
THEOREM CallTypeCorrect == Spec => []TypeOK
<1>1. Inv => TypeOK BY DEF Inv
<1> QED BY <1>1, Invariance, PTL

\* The alerts that Active returns fired with both labels at one moment after its
\* last request (the filter of activeOnce).
THEOREM VerifiedAgainstTheTruth == Spec => []AnswerWasTrue
<1>1. Inv => AnswerWasTrue BY DEF Inv
<1> QED BY <1>1, Invariance, PTL

\* A definitive outcome is never retried (the retry result of activeOnce).
THEOREM DefinitiveOutcomesStand == Spec => []DefinitiveStands
<1>1. Inv => DefinitiveStands BY DEF Inv, CallInv, DefinitiveStands
<1> QED BY <1>1, Invariance, PTL

\* A passing failure is returned only after every attempt, or when the caller's
\* context has ended (the loop of Active).
THEOREM PersistsToTheEnd == Spec => []GivesUpLate
<1>1. Inv => GivesUpLate BY DEF Inv
<1> QED BY <1>1, Invariance, PTL

\* The context ended no later than in round n: round n + 1, if there is one, is not
\* left again.
Leaving(n) ==
  /\ cancelled
  /\ attempt = n \/ (attempt = n + 1 /\ pc \in {"request", "returned"})

\* Only a pause leads to another round, and a refused attempt to no pause.
LEMMA LeavingStays ==
  ASSUME Inv, NEW n \in 0 .. MaxAttempts - 1, Leaving(n), [Next]_vars
  PROVE  Leaving(n)'
<1>1. CASE pc = "request"
  <2>1. ~Retry("context")
    BY DEF Leaving, Retry
  <2> QED
    BY <1>1, <2>1 DEF Leaving, Next, vars, Cancel, AlertsChange, Step, Request, RequestRefused,
       AttemptFails, AttemptAnswers, TimerFires, PauseCancelled, Terminated, Fails, Return
<1>2. CASE pc \in {"sent", "pause", "returned"}
  BY <1>2 DEF Leaving, Next, vars, Cancel, AlertsChange, Step, Request, RequestRefused,
     AttemptFails, AttemptAnswers, TimerFires, TimerArmed, NextAttempt, PauseCancelled, Terminated,
     Fails, Return
<1> QED BY <1>1, <1>2 DEF Inv, TypeOK

\* After the end of the context Active goes round at most once more: the retry
\* result of activeOnce looks at the context, and a request on it is refused.
THEOREM LeavesPromptly == Spec => LeavesAfterCancel
<1> SUFFICES ASSUME NEW n \in 0 .. MaxAttempts - 1
             PROVE  Spec => [](cancelled /\ attempt = n => [](attempt <= n + 1))
  BY DEF LeavesAfterCancel
<1>1. cancelled /\ attempt = n => Leaving(n)
  BY DEF Leaving
<1>2. Inv /\ Leaving(n) /\ [Next]_vars => Leaving(n)'
  BY LeavingStays
<1>3. Leaving(n) => attempt <= n + 1
  BY AlertmanagerAssumption DEF Leaving
<1> QED BY <1>1, <1>2, <1>3, Invariance, PTL DEF Spec

=============================================================================
