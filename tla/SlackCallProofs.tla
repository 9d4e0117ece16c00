-------------------------- MODULE SlackCallProofs --------------------------
(***************************************************************************)
(* Theorems of SlackCall, for any set of calls, and their proofs.          *)
(***************************************************************************)
EXTENDS SlackCall, TLAPS

Reason(c) ==
  \/ ~live[c] \/ lost[c] \/ request[c] = "refused"
  \/ request[c] = "limited" /\ (tries[c] = 2 \/ op[c] = "post")

\* What holds of one call between its steps.
CallInv(c) ==
  /\ tries[c] = 0 => request[c] = "none"
  /\ pc[c] = "new" => tries[c] = 0
  /\ pc[c] = "calling" => tries[c] # 0 /\ request[c] # "none"
  /\ pc[c] = "limited" => tries[c] = 1 /\ request[c] = "limited" /\ op[c] # "post"
  /\ result[c] # "none" <=> pc[c] = "done"
  /\ result[c] = "ok" => Served(c)
  /\ result[c] = "error" => Reason(c)

Inv == TypeOK /\ \A c \in Calls : CallInv(c)

Step(c) ==
  \/ SlackHandles(c) \/ SlackRefuses(c)
  \/ FirstTry(c) \/ Receive(c) \/ Lose(c) \/ TimerFires(c) \/ CancelPause(c)
  \/ EndContext(c)

\* It holds at first.
LEMMA InvInit == Init => Inv
BY DEF Init, Inv, TypeOK, CallInv, Served, Ops

\* A call that tries an operation keeps it.
LEMMA OperationInv ==
  ASSUME Inv, NEW c \in Calls, Operation(c), pc[c] \in {"new", "limited"},
         UNCHANGED <<op, live, lost, reaction, posted>>
  PROVE  Inv'
<1>1. tries[c] \in 0 .. 1 /\ tries[c] + 1 \in 1 .. 2
  BY DEF Inv, TypeOK, CallInv
<1>2. TypeOK'
  BY <1>1 DEF Inv, TypeOK, Operation, Return
<1>3. \A d \in Calls : CallInv(d)'
  BY <1>1 DEF Inv, TypeOK, CallInv, Reason, Served, Operation, Return
<1> QED BY <1>2, <1>3 DEF Inv

\* So does a call that returns for a reason.
LEMMA ReturnInv ==
  ASSUME Inv, NEW c \in Calls, NEW outcome \in {"ok", "error"}, Return(c, outcome),
         pc[c] \in {"calling", "limited"},
         UNCHANGED <<op, tries, live, request, reaction, posted>>,
         lost' \in [Calls -> BOOLEAN], \A d \in Calls : lost[d] => lost'[d],
         outcome = "ok" => Served(c), outcome = "error" => Reason(c)'
  PROVE  Inv'
<1>1. TypeOK'
  BY DEF Inv, TypeOK, Return
<1>2. \A d \in Calls : CallInv(d)'
  BY DEF Inv, TypeOK, CallInv, Reason, Served, Return
<1> QED BY <1>1, <1>2 DEF Inv

\* Every step keeps the invariant.
LEMMA InvStep ==
  ASSUME Inv, NEW c \in Calls, Step(c)
  PROVE  Inv'
<1>1. CASE SlackHandles(c)
  <2>1. TypeOK'
    <3>1. request' \in [Calls -> {"none", "sent", "ok", "held", "limited", "refused"}]
      <4>1. PICK r \in {"ok", "held"} : request' = [request EXCEPT ![c] = r]
        BY <1>1 DEF SlackHandles
      <4> QED BY <4>1 DEF Inv, TypeOK
    <3>2. posted' \in [Calls -> Nat]
      BY <1>1 DEF Inv, TypeOK, SlackHandles
    <3>3. reaction' \in BOOLEAN
      BY <1>1 DEF Inv, TypeOK, SlackHandles
    <3> QED BY <1>1, <3>1, <3>2, <3>3 DEF Inv, TypeOK, SlackHandles, callVars
  <2>2. \A d \in Calls : CallInv(d)'
    BY <1>1 DEF Inv, TypeOK, CallInv, Reason, Served, SlackHandles, callVars
  <2> QED BY <2>1, <2>2 DEF Inv
<1>2. CASE SlackRefuses(c)
  <2>1. TypeOK'
    BY <1>2 DEF Inv, TypeOK, SlackRefuses, callVars, slackVars
  <2>2. \A d \in Calls : CallInv(d)'
    BY <1>2 DEF Inv, TypeOK, CallInv, Reason, Served, SlackRefuses, callVars
  <2> QED BY <2>1, <2>2 DEF Inv
<1>3. CASE FirstTry(c)
  BY <1>3, OperationInv DEF FirstTry, slackVars
<1>4. CASE Receive(c)
  <2>1. CASE request[c] = "limited" /\ Retries(c)
    <3>1. TypeOK'
      BY <1>4, <2>1 DEF Inv, TypeOK, Receive, slackVars
    <3>2. \A d \in Calls : CallInv(d)'
      BY <1>4, <2>1 DEF Inv, TypeOK, CallInv, Reason, Served, Receive, Retries
    <3> QED BY <3>1, <3>2 DEF Inv
  <2>2. CASE ~(request[c] = "limited" /\ Retries(c))
    <3> DEFINE outcome == IF request[c] = "ok" \/ Tolerated(c) THEN "ok" ELSE "error"
    <3>1. Return(c, outcome) /\ outcome \in {"ok", "error"} /\ pc[c] = "calling"
      BY <1>4, <2>2 DEF Receive
    <3>2. UNCHANGED <<op, tries, live, request, lost, reaction, posted>>
      BY <1>4 DEF Receive, slackVars
    <3>3. tries[c] \in 1 .. 2
      BY <3>1 DEF Inv, TypeOK, CallInv
    <3>4. outcome = "ok" => Served(c)
      BY DEF Served, Tolerated
    <3>5. outcome = "error" => Reason(c)'
      BY <1>4, <2>2, <3>2, <3>3 DEF Reason, Receive, Retries, Tolerated
    <3>6. lost' \in [Calls -> BOOLEAN] /\ \A d \in Calls : lost[d] => lost'[d]
      BY <3>2 DEF Inv, TypeOK
    <3> HIDE DEF outcome
    <3> QED BY <3>1, <3>2, <3>4, <3>5, <3>6, ReturnInv
  <2> QED BY <2>1, <2>2
<1>5. CASE Lose(c)
  <2>1. Return(c, "error") /\ pc[c] = "calling" /\ lost' = [lost EXCEPT ![c] = TRUE]
    BY <1>5 DEF Lose, AfterLoss
  <2>2. UNCHANGED <<op, tries, live, request, reaction, posted>>
    BY <1>5 DEF Lose, slackVars
  <2>3. lost' \in [Calls -> BOOLEAN] /\ lost'[c] /\ \A d \in Calls : lost[d] => lost'[d]
    BY <2>1 DEF Inv, TypeOK
  <2>4. Reason(c)'
    BY <2>3 DEF Reason
  <2> QED BY <2>1, <2>2, <2>3, <2>4, ReturnInv
<1>6. CASE TimerFires(c)
  BY <1>6, OperationInv DEF TimerFires, slackVars
<1>7. CASE CancelPause(c)
  <2>1. Return(c, "error") /\ pc[c] = "limited" /\ ~live[c]
        /\ UNCHANGED <<op, tries, live, request, lost, reaction, posted>>
    BY <1>7 DEF CancelPause, PauseCancelled, slackVars
  <2>2. lost' \in [Calls -> BOOLEAN] /\ (\A d \in Calls : lost[d] => lost'[d]) /\ Reason(c)'
    BY <2>1 DEF Inv, TypeOK, Reason
  <2> QED BY <2>1, <2>2, ReturnInv
<1>8. CASE EndContext(c)
  <2>1. TypeOK'
    BY <1>8 DEF Inv, TypeOK, EndContext, slackVars
  <2>2. \A d \in Calls : CallInv(d)'
    BY <1>8 DEF Inv, TypeOK, CallInv, Reason, Served, EndContext
  <2> QED BY <2>1, <2>2 DEF Inv
<1> QED BY <1>1, <1>2, <1>3, <1>4, <1>5, <1>6, <1>7, <1>8 DEF Step

\* The invariant holds in every state.
LEMMA Invariance == Spec => []Inv
<1>1. Inv /\ [Next]_vars => Inv'
  <2> SUFFICES ASSUME Inv, [Next]_vars PROVE Inv'
    OBVIOUS
  <2>1. CASE UNCHANGED vars
    BY <2>1 DEF vars, callVars, slackVars, Inv, TypeOK, CallInv, Reason, Served
  <2>2. CASE \E c \in Calls : Step(c)
    BY <2>2, InvStep
  <2> QED BY <2>1, <2>2 DEF Next, Terminated, Step
<1> QED BY <1>1, InvInit, PTL DEF Spec

\* No call of Slack sends more than two requests, and everything has its type.
THEOREM CallTypes == Spec => []TypeOK
BY Invariance, PTL DEF Inv

\* A call reports an error only for one of the reasons its callers expect.
THEOREM ErrorsHaveAReason == Spec => []GivesUpForAReason
<1>1. Inv => GivesUpForAReason
  BY DEF Inv, CallInv, Reason, GivesUpForAReason
<1> QED BY <1>1, Invariance, PTL

---------------------------------------------------------------------------
(* The calls implement the promise *)

\* The calls that have taken effect, under the refinement mapping.
Done == {c \in Calls : Served(c)}

\* A step of Slack is the effect or nothing.
LEMMA HandlesServes ==
  ASSUME Inv, NEW c \in Calls, SlackHandles(c)
  PROVE  Promise!Serve(c)
<1>1. c \notin Done /\ result[c] # "ok"
  BY DEF SlackHandles, Inv, CallInv, Done, Served
<1>2. Done' = Done \cup {c}
  <2>1. PICK r \in {"ok", "held"} : request' = [request EXCEPT ![c] = r]
    BY DEF SlackHandles
  <2> QED BY <2>1 DEF Inv, TypeOK, Done, Served
<1> QED
  BY <1>1, <1>2 DEF SlackHandles, callVars, Promise!Serve, Promise!Effect, Done

\* Every other step returns or is invisible.
LEMMA StepImplements ==
  ASSUME Inv, NEW c \in Calls, Step(c)
  PROVE  Promise!Next \/ UNCHANGED Promise!vars
<1> USE DEF Done
<1>1. CASE SlackHandles(c)
  BY <1>1, HandlesServes DEF Promise!Next
<1>2. CASE Done' = Done /\ UNCHANGED <<op, result, reaction, posted>>
  BY <1>2 DEF Promise!vars
<1>3. CASE /\ \E outcome \in {"ok", "error"} :
                result' = [result EXCEPT ![c] = outcome] /\ (outcome = "ok" => Served(c))
           /\ result[c] = "none" /\ Done' = Done /\ UNCHANGED <<op, reaction, posted>>
  BY <1>3 DEF Promise!Return, Promise!Next
<1>4. CASE SlackRefuses(c)
  <2>1. Done' = Done
    BY <1>4 DEF SlackRefuses, Inv, TypeOK, Served
  <2> QED BY <1>2, <1>4, <2>1 DEF SlackRefuses, callVars, slackVars
<1>5. ASSUME Operation(c), pc[c] \in {"new", "limited"}, UNCHANGED <<op, live, lost, slackVars>>
      PROVE  Promise!Next \/ UNCHANGED Promise!vars
  <2>1. Done' = Done
    BY <1>5 DEF Operation, Inv, TypeOK, CallInv, Served
  <2>2. result[c] = "none"
    BY <1>5 DEF Inv, TypeOK, CallInv
  <2> QED BY <1>2, <1>3, <1>5, <2>1, <2>2 DEF Operation, Return, slackVars
<1>6. CASE FirstTry(c) \/ TimerFires(c)
  BY <1>5, <1>6 DEF FirstTry, TimerFires
<1>7. CASE Receive(c)
  <2>1. Done' = Done /\ result[c] = "none"
    BY <1>7 DEF Receive, Inv, TypeOK, CallInv, Served
  <2> QED BY <1>2, <1>3, <1>7, <2>1 DEF Receive, Return, Served, Tolerated, slackVars
<1>8. CASE Lose(c) \/ CancelPause(c)
  <2>1. Done' = Done /\ result[c] = "none"
    BY <1>8 DEF Lose, AfterLoss, CancelPause, PauseCancelled, Inv, TypeOK, CallInv, Served
  <2> QED BY <1>3, <1>8, <2>1 DEF Lose, AfterLoss, CancelPause, Return, slackVars
<1>9. CASE EndContext(c)
  BY <1>2, <1>9 DEF EndContext, slackVars, Served
<1> QED BY <1>1, <1>4, <1>6, <1>7, <1>8, <1>9 DEF Step

\* Trying again after a rate limit and tolerating already_reacted and
\* no_reaction give every call one effect at most, and exactly one if it
\* returned no error.
THEOREM CallsImplementPromise == Spec => ImplementsPromise
<1>1. Init => Promise!Init
  <2> SUFFICES ASSUME Init PROVE Promise!Init
    OBVIOUS
  <2>1. {c \in Calls : Served(c)} = {}
    BY DEF Init, Served
  <2> QED BY <2>1 DEF Init, Ops, Promise!Init
<1>2. Inv /\ [Next]_vars => [Promise!Next]_(Promise!vars)
  <2> SUFFICES ASSUME Inv, [Next]_vars PROVE Promise!Next \/ UNCHANGED Promise!vars
    OBVIOUS
  <2>1. CASE UNCHANGED vars
    BY <2>1 DEF vars, callVars, slackVars, Promise!vars, Served
  <2>2. CASE \E c \in Calls : Step(c)
    BY <2>2, StepImplements
  <2> QED BY <2>1, <2>2 DEF Next, Terminated, Step
<1> QED BY <1>1, <1>2, Invariance, PTL DEF Spec, ImplementsPromise, Promise!Spec

=============================================================================
