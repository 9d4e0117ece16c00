----------------------------- MODULE SlackCall -----------------------------
(***************************************************************************)
(* The calls of Slack's Web API in src/internal/slack/client.go:           *)
(* AddReaction, RemoveReaction and Reply, which retryRateLimit tries again *)
(* once when Slack limits the rate, and Post, which it does not.  Calls    *)
(* run at the same time, each on its own context, on one message and one   *)
(* reaction.                                                               *)
(***************************************************************************)
EXTENDS Naturals

CONSTANT Calls  \* calls on one message

VARIABLES
  op,        \* what each call does: "add", "remove", "reply" or "post"
  pc,        \* "new", "calling", "limited" (waiting for the timer), "done"
  tries,     \* requests sent
  live,      \* the context has not ended
  request,   \* the last request: "none", "sent", or how Slack has handled it
  result,    \* what the call returned
  lost,      \* ghost: the request failed without an answer
  reaction,  \* Slack: whether the message carries the reaction
  posted     \* Slack: messages posted by each call

callVars == <<op, pc, tries, live, result, lost>>
slackVars == <<reaction, posted>>
vars == <<callVars, request, slackVars>>

Ops == {"add", "remove", "reply", "post"}

Init ==
  /\ op \in [Calls -> Ops]
  /\ pc = [c \in Calls |-> "new"]
  /\ tries = [c \in Calls |-> 0]
  /\ live = [c \in Calls |-> TRUE]
  /\ request = [c \in Calls |-> "none"]
  /\ result = [c \in Calls |-> "none"]
  /\ lost = [c \in Calls |-> FALSE]
  /\ reaction \in BOOLEAN
  /\ posted = [c \in Calls |-> 0]

---------------------------------------------------------------------------
(* Slack *)

\* A request has its effect in one moment, possibly after its caller has given
\* up.  "held": already_reacted, no_reaction.
SlackHandles(c) ==
  /\ request[c] = "sent"
  /\ LET held == (op[c] = "add" /\ reaction) \/ (op[c] = "remove" /\ ~reaction)
     IN  request' = [request EXCEPT ![c] = IF held THEN "held" ELSE "ok"]
  /\ reaction' = IF op[c] = "add" THEN TRUE ELSE IF op[c] = "remove" THEN FALSE ELSE reaction
  /\ posted' = IF op[c] \in {"add", "remove"} THEN posted ELSE [posted EXCEPT ![c] = @ + 1]
  /\ UNCHANGED callVars

\* The rate is limited, or the message is gone, or the like: no effect.
SlackRefuses(c) ==
  /\ request[c] = "sent"
  /\ \E refusal \in {"limited", "refused"} : request' = [request EXCEPT ![c] = refusal]
  /\ UNCHANGED <<callVars, slackVars>>

---------------------------------------------------------------------------
(* The calls *)

Return(c, outcome) ==
  /\ pc' = [pc EXCEPT ![c] = "done"]
  /\ result' = [result EXCEPT ![c] = outcome]

\* The HTTP client sends nothing on a context that has ended.
Operation(c) ==
  IF live[c]
  THEN /\ pc' = [pc EXCEPT ![c] = "calling"]
       /\ request' = [request EXCEPT ![c] = "sent"]
       /\ tries' = [tries EXCEPT ![c] = @ + 1]
       /\ UNCHANGED result
  ELSE Return(c, "error") /\ UNCHANGED <<request, tries>>

FirstTry(c) ==
  /\ pc[c] = "new"
  /\ Operation(c)
  /\ UNCHANGED <<op, live, lost, slackVars>>

\* Post is not tried again.
Retries(c) == op[c] # "post" /\ tries[c] = 1

\* Mutant: no error of Slack is tolerated.
NothingTolerated(c) == FALSE
Tolerated(c) == request[c] = "held"

\* Slack's answer arrives.
Receive(c) ==
  /\ pc[c] = "calling"
  /\ request[c] \in {"ok", "held", "limited", "refused"}
  /\ IF request[c] = "limited" /\ Retries(c)
     THEN pc' = [pc EXCEPT ![c] = "limited"] /\ UNCHANGED result
     ELSE Return(c, IF request[c] = "ok" \/ Tolerated(c) THEN "ok" ELSE "error")
  /\ UNCHANGED <<op, tries, live, request, lost, slackVars>>

\* Mutant: a request without an answer is sent again.
SendAgain(c) ==
  IF Retries(c) THEN pc' = [pc EXCEPT ![c] = "limited"] /\ UNCHANGED result ELSE Return(c, "error")
AfterLoss(c) == Return(c, "error")

\* The connection breaks, or the context ends before the answer is read.
Lose(c) ==
  /\ pc[c] = "calling"
  /\ AfterLoss(c)
  /\ lost' = [lost EXCEPT ![c] = TRUE]
  /\ UNCHANGED <<op, tries, live, request, slackVars>>

\* The timer and the context may both be ready: the select takes either.
TimerFires(c) ==
  /\ pc[c] = "limited"
  /\ Operation(c)
  /\ UNCHANGED <<op, live, lost, slackVars>>

\* Mutant: the pause cannot be cut short.
PauseToTheEnd(c) == FALSE
PauseCancelled(c) == pc[c] = "limited" /\ ~live[c]

CancelPause(c) ==
  /\ PauseCancelled(c)
  /\ Return(c, "error")
  /\ UNCHANGED <<op, tries, live, request, lost, slackVars>>

EndContext(c) ==
  /\ live[c]
  /\ live' = [live EXCEPT ![c] = FALSE]
  /\ UNCHANGED <<op, pc, tries, request, result, lost, slackVars>>

---------------------------------------------------------------------------
Terminated == (\A c \in Calls : pc[c] = "done" /\ request[c] # "sent") /\ UNCHANGED vars

Next ==
  \/ \E c \in Calls :
       \/ SlackHandles(c) \/ SlackRefuses(c)
       \/ FirstTry(c) \/ Receive(c) \/ Lose(c) \/ TimerFires(c) \/ CancelPause(c)
       \/ EndContext(c)
  \/ Terminated

Spec == Init /\ [][Next]_vars

\* A call on a context that has ended goes on: its request fails.  Nothing else
\* has to happen: Slack may never answer, and it names the delay of the timer.
FairSpec ==
  /\ Spec
  /\ \A c \in Calls :
       WF_vars(~live[c] /\ (FirstTry(c) \/ Receive(c) \/ Lose(c) \/ CancelPause(c)))

---------------------------------------------------------------------------
(* Properties *)

\* Types, and no call sends more than two requests.
TypeOK ==
  /\ op \in [Calls -> Ops]
  /\ pc \in [Calls -> {"new", "calling", "limited", "done"}]
  /\ tries \in [Calls -> 0 .. 2]
  /\ live \in [Calls -> BOOLEAN]
  /\ request \in [Calls -> {"none", "sent", "ok", "held", "limited", "refused"}]
  /\ result \in [Calls -> {"none", "ok", "error"}]
  /\ lost \in [Calls -> BOOLEAN]
  /\ reaction \in BOOLEAN
  /\ posted \in [Calls -> Nat]

Served(c) == request[c] \in {"ok", "held"}

\* Trying again never has a second effect, and no error is dropped that hides a
\* missing effect: the calls implement what their callers assume of them.
Promise == INSTANCE SlackPromise WITH served <- {c \in Calls : Served(c)}
ImplementsPromise == Promise!Spec

\* A call reports an error only for a reason: its context ended, no answer came,
\* Slack refused it, or Slack limited the rate twice (or once, of a Post).
GivesUpForAReason ==
  \A c \in Calls :
    result[c] = "error" =>
      \/ ~live[c] \/ lost[c] \/ request[c] = "refused"
      \/ request[c] = "limited" /\ (tries[c] = 2 \/ op[c] = "post")

\* However long Slack takes or asks to wait, a call whose context has ended
\* returns: the forced shutdown and the reply deadline rely on it.
CallReturns == \A c \in Calls : ~live[c] /\ pc[c] # "new" ~> pc[c] = "done"

=============================================================================
