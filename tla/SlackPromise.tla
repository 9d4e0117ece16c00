---------------------------- MODULE SlackPromise ----------------------------
(***************************************************************************)
(* What the rest of AlertLens may assume of its calls of Slack's Web API:  *)
(* each takes effect at most once, in one moment; one that returns no      *)
(* error has taken effect; one that returns an error may still take        *)
(* effect, even later.  Adding a reaction that is there and removing one   *)
(* that is not are no errors, so that a call can be repeated.              *)
(***************************************************************************)
EXTENDS Naturals

CONSTANT Calls  \* calls on one message

VARIABLES
  op,        \* what each does: "add", "remove", "reply" or "post"
  result,    \* what each call returned: "none" yet, "ok", "error"
  served,    \* calls that have taken effect
  reaction,  \* whether the message carries the reaction
  posted     \* messages posted by each call

vars == <<op, result, served, reaction, posted>>

Effect(c) ==
  /\ reaction' = IF op[c] = "add" THEN TRUE ELSE IF op[c] = "remove" THEN FALSE ELSE reaction
  /\ posted' = IF op[c] \in {"add", "remove"} THEN posted ELSE [posted EXCEPT ![c] = @ + 1]

Init ==
  /\ op \in [Calls -> {"add", "remove", "reply", "post"}]
  /\ result = [c \in Calls |-> "none"]
  /\ served = {}
  /\ reaction \in BOOLEAN
  /\ posted = [c \in Calls |-> 0]

Serve(c) ==
  /\ c \notin served
  /\ result[c] # "ok"
  /\ served' = served \cup {c}
  /\ Effect(c)
  /\ UNCHANGED <<op, result>>

Return(c) ==
  /\ result[c] = "none"
  /\ \/ c \in served /\ result' = [result EXCEPT ![c] = "ok"]
     \/ result' = [result EXCEPT ![c] = "error"]
  /\ UNCHANGED <<op, served, reaction, posted>>

Next == \E c \in Calls : Serve(c) \/ Return(c)

Spec == Init /\ [][Next]_vars

=============================================================================
