------------------------------ MODULE Channel ------------------------------
(***************************************************************************)
(* The way of a message from the Slack channel into the service: what      *)
(* Slack delivers over Socket Mode, consume and translate in               *)
(* src/internal/slack/client.go, and the work the service accepts.  The    *)
(* process may die and start again; it keeps nothing.                      *)
(*                                                                         *)
(* A message's text is the set of what is in it: a mention of AlertLens, a *)
(* marker, other words.  An envelope brings a message or the mention of    *)
(* AlertLens in it; Slack owes it until it gets the acknowledgement, and   *)
(* delivers it again.  How long copies wait in the socket does not matter: *)
(* an acknowledgement that is too late is like one that is lost.           *)
(*                                                                         *)
(* No name here is one of Serve's: ProcessProofs extends both.             *)
(***************************************************************************)
EXTENDS Naturals, Sequences

CONSTANTS
  Texts,        \* the texts of messages
  Writers,      \* who writes: a user, another bot or AlertLens itself, in the
                \* monitored channel or not, with a subtype (an edit, a join) or not
  MaxMessages,  \* bound: messages
  MaxFaults     \* bound: acknowledgements that fail or are lost, and deaths of
                \* the process; Slack does not give up before

ASSUME ChannelAssumption ==
  /\ Writers \subseteq [author : {"user", "bot", "self"}, here : BOOLEAN, subtype : BOOLEAN]
  /\ \A text \in Texts : text \subseteq {"mention", "marker", "words"}
  /\ MaxMessages \in Nat \ {0} /\ MaxFaults \in Nat

Envelopes == [ts : 1 .. MaxMessages, kind : {"message", "mention"}]
Nothing == [ts |-> 0, kind |-> "none"]

VARIABLES
  log,       \* Slack: the messages by timestamp, with who writes and the text
  owed,      \* Slack: envelopes without an acknowledgement
  taken,     \* the envelope that consume has acknowledged and not yet handed over
  work,      \* envelopes whose events the service has accepted
  faults,    \* faults so far
  unsure,    \* ghost: acknowledgements that Slack did not get in time
  handed,    \* ghost: how often each envelope became an event for the service
  ended,     \* ghost: envelopes whose events were handled, ignored or refused
  died       \* ghost: envelopes that were acknowledged and lost in a death

slackSide == <<log, owed>>
ghostVars == <<unsure, handed, ended, died>>
channelVars == <<slackSide, taken, work, faults, ghostVars>>

ChannelInit ==
  /\ log = <<>> /\ owed = {} /\ taken = Nothing /\ work = {} /\ faults = 0
  /\ unsure = [e \in Envelopes |-> 0] /\ handed = [e \in Envelopes |-> 0]
  /\ ended = {} /\ died = {}

---------------------------------------------------------------------------
(* Slack *)

Write ==
  LET ts == Len(log) + 1 IN
  /\ ts <= MaxMessages
  /\ \E by \in Writers, text \in Texts :
       /\ log' = Append(log, [by |-> by, text |-> text])
       /\ owed' = owed \cup {[ts |-> ts, kind |-> kind] :
                              kind \in {"message"} \cup ({"mention"} \cap text)}
  /\ UNCHANGED <<taken, work, faults, ghostVars>>

---------------------------------------------------------------------------
(* consume and translate *)

Fault == faults < MaxFaults /\ faults' = faults + 1

\* Mutants: an error of the acknowledgement is dropped, or ends the loop.
HandleAnyway(e) == e
EndLoop(e) == [ts |-> 0, kind |-> "gone"]
AfterAckError(e) == Nothing

\* The acknowledgement reaches Slack, fails, or is sent and lost.
Acknowledge(e) ==
  /\ taken = Nothing
  /\ e \in owed
  /\ \/ taken' = e /\ owed' = owed \ {e} /\ UNCHANGED <<faults, unsure>>
     \/ taken' = AfterAckError(e) /\ Fault /\ UNCHANGED <<owed, unsure>>
     \/ taken' = e /\ Fault /\ unsure' = [unsure EXCEPT ![e] = @ + 1] /\ UNCHANGED owed
  /\ UNCHANGED <<log, work, handed, ended, died>>

\* translate: a mention needs something beside it; a message counts if a bot
\* other than AlertLens wrote it.
Translated(e) ==
  LET by == log[e.ts].by
      text == log[e.ts].text
  IN /\ by.here
     /\ by.author # "self"
     /\ \/ e.kind = "mention" /\ text # {"mention"}
        \/ e.kind = "message" /\ by.author # "user" /\ ~by.subtype /\ text # {}

\* Submit ignores a message without a marker, and refuses what finds no place.
Submit(e) ==
  /\ handed' = [handed EXCEPT ![e] = @ + 1]
  /\ \/ /\ e.kind = "mention" \/ "marker" \in log[e.ts].text
        /\ work' = work \cup {e}
        /\ UNCHANGED ended
     \/ ended' = ended \cup {e} /\ UNCHANGED work

Handle ==
  /\ taken \in Envelopes
  /\ IF Translated(taken) THEN Submit(taken) ELSE UNCHANGED <<work, handed, ended>>
  /\ taken' = Nothing
  /\ UNCHANGED <<slackSide, faults, unsure, died>>

---------------------------------------------------------------------------
(* The service and the process *)

Finish(e) ==
  /\ e \in work
  /\ work' = work \ {e}
  /\ ended' = ended \cup {e}
  /\ UNCHANGED <<slackSide, taken, faults, unsure, handed, died>>

\* What the process had acknowledged, it forgets.
Restart ==
  /\ Fault
  /\ taken' = Nothing /\ work' = {}
  /\ died' = died \cup ({taken} \cap Envelopes) \cup work
  /\ UNCHANGED <<slackSide, unsure, handed, ended>>

ChannelNext ==
  \/ Write
  \/ \E e \in Envelopes : Acknowledge(e) \/ Finish(e)
  \/ Handle
  \/ Restart

ChannelSpec == ChannelInit /\ [][ChannelNext]_channelVars

\* Slack delivers what it owes, the consumer's goroutine runs, and the service
\* settles what it has accepted (AcceptedEnds of ServiceProperties).
FairChannelSpec ==
  /\ ChannelSpec
  /\ \A e \in Envelopes : SF_channelVars(Acknowledge(e)) /\ WF_channelVars(Finish(e))
  /\ WF_channelVars(Handle)

---------------------------------------------------------------------------
(* Properties *)

\* 2026-07-11-alertlens-design.md:95: redelivery can repeat work, but only for an
\* event whose acknowledgement did not reach Slack; a restart repeats nothing.
RepeatsOnlyLostAcks == \A e \in Envelopes : handed[e] <= 1 + unsure[e]

\* However acknowledgements fail and whenever the process starts again: a
\* question to AlertLens is settled in the end, unless the process died between
\* its acknowledgement and its answer.
QuestionsEnd ==
  \A e \in [ts : 1 .. MaxMessages, kind : {"mention"}] :
    (e \in owed /\ Translated(e)) ~> e \in ended \cup died

=============================================================================
