--------------------------- MODULE ProcessProofs ---------------------------
(***************************************************************************)
(* Theorems about the process and the messages it takes.  Serve: what the  *)
(* process leaves behind and what it reports when serve returns, whichever *)
(* of its parts stops first.  Channel: redelivery repeats only what Slack  *)
(* could not know, for any number of messages and of faults, although a    *)
(* process that dies forgets everything.                                   *)
(***************************************************************************)
EXTENDS Serve, Channel, TLAPS

---------------------------------------------------------------------------
(* Serve: the inductive invariant *)

Stages == {"starting", "waiting", "woken", "selected", "awaitServer", "awaitSlack",
           "awaitService", "returned"}

\* serve has left its select.
Selected == main \in {"selected", "awaitServer", "awaitSlack", "awaitService", "returned"}

ServeType ==
  /\ signalled \in BOOLEAN /\ cancelled \in BOOLEAN /\ closing \in BOOLEAN
  /\ connected \in BOOLEAN /\ socketErr \in BOOLEAN /\ mishap \in BOOLEAN
  /\ main \in Stages
  /\ woken \in Cases \cup {"none"}
  /\ http \in {"serving", "stopped"}
  /\ serverErr \in {<<>>, <<"closed">>, <<"error">>}
  /\ slack \in {"auth", "running", "stopping", "drained", "marked", "done"}
  /\ slackErr \in {<<>>, <<"nil">>, <<"error">>}
  /\ consumer \in {"absent", "idle", "handling", "done"}
  /\ service \in {"running", "done"}
  /\ result \in {"none", "serve", "slack", "stopped", "shutdown"}

\* Where serve is tells what it has done: it waits only while nothing has
\* happened, was woken by something that is ready, and cancels and closes only
\* after its select.
MainInv ==
  /\ cancelled <=> Selected
  /\ closing => Selected
  /\ main \in {"awaitServer", "awaitSlack", "awaitService", "returned"} => closing
  /\ woken = "none" <=> main \in {"starting", "waiting"}
  /\ main = "waiting" => \A c \in Cases : ~Ready(c)
  /\ main = "woken" => Ready(woken)
  /\ woken = "signal" => signalled

\* What has not returned has sent nothing, so serve has received nothing of it.
SendersInv ==
  /\ http = "serving" =>
       /\ serverErr = <<>>
       /\ ~(Selected /\ woken = "server")
       /\ main \notin {"awaitSlack", "awaitService", "returned"}
  /\ slack # "done" =>
       /\ slackErr = <<>>
       /\ ~(Selected /\ woken = "slack")
       /\ main \notin {"awaitService", "returned"}
  /\ main = "returned" => service = "done"

\* The consumer lives from the authentication to the end of RunContext, and the
\* flag that it sets is cleared after it.
ConsumerInv ==
  /\ slack = "auth" => consumer = "absent"
  /\ slack \in {"running", "stopping"} => consumer # "absent"
  /\ slack \in {"drained", "marked"} => consumer = "done"
  /\ slack = "done" => consumer \in {"absent", "done"}
  /\ slack \in {"auth", "marked", "done"} => ~connected

\* What serve took of a part that stopped by itself is its result.
ReportInv ==
  /\ serverErr = <<"closed">> => closing
  /\ Selected /\ woken \in {"server", "slack"} => result # "none"

\* As long as nothing stopped by itself only the signal ends anything, and it
\* finds serve in its select.
GraceInv ==
  ~mishap =>
    /\ serverErr # <<"error">>
    /\ slack \notin {"auth", "running"} => RunDone
    /\ main = "starting" => ~signalled
    /\ woken \in {"none", "signal"}
    /\ result = "none"

ServeInv == ServeType /\ MainInv /\ SendersInv /\ ConsumerInv /\ ReportInv /\ GraceInv

\* The select takes a case that is ready, at once or when it is woken by it.
LEMMA CaseKeeps ==
  ASSUME ServeInv, NEW c \in Cases, Ready(c), TakeCase(c),
         main = "starting" \/ (main = "woken" /\ c = woken)
  PROVE  ServeInv'
<1> USE DEF Cases, Ready, RunDone, Selected, TakeCase, CancelRun, SlackResult
<1>1. ServeType'
  BY DEF ServeInv, ServeType, Stages
<1>2. MainInv'
  BY DEF ServeInv, ServeType, Stages, MainInv
<1>3. SendersInv'
  BY DEF ServeInv, ServeType, Stages, MainInv, SendersInv
<1>4. ConsumerInv'
  BY DEF ServeInv, ConsumerInv
<1>5. ReportInv'
  BY DEF ServeInv, ServeType, Stages, MainInv, ReportInv
<1>6. GraceInv'
  BY DEF ServeInv, ServeType, Stages, MainInv, SendersInv, ReportInv, GraceInv
<1> QED BY <1>1, <1>2, <1>3, <1>4, <1>5, <1>6 DEF ServeInv

\* Every step keeps the invariant.
LEMMA StepKeeps == ServeInv /\ [Next]_vars => ServeInv'
<1> SUFFICES ASSUME ServeInv, [Next]_vars PROVE ServeInv'
  OBVIOUS
<1> USE DEF Cases, Ready, RunDone, Selected, vars, mainVars, httpVars, slackVars
<1>1. CASE Signal
  <2>1. ServeType'
    BY <1>1 DEF Signal, Wakes, ServeInv, ServeType, Stages
  <2>2. MainInv'
    BY <1>1 DEF Signal, Wakes, ServeInv, ServeType, Stages, MainInv, SendersInv
  <2>3. SendersInv'
    BY <1>1 DEF Signal, Wakes, ServeInv, ServeType, Stages, MainInv, SendersInv
  <2>4. ConsumerInv'
    BY <1>1 DEF Signal, Wakes, ServeInv, ServeType, ConsumerInv
  <2>5. ReportInv'
    BY <1>1 DEF Signal, Wakes, ServeInv, ServeType, MainInv, SendersInv, ReportInv
  <2>6. GraceInv'
    BY <1>1 DEF Signal, Wakes, ServeInv, ServeType, Stages, MainInv, SendersInv, ReportInv, GraceInv
  <2> QED BY <2>1, <2>2, <2>3, <2>4, <2>5, <2>6 DEF ServeInv
<1>2. ASSUME NEW err \in {"closed", "error"}, ServerReturns(err) PROVE ServeInv'
  <2>1. ServeType'
    <3>1. http' \in {"serving", "stopped"} /\ mishap' \in BOOLEAN /\ serverErr' \in {<<>>, <<"closed">>, <<"error">>}
      BY <1>2 DEF ServerReturns, Wakes, ServeInv, ServeType, Stages
    <3> QED BY <1>2, <3>1 DEF ServerReturns, Wakes, ServeInv, ServeType, Stages
  <2>2. MainInv'
    BY <1>2 DEF ServerReturns, Wakes, ServeInv, ServeType, Stages, MainInv, SendersInv
  <2>3. SendersInv'
    BY <1>2 DEF ServerReturns, Wakes, ServeInv, ServeType, Stages, MainInv, SendersInv
  <2>4. ConsumerInv'
    BY <1>2 DEF ServerReturns, Wakes, ServeInv, ServeType, ConsumerInv
  <2>5. ReportInv'
    BY <1>2 DEF ServerReturns, Wakes, ServeInv, ServeType, MainInv, SendersInv, ReportInv
  <2>6. GraceInv'
    BY <1>2 DEF ServerReturns, Wakes, ServeInv, ServeType, Stages, MainInv, SendersInv, ReportInv, GraceInv
  <2> QED BY <2>1, <2>2, <2>3, <2>4, <2>5, <2>6 DEF ServeInv
<1>3. CASE Authenticate
  BY <1>3 DEF Authenticate, StartConsumer, ServeInv, ServeType, Stages, MainInv, SendersInv, ConsumerInv, ReportInv, GraceInv
<1>4. CASE AuthFails
  <2>1. ServeType'
    BY <1>4 DEF AuthFails, SlackReturns, Wakes, ServeInv, ServeType, Stages
  <2>2. MainInv'
    BY <1>4 DEF AuthFails, SlackReturns, Wakes, ServeInv, ServeType, Stages, MainInv, SendersInv
  <2>3. SendersInv'
    BY <1>4 DEF AuthFails, SlackReturns, Wakes, ServeInv, ServeType, Stages, MainInv, SendersInv
  <2>4. ConsumerInv'
    BY <1>4 DEF AuthFails, SlackReturns, Wakes, ServeInv, ServeType, ConsumerInv
  <2>5. ReportInv'
    BY <1>4 DEF AuthFails, SlackReturns, Wakes, ServeInv, ServeType, MainInv, SendersInv, ReportInv
  <2>6. GraceInv'
    BY <1>4 DEF AuthFails, SlackReturns, Wakes, ServeInv, ServeType, Stages, MainInv, SendersInv, ReportInv, GraceInv
  <2> QED BY <2>1, <2>2, <2>3, <2>4, <2>5, <2>6 DEF ServeInv
<1>5. CASE SocketEnds
  <2>1. ServeType'
    BY <1>5 DEF SocketEnds, ServeInv, ServeType, Stages
  <2>2. MainInv'
    BY <1>5 DEF SocketEnds, ServeInv, ServeType, Stages, MainInv, SendersInv
  <2>3. SendersInv'
    BY <1>5 DEF SocketEnds, ServeInv, ServeType, Stages, MainInv, SendersInv
  <2>4. ConsumerInv'
    BY <1>5 DEF SocketEnds, ServeInv, ServeType, ConsumerInv
  <2>5. ReportInv'
    BY <1>5 DEF SocketEnds, ServeInv, ServeType, MainInv, SendersInv, ReportInv
  <2>6. GraceInv'
    BY <1>5 DEF SocketEnds, ServeInv, ServeType, Stages, MainInv, SendersInv, ReportInv, GraceInv
  <2> QED BY <2>1, <2>2, <2>3, <2>4, <2>5, <2>6 DEF ServeInv
<1>6. CASE AwaitConsumer
  BY <1>6 DEF AwaitConsumer, EventsDone, ServeInv, ServeType, Stages, MainInv, SendersInv, ConsumerInv, ReportInv, GraceInv
<1>7. CASE MarkDisconnected
  <2>1. ServeType'
    <3>1. connected' \in BOOLEAN /\ slack' \in {"auth", "running", "stopping", "drained", "marked", "done"}
      BY <1>7 DEF MarkDisconnected, ServeInv, ServeType, Stages
    <3> QED BY <1>7, <3>1 DEF MarkDisconnected, ServeInv, ServeType, Stages
  <2>2. MainInv'
    BY <1>7 DEF MarkDisconnected, ServeInv, ServeType, Stages, MainInv, SendersInv
  <2>3. SendersInv'
    BY <1>7 DEF MarkDisconnected, ServeInv, ServeType, Stages, MainInv, SendersInv
  <2>4. ConsumerInv'
    BY <1>7 DEF MarkDisconnected, ServeInv, ServeType, ConsumerInv
  <2>5. ReportInv'
    BY <1>7 DEF MarkDisconnected, ServeInv, ServeType, MainInv, SendersInv, ReportInv
  <2>6. GraceInv'
    BY <1>7 DEF MarkDisconnected, ServeInv, ServeType, Stages, MainInv, SendersInv, ReportInv, GraceInv
  <2> QED BY <2>1, <2>2, <2>3, <2>4, <2>5, <2>6 DEF ServeInv
<1>8. CASE ReportSlack
  BY <1>8 DEF ReportSlack, SlackReturns, Wakes, ServeInv, ServeType, Stages, MainInv, SendersInv, ConsumerInv, ReportInv, GraceInv
<1>9. CASE ConsumeEvent
  BY <1>9 DEF ConsumeEvent, ServeInv, ServeType, Stages, MainInv, SendersInv, ConsumerInv, ReportInv, GraceInv
<1>10. CASE HandlerReturns
  BY <1>10 DEF HandlerReturns, ServeInv, ServeType, Stages, MainInv, SendersInv, ConsumerInv, ReportInv, GraceInv
<1>11. CASE ConsumeEnds
  BY <1>11 DEF ConsumeEnds, ConsumeDone, ServeInv, ServeType, Stages, MainInv, SendersInv, ConsumerInv, ReportInv, GraceInv
<1>12. CASE ServiceReturns
  BY <1>12 DEF ServiceReturns, ServeInv, ServeType, Stages, MainInv, SendersInv, ConsumerInv, ReportInv, GraceInv
<1>13. CASE Select
  <2>1. CASE \E c \in Cases : Ready(c) /\ TakeCase(c)
    <3>1. PICK c \in Cases : Ready(c) /\ TakeCase(c)
      BY <2>1
    <3>2. main = "starting"
      BY <1>13 DEF Select
    <3> HIDE DEF Cases, Ready
    <3> QED BY <3>1, <3>2, CaseKeeps
  <2>2. CASE main' = "waiting"
    BY <1>13, <2>2 DEF Select, TakeCase, ServeInv, ServeType, Stages, MainInv, SendersInv, ConsumerInv, ReportInv, GraceInv
  <2> QED BY <1>13, <2>1, <2>2 DEF Select
<1>14. CASE Wake
  <2>1. woken \in Cases /\ Ready(woken) /\ main = "woken" /\ TakeCase(woken)
    BY <1>14 DEF Wake, ServeInv, ServeType, MainInv
  <2> QED BY <2>1, CaseKeeps
<1>15. CASE CloseListener
  BY <1>15 DEF CloseListener, ServeInv, ServeType, Stages, MainInv, SendersInv, ConsumerInv, ReportInv, GraceInv
<1>16. CASE ShutdownReturns
  <2>1. ServeType'
    <3>1. main' \in Stages /\ mishap' \in BOOLEAN
          /\ result' \in {"none", "serve", "slack", "stopped", "shutdown"}
      BY <1>16 DEF ShutdownReturns, ServeInv, ServeType, Stages
    <3> QED BY <1>16, <3>1 DEF ShutdownReturns, ServeInv, ServeType, Stages
  <2>2. MainInv'
    BY <1>16 DEF ShutdownReturns, ServeInv, ServeType, Stages, MainInv, SendersInv
  <2>3. SendersInv'
    BY <1>16 DEF ShutdownReturns, ServeInv, ServeType, Stages, MainInv, SendersInv
  <2>4. ConsumerInv'
    BY <1>16 DEF ShutdownReturns, ServeInv, ServeType, ConsumerInv
  <2>5. ReportInv'
    BY <1>16 DEF ShutdownReturns, ServeInv, ServeType, MainInv, SendersInv, ReportInv
  <2>6. GraceInv'
    BY <1>16 DEF ShutdownReturns, ServeInv, ServeType, Stages, MainInv, SendersInv, ReportInv, GraceInv
  <2> QED BY <2>1, <2>2, <2>3, <2>4, <2>5, <2>6 DEF ServeInv
<1>17. CASE AwaitServer
  BY <1>17 DEF AwaitServer, ServeInv, ServeType, Stages, MainInv, SendersInv, ConsumerInv, ReportInv, GraceInv
<1>18. CASE AwaitSlack
  BY <1>18 DEF AwaitSlack, LateError, ServeInv, ServeType, Stages, MainInv, SendersInv, ConsumerInv, ReportInv, GraceInv
<1>19. CASE AwaitService
  BY <1>19 DEF AwaitService, ServiceDone, ServeInv, ServeType, Stages, MainInv, SendersInv, ConsumerInv, ReportInv, GraceInv
<1>20. CASE Terminated
  BY <1>20 DEF Terminated, ServeInv, ServeType, Stages, MainInv, SendersInv, ConsumerInv, ReportInv, GraceInv
<1>21. CASE UNCHANGED vars
  BY <1>21 DEF ServeInv, ServeType, Stages, MainInv, SendersInv, ConsumerInv, ReportInv, GraceInv
<1> QED BY <1>1, <1>2, <1>3, <1>4, <1>5, <1>6, <1>7, <1>8, <1>9, <1>10, <1>11, <1>12, <1>13, <1>14, <1>15, <1>16, <1>17, <1>18, <1>19, <1>20, <1>21 DEF Next, SlackStep, ConsumerStep, MainStep

\* The invariant holds in every reachable state.
LEMMA ServeInvariant == Spec => []ServeInv
<1>1. Init => ServeInv
  <2> SUFFICES ASSUME Init PROVE ServeInv
    OBVIOUS
  <2> USE DEF Init, Selected, RunDone, Ready, Cases
  <2>1. ServeType
    BY DEF ServeType, Stages
  <2>2. MainInv
    BY DEF MainInv
  <2>3. SendersInv
    BY DEF SendersInv
  <2>4. ConsumerInv
    BY DEF ConsumerInv
  <2>5. ReportInv
    BY DEF ReportInv
  <2>6. GraceInv
    BY DEF GraceInv
  <2> QED BY <2>1, <2>2, <2>3, <2>4, <2>5, <2>6 DEF ServeInv
<1> QED BY <1>1, StepKeeps, PTL DEF Spec

---------------------------------------------------------------------------
(* Serve: the properties *)

\* serve returns only after the HTTP server, the Slack client with its consumer
\* and the service have returned.
THEOREM NothingIsLeftBehind == Spec => []NothingLeftBehind
<1>1. ServeInv => NothingLeftBehind
  BY DEF ServeInv, ServeType, SendersInv, ConsumerInv, NothingLeftBehind
<1> QED BY <1>1, ServeInvariant, PTL

\* After the Slack client's Run the process is not ready and no event is handled.
THEOREM UnreadyOnceItReturned == Spec => []UnreadyAfterRun
<1>1. ServeInv => UnreadyAfterRun
  BY DEF ServeInv, ConsumerInv, UnreadyAfterRun
<1> QED BY <1>1, ServeInvariant, PTL

\* Without a signal serve returns an error.
THEOREM EveryStopIsReported == Spec => []StopIsReported
<1>1. ServeInv => StopIsReported
  BY DEF ServeInv, ServeType, MainInv, ReportInv, Selected, Cases, StopIsReported
<1> QED BY <1>1, ServeInvariant, PTL

\* When the signal comes after serve has reached its select and nothing stops by
\* itself before it, serve returns no error, whatever the signal makes the Slack
\* client return.  (A signal before the select is a mishap: see GracefulExit.)
THEOREM SignalIsGraceful == Spec => []GracefulExit
<1>1. ServeInv => GracefulExit
  BY DEF ServeInv, GraceInv, GracefulExit
<1> QED BY <1>1, ServeInvariant, PTL

---------------------------------------------------------------------------
(* Channel *)

\* Types of the state that the theorems are about.
ChannelTypes ==
  /\ log \in Seq([by : Writers, text : Texts])
  /\ owed \subseteq Envelopes
  /\ taken \in Envelopes \cup {Nothing}
  /\ work \subseteq Envelopes
  /\ unsure \in [Envelopes -> Nat]
  /\ handed \in [Envelopes -> Nat]

Count(condition) == IF condition THEN 1 ELSE 0

\* An envelope is delivered once more than acknowledgements for it were lost: what
\* is owed, what the consumer holds and what was handed over add up.
Accounted ==
  \A e \in Envelopes :
    handed[e] + Count(taken = e) + Count(e \in owed) <= 1 + unsure[e]

\* Nothing is delivered of a message that is not yet written.
Unwritten ==
  \A e \in Envelopes : e.ts > Len(log) => e \notin owed /\ taken # e /\ handed[e] = 0

Inv == ChannelTypes /\ Accounted /\ Unwritten

\* The consumer without an envelope holds none of them.
LEMMA NothingIsNoEnvelope == Nothing \notin Envelopes
  BY DEF Nothing, Envelopes

\* Nothing is delivered or written at first.
LEMMA InitInv == ChannelInit => Inv
<1> SUFFICES ASSUME ChannelInit PROVE Inv
  OBVIOUS
<1>1. ChannelTypes
  BY DEF ChannelInit, ChannelTypes
<1>2. Accounted /\ Unwritten
  BY NothingIsNoEnvelope DEF ChannelInit, Accounted, Unwritten, Count
<1> QED BY <1>1, <1>2 DEF Inv

\* Slack owes the envelopes of a new message once.
LEMMA WriteInv == ASSUME Inv, Write PROVE Inv'
<1> DEFINE ts == Len(log) + 1
<1>1. PICK by \in Writers, text \in Texts :
        /\ log' = Append(log, [by |-> by, text |-> text])
        /\ owed' = owed \cup {[ts |-> ts, kind |-> kind] :
                               kind \in {"message"} \cup ({"mention"} \cap text)}
  BY DEF Write
<1>2. Len(log) \in Nat /\ ts <= MaxMessages /\ ts \in 1 .. MaxMessages
  BY ChannelAssumption DEF Inv, ChannelTypes, Write
<1>3. UNCHANGED <<taken, work, handed, unsure>>
  BY DEF Write, ghostVars
<1>4. log' \in Seq([by : Writers, text : Texts]) /\ Len(log') = ts
  BY <1>1 DEF Inv, ChannelTypes
<1>5. \A e \in owed' : e \in owed \/ e.ts = ts
  BY <1>1
<1>6. owed' \subseteq Envelopes
  BY <1>1, <1>2 DEF Inv, ChannelTypes, Envelopes
<1>7. ChannelTypes'
  BY <1>3, <1>4, <1>6 DEF Inv, ChannelTypes
<1>8. \A e \in Envelopes : e.ts \in Nat
  BY ChannelAssumption DEF Envelopes
<1>9. Accounted'
  <2> SUFFICES ASSUME NEW e \in Envelopes
      PROVE (handed[e] + Count(taken = e) + Count(e \in owed) <= 1 + unsure[e])'
    BY DEF Accounted
  <2>1. CASE e.ts = ts
    <3>1. e.ts > Len(log)
      BY <2>1, <1>2
    <3>2. e \notin owed /\ taken # e /\ handed[e] = 0
      BY <3>1 DEF Inv, Unwritten
    <3> QED BY <3>2, <1>3 DEF Count, Inv, ChannelTypes
  <2>2. CASE e.ts # ts
    BY <2>2, <1>3, <1>5 DEF Count, Inv, Accounted, ChannelTypes
  <2> QED BY <2>1, <2>2
<1>10. Unwritten'
  BY <1>2, <1>3, <1>4, <1>5, <1>8 DEF Inv, Unwritten
<1> QED BY <1>7, <1>9, <1>10 DEF Inv

\* An envelope moves to the consumer; it stays owed only if the ack was lost.
LEMMA AcknowledgeInv == ASSUME Inv, NEW e \in Envelopes, Acknowledge(e) PROVE Inv'
<1>1. log' = log /\ work' = work /\ handed' = handed /\ e \in owed /\ taken = Nothing
  BY DEF Acknowledge
<1>2. \/ taken' = e /\ owed' = owed \ {e} /\ unsure' = unsure
      \/ taken' = Nothing /\ owed' = owed /\ unsure' = unsure
      \/ taken' = e /\ owed' = owed /\ unsure' = [unsure EXCEPT ![e] = @ + 1]
  BY DEF Acknowledge, AfterAckError
<1>3. ChannelTypes'
  BY <1>1, <1>2 DEF Inv, ChannelTypes
<1>4. Accounted'
  BY <1>1, <1>2, NothingIsNoEnvelope DEF Inv, Accounted, ChannelTypes, Count
<1>5. Unwritten'
  BY <1>1, <1>2, NothingIsNoEnvelope DEF Inv, Unwritten
<1> QED BY <1>3, <1>4, <1>5 DEF Inv

\* What the consumer hands over it no longer holds.
LEMMA HandleInv == ASSUME Inv, Handle PROVE Inv'
<1>1. log' = log /\ owed' = owed /\ unsure' = unsure /\ taken' = Nothing /\ taken \in Envelopes
  BY DEF Handle, slackSide
<1>2. handed' = handed \/ handed' = [handed EXCEPT ![taken] = @ + 1]
  BY DEF Handle, Submit
<1>3. work' \subseteq Envelopes
  BY DEF Handle, Submit, Inv, ChannelTypes
<1>4. ChannelTypes'
  BY <1>1, <1>2, <1>3 DEF Inv, ChannelTypes
<1>5. Accounted'
  <2> SUFFICES ASSUME NEW e \in Envelopes
      PROVE (handed[e] + Count(taken = e) + Count(e \in owed) <= 1 + unsure[e])'
    BY DEF Accounted
  <2>1. handed[e] \in Nat /\ unsure[e] \in Nat /\ taken' # e
    BY <1>1, NothingIsNoEnvelope DEF Inv, ChannelTypes
  <2>2. handed'[e] <= handed[e] + Count(taken = e)
    BY <1>1, <1>2, <2>1 DEF Inv, ChannelTypes, Count
  <2>3. handed[e] + Count(taken = e) + Count(e \in owed) <= 1 + unsure[e]
    BY DEF Inv, Accounted
  <2> QED BY <1>1, <1>4, <2>1, <2>2, <2>3 DEF Count, ChannelTypes
<1>6. Unwritten'
  BY <1>1, <1>2, NothingIsNoEnvelope DEF Inv, Unwritten, ChannelTypes
<1> QED BY <1>4, <1>5, <1>6 DEF Inv

\* Work that ends or is lost is not handed over again.
LEMMA ForgetInv == ASSUME Inv, Restart \/ (\E e \in Envelopes : Finish(e)) PROVE Inv'
<1>1. log' = log /\ owed' = owed /\ unsure' = unsure /\ handed' = handed
      /\ taken' \in {taken, Nothing} /\ work' \subseteq work
  BY DEF Restart, Finish, slackSide
<1>2. ChannelTypes'
  BY <1>1 DEF Inv, ChannelTypes
<1>3. Accounted'
  BY <1>1, NothingIsNoEnvelope DEF Inv, Accounted, ChannelTypes, Count
<1>4. Unwritten'
  BY <1>1, NothingIsNoEnvelope DEF Inv, Unwritten
<1> QED BY <1>2, <1>3, <1>4 DEF Inv

\* Every step keeps the invariant.
LEMMA StepInv == Inv /\ [ChannelNext]_channelVars => Inv'
<1> SUFFICES ASSUME Inv, [ChannelNext]_channelVars PROVE Inv'
  OBVIOUS
<1>1. CASE UNCHANGED channelVars
  BY <1>1 DEF channelVars, slackSide, ghostVars, Inv, ChannelTypes, Accounted, Unwritten
<1>2. CASE Write
  BY <1>2, WriteInv
<1>3. CASE \E e \in Envelopes : Acknowledge(e)
  BY <1>3, AcknowledgeInv
<1>4. CASE Handle
  BY <1>4, HandleInv
<1>5. CASE Restart \/ (\E e \in Envelopes : Finish(e))
  BY <1>5, ForgetInv
<1> QED BY <1>1, <1>2, <1>3, <1>4, <1>5 DEF ChannelNext

\* So it always holds.
LEMMA InvAlways == ChannelSpec => []Inv
BY InitInv, StepInv, PTL DEF ChannelSpec

\* An event becomes work again only if Slack never got an acknowledgement that was
\* sent for it, whatever else fails and however often the process dies.
THEOREM OnlyLostAcksRepeat == ChannelSpec => []RepeatsOnlyLostAcks
<1>1. Inv => RepeatsOnlyLostAcks
  <2> SUFFICES ASSUME Inv, NEW e \in Envelopes PROVE handed[e] <= 1 + unsure[e]
    BY DEF RepeatsOnlyLostAcks
  <2>1. handed[e] + Count(taken = e) + Count(e \in owed) <= 1 + unsure[e]
    BY DEF Inv, Accounted
  <2> QED BY <2>1 DEF Inv, ChannelTypes, Count
<1> QED BY <1>1, InvAlways, PTL

=============================================================================
