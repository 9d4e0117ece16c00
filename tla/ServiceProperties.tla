------------------------- MODULE ServiceProperties -------------------------
(***************************************************************************)
(* What must hold of Service, the fairness under which it makes progress,  *)
(* and the abstract WorkPool it implements.                                *)
(***************************************************************************)
EXTENDS Service

---------------------------------------------------------------------------
(* Fairness *)

\* Slack's HTTP client has no timeout: a call may last as long as its context.
SlackCallPending(p) ==
  \/ todo[p] # <<>> /\ Head(todo[p]).op # "count"
  \/ p \in Scheduled /\ sub[p] = "post"
  \/ /\ p \in Workers /\ todo[p] = <<>>
     /\ wpc[p] = "history" \/ (wpc[p] = "deliver" /\ answer[p].sent < PartsToSend(p))

MayHang(p) == Alive(p) /\ SlackCallPending(p)

\* Goroutines that are not inside a hanging call keep running, and deadlines pass.
\* Alertmanager and Holmes are called through clients with a timeout, so those
\* calls end.
Fairness ==
  /\ \A i \in Items : WF_vars(SubmitterStep(i) /\ ~MayHang(i))
  /\ \A w \in Workers : WF_vars(WorkerStep(w) /\ ~MayHang(w))
  /\ WF_vars(RunStep)
  /\ WF_vars(CloserStep)
  /\ WF_vars(TimeLimit)

FairSpec == Spec /\ Fairness

\* Slack answers every call in the end.
ResponsiveSpec ==
  /\ Spec
  /\ \A i \in Items : WF_vars(SubmitterStep(i))
  /\ \A w \in Workers : WF_vars(WorkerStep(w))
  /\ WF_vars(RunStep)
  /\ WF_vars(CloserStep)

---------------------------------------------------------------------------
(* Properties *)

Stages == {"serving", "cancelled", "draining", "timedout", "forced", "returned"}
SubmitterStates == {"new", "offering", "accepted", "dropped", "rejected", "ignored",
                    "post", "root", "refused", "failed"}
WorkerStates == {"idle", "received", "lock", "verify", "history", "chat", "deliver",
                 "finish", "exited"}

TypeOK ==
  /\ stage \in Stages
  /\ intake \in {"open", "closing", "closed"}
  /\ queue \in Seq(Items) /\ Len(queue) <= QueueSize
  /\ sub \in [Items -> SubmitterStates]
  /\ todo \in [Items \cup Workers -> Seq(Calls)]
  /\ wpc \in [Workers -> WorkerStates]
  /\ job \in [Workers -> Items \cup {None}]
  /\ ctx \in [Workers -> {"work", "background", "deadline", "fresh"}]
  /\ answer \in [Workers -> [parts : 0 .. MaxParts + 1, failed : BOOLEAN,
                            tooLarge : BOOLEAN, sent : 0 .. MaxParts]]
  /\ lock \in [Stripes -> Workers \cup {None}]
  /\ replyCtx \in {"background", "deadline"}
  /\ expired \subseteq {"consumer", "deadline"} \cup Workers
  /\ reactions \in [Messages -> SUBSET Reactions]
  /\ thread \in [Messages -> Seq([item : Items, kind : Replies])]
  /\ metrics \in [Labels -> Nat]
  /\ finished \in SUBSET Items
  /\ abandoned \in SUBSET Items
  /\ whole \in [Items -> 0 .. MaxParts]

\* Submit sends while it holds the read lock it took before it asked Slack for
\* the eyes reaction; the queue is not closed under it, which would panic.
NoSendOnClosedQueue == \A i \in Items : sub[i] = "offering" => intake # "closed"

\* SubmitScheduled's refusal is never taken: the queue stays open until the
\* scheduler's last job has ended, however long its Post takes.
CronNeverRefused == \A i \in Items : sub[i] # "refused"

RepliesOf(i) ==
  {r.kind : r \in {thread[Thread[i]][k] : k \in DOMAIN thread[Thread[i]]} \cap [item : {i}, kind : Replies]}
FailedVisibly(i) == RepliesOf(i) \cap FailureReplies # {}

\* The shutdown has not run out of time.
Graceful == replyCtx = "background"

\* The parts of one answer, and the failure that cuts it short, are never
\* interleaved with another item's replies in the same thread.  (The one reply
\* written without the thread lock is that of a run whose intake failed.)
RepliesContiguous ==
  Graceful =>
    \A m \in Messages : \A a, b, c \in DOMAIN thread[m] :
      a < b /\ b < c /\ thread[m][a].item = thread[m][c].item
        => thread[m][b].item = thread[m][a].item \/ thread[m][b].kind = "intake"

\* Nothing is left to do for item i.
Settled(i) ==
  /\ todo[i] = <<>>
  /\ \/ sub[i] \in {"dropped", "rejected", "ignored", "refused", "failed"}
     \/ sub[i] = "accepted" /\ i \in finished

\* The reaction that stands for the way item i ended.
EndShown(i) ==
  CASE sub[i] \in {"ignored", "failed"} -> {}
    [] sub[i] \in {"rejected", "dropped", "refused"} -> {"x"}
    [] OTHER -> IF Kind[i] = "resolved" THEN {"green"}
                ELSE IF FailedVisibly(i) THEN {"x"} ELSE {"check"}

\* Slack events turned away when the consumer's context may have ended: Submit marks
\* them on that context, or not at all when the intake is closed.
TurnedAway(i, at) == i \in SlackItems /\ sub[i] \in at /\ ~ConsumerLives

\* When Slack answers and the shutdown is graceful, a message whose items have
\* all ended shows exactly how they ended: no eyes or hourglass stays behind,
\* x is there if and only if a failure was posted, also after a redelivery.  Of
\* events that were turned away around the end of the consumer's context, x may be
\* missing and the eyes of one that was dropped may stay; nothing else is wrong
\* even there.
ReactionsSettle ==
  ~SlackFaults /\ Graceful =>
    \A m \in Messages :
      LET here == {i \in Items : Message[i] = m /\ sub[i] # "new"}
          due == UNION {EndShown(i) : i \in here}
          missing == IF \E i \in here : TurnedAway(i, {"dropped", "rejected"}) THEN {"x"} ELSE {}
          left == IF \E i \in here : TurnedAway(i, {"dropped"}) THEN {"eyes"} ELSE {}
      IN (\A i \in here : Settled(i))
           => reactions[m] \subseteq due \cup left /\ due \subseteq reactions[m] \cup missing

\* The parts of item i's answer that its thread shows.
PartsShown(i) ==
  Cardinality({k \in DOMAIN thread[Thread[i]] : thread[Thread[i]][k] = [item |-> i, kind |-> "part"]})

\* Holmes gave item i a whole answer, which no error came with and no limit cut, and
\* all its parts were delivered and nothing else.
AnsweredWhole(i) == whole[i] > 0 /\ PartsShown(i) = whole[i] /\ RepliesOf(i) = {"part"}

\* white_check_mark is never shown for an answer that was cut short, of which a
\* part is missing or which a failure reply follows, whatever Slack does and
\* whenever the shutdown comes.
CheckMeansAnswered ==
  \A m \in Messages :
    "check" \in reactions[m] => \E i \in Items : Message[i] = m /\ AnsweredWhole(i)

\* The reports of runs dropped by a forced shutdown are bounded in time: no
\* worker that sees workCtx cancelled still reads the unbounded reply context.
ForcedReportsBounded == \A w \in Workers : ctx[w] # "background"

\* No report has run into its deadline: five seconds for all runs that were still
\* queued when the drain timed out, and for each request that was under way.
ReportsInTime == expired \subseteq {"consumer"}

\* A scheduled run never vanishes: when Slack answers, and in time, a run that
\* ended left a reply in its thread or at least the hourglass on its root, even
\* when it was still queued at the forced cancellation.  After the deadline a
\* queued run is skipped without a trace but its root and the counter.
NoRunVanishes ==
  ~SlackFaults /\ ReportsInTime =>
    \A i \in Scheduled \cap finished : RepliesOf(i) # {} \/ "hourglass" \in reactions[Message[i]]

\* Only the forced shutdown skips accepted work, and never a scheduled run.
OnlyForcedSkips ==
  abandoned # {} => Cancelled /\ replyCtx = "deadline" /\ abandoned \cap Scheduled = {}

\* Once everything has ended, every run is counted exactly once, every accepted
\* Slack event is counted as accepted once, and every handled or rejected one
\* has exactly one outcome (scheduled runs that fail at Holmes count as failed
\* events too, on top of those).
CountedOnce ==
  (\A i \in Items : sub[i] = "new" \/ i \in abandoned \/ Settled(i)) =>
    LET In(states) == {i \in Items : sub[i] \in states}
        ended == Cardinality(SlackItems \cap (finished \cup In({"rejected"})))
        counted == metrics["firing"] + metrics["freeform"] + metrics["resolved"] + metrics["failed"]
    IN /\ metrics["run_success"] + metrics["run_failed"] = Cardinality(Scheduled \ In({"new"}))
       /\ (\A i \in abandoned : todo[i] = <<>>) =>
            metrics["accepted"] = Cardinality(SlackItems \cap In({"accepted"}))
       /\ counted - ended \in 0 .. metrics["run_failed"]

\* Run returns after SIGTERM even if Slack stops answering: every hanging call
\* is on a context that the forced shutdown cancels or that has a deadline.
ShutdownCompletes == stage = "cancelled" ~> stage = "returned"

\* When Slack answers, every accepted item is handled or, in a forced shutdown,
\* skipped: neither the thread locks nor the pool leave one behind.
AcceptedEnds == \A i \in Items : sub[i] = "accepted" ~> i \in finished \cup abandoned

\* The service implements the pool: see WorkPool.
Pool == INSTANCE WorkPool WITH
  Slots <- Workers, Capacity <- QueueSize,
  pending <- queue, slot <- job, settled <- finished, abandoned <- abandoned,
  closed <- intake = "closed", forced <- replyCtx = "deadline", stopped <- stage = "returned"

\* Accepted work starts in order, is settled exactly once, is abandoned only
\* when the shutdown is forced, none is accepted after the queue is closed and
\* none is left when Run returns.
ImplementsPool == Pool!Spec

---------------------------------------------------------------------------
(* What the documents say of the program, and the code does not keep *)

\* docs/product-design.md: the result of a scheduled run or any subsequent
\* reportable failure is posted in the root's thread.
RunReported == ~SlackFaults /\ ReportsInTime => \A i \in Scheduled \cap finished : RepliesOf(i) # {}

=============================================================================
