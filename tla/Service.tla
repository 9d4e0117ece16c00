------------------------------ MODULE Service ------------------------------
(***************************************************************************)
(* The intake, worker pool and shutdown of AlertLens                       *)
(* (src/internal/service/service.go).                                      *)
(*                                                                         *)
(* Two kinds of process.  An item is one call of Submit (made by the Slack *)
(* consumer, one at a time) or of SubmitScheduled (made by a cron job, any *)
(* number at a time), and keeps the submitter's state.  A worker ranges    *)
(* over the queue.  Run and the goroutine it starts are the stage and the  *)
(* intake.  Each action is the code between two calls that other           *)
(* goroutines can see: a Slack call, a channel or mutex operation, a call  *)
(* of Alertmanager or Holmes.                                              *)
(*                                                                         *)
(* Calls whose error the code drops (reactions, failure replies) and the   *)
(* counters between them are queued in todo[p] in program order, and       *)
(* process p does nothing else until the list is empty.                    *)
(***************************************************************************)
EXTENDS Integers, Sequences, FiniteSets

CONSTANTS
  Items,        \* calls of Submit and SubmitScheduled
  Workers,      \* the goroutines that Run starts
  Messages,     \* Slack messages, by timestamp
  Stripes,      \* the elements of threadLocks
  Kind,         \* what each item asks for
  Message,      \* the message of each item: event.TS
  Thread,       \* the thread it belongs to: ThreadTS, or TS outside a thread
  Stripe,       \* the stripe a thread hashes to
  QueueSize,    \* capacity of the queue
  MaxParts,     \* slackAnswerMaxParts
  SlackFaults,  \* whether a Slack call on a live context may fail
  None          \* no worker, no item

Kinds == {"firing", "resolved", "ask", "scheduled", "invalid", "unmarked"}

Reactions == {"eyes", "hourglass", "check", "green", "x"}
FailureReplies == {"verification", "request", "delivery", "intake", "shutdown"}
Replies == FailureReplies \cup {"part"}
Labels == {"accepted", "ignored", "dropped", "failed", "resolved", "firing",
           "freeform", "run_success", "run_failed"}

ASSUME ServiceAssumption ==
  /\ Items \cap Workers = {}
  /\ None \notin Items \cup Workers
  /\ Workers \cap {"consumer", "deadline"} = {}
  /\ Kind \in [Items -> Kinds]
  /\ Message \in [Items -> Messages]
  /\ Thread \in [Items -> Messages]
  /\ Stripe \in [Messages -> Stripes]
  /\ Workers # {}
  /\ QueueSize \in Nat \ {0}
  /\ MaxParts \in Nat \ {0}
  /\ SlackFaults \in BOOLEAN
  \* Only an Ask is threaded under another message.
  /\ \A i \in Items : Kind[i] # "ask" => Thread[i] = Message[i]
  \* Slack gives every scheduled root a timestamp of its own.
  /\ \A i, j \in Items : Kind[i] = "scheduled" /\ Message[i] = Message[j] => i = j

Scheduled == {i \in Items : Kind[i] = "scheduled"}
SlackItems == Items \ Scheduled

VARIABLES
  stage,      \* where Run is
  intake,     \* intakeMu and accepting, as seen by a submitter
  queue,      \* the channel
  sub,        \* where each submitter is
  todo,       \* best-effort calls and counters each process still has to make
  wpc,        \* where each worker is
  job,        \* the item each worker holds
  ctx,        \* the context of the worker's Slack calls
  answer,     \* what Chat returned, and how many parts are delivered
  lock,       \* owner of each stripe
  replyCtx,   \* forcedReplyContext
  expired,      \* contexts that have ended, beside workCtx: see Alive
  reactions,  \* Slack: the reactions AlertLens shows on each message
  thread,     \* Slack: the replies in each thread, oldest first
  metrics,    \* the counters
  finished,   \* ghost: items whose handling has ended
  abandoned,  \* ghost: items taken after the forced cancellation and skipped
  whole       \* ghost: the parts of the answer Holmes gave; 0: none, or not a whole one

runVars == <<stage, replyCtx, expired>>
workerVars == <<wpc, job, ctx, answer, lock, finished, abandoned, whole>>
slackVars == <<reactions, thread>>
vars == <<stage, intake, queue, sub, todo, wpc, job, ctx, answer, lock,
          replyCtx, expired, reactions, thread, metrics, finished, abandoned,
          whole>>

---------------------------------------------------------------------------
(* The best-effort calls, as lists *)

Calls == [op : {"add", "remove"}, arg : Reactions]
         \cup [op : {"reply"}, arg : Replies]
         \cup [op : {"count"}, arg : Labels]

Add(r) == <<[op |-> "add", arg |-> r]>>
Remove(r) == <<[op |-> "remove", arg |-> r]>>
Reply(k) == <<[op |-> "reply", arg |-> k]>>
Count(l) == <<[op |-> "count", arg |-> l]>>

Transition(remove, add) == Remove(remove) \o Add(add)

\* Mutant: a run whose intake fails is not counted.
FailScheduledIntakeUncounted == Reply("intake") \o Add("x")

FailScheduledIntake == Reply("intake") \o Add("x") \o Count("run_failed")
FailScheduledShutdown == Reply("shutdown") \o Add("x") \o Count("run_failed")
FailVerification == Reply("verification") \o Count("failed") \o Transition("eyes", "x")
\* Mutant: eyes is shown once the event is in the queue.
EyesLate == Add("eyes") \o Count("accepted")
Accepted == Count("accepted")

FailHistory == Count("failed") \o Transition("eyes", "x")

\* What handleScheduled counts when runHolmesFrom returns false.
FailedRun(i) == IF i \in Scheduled THEN Count("run_failed") ELSE <<>>

FailHolmesRequest(i, cancelled) ==
  Count("failed") \o Reply(IF cancelled THEN "shutdown" ELSE "request")
    \o Transition("hourglass", "x") \o FailedRun(i)

FailHolmesAnswerDelivery(i) ==
  Count("failed") \o Reply("delivery") \o Transition("hourglass", "x") \o FailedRun(i)

Succeed(i) ==
  Transition("hourglass", "check")
    \o Count(CASE i \in Scheduled -> "run_success"
               [] Kind[i] = "ask" -> "freeform"
               [] OTHER -> "firing")

Resolve == Transition("eyes", "green") \o Count("resolved")

\* A scheduled root carries no reaction before the hourglass.
BeginHolmes(i) ==
  IF i \in Scheduled THEN Add("hourglass") ELSE Transition("eyes", "hourglass")

---------------------------------------------------------------------------
(* Contexts and what a Slack call on them may do *)

Cancelled == stage \in {"forced", "returned"}

\* The Slack consumer's context ends with the service's, or before, when the
\* connection is given up.  Cron jobs and workers run on workCtx, which only the
\* forced shutdown cancels.  What is reported then has a deadline: one for all
\* runs that are still queued, and one for each request that was under way (a
\* worker has at most one of these, after which it handles nothing more).
ConsumerLives == "consumer" \notin expired

Alive(p) ==
  IF p \in Workers
  THEN CASE ctx[p] = "work" -> ~Cancelled
         [] ctx[p] = "deadline" -> "deadline" \notin expired
         [] ctx[p] = "fresh" -> p \notin expired
         [] OTHER -> TRUE
  ELSE IF p \in Scheduled THEN ~Cancelled ELSE ConsumerLives

\* "lost" is a call that took effect and still returned an error.
Outcomes(p) ==
  IF ~Alive(p) THEN {"failed"}
  ELSE IF SlackFaults THEN {"ok", "lost", "failed"} ELSE {"ok"}

ItemOf(p) == IF p \in Workers THEN job[p] ELSE p

Post(i, k) == thread' = [thread EXCEPT ![Thread[i]] = Append(@, [item |-> i, kind |-> k])]

Apply(c, i) ==
  \/ /\ c.op = "add"
     /\ reactions' = [reactions EXCEPT ![Message[i]] = @ \cup {c.arg}]
     /\ UNCHANGED <<thread, metrics>>
  \/ /\ c.op = "remove"
     /\ reactions' = [reactions EXCEPT ![Message[i]] = @ \ {c.arg}]
     /\ UNCHANGED <<thread, metrics>>
  \/ c.op = "reply" /\ Post(i, c.arg) /\ UNCHANGED <<reactions, metrics>>
  \/ /\ c.op = "count"
     /\ metrics' = [metrics EXCEPT ![c.arg] = @ + 1]
     /\ UNCHANGED <<reactions, thread>>

\* The next call or counter of process p; the error of a call is dropped.
BestEffort(p) ==
  /\ todo[p] # <<>>
  /\ todo' = [todo EXCEPT ![p] = Tail(@)]
  /\ \/ /\ Head(todo[p]).op = "count" \/ Outcomes(p) # {"failed"}
        /\ Apply(Head(todo[p]), ItemOf(p))
     \/ /\ Head(todo[p]).op # "count" /\ "failed" \in Outcomes(p)
        /\ UNCHANGED <<reactions, thread, metrics>>
  /\ UNCHANGED <<runVars, intake, queue, sub, workerVars>>

---------------------------------------------------------------------------
Init ==
  /\ stage = "serving"
  /\ intake = "open"
  /\ queue = <<>>
  /\ sub = [i \in Items |-> "new"]
  /\ todo = [p \in Items \cup Workers |-> <<>>]
  /\ wpc = [w \in Workers |-> "idle"]
  /\ job = [w \in Workers |-> None]
  /\ ctx = [w \in Workers |-> "work"]
  /\ answer = [w \in Workers |-> [parts |-> 0, failed |-> FALSE, tooLarge |-> FALSE, sent |-> 0]]
  /\ lock = [s \in Stripes |-> None]
  /\ replyCtx = "background"
  /\ expired = {}
  /\ reactions = [m \in Messages |-> {}]
  /\ thread = [m \in Messages |-> <<>>]
  /\ metrics = [l \in Labels |-> 0]
  /\ finished = {}
  /\ abandoned = {}
  /\ whole = [i \in Items |-> 0]

---------------------------------------------------------------------------
(* Submit, called by the Slack consumer: one event at a time *)

ConsumerFree == \A i \in SlackItems : sub[i] # "offering" /\ todo[i] = <<>>

\* A user can only write under a scheduled root that has been posted.
ThreadExists(i) ==
  \A j \in Scheduled : Message[j] = Thread[i] /\ i # j => sub[j] \notin {"new", "post", "failed"}

Submitted(i, at, script) ==
  /\ sub' = [sub EXCEPT ![i] = at]
  /\ todo' = [todo EXCEPT ![i] = script]
  /\ UNCHANGED <<runVars, workerVars, slackVars, metrics>>

RejectMarker(i) ==
  /\ Kind[i] = "invalid"
  /\ Submitted(i, "rejected", Count("failed") \o Add("x"))
  /\ UNCHANGED <<intake, queue>>

IgnoreUnmarked(i) ==
  /\ Kind[i] = "unmarked"
  /\ Submitted(i, "ignored", Count("ignored"))
  /\ UNCHANGED <<intake, queue>>

\* RLock succeeds unless the closing goroutine waits for the write lock.
TakeReadLock(i) ==
  /\ Kind[i] \in {"firing", "resolved", "ask"}
  /\ IF intake = "open" THEN Submitted(i, "offering", Add("eyes"))
     ELSE intake = "closed" /\ Submitted(i, "dropped", Count("dropped"))
  /\ UNCHANGED <<intake, queue>>

\* The Slack consumer hands over an event.
Submit(i) ==
  /\ i \in SlackItems
  /\ sub[i] = "new"
  /\ ConsumerFree
  /\ ThreadExists(i)
  /\ RejectMarker(i) \/ IgnoreUnmarked(i) \/ TakeReadLock(i)

\* The select: the read lock is held from TakeReadLock to here.
Offer(i) ==
  /\ i \in SlackItems
  /\ sub[i] = "offering"
  /\ todo[i] = <<>>
  /\ IF Len(queue) < QueueSize
     THEN queue' = Append(queue, i) /\ Submitted(i, "accepted", Accepted)
     ELSE UNCHANGED queue /\ Submitted(i, "dropped", Count("dropped") \o Transition("eyes", "x"))
  /\ UNCHANGED intake

---------------------------------------------------------------------------
(* SubmitScheduled, called by a cron job *)

CronFires(i) ==
  /\ i \in Scheduled
  /\ sub[i] = "new"
  /\ stage \in {"serving", "cancelled"}
  /\ Submitted(i, "post", <<>>)
  /\ UNCHANGED <<intake, queue>>

PostRoot(i) ==
  /\ i \in Scheduled
  /\ sub[i] = "post"
  /\ \E outcome \in Outcomes(i) :
       IF outcome = "ok" THEN Submitted(i, "root", <<>>)
       ELSE Submitted(i, "failed", Count("run_failed"))
  /\ UNCHANGED <<intake, queue>>

\* RLock, the test of accepting and the select; no call in between.
OfferScheduled(i) ==
  /\ i \in Scheduled
  /\ sub[i] = "root"
  /\ intake # "closing"
  /\ IF intake = "closed"
     THEN UNCHANGED queue /\ Submitted(i, "refused", FailScheduledIntake)
     ELSE IF Len(queue) < QueueSize
     THEN queue' = Append(queue, i) /\ Submitted(i, "accepted", <<>>)
     ELSE UNCHANGED queue /\ Submitted(i, "dropped", FailScheduledIntake)
  /\ UNCHANGED intake

\* Mutant: a job counts as done once it has posted its root.
CronPosting == \E i \in Scheduled : sub[i] = "post"
CronRunning == \E i \in Scheduled : sub[i] \in {"post", "root"} \/ todo[i] # <<>>

---------------------------------------------------------------------------
(* A worker: the loop over the queue and handle *)

\* Worker w moves to pc `to`, with `script` to run there first.
Goto(w, to, script) ==
  /\ wpc' = [wpc EXCEPT ![w] = to]
  /\ todo' = [todo EXCEPT ![w] = script]
  /\ UNCHANGED <<runVars, intake, sub, slackVars, metrics>>

At(w, pc) == w \in Workers /\ wpc[w] = pc /\ todo[w] = <<>>

Take(w) ==
  /\ At(w, "idle")
  /\ queue # <<>>
  /\ job' = [job EXCEPT ![w] = Head(queue)]
  /\ queue' = Tail(queue)
  /\ ctx' = [ctx EXCEPT ![w] = "work"]
  /\ Goto(w, "received", <<>>)
  /\ UNCHANGED <<answer, lock, finished, abandoned, whole>>

\* Mutant: nothing that is still queued is reported.
NothingReported(i) == FALSE
ReportedOnShutdown(i) == i \in Scheduled

\* workCtx is already cancelled: only a scheduled run is reported.
SkipCancelled(w) ==
  /\ At(w, "received")
  /\ Cancelled
  /\ IF ReportedOnShutdown(job[w])
     THEN /\ ctx' = [ctx EXCEPT ![w] = replyCtx]
          /\ Goto(w, "finish", FailScheduledShutdown)
          /\ UNCHANGED <<job, abandoned>>
     ELSE /\ abandoned' = abandoned \cup {job[w]}
          /\ job' = [job EXCEPT ![w] = None]
          /\ Goto(w, "idle", <<>>)
          /\ UNCHANGED ctx
  /\ UNCHANGED <<queue, answer, lock, finished, whole>>

\* handle: a resolved notification needs no thread lock.
Dispatch(w) ==
  /\ At(w, "received")
  /\ ~Cancelled
  /\ IF Kind[job[w]] = "resolved" THEN Goto(w, "finish", Resolve) ELSE Goto(w, "lock", <<>>)
  /\ UNCHANGED <<queue, job, ctx, answer, lock, finished, abandoned, whole>>

\* Mutant: the key is the message's own timestamp.
MessageStripe(i) == Stripe[Message[i]]
LockOf(i) == Stripe[Thread[i]]

AfterLock(i) ==
  IF Kind[i] = "firing" THEN "verify"
  ELSE IF Thread[i] # Message[i] THEN "history" ELSE "chat"

LockThread(w) ==
  LET i == job[w] IN
  /\ At(w, "lock")
  /\ lock[LockOf(i)] = None
  /\ lock' = [lock EXCEPT ![LockOf(i)] = w]
  /\ Goto(w, AfterLock(i), IF AfterLock(i) = "chat" THEN BeginHolmes(i) ELSE <<>>)
  /\ UNCHANGED <<queue, job, ctx, answer, finished, abandoned, whole>>

\* Active Alert Verification and the building of the request.
Verify(w) ==
  /\ At(w, "verify")
  /\ \/ ~Cancelled /\ Goto(w, "chat", BeginHolmes(job[w]))
     \/ Goto(w, "finish", FailVerification)
  /\ UNCHANGED <<queue, job, ctx, answer, lock, finished, abandoned, whole>>

ReadHistory(w) ==
  /\ At(w, "history")
  /\ \E outcome \in Outcomes(w) :
       IF outcome = "ok" THEN Goto(w, "chat", BeginHolmes(job[w]))
       ELSE Goto(w, "finish", FailHistory)
  /\ UNCHANGED <<queue, job, ctx, answer, lock, finished, abandoned, whole>>

\* What Chat may return: no analysis at all, an analysis of some parts with or
\* without an error of the request, or an analysis over the byte limit.  A call that the
\* forced cancellation breaks, with what it has read, is one that ended before.
Answers(cancelled) ==
  LET Answer(parts, failed, tooLarge) ==
        [parts : parts, failed : failed, tooLarge : tooLarge, sent : {0}]
  IN Answer({0}, {TRUE}, {FALSE})
     \cup IF cancelled THEN {}
          ELSE Answer(1 .. MaxParts + 1, BOOLEAN, {FALSE})
               \cup Answer(1 .. MaxParts, BOOLEAN, {TRUE})

\* Mutant: the failure is reported on the worker's context, cancelled or not.
WorkContext == "work"
\* failHolmesRequest looks at the context at this moment.
FailureContext == IF Cancelled THEN "fresh" ELSE "work"

RequestFails(w) ==
  /\ ctx' = [ctx EXCEPT ![w] = FailureContext]
  /\ Goto(w, "finish", FailHolmesRequest(job[w], Cancelled))

DeliveryFails(w) ==
  /\ Goto(w, "finish", FailHolmesAnswerDelivery(job[w]))
  /\ UNCHANGED ctx

Chat(w) ==
  /\ At(w, "chat")
  /\ \E a \in Answers(Cancelled) :
       /\ answer' = [answer EXCEPT ![w] = a]
       /\ whole' = [whole EXCEPT ![job[w]] =
                      IF a.failed \/ a.tooLarge \/ a.parts > MaxParts THEN 0 ELSE a.parts]
       /\ IF a.parts = 0 THEN RequestFails(w)
          ELSE Goto(w, "deliver", <<>>) /\ UNCHANGED ctx
  /\ UNCHANGED <<queue, job, lock, finished, abandoned>>

\* Mutant: the number of parts is not limited.
AllParts(w) == answer[w].parts

PartsToSend(w) == IF answer[w].parts > MaxParts THEN MaxParts ELSE answer[w].parts

\* Mutant: the error of a part's Reply is dropped.
NoOutcomeFails(outcome) == FALSE
DeliveryFailed(outcome) == outcome # "ok"

DeliverPart(w) ==
  /\ At(w, "deliver")
  /\ answer[w].sent < PartsToSend(w)
  /\ \E outcome \in Outcomes(w) :
       /\ IF outcome = "failed" THEN UNCHANGED thread ELSE Post(job[w], "part")
       /\ answer' = [answer EXCEPT ![w].sent = @ + 1]
       /\ IF DeliveryFailed(outcome)
          THEN /\ wpc' = [wpc EXCEPT ![w] = "finish"]
               /\ todo' = [todo EXCEPT ![w] = FailHolmesAnswerDelivery(job[w])]
          ELSE UNCHANGED <<wpc, todo>>
  /\ UNCHANGED <<runVars, intake, queue, sub, job, ctx, lock, reactions, metrics,
                 finished, abandoned, whole>>

\* Mutant: the parts beyond the limit are forgotten.
CutByBytes(w) == answer[w].tooLarge
CutShort(w) == answer[w].tooLarge \/ answer[w].parts > MaxParts

\* All parts are out: the error of the request, the byte limit and the part
\* limit are looked at in this order.
Conclude(w) ==
  /\ At(w, "deliver")
  /\ answer[w].sent = PartsToSend(w)
  /\ IF answer[w].failed THEN RequestFails(w)
     ELSE IF CutShort(w) THEN DeliveryFails(w)
     ELSE Goto(w, "finish", Succeed(job[w])) /\ UNCHANGED ctx
  /\ UNCHANGED <<queue, job, answer, lock, finished, abandoned, whole>>

\* The deferred unlock, and back to the queue.
Finish(w) ==
  /\ At(w, "finish")
  /\ lock' = [s \in Stripes |-> IF lock[s] = w THEN None ELSE lock[s]]
  /\ finished' = finished \cup {job[w]}
  /\ job' = [job EXCEPT ![w] = None]
  /\ answer' = [answer EXCEPT ![w] = [parts |-> 0, failed |-> FALSE, tooLarge |-> FALSE, sent |-> 0]]
  /\ Goto(w, "idle", <<>>)
  /\ UNCHANGED <<queue, ctx, abandoned, whole>>

\* Mutant: a worker leaves as soon as the queue is closed.
QueueClosed == intake = "closed"
\* The range over a closed, empty channel ends.
RangeEnds == intake = "closed" /\ queue = <<>>

Exit(w) ==
  /\ At(w, "idle")
  /\ RangeEnds
  /\ Goto(w, "exited", <<>>)
  /\ UNCHANGED <<queue, job, ctx, answer, lock, finished, abandoned, whole>>

---------------------------------------------------------------------------
(* Run, and the goroutine that closes the queue *)

Advance(from, to) ==
  /\ stage = from
  /\ stage' = to
  /\ UNCHANGED <<intake, queue, sub, todo, workerVars, slackVars, metrics>>

\* The service's context ends, and the consumer's with it.
Shutdown == Advance("serving", "cancelled") /\ expired' = expired \cup {"consumer"} /\ UNCHANGED replyCtx
StopScheduler == Advance("cancelled", "draining") /\ UNCHANGED <<replyCtx, expired>>

\* <-schedulerDone, then intakeMu.Lock() is called.
SchedulerStopped ==
  /\ stage \in {"draining", "timedout", "forced"}
  /\ intake = "open"
  /\ ~CronRunning
  /\ intake' = "closing"
  /\ UNCHANGED <<runVars, queue, sub, todo, workerVars, slackVars, metrics>>

\* Mutant: the queue is closed without the write lock.
WriteLockForAll == TRUE
WriteLockFree == \A i \in SlackItems : sub[i] # "offering"

CloseQueue ==
  /\ intake = "closing"
  /\ WriteLockFree
  /\ intake' = "closed"
  /\ UNCHANGED <<runVars, queue, sub, todo, workerVars, slackVars, metrics>>

\* Mutants: the reply context is not replaced, or only after the cancellation.
DrainTimeoutUnbounded == Advance("draining", "timedout") /\ UNCHANGED <<replyCtx, expired>>
CancelFirst == Advance("draining", "forced") /\ UNCHANGED <<replyCtx, expired>>

\* The drain timer fires; the reply context is in place before workCtx ends.
DrainTimeout == Advance("draining", "timedout") /\ replyCtx' = "deadline" /\ UNCHANGED expired
CancelWork == Advance("timedout", "forced") /\ UNCHANGED <<replyCtx, expired>>

\* Mutant: workers.Wait is missing.
DrainedUnawaited == intake = "closed"
Drained == intake = "closed" /\ \A w \in Workers : wpc[w] = "exited"

Return ==
  /\ Drained
  /\ Advance("draining", "returned") \/ Advance("forced", "returned")
  /\ UNCHANGED <<replyCtx, expired>>

---------------------------------------------------------------------------
(* Contexts that end by themselves: only who makes a call on one sees it *)

ContextEnds(context) ==
  /\ context \notin expired
  /\ expired' = expired \cup {context}
  /\ UNCHANGED <<stage, replyCtx, intake, queue, sub, todo, workerVars, slackVars, metrics>>

\* The client's Run cancels the consumer when the connection has ended, which may
\* be before the process stops the service.
ConsumerStops ==
  /\ stage = "serving"
  /\ \E i \in SlackItems : todo[i] # <<>>
  /\ ContextEnds("consumer")

\* The deadline that DrainTimeout sets.
DeadlinePasses ==
  /\ \E w \in Workers : ctx[w] = "deadline" /\ todo[w] # <<>>
  /\ ContextEnds("deadline")

\* failHolmesRequest is still reporting.
ReplyTimesOut(w) == ctx[w] = "fresh" /\ todo[w] # <<>> /\ ContextEnds(w)

---------------------------------------------------------------------------
SubmitterStep(i) == BestEffort(i) \/ Offer(i) \/ PostRoot(i) \/ OfferScheduled(i)

WorkerStep(w) ==
  \/ BestEffort(w) \/ Take(w) \/ SkipCancelled(w) \/ Dispatch(w) \/ LockThread(w)
  \/ Verify(w) \/ ReadHistory(w) \/ Chat(w) \/ DeliverPart(w) \/ Conclude(w)
  \/ Finish(w) \/ Exit(w)

RunStep == StopScheduler \/ DrainTimeout \/ CancelWork \/ Return
CloserStep == SchedulerStopped \/ CloseQueue
TimeLimit == DeadlinePasses \/ \E w \in Workers : ReplyTimesOut(w)

\* Run has returned and nobody has anything left to do.
Terminated ==
  /\ stage = "returned"
  /\ \A i \in Items : todo[i] = <<>>
  /\ UNCHANGED vars

Next ==
  \/ \E i \in Items : Submit(i) \/ CronFires(i) \/ SubmitterStep(i)
  \/ \E w \in Workers : WorkerStep(w)
  \/ Shutdown \/ RunStep \/ CloserStep
  \/ ConsumerStops \/ TimeLimit
  \/ Terminated

Spec == Init /\ [][Next]_vars

=============================================================================
