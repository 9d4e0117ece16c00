---------------------------- MODULE ServiceProofs ----------------------------
(***************************************************************************)
(* Theorems of Service, for every set of items, workers, messages and      *)
(* stripes and every queue size, and their proofs.  The first part is      *)
(* about the work: the types, the intake, the shutdown, the pool that the  *)
(* service implements, and the counters, which in the end count every item *)
(* once.  The second is about what Slack shows of it: the answers of       *)
(* different items do not mix in a thread; white_check_mark means a whole  *)
(* answer, whatever Slack does; no scheduled run vanishes, also when it is *)
(* cut off by the forced cancellation; and when Slack answers and the      *)
(* shutdown is graceful, a message whose items have all ended shows        *)
(* exactly how they ended.                                                 *)
(***************************************************************************)
EXTENDS ServiceProperties, FiniteSetTheorems, TLAPS

---------------------------------------------------------------------------
(* Lists of best-effort calls *)

\* Every operator that builds a list of calls builds a list of Calls.
LEMMA CallTypes ==
  /\ \A r \in Reactions : Add(r) \in Seq(Calls) /\ Remove(r) \in Seq(Calls)
  /\ \A k \in Replies : Reply(k) \in Seq(Calls)
  /\ \A l \in Labels : Count(l) \in Seq(Calls)
<1>1. ASSUME NEW c \in Calls PROVE <<c>> \in Seq(Calls)
  OBVIOUS
<1>2. ASSUME NEW r \in Reactions
      PROVE  [op |-> "add", arg |-> r] \in Calls /\ [op |-> "remove", arg |-> r] \in Calls
  BY DEF Calls
<1>3. ASSUME NEW k \in Replies PROVE [op |-> "reply", arg |-> k] \in Calls
  BY DEF Calls
<1>4. ASSUME NEW l \in Labels PROVE [op |-> "count", arg |-> l] \in Calls
  BY DEF Calls
<1> QED
  BY <1>1, <1>2, <1>3, <1>4 DEF Add, Remove, Reply, Count

\* Concatenation keeps the type.
LEMMA ConcatTypes ==
  ASSUME NEW S, NEW s \in Seq(S), NEW t \in Seq(S)
  PROVE  s \o t \in Seq(S)
OBVIOUS

\* So does Append.
LEMMA AppendType ==
  ASSUME NEW S, NEW s \in Seq(S), NEW e \in S
  PROVE  Append(s, e) \in Seq(S)
OBVIOUS

\* Every list a submitter or a worker is given is a list of Calls.
LEMMA ScriptTypes ==
  /\ FailScheduledIntake \in Seq(Calls)
  /\ FailScheduledShutdown \in Seq(Calls)
  /\ FailVerification \in Seq(Calls)
  /\ FailHistory \in Seq(Calls)
  /\ Accepted \in Seq(Calls)
  /\ Resolve \in Seq(Calls)
  /\ Transition("eyes", "x") \in Seq(Calls)
  /\ \A i \in Items :
       /\ FailHolmesAnswerDelivery(i) \in Seq(Calls)
       /\ \A c \in BOOLEAN : FailHolmesRequest(i, c) \in Seq(Calls)
       /\ Succeed(i) \in Seq(Calls)
       /\ BeginHolmes(i) \in Seq(Calls)
<1> USE CallTypes, ConcatTypes
<1>1. ASSUME NEW r \in Reactions, NEW a \in Reactions
      PROVE  Transition(r, a) \in Seq(Calls)
  BY DEF Transition
<1>2. "eyes" \in Reactions /\ "x" \in Reactions /\ "hourglass" \in Reactions
      /\ "check" \in Reactions /\ "green" \in Reactions
  BY DEF Reactions
<1>3. Replies = {"verification", "request", "delivery", "intake", "shutdown", "part"}
  BY DEF Replies, FailureReplies
<1>4. ASSUME NEW i \in Items PROVE FailedRun(i) \in Seq(Calls)
  BY DEF FailedRun, Labels
<1>5. FailScheduledIntake \in Seq(Calls) /\ FailScheduledShutdown \in Seq(Calls)
  <2>1. Reply("intake") \in Seq(Calls) /\ Reply("shutdown") \in Seq(Calls)
    BY <1>3
  <2>2. Add("x") \in Seq(Calls) /\ Count("run_failed") \in Seq(Calls)
    BY <1>2 DEF Labels
  <2> QED BY <2>1, <2>2 DEF FailScheduledIntake, FailScheduledShutdown
<1>6. FailVerification \in Seq(Calls) /\ FailHistory \in Seq(Calls)
  <2>1. Reply("verification") \in Seq(Calls) /\ Count("failed") \in Seq(Calls)
    BY <1>3 DEF Labels
  <2>2. Transition("eyes", "x") \in Seq(Calls)
    BY <1>1, <1>2
  <2>3. Reply("verification") \o Count("failed") \in Seq(Calls)
    BY <2>1
  <2> QED BY <2>1, <2>2, <2>3 DEF FailVerification, FailHistory
<1>7. Accepted \in Seq(Calls) /\ Resolve \in Seq(Calls) /\ Transition("eyes", "x") \in Seq(Calls)
  <2>1. Count("accepted") \in Seq(Calls) /\ Count("resolved") \in Seq(Calls)
    BY DEF Labels
  <2> QED BY <2>1, <1>1, <1>2 DEF Accepted, Resolve
<1>8. ASSUME NEW i \in Items PROVE FailHolmesAnswerDelivery(i) \in Seq(Calls)
  <2>1. Count("failed") \o Reply("delivery") \in Seq(Calls)
    BY <1>3 DEF Labels
  <2>2. Count("failed") \o Reply("delivery") \o Transition("hourglass", "x") \in Seq(Calls)
    BY <2>1, <1>1, <1>2
  <2> QED BY <2>2, <1>4 DEF FailHolmesAnswerDelivery
<1>9. ASSUME NEW i \in Items, NEW c \in BOOLEAN PROVE FailHolmesRequest(i, c) \in Seq(Calls)
  <2>1. Count("failed") \o Reply(IF c THEN "shutdown" ELSE "request") \in Seq(Calls)
    BY <1>3 DEF Labels
  <2>2. Count("failed") \o Reply(IF c THEN "shutdown" ELSE "request")
          \o Transition("hourglass", "x") \in Seq(Calls)
    BY <2>1, <1>1, <1>2
  <2> QED BY <2>2, <1>4 DEF FailHolmesRequest
<1>10. ASSUME NEW i \in Items PROVE Succeed(i) \in Seq(Calls)
  <2>1. Count(CASE i \in Scheduled -> "run_success"
                [] Kind[i] = "ask" -> "freeform"
                [] OTHER -> "firing") \in Seq(Calls)
    BY DEF Labels
  <2> QED BY <2>1, <1>1, <1>2 DEF Succeed
<1>11. ASSUME NEW i \in Items PROVE BeginHolmes(i) \in Seq(Calls)
  BY <1>1, <1>2 DEF BeginHolmes
<1> QED
  BY <1>5, <1>6, <1>7, <1>8, <1>9, <1>10, <1>11

---------------------------------------------------------------------------
(* Types *)

\* A worker holds an item exactly while it handles one, and has calls to make
\* only then; a submitter is in the states of its own kind.
HoldsJob ==
  /\ \A w \in Workers :
       IF wpc[w] \in {"idle", "exited"} THEN todo[w] = <<>> /\ job[w] = None
       ELSE job[w] \in Items
  /\ \A i \in Items : sub[i] \in {"post", "root", "refused"} => i \in Scheduled

TypeInv == TypeOK /\ HoldsJob

\* The initial state is well typed.
LEMMA InitTypes == Init => TypeInv
<1> SUFFICES ASSUME Init PROVE TypeInv
  OBVIOUS
<1> USE ServiceAssumption
<1>1. TypeOK
  BY DEF Init, TypeOK, Stages, SubmitterStates, WorkerStates
<1>2. HoldsJob
  BY DEF Init, HoldsJob
<1> QED BY <1>1, <1>2 DEF TypeInv

\* What the effect of one call or counter keeps.
LEMMA ApplyTypes ==
  ASSUME TypeInv, NEW c \in Calls, NEW i \in Items, Apply(c, i)
  PROVE  /\ reactions' \in [Messages -> SUBSET Reactions]
         /\ thread' \in [Messages -> Seq([item : Items, kind : Replies])]
         /\ metrics' \in [Labels -> Nat]
<1>1. /\ Message[i] \in Messages /\ Thread[i] \in Messages
      /\ reactions \in [Messages -> SUBSET Reactions]
      /\ thread \in [Messages -> Seq([item : Items, kind : Replies])]
      /\ metrics \in [Labels -> Nat]
  BY ServiceAssumption DEF TypeInv, TypeOK
<1>2. \/ c.op \in {"add", "remove"} /\ c.arg \in Reactions
      \/ c.op = "reply" /\ c.arg \in Replies
      \/ c.op = "count" /\ c.arg \in Labels
  BY DEF Calls
<1>3. CASE c.op \in {"add", "remove"} /\ c.arg \in Reactions
  BY <1>1, <1>3, ZenonT(60) DEF Apply
<1>4. CASE c.op = "reply" /\ c.arg \in Replies
  <2>1. [item |-> i, kind |-> c.arg] \in [item : Items, kind : Replies]
    BY <1>4
  <2>2. Append(thread[Thread[i]], [item |-> i, kind |-> c.arg]) \in Seq([item : Items, kind : Replies])
    <3>1. thread[Thread[i]] \in Seq([item : Items, kind : Replies])
      BY <1>1
    <3> QED BY <2>1, <3>1, AppendType
  <2>3. /\ thread' = [thread EXCEPT ![Thread[i]] = Append(@, [item |-> i, kind |-> c.arg])]
        /\ UNCHANGED <<reactions, metrics>>
    BY <1>4 DEF Apply, Post
  <2> QED
    BY <1>1, <2>2, <2>3
<1>5. CASE c.op = "count" /\ c.arg \in Labels
  <2>1. /\ metrics' = [metrics EXCEPT ![c.arg] = @ + 1]
        /\ UNCHANGED <<reactions, thread>>
    BY <1>5 DEF Apply
  <2>2. PICK l \in Labels : l = c.arg
    BY <1>5
  <2>3. metrics' = [metrics EXCEPT ![l] = @ + 1]
    BY <2>1, <2>2
  <2>4. metrics[l] + 1 \in Nat
    BY <1>1
  <2>5. metrics' \in [Labels -> Nat]
    BY <1>1, <2>3, <2>4
  <2> QED
    BY <1>1, <2>1, <2>5
<1> QED
  BY <1>2, <1>3, <1>4, <1>5

\* A process with a call to make acts for an item.
LEMMA ActsForItem ==
  ASSUME TypeInv, NEW p \in Items \cup Workers, todo[p] # <<>>
  PROVE  ItemOf(p) \in Items
BY ServiceAssumption DEF TypeInv, HoldsJob, ItemOf

\* A best-effort call keeps the types, whether or not it takes effect.
LEMMA BestEffortTypes ==
  ASSUME TypeInv, NEW p \in Items \cup Workers, BestEffort(p)
  PROVE  TypeInv'
<1> USE ServiceAssumption
<1>1. todo[p] \in Seq(Calls) /\ todo[p] # <<>> /\ Head(todo[p]) \in Calls /\ Tail(todo[p]) \in Seq(Calls)
  BY DEF TypeInv, TypeOK, BestEffort, runVars
<1>2. /\ reactions' \in [Messages -> SUBSET Reactions]
      /\ thread' \in [Messages -> Seq([item : Items, kind : Replies])]
      /\ metrics' \in [Labels -> Nat]
  <2>1. CASE Apply(Head(todo[p]), ItemOf(p))
    BY <1>1, <2>1, ActsForItem, ApplyTypes
  <2>2. CASE UNCHANGED <<reactions, thread, metrics>>
    BY <2>2 DEF TypeInv, TypeOK
  <2> QED BY <2>1, <2>2 DEF BestEffort, runVars
<1>3. todo' \in [Items \cup Workers -> Seq(Calls)]
  BY <1>1 DEF TypeInv, TypeOK, BestEffort, runVars
<1>4. TypeOK'
  BY <1>2, <1>3 DEF TypeInv, TypeOK, BestEffort, runVars, workerVars
<1>5. HoldsJob'
  BY <1>1 DEF TypeInv, TypeOK, HoldsJob, BestEffort, workerVars, runVars
<1> QED BY <1>4, <1>5 DEF TypeInv

\* Submit and SubmitScheduled keep the types.
LEMMA SubmitTypes ==
  ASSUME TypeInv, NEW i \in Items,
         Submit(i) \/ Offer(i) \/ CronFires(i) \/ PostRoot(i) \/ OfferScheduled(i)
  PROVE  TypeInv'
<1> USE ServiceAssumption
<1>1. ASSUME NEW at \in SubmitterStates, NEW script \in Seq(Calls), Submitted(i, at, script),
             at \in {"post", "root", "refused"} => i \in Scheduled,
             intake' = intake, queue' \in Seq(Items), Len(queue') <= QueueSize
      PROVE  TypeInv'
  <2>1. TypeOK'
    BY <1>1 DEF Submitted, TypeInv, TypeOK, runVars, workerVars, slackVars
  <2>2. i \notin Workers
    OBVIOUS
  <2>3. HoldsJob'
    BY <1>1, <2>2 DEF Submitted, TypeInv, TypeOK, HoldsJob, workerVars
  <2> QED BY <2>1, <2>2, <2>3 DEF TypeInv
<1>2. queue \in Seq(Items) /\ Len(queue) <= QueueSize
  BY DEF TypeInv, TypeOK
<1>3. <<>> \in Seq(Calls)
  OBVIOUS
<1>4. Count("failed") \o Add("x") \in Seq(Calls) /\ Count("ignored") \in Seq(Calls)
      /\ Count("dropped") \in Seq(Calls) /\ Count("run_failed") \in Seq(Calls)
      /\ Add("eyes") \in Seq(Calls)
  BY CallTypes, ConcatTypes DEF Labels, Reactions
<1>5. Count("dropped") \o Transition("eyes", "x") \in Seq(Calls)
  BY <1>4, ScriptTypes, ConcatTypes
<1>6. Len(queue) < QueueSize => Append(queue, i) \in Seq(Items) /\ Len(Append(queue, i)) <= QueueSize
  BY <1>2
<1>7. CASE Submit(i)
  <2>1. CASE RejectMarker(i)
    BY <2>1, <1>1, <1>2, <1>4 DEF RejectMarker, SubmitterStates
  <2>2. CASE IgnoreUnmarked(i)
    BY <2>2, <1>1, <1>2, <1>4 DEF IgnoreUnmarked, SubmitterStates
  <2>3. CASE TakeReadLock(i)
    BY <2>3, <1>1, <1>2, <1>4 DEF TakeReadLock, SubmitterStates
  <2> QED BY <1>7, <2>1, <2>2, <2>3 DEF Submit
<1>8. CASE Offer(i)
  <2>1. CASE Len(queue) < QueueSize
    BY <1>8, <2>1, <1>1, <1>6, ScriptTypes DEF Offer, SubmitterStates
  <2>2. CASE ~(Len(queue) < QueueSize)
    BY <1>8, <2>2, <1>1, <1>2, <1>5 DEF Offer, SubmitterStates
  <2> QED BY <2>1, <2>2
<1>9. CASE CronFires(i)
  BY <1>9, <1>1, <1>2, <1>3 DEF CronFires, SubmitterStates
<1>10. CASE PostRoot(i)
  BY <1>10, <1>1, <1>2, <1>3, <1>4 DEF PostRoot, SubmitterStates
<1>11. CASE OfferScheduled(i)
  <2>1. CASE intake = "closed"
    BY <1>11, <2>1, <1>1, <1>2, ScriptTypes DEF OfferScheduled, SubmitterStates
  <2>2. CASE intake # "closed" /\ Len(queue) < QueueSize
    BY <1>11, <2>2, <1>1, <1>3, <1>6 DEF OfferScheduled, SubmitterStates
  <2>3. CASE intake # "closed" /\ ~(Len(queue) < QueueSize)
    BY <1>11, <2>3, <1>1, <1>2, ScriptTypes DEF OfferScheduled, SubmitterStates
  <2> QED BY <2>1, <2>2, <2>3
<1> QED BY <1>7, <1>8, <1>9, <1>10, <1>11

Contexts == {"work", "background", "deadline", "fresh"}
AnswerType == [parts : 0 .. MaxParts + 1, failed : BOOLEAN, tooLarge : BOOLEAN, sent : 0 .. MaxParts]

\* Sets of answers grow with the sets of their fields.
LEMMA AnswerSubtypes ==
  ASSUME NEW P, NEW F, NEW L, NEW S, NEW Q, NEW G, NEW M, NEW T,
         P \subseteq Q, F \subseteq G, L \subseteq M, S \subseteq T
  PROVE  [parts : P, failed : F, tooLarge : L, sent : S]
           \subseteq [parts : Q, failed : G, tooLarge : M, sent : T]
OBVIOUS

\* Counting one more part keeps the type.
LEMMA SentTypes ==
  ASSUME NEW Q, NEW G, NEW M, NEW T, NEW e \in [parts : Q, failed : G, tooLarge : M, sent : T],
         e.sent + 1 \in T
  PROVE  [e EXCEPT !.sent = @ + 1] \in [parts : Q, failed : G, tooLarge : M, sent : T]
OBVIOUS

\* What remains to be shown of a worker's step that ends in Goto.
LEMMA GotoTypes ==
  ASSUME TypeInv, NEW w \in Workers, NEW to \in WorkerStates, NEW script \in Seq(Calls),
         Goto(w, to, script),
         queue' \in Seq(Items), Len(queue') <= QueueSize,
         NEW j \in Items \cup {None}, job' = [job EXCEPT ![w] = j],
         IF to \in {"idle", "exited"} THEN script = <<>> /\ j = None ELSE j \in Items,
         ctx' \in [Workers -> Contexts],
         answer' \in [Workers -> AnswerType],
         lock' \in [Stripes -> Workers \cup {None}],
         finished' \in SUBSET Items, abandoned' \in SUBSET Items,
         whole' \in [Items -> 0 .. MaxParts]
  PROVE  TypeInv'
<1> USE ServiceAssumption
<1>1. TypeOK'
  BY DEF Goto, TypeInv, TypeOK, runVars, slackVars, Contexts, AnswerType
<1>2. HoldsJob'
  <2>1. \A v \in Workers : IF wpc'[v] \in {"idle", "exited"} THEN todo'[v] = <<>> /\ job'[v] = None
                           ELSE job'[v] \in Items
    <3> SUFFICES ASSUME NEW v \in Workers
                 PROVE  IF wpc'[v] \in {"idle", "exited"} THEN todo'[v] = <<>> /\ job'[v] = None
                        ELSE job'[v] \in Items
      OBVIOUS
    <3>1. CASE v = w
      BY <3>1 DEF Goto, TypeInv, TypeOK, runVars
    <3>2. CASE v # w
      BY <3>2 DEF Goto, TypeInv, TypeOK, HoldsJob, runVars
    <3> QED BY <3>1, <3>2
  <2>2. \A i \in Items : sub'[i] \in {"post", "root", "refused"} => i \in Scheduled
    BY DEF Goto, TypeInv, HoldsJob, runVars
  <2> QED BY <2>1, <2>2 DEF HoldsJob
<1> QED BY <1>1, <1>2 DEF TypeInv

\* The steps of a worker keep the types.
LEMMA WorkerTypes ==
  ASSUME TypeInv, NEW w \in Workers,
         Take(w) \/ SkipCancelled(w) \/ Dispatch(w) \/ LockThread(w) \/ Verify(w)
           \/ ReadHistory(w) \/ Chat(w) \/ DeliverPart(w) \/ Conclude(w) \/ Finish(w) \/ Exit(w)
  PROVE  TypeInv'
<1> USE ServiceAssumption
<1>1. /\ queue \in Seq(Items) /\ Len(queue) <= QueueSize
      /\ job \in [Workers -> Items \cup {None}]
      /\ ctx \in [Workers -> Contexts]
      /\ answer \in [Workers -> AnswerType]
      /\ lock \in [Stripes -> Workers \cup {None}]
      /\ finished \in SUBSET Items /\ abandoned \in SUBSET Items
      /\ replyCtx \in Contexts
      /\ whole \in [Items -> 0 .. MaxParts]
  BY DEF TypeInv, TypeOK, Contexts, AnswerType
<1>2. <<>> \in Seq(Calls)
  OBVIOUS
<1>3. wpc[w] \notin {"idle", "exited"} => job[w] \in Items /\ job = [job EXCEPT ![w] = job[w]]
  BY <1>1 DEF TypeInv, HoldsJob
<1>4. WorkerStates = {"idle", "received", "lock", "verify", "history", "chat", "deliver",
                      "finish", "exited"}
  BY DEF WorkerStates
\* A step that touches neither the queue nor the job nor the ghosts.
<1>5. ASSUME NEW to \in WorkerStates \ {"idle", "exited"}, NEW script \in Seq(Calls),
             Goto(w, to, script), wpc[w] \notin {"idle", "exited"},
             UNCHANGED <<queue, job, finished, abandoned>>,
             ctx' \in [Workers -> Contexts], answer' \in [Workers -> AnswerType],
             lock' \in [Stripes -> Workers \cup {None}], whole' \in [Items -> 0 .. MaxParts]
      PROVE  TypeInv'
  BY <1>1, <1>3, <1>5, GotoTypes
<1>6. ASSUME job[w] \in Items
      PROVE  /\ FailHolmesRequest(job[w], Cancelled) \in Seq(Calls)
             /\ FailHolmesAnswerDelivery(job[w]) \in Seq(Calls)
             /\ Succeed(job[w]) \in Seq(Calls)
             /\ BeginHolmes(job[w]) \in Seq(Calls)
  <2>1. Cancelled \in BOOLEAN
    BY DEF Cancelled
  <2> QED BY <1>6, <2>1, ScriptTypes
<1>7. CASE Take(w)
  <2>1. Head(queue) \in Items /\ Tail(queue) \in Seq(Items) /\ Len(Tail(queue)) <= QueueSize
    BY <1>1, <1>7 DEF Take
  <2>2. ctx' \in [Workers -> Contexts]
    BY <1>1, <1>7 DEF Take, Contexts
  <2> QED BY <1>1, <1>2, <1>4, <1>7, <2>1, <2>2, GotoTypes DEF Take
<1>8. CASE SkipCancelled(w)
  <2>1. wpc[w] = "received" /\ job[w] \in Items
    BY <1>3, <1>8 DEF SkipCancelled, At
  <2>2. CASE ReportedOnShutdown(job[w])
    <3>1. ctx' \in [Workers -> Contexts]
      BY <1>1, <1>8, <2>2 DEF SkipCancelled
    <3> QED BY <1>1, <1>4, <1>5, <1>8, <2>1, <2>2, <3>1, ScriptTypes DEF SkipCancelled
  <2>3. CASE ~ReportedOnShutdown(job[w])
    <3>1. abandoned' \in SUBSET Items
      BY <1>1, <1>8, <2>1, <2>3 DEF SkipCancelled
    <3>2. /\ Goto(w, "idle", <<>>) /\ job' = [job EXCEPT ![w] = None]
          /\ UNCHANGED <<queue, ctx, answer, lock, finished, whole>>
      BY <1>8, <2>3 DEF SkipCancelled
    <3> QED BY <1>1, <1>2, <1>4, <3>1, <3>2, GotoTypes
  <2> QED BY <2>2, <2>3
<1>9. CASE Dispatch(w)
  BY <1>1, <1>2, <1>4, <1>5, <1>9, ScriptTypes DEF Dispatch, At
<1>10. CASE LockThread(w)
  <2>1. wpc[w] = "lock" /\ job[w] \in Items
    BY <1>3, <1>10 DEF LockThread, At
  <2>2. lock' \in [Stripes -> Workers \cup {None}]
    BY <1>1, <1>10, <2>1 DEF LockThread, LockOf
  <2>3. AfterLock(job[w]) \in {"verify", "history", "chat"}
    BY DEF AfterLock
  <2>4. (IF AfterLock(job[w]) = "chat" THEN BeginHolmes(job[w]) ELSE <<>>) \in Seq(Calls)
    BY <1>2, <1>6, <2>1
  <2> QED BY <1>1, <1>4, <1>5, <1>10, <2>1, <2>2, <2>3, <2>4 DEF LockThread
<1>11. CASE Verify(w)
  <2>1. wpc[w] = "verify" /\ job[w] \in Items
    BY <1>3, <1>11 DEF Verify, At
  <2> QED BY <1>1, <1>4, <1>5, <1>6, <1>11, <2>1, ScriptTypes DEF Verify
<1>12. CASE ReadHistory(w)
  <2>1. wpc[w] = "history" /\ job[w] \in Items
    BY <1>3, <1>12 DEF ReadHistory, At
  <2> QED BY <1>1, <1>4, <1>5, <1>6, <1>12, <2>1, ScriptTypes DEF ReadHistory
<1>13. ASSUME NEW from \in WorkerStates \ {"idle", "exited"}, wpc[w] = from, job[w] \in Items,
              RequestFails(w), UNCHANGED <<queue, job, lock, finished, abandoned>>,
              answer' \in [Workers -> AnswerType], whole' \in [Items -> 0 .. MaxParts]
       PROVE  TypeInv'
  <2>1. ctx' \in [Workers -> Contexts]
    BY <1>1, <1>13 DEF RequestFails, FailureContext, Contexts
  <2> QED BY <1>1, <1>4, <1>5, <1>6, <1>13, <2>1 DEF RequestFails
<1>14. CASE Chat(w)
  <2>1. wpc[w] = "chat" /\ job[w] \in Items
    BY <1>3, <1>14 DEF Chat, At
  <2>2. PICK a \in Answers(Cancelled) :
          /\ answer' = [answer EXCEPT ![w] = a]
          /\ whole' = [whole EXCEPT ![job[w]] =
                         IF a.failed \/ a.tooLarge \/ a.parts > MaxParts THEN 0 ELSE a.parts]
          /\ IF a.parts = 0 THEN RequestFails(w) ELSE Goto(w, "deliver", <<>>) /\ UNCHANGED ctx
    BY <1>14 DEF Chat
  <2>3. a \in AnswerType
    <3>1. \/ a \in [parts : {0}, failed : {TRUE}, tooLarge : {FALSE}, sent : {0}]
          \/ a \in [parts : 1 .. MaxParts + 1, failed : BOOLEAN, tooLarge : {FALSE}, sent : {0}]
          \/ a \in [parts : 1 .. MaxParts, failed : BOOLEAN, tooLarge : {TRUE}, sent : {0}]
      BY <2>2 DEF Answers
    <3>2. 1 .. MaxParts + 1 \subseteq 0 .. MaxParts + 1 /\ 1 .. MaxParts \subseteq 0 .. MaxParts + 1
          /\ 0 \in 0 .. MaxParts + 1 /\ 0 \in 0 .. MaxParts
      OBVIOUS
    <3>3. {TRUE} \subseteq BOOLEAN /\ {FALSE} \subseteq BOOLEAN /\ BOOLEAN \subseteq BOOLEAN
          /\ {0} \subseteq 0 .. MaxParts + 1 /\ {0} \subseteq 0 .. MaxParts
      BY <3>2
    <3>4. [parts : {0}, failed : {TRUE}, tooLarge : {FALSE}, sent : {0}] \subseteq AnswerType
      BY <3>3, AnswerSubtypes, ZenonT(60) DEF AnswerType
    <3>5. [parts : 1 .. MaxParts + 1, failed : BOOLEAN, tooLarge : {FALSE}, sent : {0}]
            \subseteq AnswerType
      BY <3>2, <3>3, AnswerSubtypes DEF AnswerType
    <3>6. [parts : 1 .. MaxParts, failed : BOOLEAN, tooLarge : {TRUE}, sent : {0}]
            \subseteq AnswerType
      <4> DEFINE P == 1 .. MaxParts  Q == 0 .. MaxParts + 1  S == 0 .. MaxParts
      <4>1. P \subseteq Q /\ {0} \subseteq S /\ {TRUE} \subseteq BOOLEAN /\ BOOLEAN \subseteq BOOLEAN
        BY <3>2, <3>3
      <4> HIDE DEF P, Q, S
      <4>2. [parts : P, failed : BOOLEAN, tooLarge : {TRUE}, sent : {0}]
              \subseteq [parts : Q, failed : BOOLEAN, tooLarge : BOOLEAN, sent : S]
        BY <4>1, AnswerSubtypes, ZenonT(60)
      <4> QED BY <4>2 DEF AnswerType, P, Q, S
    <3> QED BY <3>1, <3>4, <3>5, <3>6
  <2>4. answer' \in [Workers -> AnswerType]
    BY <1>1, <2>2, <2>3
  <2>5. whole' \in [Items -> 0 .. MaxParts]
    <3>1. PICK b \in AnswerType :
            whole' = [whole EXCEPT ![job[w]] =
                        IF b.failed \/ b.tooLarge \/ b.parts > MaxParts THEN 0 ELSE b.parts]
      BY <2>2, <2>3
    <3>2. b.parts \in 0 .. MaxParts + 1
      BY DEF AnswerType
    <3>3. (IF b.failed \/ b.tooLarge \/ b.parts > MaxParts THEN 0 ELSE b.parts) \in 0 .. MaxParts
      BY <3>2
    <3> QED BY <1>1, <3>1, <3>3
  <2>6. UNCHANGED <<queue, job, lock, finished, abandoned>>
    BY <1>14 DEF Chat
  <2>7. CASE a.parts = 0
    BY <1>4, <1>13, <2>1, <2>2, <2>4, <2>5, <2>6, <2>7
  <2>8. CASE a.parts # 0
    <3>1. Goto(w, "deliver", <<>>) /\ UNCHANGED ctx
      BY <2>2, <2>8
    <3>2. ctx' \in [Workers -> Contexts] /\ lock' \in [Stripes -> Workers \cup {None}]
      BY <1>1, <2>6, <3>1
    <3>3. "deliver" \in WorkerStates \ {"idle", "exited"} /\ wpc[w] \notin {"idle", "exited"}
      BY <1>4, <2>1
    <3> QED BY <1>2, <1>5, <2>4, <2>5, <2>6, <3>1, <3>2, <3>3
  <2> QED BY <2>7, <2>8
<1>15. CASE DeliverPart(w)
  <2>1. wpc[w] = "deliver" /\ job[w] \in Items
    BY <1>3, <1>15 DEF DeliverPart, At, runVars
  <2>2. answer' \in [Workers -> AnswerType]
    <3>1. answer[w].sent + 1 \in 0 .. MaxParts
      BY <1>1, <1>15 DEF DeliverPart, PartsToSend, AnswerType, runVars
    <3>2. [answer[w] EXCEPT !.sent = @ + 1] \in AnswerType
      <4>1. answer[w] \in AnswerType
        BY <1>1
      <4> QED BY <3>1, <4>1, SentTypes DEF AnswerType
    <3>3. answer' = [answer EXCEPT ![w] = [answer[w] EXCEPT !.sent = @ + 1]]
      BY <1>15 DEF DeliverPart, runVars
    <3> QED BY <1>1, <3>2, <3>3
  <2>3. thread' \in [Messages -> Seq([item : Items, kind : Replies])]
    <3>1. CASE UNCHANGED thread
      BY <3>1 DEF TypeInv, TypeOK
    <3>2. CASE Post(job[w], "part")
      <4>1. "part" \in Replies
        BY DEF Replies
      <4>2. [item |-> job[w], kind |-> "part"] \in [item : Items, kind : Replies]
        BY <2>1, <4>1
      <4>3. Thread[job[w]] \in Messages
        BY <2>1
      <4>4. thread \in [Messages -> Seq([item : Items, kind : Replies])]
        BY DEF TypeInv, TypeOK
      <4>5. thread[Thread[job[w]]] \in Seq([item : Items, kind : Replies])
        BY <4>3, <4>4
      <4>6. Append(thread[Thread[job[w]]], [item |-> job[w], kind |-> "part"])
              \in Seq([item : Items, kind : Replies])
        BY <4>2, <4>5, AppendType
      <4> QED BY <3>2, <4>4, <4>6 DEF Post
    <3> QED BY <1>15, <3>1, <3>2 DEF DeliverPart, runVars
  <2>4. /\ wpc' \in [Workers -> WorkerStates]
        /\ todo' \in [Items \cup Workers -> Seq(Calls)]
        /\ \A v \in Workers : wpc'[v] \in {"idle", "exited"} <=> wpc[v] \in {"idle", "exited"}
        /\ \A v \in Workers : wpc'[v] \in {"idle", "exited"} => todo'[v] = todo[v]
    <3>1. FailHolmesAnswerDelivery(job[w]) \in Seq(Calls)
      BY <1>6, <2>1
    <3>2. wpc \in [Workers -> WorkerStates] /\ todo \in [Items \cup Workers -> Seq(Calls)]
      BY DEF TypeInv, TypeOK
    <3>3. CASE UNCHANGED <<wpc, todo>>
      BY <3>2, <3>3
    <3>4. CASE /\ wpc' = [wpc EXCEPT ![w] = "finish"]
               /\ todo' = [todo EXCEPT ![w] = FailHolmesAnswerDelivery(job[w])]
      BY <1>4, <2>1, <3>1, <3>2, <3>4
    <3> QED BY <1>15, <3>3, <3>4 DEF DeliverPart, runVars
  <2>5. TypeOK'
    BY <1>15, <2>2, <2>3, <2>4 DEF DeliverPart, TypeInv, TypeOK, AnswerType, runVars
  <2>6. HoldsJob'
    BY <1>15, <2>4 DEF DeliverPart, TypeInv, HoldsJob, runVars
  <2> QED BY <2>5, <2>6 DEF TypeInv
<1>16. CASE Conclude(w)
  <2>1. wpc[w] = "deliver" /\ job[w] \in Items
    BY <1>3, <1>16 DEF Conclude, At
  <2>2. CASE answer[w].failed
    BY <1>1, <1>4, <1>13, <1>16, <2>1, <2>2 DEF Conclude
  <2>3. CASE ~answer[w].failed
    BY <1>1, <1>4, <1>5, <1>6, <1>16, <2>1, <2>3 DEF Conclude, DeliveryFails
  <2> QED BY <2>2, <2>3
<1>17. CASE Finish(w)
  <2>1. wpc[w] = "finish" /\ job[w] \in Items
    BY <1>3, <1>17 DEF Finish, At
  <2>2. answer' \in [Workers -> AnswerType]
    BY <1>1, <1>17 DEF Finish, AnswerType
  <2>3. lock' \in [Stripes -> Workers \cup {None}] /\ finished' \in SUBSET Items
    BY <1>1, <1>17, <2>1 DEF Finish
  <2> QED BY <1>1, <1>2, <1>4, <1>17, <2>2, <2>3, GotoTypes DEF Finish
<1>18. CASE Exit(w)
  <2>1. wpc[w] = "idle" /\ job[w] = None /\ job = [job EXCEPT ![w] = None]
    BY <1>1, <1>18 DEF Exit, At, TypeInv, HoldsJob
  <2> QED BY <1>1, <1>2, <1>4, <1>18, <2>1, GotoTypes DEF Exit
<1> QED
  BY <1>7, <1>8, <1>9, <1>10, <1>11, <1>12, <1>14, <1>15, <1>16, <1>17, <1>18

\* Nothing moves; at most, contexts end.
OnlyTimePasses ==
  /\ UNCHANGED <<stage, intake, queue, sub, todo, wpc, job, ctx, answer, lock, replyCtx,
                 reactions, thread, metrics, finished, abandoned, whole>>
  /\ expired \subseteq expired'
  /\ expired' \subseteq expired \cup {"consumer", "deadline"} \cup Workers

\* The steps of Run and of the goroutine that closes the queue keep the types.
LEMMA RunTypes ==
  ASSUME TypeInv, Shutdown \/ RunStep \/ CloserStep \/ OnlyTimePasses
  PROVE  TypeInv'
<1>1. CASE Shutdown \/ RunStep
  <2>1. TypeOK'
    BY <1>1 DEF Shutdown, RunStep, StopScheduler, DrainTimeout, CancelWork, Return, Advance,
      TypeInv, TypeOK, Stages, runVars, workerVars, slackVars
  <2>2. HoldsJob'
    BY <1>1 DEF Shutdown, RunStep, StopScheduler, DrainTimeout, CancelWork, Return, Advance,
      TypeInv, HoldsJob, workerVars
  <2> QED BY <2>1, <2>2 DEF TypeInv
<1>2. CASE CloserStep
  <2>1. TypeOK'
    BY <1>2 DEF CloserStep, SchedulerStopped, CloseQueue, TypeInv, TypeOK, runVars, workerVars,
        slackVars
  <2>2. HoldsJob'
    BY <1>2 DEF CloserStep, SchedulerStopped, CloseQueue, TypeInv, HoldsJob, workerVars
  <2> QED BY <2>1, <2>2 DEF TypeInv
<1>3. CASE OnlyTimePasses
  <2>1. TypeOK'
    BY <1>3 DEF OnlyTimePasses, TypeInv, TypeOK
  <2>2. HoldsJob'
    BY <1>3 DEF OnlyTimePasses, TypeInv, HoldsJob
  <2> QED BY <2>1, <2>2 DEF TypeInv
<1> QED BY <1>1, <1>2, <1>3

\* The steps of the specification, sorted by who takes them.
LEMMA Steps ==
  ASSUME [Next]_vars
  PROVE  \/ \E p \in Items \cup Workers : BestEffort(p)
         \/ \E i \in Items : Submit(i) \/ Offer(i) \/ CronFires(i) \/ PostRoot(i) \/ OfferScheduled(i)
         \/ \E w \in Workers :
              \/ Take(w) \/ SkipCancelled(w) \/ Dispatch(w) \/ LockThread(w) \/ Verify(w)
              \/ ReadHistory(w) \/ Chat(w) \/ DeliverPart(w) \/ Conclude(w) \/ Finish(w) \/ Exit(w)
         \/ Shutdown \/ RunStep \/ CloserStep \/ OnlyTimePasses
<1>1. ConsumerStops \/ TimeLimit => OnlyTimePasses
  BY DEF ConsumerStops, TimeLimit, DeadlinePasses, ReplyTimesOut, ContextEnds, OnlyTimePasses,
    workerVars, slackVars
<1>2. UNCHANGED vars => OnlyTimePasses
  BY DEF vars, OnlyTimePasses
<1> QED BY <1>1, <1>2 DEF Next, SubmitterStep, WorkerStep, Terminated

\* No step of a worker ends a context.
LEMMA WorkersKeepTime ==
  ASSUME NEW w \in Workers,
         BestEffort(w) \/ Take(w) \/ SkipCancelled(w) \/ Dispatch(w) \/ LockThread(w)
           \/ Verify(w) \/ ReadHistory(w) \/ Chat(w) \/ DeliverPart(w) \/ Conclude(w)
           \/ Finish(w) \/ Exit(w)
  PROVE  UNCHANGED runVars
<1>1. ASSUME NEW to, NEW script, Goto(w, to, script) PROVE UNCHANGED runVars
  BY <1>1 DEF Goto
<1>2. RequestFails(w) => UNCHANGED runVars
  BY <1>1 DEF RequestFails
<1> QED BY <1>1, <1>2 DEF BestEffort, Take, SkipCancelled, Dispatch, LockThread, Verify,
      ReadHistory, Chat, DeliverPart, Conclude, DeliveryFails, Finish, Exit

\* Nor does a submitter's.
LEMMA SubmittersKeepTime ==
  ASSUME NEW i \in Items,
         Submit(i) \/ Offer(i) \/ CronFires(i) \/ PostRoot(i) \/ OfferScheduled(i)
  PROVE  UNCHANGED runVars
BY DEF Submit, RejectMarker, IgnoreUnmarked, TakeReadLock, Offer, CronFires, PostRoot,
  OfferScheduled, Submitted

\* Every step keeps the types.
LEMMA NextTypes == TypeInv /\ [Next]_vars => TypeInv'
<1> SUFFICES ASSUME TypeInv, [Next]_vars PROVE TypeInv'
  OBVIOUS
<1> QED BY Steps, BestEffortTypes, SubmitTypes, WorkerTypes, RunTypes

\* The state is well typed in every reachable state: the queue never holds more
\* than its capacity, a worker never sends more than MaxParts parts, and it
\* holds an item exactly while it is handling one.
THEOREM TypeCorrect == Spec => []TypeOK
<1>1. Spec => []TypeInv
  BY InitTypes, NextTypes, PTL DEF Spec
<1>2. TypeInv => TypeOK
  BY DEF TypeInv
<1> QED BY <1>1, <1>2, PTL

---------------------------------------------------------------------------
(* Intake: the queue is closed once, when nobody can send on it *)

IntakeInv ==
  /\ NoSendOnClosedQueue
  /\ CronNeverRefused
  /\ \A i \in Items : sub[i] = "offering" => i \in SlackItems
  /\ intake # "open" => /\ stage \in {"draining", "timedout", "forced", "returned"}
                        /\ ~CronRunning

\* The queue is open at first.
LEMMA InitIntake == Init => IntakeInv
BY DEF Init, IntakeInv, NoSendOnClosedQueue, CronNeverRefused, CronRunning

\* Every step keeps the intake invariant.
LEMMA NextIntake == TypeInv /\ IntakeInv /\ [Next]_vars => IntakeInv'
<1> SUFFICES ASSUME TypeInv, IntakeInv, [Next]_vars PROVE IntakeInv'
  OBVIOUS
<1> USE ServiceAssumption DEF IntakeInv, NoSendOnClosedQueue, CronNeverRefused
<1>1. /\ sub \in [Items -> SubmitterStates]
      /\ todo \in [Items \cup Workers -> Seq(Calls)]
      /\ intake \in {"open", "closing", "closed"}
      /\ Scheduled \subseteq Items /\ SlackItems \subseteq Items
      /\ SlackItems \cap Scheduled = {} /\ Scheduled \cap Workers = {}
  BY DEF TypeInv, TypeOK, Scheduled, SlackItems
\* A worker's step leaves the submitters alone.
<1>2. ASSUME NEW w \in Workers, UNCHANGED <<stage, intake, sub>>,
             \A i \in Scheduled : todo'[i] = todo[i]
      PROVE  IntakeInv'
  BY <1>1, <1>2 DEF CronRunning
<1>3. ASSUME NEW p \in Items \cup Workers, BestEffort(p) PROVE IntakeInv'
  <2>1. UNCHANGED <<stage, intake, sub>>
    BY <1>3 DEF BestEffort, runVars
  <2>2. intake # "open" => \A i \in Scheduled : todo'[i] = todo[i]
    BY <1>1, <1>3 DEF BestEffort, CronRunning, runVars
  <2> QED BY <1>1, <2>1, <2>2 DEF CronRunning
<1>4. ASSUME NEW i \in Items,
             Submit(i) \/ Offer(i) \/ CronFires(i) \/ PostRoot(i) \/ OfferScheduled(i)
      PROVE  IntakeInv'
  <2>1. ASSUME NEW at \in SubmitterStates, NEW script, Submitted(i, at, script),
               at # "refused", intake' = intake,
               at = "offering" => i \in SlackItems /\ intake = "open",
               intake # "open" => i \in SlackItems
        PROVE  IntakeInv'
    BY <1>1, <2>1 DEF Submitted, CronRunning, runVars
  <2>2. CASE Submit(i)
    BY <2>1, <2>2 DEF Submit, RejectMarker, IgnoreUnmarked, TakeReadLock, SubmitterStates
  <2>3. CASE Offer(i)
    BY <2>1, <2>3 DEF Offer, SubmitterStates
  <2>4. CASE CronFires(i)
    BY <2>1, <2>4 DEF CronFires, SubmitterStates
  <2>5. CASE PostRoot(i)
    BY <2>1, <2>5 DEF PostRoot, CronRunning, SubmitterStates
  <2>6. CASE OfferScheduled(i)
    <3>1. intake = "open"
      BY <2>6 DEF OfferScheduled, CronRunning
    <3> QED BY <2>1, <2>6, <3>1 DEF OfferScheduled, SubmitterStates
  <2> QED BY <1>4, <2>2, <2>3, <2>4, <2>5, <2>6
<1>5. ASSUME NEW w \in Workers,
             Take(w) \/ SkipCancelled(w) \/ Dispatch(w) \/ LockThread(w) \/ Verify(w)
               \/ ReadHistory(w) \/ Chat(w) \/ DeliverPart(w) \/ Conclude(w) \/ Finish(w) \/ Exit(w)
      PROVE  IntakeInv'
  <2>1. ASSUME NEW to, NEW script, Goto(w, to, script) PROVE IntakeInv'
    BY <1>1, <1>2, <2>1 DEF Goto, runVars
  <2>2. CASE DeliverPart(w)
    BY <1>1, <1>2, <2>2 DEF DeliverPart, runVars
  <2>3. RequestFails(w) => IntakeInv'
    BY <2>1 DEF RequestFails
  <2> QED BY <1>5, <2>1, <2>2, <2>3 DEF Take, SkipCancelled, Dispatch, LockThread, Verify,
        ReadHistory, Chat, Conclude, DeliveryFails, Finish, Exit
<1>6. CASE Shutdown \/ RunStep
  BY <1>6 DEF Shutdown, RunStep, StopScheduler, DrainTimeout, CancelWork, Return, Advance,
      CronRunning
<1>7. CASE CloserStep
  BY <1>1, <1>7 DEF CloserStep, SchedulerStopped, CloseQueue, WriteLockFree, CronRunning, runVars
<1>8. CASE OnlyTimePasses
  BY <1>8 DEF OnlyTimePasses, CronRunning
<1> QED BY Steps, <1>3, <1>4, <1>5, <1>6, <1>7, <1>8

\* Submit never sends on the closed queue, which would panic, however long its
\* eyes reaction takes.
THEOREM IntakeSafe == Spec => []NoSendOnClosedQueue
<1>1. Spec => [](TypeInv /\ IntakeInv)
  BY InitTypes, NextTypes, InitIntake, NextIntake, PTL DEF Spec
<1>2. IntakeInv => NoSendOnClosedQueue
  BY DEF IntakeInv
<1> QED BY <1>1, <1>2, PTL

\* A cron job that has posted its root is never turned away because of the
\* shutdown: the queue outlives the scheduler.
THEOREM RunsAdmitted == Spec => []CronNeverRefused
<1>1. Spec => [](TypeInv /\ IntakeInv)
  BY InitTypes, NextTypes, InitIntake, NextIntake, PTL DEF Spec
<1>2. IntakeInv => CronNeverRefused
  BY DEF IntakeInv
<1> QED BY <1>1, <1>2, PTL

---------------------------------------------------------------------------
(* Forced shutdown *)

ShutdownInv ==
  /\ stage \in {"timedout", "forced"} => replyCtx = "deadline"
  /\ stage = "returned" => Drained
  /\ ForcedReportsBounded
  /\ OnlyForcedSkips

\* Nothing is forced at first.
LEMMA InitShutdown == Init => ShutdownInv
BY DEF Init, ShutdownInv, ForcedReportsBounded, OnlyForcedSkips

\* Every step keeps the shutdown invariant.  A worker can only meet a cancelled
\* workCtx between the cancellation and Run's return, when the reply context
\* has been replaced; once Run has returned no worker is left.
LEMMA NextShutdown == TypeInv /\ ShutdownInv /\ [Next]_vars => ShutdownInv'
<1> SUFFICES ASSUME TypeInv, ShutdownInv, [Next]_vars PROVE ShutdownInv'
  OBVIOUS
<1> USE ServiceAssumption
<1> USE DEF ShutdownInv, ForcedReportsBounded, OnlyForcedSkips, Drained, Cancelled
<1>1. /\ stage \in Stages
      /\ wpc \in [Workers -> WorkerStates]
      /\ ctx \in [Workers -> Contexts]
      /\ replyCtx \in {"background", "deadline"}
  BY DEF TypeInv, TypeOK, Contexts
\* A step that neither moves Run nor skips an item.
<1>2. ASSUME UNCHANGED <<stage, replyCtx, abandoned>>,
             \A w \in Workers : ctx'[w] # "background",
             stage = "returned" => UNCHANGED <<intake, wpc>>
      PROVE  ShutdownInv'
  BY <1>2
<1>3. ASSUME NEW p \in Items \cup Workers, BestEffort(p) PROVE ShutdownInv'
  BY <1>2, <1>3 DEF BestEffort, workerVars, runVars
<1>4. ASSUME NEW i \in Items,
             Submit(i) \/ Offer(i) \/ CronFires(i) \/ PostRoot(i) \/ OfferScheduled(i)
      PROVE  ShutdownInv'
  <2>1. ASSUME NEW at, NEW script, Submitted(i, at, script), intake' = intake PROVE ShutdownInv'
    BY <1>2, <2>1 DEF Submitted, runVars, workerVars
  <2> QED BY <1>4, <2>1 DEF Submit, RejectMarker, IgnoreUnmarked, TakeReadLock, Offer, CronFires,
        PostRoot, OfferScheduled
<1>5. ASSUME NEW w \in Workers,
             Take(w) \/ SkipCancelled(w) \/ Dispatch(w) \/ LockThread(w) \/ Verify(w)
               \/ ReadHistory(w) \/ Chat(w) \/ DeliverPart(w) \/ Conclude(w) \/ Finish(w) \/ Exit(w)
      PROVE  ShutdownInv'
  <2>1. wpc[w] # "exited" /\ stage # "returned"
    BY <1>5 DEF Take, SkipCancelled, Dispatch, LockThread, Verify, ReadHistory, Chat, DeliverPart,
      Conclude, Finish, Exit, At, runVars
  <2>2. ASSUME NEW to, NEW script, Goto(w, to, script), UNCHANGED <<ctx, abandoned>>
        PROVE  ShutdownInv'
    BY <1>2, <2>1, <2>2 DEF Goto, runVars
  <2>3. CASE Take(w)
    BY <1>1, <1>2, <2>1, <2>3 DEF Take, Goto, Contexts, runVars
  <2>4. CASE SkipCancelled(w)
    <3>1. stage = "forced" /\ replyCtx = "deadline"
      BY <1>1, <2>1, <2>4 DEF SkipCancelled
    <3>2. UNCHANGED <<stage, replyCtx>>
      BY <2>4 DEF SkipCancelled, Goto, runVars
    <3>3. CASE ReportedOnShutdown(job[w])
      BY <1>1, <1>2, <2>1, <2>4, <3>1, <3>2, <3>3 DEF SkipCancelled, Contexts
    <3>4. CASE ~ReportedOnShutdown(job[w])
      BY <2>4, <3>1, <3>2, <3>4 DEF SkipCancelled, ReportedOnShutdown
    <3> QED BY <3>3, <3>4
  <2>5. ASSUME RequestFails(w), UNCHANGED abandoned PROVE ShutdownInv'
    BY <1>1, <1>2, <2>1, <2>5 DEF RequestFails, FailureContext, Goto, Contexts, runVars
  <2>6. CASE DeliverPart(w)
    BY <1>2, <2>1, <2>6 DEF DeliverPart, runVars
  <2> QED BY <1>5, <2>2, <2>3, <2>4, <2>5, <2>6 DEF Dispatch, LockThread, Verify, ReadHistory,
        Chat, Conclude, DeliveryFails, Finish, Exit
<1>6. CASE Shutdown \/ RunStep
  BY <1>1, <1>6 DEF Shutdown, RunStep, StopScheduler, DrainTimeout, CancelWork, Return, Advance,
    workerVars
<1>7. CASE CloserStep
  BY <1>7 DEF CloserStep, SchedulerStopped, CloseQueue, runVars, workerVars
<1>8. CASE OnlyTimePasses
  BY <1>8 DEF OnlyTimePasses
<1> QED BY Steps, <1>3, <1>4, <1>5, <1>6, <1>7, <1>8

\* No worker makes a Slack call on the unbounded reply context: the deadline is
\* stored before workCtx is cancelled.
THEOREM ForcedReportsHaveDeadline == Spec => []ForcedReportsBounded
<1>1. Spec => [](TypeInv /\ ShutdownInv)
  BY InitTypes, NextTypes, InitShutdown, NextShutdown, PTL DEF Spec
<1>2. ShutdownInv => ForcedReportsBounded
  BY DEF ShutdownInv
<1> QED BY <1>1, <1>2, PTL

\* Accepted work is skipped only in a forced shutdown, and no scheduled run is.
THEOREM SkipsAreForced == Spec => []OnlyForcedSkips
<1>1. Spec => [](TypeInv /\ ShutdownInv)
  BY InitTypes, NextTypes, InitShutdown, NextShutdown, PTL DEF Spec
<1>2. ShutdownInv => OnlyForcedSkips
  BY DEF ShutdownInv
<1> QED BY <1>1, <1>2, PTL

---------------------------------------------------------------------------
(* The service implements the pool *)

\* Only accepted items are in the queue, held, finished or abandoned; a worker
\* leaves only when the queue is closed and empty.
PlaceInv ==
  /\ \A k \in DOMAIN queue : sub[queue[k]] = "accepted"
  /\ \A w \in Workers : job[w] # None => sub[job[w]] = "accepted"
  /\ \A i \in finished \cup abandoned : sub[i] = "accepted"
  /\ (\E w \in Workers : wpc[w] = "exited") => intake = "closed" /\ queue = <<>>

\* There is nothing anywhere at first.
LEMMA InitPlace == Init => PlaceInv
BY ServiceAssumption DEF Init, PlaceInv

\* A submitter that has not been accepted is nowhere in the pool.
LEMMA NotKnown ==
  ASSUME PlaceInv, NEW i \in Items, sub[i] # "accepted"
  PROVE  i \notin Pool!Known
BY ServiceAssumption DEF PlaceInv, Pool!Known

PoolStep == Pool!Next \/ UNCHANGED Pool!poolVars

\* Every step keeps the places, and is a step of the pool or leaves it alone.
LEMMA NextPlace ==
  ASSUME TypeInv, IntakeInv, ShutdownInv, PlaceInv, [Next]_vars
  PROVE  PlaceInv' /\ PoolStep
<1> USE ServiceAssumption
<1>1. /\ sub \in [Items -> SubmitterStates] /\ queue \in Seq(Items)
      /\ job \in [Workers -> Items \cup {None}] /\ wpc \in [Workers -> WorkerStates]
      /\ finished \subseteq Items /\ abandoned \subseteq Items
  BY DEF TypeInv, TypeOK
<1>2. ASSUME UNCHANGED <<queue, sub, job, finished, abandoned, intake, replyCtx, stage>>,
             \A w \in Workers : wpc'[w] = "exited" => wpc[w] = "exited"
      PROVE  PlaceInv' /\ PoolStep
  BY <1>2 DEF PlaceInv, PoolStep, Pool!poolVars
<1>3. ASSUME NEW p \in Items \cup Workers, BestEffort(p) PROVE PlaceInv' /\ PoolStep
  BY <1>2, <1>3 DEF BestEffort, workerVars, runVars
<1>4. ASSUME NEW i \in Items,
             Submit(i) \/ Offer(i) \/ CronFires(i) \/ PostRoot(i) \/ OfferScheduled(i)
      PROVE  PlaceInv' /\ PoolStep
  <2>1. sub[i] # "accepted"
    BY <1>4 DEF Submit, Offer, CronFires, PostRoot, OfferScheduled
  <2>2. ASSUME NEW at, NEW script, Submitted(i, at, script), intake' = intake, queue' = queue
        PROVE  PlaceInv' /\ PoolStep
    <3>1. UNCHANGED <<job, finished, abandoned, wpc, replyCtx, stage>>
      BY <2>2 DEF Submitted, runVars, workerVars
    <3>2. \A j \in Items : j # i => sub'[j] = sub[j]
      BY <1>1, <2>2 DEF Submitted
    <3>3. PlaceInv'
      <4>1. \A k \in DOMAIN queue : queue[k] \in Items
        BY <1>1
      <4> QED BY <1>1, <2>1, <2>2, <3>1, <3>2, <4>1 DEF PlaceInv
    <3> QED BY <2>2, <3>1, <3>3 DEF PoolStep, Pool!poolVars
  <2>3. ASSUME NEW script, Submitted(i, "accepted", script), UNCHANGED intake, intake # "closed",
               Len(queue) < QueueSize, queue' = Append(queue, i)
        PROVE  PlaceInv' /\ PoolStep
    <3>1. UNCHANGED <<job, finished, abandoned, wpc, replyCtx, stage>>
      BY <2>3 DEF Submitted, runVars, workerVars
    <3>2. \A j \in Items : sub[j] = "accepted" => sub'[j] = "accepted"
      BY <1>1, <2>3 DEF Submitted
    <3>3. \A k \in DOMAIN queue' : sub'[queue'[k]] = "accepted"
      <4> SUFFICES ASSUME NEW k \in DOMAIN queue' PROVE sub'[queue'[k]] = "accepted"
        OBVIOUS
      <4>1. CASE k = Len(queue) + 1
        BY <1>1, <2>3, <4>1 DEF Submitted
      <4>2. CASE k # Len(queue) + 1
        <5>1. k \in DOMAIN queue /\ queue'[k] = queue[k] /\ queue[k] \in Items
          BY <1>1, <2>3, <4>2
        <5> QED BY <3>2, <5>1 DEF PlaceInv
      <4> QED BY <4>1, <4>2
    <3>4. PlaceInv'
      BY <1>1, <2>3, <3>1, <3>2, <3>3 DEF PlaceInv
    <3>5. Pool!Accept(i)
      BY <2>1, <2>3, <3>1, NotKnown DEF Pool!Accept
    <3> QED BY <3>4, <3>5 DEF PoolStep, Pool!Next
  <2>4. CASE Submit(i)
    BY <2>2, <2>4 DEF Submit, RejectMarker, IgnoreUnmarked, TakeReadLock
  <2>5. CASE Offer(i)
    <3>1. intake # "closed"
      BY <2>5 DEF Offer, IntakeInv, NoSendOnClosedQueue
    <3> QED BY <2>2, <2>3, <2>5, <3>1 DEF Offer
  <2>6. CASE CronFires(i)
    BY <2>2, <2>6 DEF CronFires
  <2>7. CASE PostRoot(i)
    BY <2>2, <2>7 DEF PostRoot
  <2>8. CASE OfferScheduled(i)
    BY <2>2, <2>3, <2>8 DEF OfferScheduled
  <2> QED BY <1>4, <2>4, <2>5, <2>6, <2>7, <2>8
<1>5. ASSUME NEW w \in Workers,
             Take(w) \/ SkipCancelled(w) \/ Dispatch(w) \/ LockThread(w) \/ Verify(w)
               \/ ReadHistory(w) \/ Chat(w) \/ DeliverPart(w) \/ Conclude(w) \/ Finish(w) \/ Exit(w)
      PROVE  PlaceInv' /\ PoolStep
  \* Steps that neither take an item nor let one go.
  <2>1. ASSUME NEW to, to # "exited", NEW script, Goto(w, to, script),
               UNCHANGED <<queue, job, finished, abandoned>>
        PROVE  PlaceInv' /\ PoolStep
    BY <1>1, <1>2, <2>1 DEF Goto, runVars
  <2>2. CASE Dispatch(w)
    BY <2>1, <2>2 DEF Dispatch
  <2>3. CASE LockThread(w)
    BY <2>1, <2>3 DEF LockThread, AfterLock
  <2>4. CASE Verify(w) \/ ReadHistory(w)
    BY <2>1, <2>4 DEF Verify, ReadHistory
  <2>5. CASE Chat(w) \/ Conclude(w)
    BY <2>1, <2>5 DEF Chat, Conclude, RequestFails, DeliveryFails
  <2>6. CASE DeliverPart(w)
    BY <1>1, <1>2, <2>6 DEF DeliverPart, runVars
  <2>7. CASE Take(w)
    <3>1. job[w] = None
      BY <2>7 DEF Take, At, TypeInv, HoldsJob
    <3>2. UNCHANGED <<intake, sub, stage, replyCtx, finished, abandoned>>
      BY <2>7 DEF Take, Goto, runVars
    <3>3. Head(queue) = queue[1] /\ 1 \in DOMAIN queue /\ queue[1] \in Items
          /\ \A k \in DOMAIN Tail(queue) : k + 1 \in DOMAIN queue /\ Tail(queue)[k] = queue[k + 1]
      BY <1>1, <2>7 DEF Take
    <3>4. \A v \in Workers : wpc'[v] # "exited"
      BY <1>1, <2>7 DEF Take, Goto, PlaceInv, runVars
    <3>5. \A v \in Workers : job'[v] # None => sub[job'[v]] = "accepted"
      BY <1>1, <2>7, <3>3 DEF Take, PlaceInv
    <3>6. PlaceInv'
      BY <2>7, <3>2, <3>3, <3>4, <3>5 DEF Take, PlaceInv
    <3>7. Pool!Start(w)
      BY <2>7, <3>1, <3>2 DEF Take, Pool!Start
    <3> QED BY <3>6, <3>7 DEF PoolStep, Pool!Next
  <2>8. CASE SkipCancelled(w)
    <3>1. stage = "forced" /\ replyCtx = "deadline"
      BY <2>8 DEF SkipCancelled, At, Cancelled, ShutdownInv, Drained
    <3>2. CASE ReportedOnShutdown(job[w])
      BY <2>1, <2>8, <3>2 DEF SkipCancelled
    <3>3. CASE ~ReportedOnShutdown(job[w])
      <4>1. job[w] \in Items
        BY <2>8 DEF SkipCancelled, At, TypeInv, HoldsJob
      <4>2. /\ abandoned' = abandoned \cup {job[w]} /\ job' = [job EXCEPT ![w] = None]
            /\ UNCHANGED <<queue, sub, intake, stage, replyCtx, finished>>
            /\ wpc' = [wpc EXCEPT ![w] = "idle"]
        BY <2>8, <3>3 DEF SkipCancelled, Goto, runVars
      <4>3. PlaceInv'
        BY <1>1, <4>1, <4>2 DEF PlaceInv
      <4>4. Pool!Abandon(w)
        BY <3>1, <4>1, <4>2 DEF Pool!Abandon
      <4> QED BY <4>3, <4>4 DEF PoolStep, Pool!Next
    <3> QED BY <3>2, <3>3
  <2>9. CASE Finish(w)
    <3>1. job[w] \in Items
      BY <2>9 DEF Finish, At, TypeInv, HoldsJob
    <3>2. /\ finished' = finished \cup {job[w]} /\ job' = [job EXCEPT ![w] = None]
          /\ UNCHANGED <<queue, sub, intake, stage, replyCtx, abandoned>>
          /\ wpc' = [wpc EXCEPT ![w] = "idle"]
      BY <2>9 DEF Finish, Goto, runVars
    <3>3. PlaceInv'
      BY <1>1, <3>1, <3>2 DEF PlaceInv
    <3>4. Pool!Settle(w)
      BY <3>1, <3>2 DEF Pool!Settle
    <3> QED BY <3>3, <3>4 DEF PoolStep, Pool!Next
  <2>10. CASE Exit(w)
    BY <2>10 DEF Exit, RangeEnds, Goto, PlaceInv, PoolStep, Pool!poolVars, runVars
  <2> QED BY <1>5, <2>2, <2>3, <2>4, <2>5, <2>6, <2>7, <2>8, <2>9, <2>10
<1>6. CASE Shutdown \/ RunStep
  <2>1. CASE Shutdown \/ StopScheduler \/ CancelWork
    BY <2>1 DEF Shutdown, StopScheduler, CancelWork, Advance, workerVars, PlaceInv, PoolStep,
      Pool!poolVars
  <2>2. CASE DrainTimeout
    <3>1. Pool!Force
      BY <2>2 DEF DrainTimeout, Advance, workerVars, Pool!Force
    <3> QED BY <2>2, <3>1 DEF DrainTimeout, Advance, workerVars, PlaceInv, PoolStep, Pool!Next
  <2>3. CASE Return
    <3>1. intake = "closed" /\ queue = <<>> /\ \A w \in Workers : job[w] = None
      BY <2>3 DEF Return, Drained, PlaceInv, TypeInv, HoldsJob
    <3>2. Pool!Stop
      BY <2>3, <3>1 DEF Return, Advance, workerVars, Pool!Stop
    <3> QED BY <2>3, <3>2 DEF Return, Advance, workerVars, PlaceInv, PoolStep, Pool!Next
  <2> QED BY <1>6, <2>1, <2>2, <2>3 DEF RunStep
<1>7. CASE CloserStep
  <2>1. CASE SchedulerStopped
    BY <2>1 DEF SchedulerStopped, runVars, workerVars, PlaceInv, PoolStep, Pool!poolVars
  <2>2. CASE CloseQueue
    <3>1. Pool!Close
      BY <2>2 DEF CloseQueue, runVars, workerVars, Pool!Close
    <3> QED BY <2>2, <3>1 DEF CloseQueue, runVars, workerVars, PlaceInv, PoolStep, Pool!Next
  <2> QED BY <1>7, <2>1, <2>2 DEF CloserStep
<1>8. CASE OnlyTimePasses
  BY <1>2, <1>8 DEF OnlyTimePasses
<1> QED BY Steps, <1>3, <1>4, <1>5, <1>6, <1>7, <1>8

\* The service implements WorkPool: accepted work is started in order, settled
\* exactly once, skipped only when the shutdown is forced, never accepted once
\* the queue is closed, and none of it is left when Run returns.
THEOREM ServiceImplementsPool == Spec => ImplementsPool
<1>1. Init => Pool!Init
  BY DEF Init, Pool!Init
<1>2. Spec => [](TypeInv /\ IntakeInv /\ ShutdownInv)
  BY InitTypes, NextTypes, InitIntake, NextIntake, InitShutdown, NextShutdown, PTL DEF Spec
<1>3. TypeInv /\ IntakeInv /\ ShutdownInv /\ PlaceInv /\ [Next]_vars => PlaceInv'
  BY NextPlace
<1>4. TypeInv /\ IntakeInv /\ ShutdownInv /\ PlaceInv /\ [Next]_vars => [Pool!Next]_(Pool!poolVars)
  BY NextPlace DEF PoolStep
<1> QED
  BY <1>1, <1>2, <1>3, <1>4, InitPlace, PTL DEF Spec, ImplementsPool, Pool!Spec

---------------------------------------------------------------------------
(* An item is in one place *)

UniqueInv ==
  /\ \A k, l \in DOMAIN queue : queue[k] = queue[l] => k = l
  /\ \A v, w \in Workers : job[v] = job[w] /\ job[v] # None => v = w
  /\ \A w \in Workers : \A k \in DOMAIN queue : job[w] # queue[k]
  /\ \A i \in finished : /\ \A k \in DOMAIN queue : queue[k] # i
                         /\ \A w \in Workers : job[w] # i

\* No item is anywhere at first.
LEMMA InitUnique == Init => UniqueInv
BY ServiceAssumption DEF Init, UniqueInv

Enqueues(i) ==
  sub[i] # "accepted" /\ queue' = Append(queue, i) /\ UNCHANGED <<job, finished>>
Takes(w) ==
  /\ job[w] = None /\ queue # <<>>
  /\ job' = [job EXCEPT ![w] = Head(queue)] /\ queue' = Tail(queue)
  /\ UNCHANGED finished
Lets(w) ==
  /\ job[w] # None
  /\ job' = [job EXCEPT ![w] = None] /\ UNCHANGED queue
  /\ finished' \in {finished, finished \cup {job[w]}}

\* How a step moves items.
LEMMA Moves ==
  ASSUME TypeInv, [Next]_vars
  PROVE  \/ UNCHANGED <<queue, job, finished>>
         \/ \E i \in Items : Enqueues(i)
         \/ \E w \in Workers : Takes(w) \/ Lets(w)
<1>1. ASSUME NEW p \in Items \cup Workers, BestEffort(p) PROVE UNCHANGED <<queue, job, finished>>
  BY <1>1 DEF BestEffort, workerVars, runVars
<1>2. ASSUME NEW i \in Items,
             Submit(i) \/ Offer(i) \/ CronFires(i) \/ PostRoot(i) \/ OfferScheduled(i)
      PROVE  UNCHANGED <<queue, job, finished>> \/ Enqueues(i)
  <2>1. ASSUME NEW at, NEW script, Submitted(i, at, script) PROVE UNCHANGED <<job, finished>>
    BY <2>1 DEF Submitted, workerVars
  <2>2. CASE Submit(i)
    BY <2>1, <2>2 DEF Submit, RejectMarker, IgnoreUnmarked, TakeReadLock
  <2>3. CASE Offer(i)
    BY <2>1, <2>3 DEF Offer, Enqueues
  <2>4. CASE CronFires(i) \/ PostRoot(i)
    BY <2>1, <2>4 DEF CronFires, PostRoot
  <2>5. CASE OfferScheduled(i)
    BY <2>1, <2>5 DEF OfferScheduled, Enqueues
  <2> QED BY <1>2, <2>2, <2>3, <2>4, <2>5
<1>3. ASSUME NEW w \in Workers,
             Take(w) \/ SkipCancelled(w) \/ Dispatch(w) \/ LockThread(w) \/ Verify(w)
               \/ ReadHistory(w) \/ Chat(w) \/ DeliverPart(w) \/ Conclude(w) \/ Finish(w) \/ Exit(w)
      PROVE  UNCHANGED <<queue, job, finished>> \/ Takes(w) \/ Lets(w)
  <2>1. CASE Take(w)
    BY <2>1 DEF Take, Takes, At, TypeInv, HoldsJob
  <2>2. CASE SkipCancelled(w)
    <3>1. job[w] # None
      BY <2>2, ServiceAssumption DEF SkipCancelled, At, TypeInv, HoldsJob
    <3> QED BY <2>2, <3>1 DEF SkipCancelled, Lets
  <2>3. CASE Finish(w)
    <3>1. job[w] # None
      BY <2>3, ServiceAssumption DEF Finish, At, TypeInv, HoldsJob
    <3> QED BY <2>3, <3>1 DEF Finish, Lets
  <2> QED BY <1>3, <2>1, <2>2, <2>3 DEF Dispatch, LockThread, Verify, ReadHistory, Chat,
      DeliverPart,
        Conclude, Exit, runVars
<1>4. Shutdown \/ RunStep \/ CloserStep \/ OnlyTimePasses => UNCHANGED <<queue, job, finished>>
  BY DEF Shutdown, RunStep, StopScheduler, DrainTimeout, CancelWork, Return, Advance, CloserStep,
    SchedulerStopped, CloseQueue, workerVars, OnlyTimePasses
<1> QED BY Steps, <1>1, <1>2, <1>3, <1>4

\* Every step keeps an item in one place: only an item that was not accepted
\* enters the queue.
LEMMA NextUnique ==
  ASSUME TypeInv, PlaceInv, UniqueInv, [Next]_vars
  PROVE  UniqueInv'
<1> USE ServiceAssumption
<1>1. /\ queue \in Seq(Items) /\ job \in [Workers -> Items \cup {None}]
      /\ finished \subseteq Items /\ None \notin Items
  BY DEF TypeInv, TypeOK
<1>2. CASE UNCHANGED <<queue, job, finished>>
  BY <1>2 DEF UniqueInv
<1>3. ASSUME NEW i \in Items, Enqueues(i) PROVE UniqueInv'
  <2>1. /\ \A k \in DOMAIN queue : queue[k] # i
        /\ \A w \in Workers : job[w] # i
        /\ i \notin finished
    BY <1>3, <1>1 DEF Enqueues, PlaceInv
  <2>2. /\ DOMAIN queue' = DOMAIN queue \cup {Len(queue) + 1} /\ Len(queue) + 1 \notin DOMAIN queue
        /\ \A k \in DOMAIN queue : queue'[k] = queue[k]
        /\ queue'[Len(queue) + 1] = i
    BY <1>1, <1>3 DEF Enqueues
  <2>3. UNCHANGED <<job, finished>>
    BY <1>3 DEF Enqueues
  <2> QED BY <2>1, <2>2, <2>3 DEF UniqueInv
<1>4. ASSUME NEW w \in Workers, Takes(w) PROVE UniqueInv'
  <2>1. /\ 1 \in DOMAIN queue /\ Head(queue) = queue[1] /\ Head(queue) \in Items
        /\ \A k \in DOMAIN queue' : k \in Nat /\ k + 1 \in DOMAIN queue /\ k + 1 # 1
                                    /\ queue'[k] = queue[k + 1]
    BY <1>1, <1>4 DEF Takes
  <2>2. /\ \A v \in Workers : job'[v] = IF v = w THEN queue[1] ELSE job[v]
        /\ finished' = finished
    BY <1>1, <1>4, <2>1 DEF Takes
  <2>3. \A k, l \in DOMAIN queue' : queue'[k] = queue'[l] => k = l
    <3> SUFFICES ASSUME NEW k \in DOMAIN queue', NEW l \in DOMAIN queue', queue'[k] = queue'[l]
                 PROVE k = l
      OBVIOUS
    <3>1. queue[k + 1] = queue[l + 1]
      BY <2>1
    <3>2. k + 1 = l + 1
      BY <2>1, <3>1 DEF UniqueInv
    <3> QED BY <2>1, <3>2
  <2>4. \A v, u \in Workers : job'[v] = job'[u] /\ job'[v] # None => v = u
    BY <2>1, <2>2 DEF UniqueInv
  <2>5. \A v \in Workers : \A k \in DOMAIN queue' : job'[v] # queue'[k]
    BY <2>1, <2>2 DEF UniqueInv
  <2>6. \A i \in finished' : /\ \A k \in DOMAIN queue' : queue'[k] # i
                             /\ \A v \in Workers : job'[v] # i
    BY <2>1, <2>2 DEF UniqueInv
  <2> QED BY <2>3, <2>4, <2>5, <2>6 DEF UniqueInv
<1>5. ASSUME NEW w \in Workers, Lets(w) PROVE UniqueInv'
  <2>1. /\ \A v \in Workers : job'[v] = IF v = w THEN None ELSE job[v]
        /\ queue' = queue
        /\ \A i \in finished' : i \in finished \/ i = job[w]
        /\ job[w] \in Items
    BY <1>1, <1>5 DEF Lets
  <2>2. \A k \in DOMAIN queue : queue[k] # None
    BY <1>1
  <2>3. \A i \in finished : i # None
    BY <1>1
  <2> QED BY <2>1, <2>2, <2>3 DEF UniqueInv
<1> QED BY Moves, <1>2, <1>3, <1>4, <1>5

---------------------------------------------------------------------------
(* What a list still counts *)

\* Place k of a list counts one of the labels.
CountsAt(list, k, labels) == list[k].op = "count" /\ list[k].arg \in labels

\* The list counts one of them; it counts no more than one of them.
StillCounts(list, labels) == \E k \in DOMAIN list : CountsAt(list, k, labels)
CountsOnce(list, labels) ==
  \A j, k \in DOMAIN list : CountsAt(list, j, labels) /\ CountsAt(list, k, labels) => j = k

\* After each of the labels the list still counts a failed run.
RunFailsLast(list, labels) ==
  \A j \in DOMAIN list :
    CountsAt(list, j, labels) => \E k \in DOMAIN list : j < k /\ CountsAt(list, k, {"run_failed"})

\* What a concatenation counts.
LEMMA ConcatCounts ==
  ASSUME NEW s \in Seq(Calls), NEW t \in Seq(Calls), NEW labels
  PROVE  /\ StillCounts(s \o t, labels) <=> StillCounts(s, labels) \/ StillCounts(t, labels)
         /\ CountsOnce(s, labels) /\ ~StillCounts(t, labels) => CountsOnce(s \o t, labels)
         /\ CountsOnce(t, labels) /\ ~StillCounts(s, labels) => CountsOnce(s \o t, labels)
         /\ ~StillCounts(s, labels) /\ ~StillCounts(t, labels) => RunFailsLast(s \o t, labels)
         /\ ~StillCounts(t, labels) /\ StillCounts(t, {"run_failed"}) => RunFailsLast(s \o t, labels)
<1>1. DOMAIN (s \o t) = 1 .. Len(s) + Len(t) /\ DOMAIN s = 1 .. Len(s) /\ DOMAIN t = 1 .. Len(t)
      /\ Len(s) \in Nat /\ Len(t) \in Nat
  OBVIOUS
<1>2. \A k \in 1 .. Len(s) + Len(t) : (s \o t)[k] = IF k <= Len(s) THEN s[k] ELSE t[k - Len(s)]
  OBVIOUS
<1> DEFINE st == s \o t
<1>3. /\ DOMAIN st = 1 .. Len(s) + Len(t)
      /\ \A k \in 1 .. Len(s) : k \in DOMAIN st /\ st[k] = s[k]
      /\ \A k \in 1 .. Len(t) : k + Len(s) \in DOMAIN st /\ st[k + Len(s)] = t[k]
      /\ \A k \in DOMAIN st : k \in DOMAIN s \/ (k - Len(s) \in DOMAIN t /\ st[k] = t[k - Len(s)])
  BY <1>1, <1>2
<1> HIDE DEF st
<1>4. \A L : \A k \in 1 .. Len(s) : CountsAt(st, k, L) <=> CountsAt(s, k, L)
  BY <1>3 DEF CountsAt
<1>5. \A L : \A k \in 1 .. Len(t) : CountsAt(st, k + Len(s), L) <=> CountsAt(t, k, L)
  BY <1>3 DEF CountsAt
<1>6. \A L : StillCounts(st, L) <=> StillCounts(s, L) \/ StillCounts(t, L)
  <2> SUFFICES ASSUME NEW L PROVE StillCounts(st, L) <=> StillCounts(s, L) \/ StillCounts(t, L)
    OBVIOUS
  <2>1. ASSUME StillCounts(st, L) PROVE StillCounts(s, L) \/ StillCounts(t, L)
    <3>1. PICK k \in DOMAIN st : CountsAt(st, k, L)
      BY <2>1 DEF StillCounts
    <3>2. CASE k \in DOMAIN s
      BY <1>1, <1>4, <3>1, <3>2 DEF StillCounts
    <3>3. CASE k - Len(s) \in DOMAIN t /\ st[k] = t[k - Len(s)]
      BY <3>1, <3>3 DEF StillCounts, CountsAt
    <3> QED BY <1>3, <3>2, <3>3
  <2>2. StillCounts(s, L) => StillCounts(st, L)
    BY <1>1, <1>3, <1>4 DEF StillCounts
  <2>3. StillCounts(t, L) => StillCounts(st, L)
    BY <1>1, <1>3, <1>5 DEF StillCounts
  <2> QED BY <2>1, <2>2, <2>3
<1>7. \A L : \A k \in DOMAIN st : CountsAt(st, k, L) /\ ~StillCounts(t, L) => k \in DOMAIN s /\ CountsAt(s, k, L)
  BY <1>3, <1>1 DEF StillCounts, CountsAt
<1>8. \A L : \A k \in DOMAIN st : CountsAt(st, k, L) /\ ~StillCounts(s, L)
        => k - Len(s) \in DOMAIN t /\ CountsAt(t, k - Len(s), L)
  BY <1>3, <1>1 DEF StillCounts, CountsAt
<1>9. CountsOnce(s, labels) /\ ~StillCounts(t, labels) => CountsOnce(st, labels)
  BY <1>7 DEF CountsOnce
<1>10. CountsOnce(t, labels) /\ ~StillCounts(s, labels) => CountsOnce(st, labels)
  <2> SUFFICES ASSUME CountsOnce(t, labels), ~StillCounts(s, labels), NEW j \in DOMAIN st,
                      NEW k \in DOMAIN st, CountsAt(st, j, labels), CountsAt(st, k, labels)
               PROVE  j = k
    BY DEF CountsOnce
  <2>1. j - Len(s) = k - Len(s)
    BY <1>8 DEF CountsOnce
  <2> QED BY <1>1, <1>3, <2>1
<1>11. ~StillCounts(s, labels) /\ ~StillCounts(t, labels) => RunFailsLast(st, labels)
  BY <1>6 DEF RunFailsLast, StillCounts
<1>12. ~StillCounts(t, labels) /\ StillCounts(t, {"run_failed"}) => RunFailsLast(st, labels)
  <2> SUFFICES ASSUME ~StillCounts(t, labels), StillCounts(t, {"run_failed"}), NEW j \in DOMAIN st,
                      CountsAt(st, j, labels)
               PROVE  \E k \in DOMAIN st : j < k /\ CountsAt(st, k, {"run_failed"})
    BY DEF RunFailsLast
  <2>1. j \in 1 .. Len(s)
    BY <1>1, <1>7
  <2>2. PICK k \in 1 .. Len(t) : CountsAt(t, k, {"run_failed"})
    BY <1>1 DEF StillCounts
  <2>3. k + Len(s) \in DOMAIN st /\ j < k + Len(s) /\ CountsAt(st, k + Len(s), {"run_failed"})
    BY <1>1, <1>3, <1>5, <2>1, <2>2
  <2> QED BY <2>3
<1> QED BY <1>6, <1>9, <1>10, <1>11, <1>12 DEF st

\* What the rest of a list counts.
LEMMA TailCounts ==
  ASSUME NEW s \in Seq(Calls), s # <<>>, NEW labels
  PROVE  LET here == Head(s).op = "count" /\ Head(s).arg \in labels IN
         /\ StillCounts(s, labels) <=> here \/ StillCounts(Tail(s), labels)
         /\ CountsOnce(s, labels) => CountsOnce(Tail(s), labels)
         /\ CountsOnce(s, labels) /\ here => ~StillCounts(Tail(s), labels)
         /\ RunFailsLast(s, labels) => RunFailsLast(Tail(s), labels)
         /\ RunFailsLast(s, labels) /\ here => StillCounts(Tail(s), {"run_failed"})
<1>1. /\ Head(s) = s[1] /\ DOMAIN s = 1 .. Len(s) /\ Len(s) \in Nat \ {0}
      /\ DOMAIN Tail(s) = 1 .. Len(s) - 1
      /\ \A k \in 1 .. Len(s) - 1 : Tail(s)[k] = s[k + 1]
  OBVIOUS
<1> DEFINE r == Tail(s)
<1>2. /\ 1 \in DOMAIN s
      /\ \A k \in DOMAIN r : k \in Nat /\ k + 1 \in DOMAIN s /\ k + 1 # 1 /\ r[k] = s[k + 1]
      /\ \A k \in DOMAIN s : k = 1 \/ (k - 1 \in DOMAIN r /\ r[k - 1] = s[k])
      /\ DOMAIN s \subseteq Nat
  BY <1>1
<1> HIDE DEF r
<1>3. \A L : CountsAt(s, 1, L) <=> Head(s).op = "count" /\ Head(s).arg \in L
  BY <1>1 DEF CountsAt
<1>4. \A L : \A k \in DOMAIN r : CountsAt(r, k, L) <=> CountsAt(s, k + 1, L)
  BY <1>2 DEF CountsAt
<1>5. \A L : \A k \in DOMAIN s : k = 1 \/ (k - 1 \in DOMAIN r /\ (CountsAt(r, k - 1, L) <=> CountsAt(s, k, L)))
  BY <1>2 DEF CountsAt
<1>6. StillCounts(s, labels) <=> CountsAt(s, 1, labels) \/ StillCounts(r, labels)
  BY <1>2, <1>4, <1>5 DEF StillCounts
<1>7. CountsOnce(s, labels) => CountsOnce(r, labels)
  <2> SUFFICES ASSUME CountsOnce(s, labels), NEW j \in DOMAIN r, NEW k \in DOMAIN r,
                      CountsAt(r, j, labels), CountsAt(r, k, labels)
               PROVE  j = k
    BY DEF CountsOnce
  <2>1. j + 1 = k + 1
    BY <1>2, <1>4 DEF CountsOnce
  <2> QED BY <1>2, <2>1
<1>8. CountsOnce(s, labels) /\ CountsAt(s, 1, labels) => ~StillCounts(r, labels)
  BY <1>2, <1>4 DEF CountsOnce, StillCounts
<1>9. ASSUME RunFailsLast(s, labels), NEW j \in DOMAIN s, CountsAt(s, j, labels)
      PROVE  \E k \in DOMAIN r : j < k + 1 /\ CountsAt(r, k, {"run_failed"})
  <2>1. PICK k \in DOMAIN s : j < k /\ CountsAt(s, k, {"run_failed"})
    BY <1>9 DEF RunFailsLast
  <2>2. k # 1 /\ k - 1 \in DOMAIN r /\ CountsAt(r, k - 1, {"run_failed"}) /\ j < (k - 1) + 1
    BY <1>1, <1>5, <2>1
  <2> QED BY <2>2
<1>10. RunFailsLast(s, labels) => RunFailsLast(r, labels)
  <2> SUFFICES ASSUME RunFailsLast(s, labels), NEW j \in DOMAIN r, CountsAt(r, j, labels)
               PROVE  \E k \in DOMAIN r : j < k /\ CountsAt(r, k, {"run_failed"})
    BY DEF RunFailsLast
  <2>1. j + 1 \in DOMAIN s /\ CountsAt(s, j + 1, labels)
    BY <1>2, <1>4
  <2>2. PICK k \in DOMAIN r : j + 1 < k + 1 /\ CountsAt(r, k, {"run_failed"})
    BY <1>9, <2>1
  <2> QED BY <1>2, <2>2
<1>11. RunFailsLast(s, labels) /\ CountsAt(s, 1, labels) => StillCounts(r, {"run_failed"})
  BY <1>2, <1>9 DEF StillCounts
<1> QED BY <1>3, <1>6, <1>7, <1>8, <1>10, <1>11 DEF r

---------------------------------------------------------------------------
(* The counters in the lists that are given out *)

RunLabels == {"run_success", "run_failed"}
EventLabels == {"firing", "freeform", "resolved", "failed"}

\* A list counts exactly these labels, each of them once.
Tally(list, labels) ==
  \A L : /\ StillCounts(list, L) <=> L \cap labels # {}
         /\ (\A a, b \in L \cap labels : a = b) => CountsOnce(list, L)

\* Two lists that count different labels count them all one after the other.
LEMMA ConcatTally ==
  ASSUME NEW s \in Seq(Calls), NEW t \in Seq(Calls), NEW A, NEW B,
         Tally(s, A), Tally(t, B), A \cap B = {}
  PROVE  s \o t \in Seq(Calls) /\ Tally(s \o t, A \cup B)
<1>1. s \o t \in Seq(Calls)
  BY ConcatTypes
<1> SUFFICES ASSUME NEW L
             PROVE  /\ StillCounts(s \o t, L) <=> L \cap (A \cup B) # {}
                    /\ (\A a, b \in L \cap (A \cup B) : a = b) => CountsOnce(s \o t, L)
  BY <1>1 DEF Tally
<1>2. /\ StillCounts(s, L) <=> L \cap A # {}
      /\ StillCounts(t, L) <=> L \cap B # {}
      /\ (\A a, b \in L \cap A : a = b) => CountsOnce(s, L)
      /\ (\A a, b \in L \cap B : a = b) => CountsOnce(t, L)
  BY DEF Tally
<1>3. StillCounts(s \o t, L) <=> L \cap (A \cup B) # {}
  BY <1>2, ConcatCounts
<1>4. ASSUME \A a, b \in L \cap (A \cup B) : a = b PROVE CountsOnce(s \o t, L)
  <2>1. L \cap A = {} \/ L \cap B = {}
    <3> SUFFICES ASSUME NEW a \in L \cap A, NEW b \in L \cap B PROVE FALSE
      OBVIOUS
    <3>1. a = b
      BY <1>4
    <3> QED BY <3>1
  <2>2. (\A a, b \in L \cap A : a = b) /\ (\A a, b \in L \cap B : a = b)
    BY <1>4
  <2> QED BY <1>2, <2>1, <2>2, ConcatCounts
<1> QED BY <1>3, <1>4

\* A single call counts its label, if it is a counter.
LEMMA SingleTally ==
  /\ \A l \in Labels : Count(l) \in Seq(Calls) /\ Tally(Count(l), {l})
  /\ \A r \in Reactions : Add(r) \in Seq(Calls) /\ Tally(Add(r), {})
  /\ \A r \in Reactions : Remove(r) \in Seq(Calls) /\ Tally(Remove(r), {})
  /\ \A k \in Replies : Reply(k) \in Seq(Calls) /\ Tally(Reply(k), {})
  /\ <<>> \in Seq(Calls) /\ Tally(<<>>, {})
<1>1. \A x : Tally(Count(x), {x})
  BY DEF Tally, Count, StillCounts, CountsOnce, CountsAt
<1>2. \A x : Tally(Add(x), {}) /\ Tally(Remove(x), {}) /\ Tally(Reply(x), {})
  BY DEF Tally, Add, Remove, Reply, StillCounts, CountsOnce, CountsAt
<1>3. Tally(<<>>, {})
  BY DEF Tally, StillCounts, CountsOnce
<1> QED BY <1>1, <1>2, <1>3, CallTypes

\* A change of reactions counts nothing.
LEMMA TransitionTally ==
  ASSUME NEW r \in Reactions, NEW a \in Reactions
  PROVE  Transition(r, a) \in Seq(Calls) /\ Tally(Transition(r, a), {})
BY ConcatTally, SingleTally DEF Transition

\* The counters of the lists that submitters are given.
LEMMA SubmitterTally ==
  /\ Tally(Accepted, {"accepted"})
  /\ Tally(FailScheduledIntake, {"run_failed"})
  /\ Tally(Count("failed") \o Add("x"), {"failed"})
  /\ Tally(Count("dropped") \o Transition("eyes", "x"), {"dropped"})
<1>1. /\ "eyes" \in Reactions /\ "x" \in Reactions /\ "intake" \in Replies
      /\ "failed" \in Labels /\ "dropped" \in Labels /\ "run_failed" \in Labels
      /\ "accepted" \in Labels
  BY DEF Reactions, Replies, FailureReplies, Labels
<1>2. Tally(Accepted, {"accepted"})
  BY <1>1, SingleTally DEF Accepted
<1>3. Tally(FailScheduledIntake, {"run_failed"})
  <2>1. {} \cup {} = {} /\ {} \cup {"run_failed"} = {"run_failed"} /\ {} \cap {"run_failed"} = {}
    OBVIOUS
  <2>2. Reply("intake") \o Add("x") \in Seq(Calls) /\ Tally(Reply("intake") \o Add("x"), {} \cup {})
    BY <1>1, SingleTally, ConcatTally
  <2>3. Count("run_failed") \in Seq(Calls) /\ Tally(Count("run_failed"), {"run_failed"})
    BY <1>1, SingleTally
  <2>4. Tally(Reply("intake") \o Add("x") \o Count("run_failed"), {} \cup {"run_failed"})
    BY <2>1, <2>2, <2>3, ConcatTally
  <2> QED BY <2>1, <2>4 DEF FailScheduledIntake
<1>4. Tally(Count("failed") \o Add("x"), {"failed"} \cup {})
  BY <1>1, SingleTally, ConcatTally
<1>5. Tally(Count("dropped") \o Transition("eyes", "x"), {"dropped"} \cup {})
  BY <1>1, SingleTally, TransitionTally, ConcatTally
<1>6. {"failed"} \cup {} = {"failed"} /\ {"dropped"} \cup {} = {"dropped"}
  OBVIOUS
<1> QED BY <1>2, <1>3, <1>4, <1>5, <1>6

\* Those of the lists that workers are given.
LEMMA WorkerTally ==
  ASSUME NEW i \in Items, NEW c \in BOOLEAN
  PROVE  /\ Tally(FailScheduledShutdown, {"run_failed"})
         /\ Tally(FailVerification, {"failed"})
         /\ Tally(FailHistory, {"failed"})
         /\ Tally(Resolve, {"resolved"})
         /\ Tally(BeginHolmes(i), {})
         /\ \A script \in {FailHolmesRequest(i, c), FailHolmesAnswerDelivery(i)} :
              /\ Tally(script, IF i \in Scheduled THEN {"failed", "run_failed"} ELSE {"failed"})
              /\ i \in Scheduled => RunFailsLast(script, EventLabels)
         /\ Tally(Succeed(i), {IF i \in Scheduled THEN "run_success"
                               ELSE IF Kind[i] = "ask" THEN "freeform" ELSE "firing"})
<1>1. /\ "eyes" \in Reactions /\ "x" \in Reactions /\ "hourglass" \in Reactions
      /\ "check" \in Reactions /\ "green" \in Reactions
      /\ "verification" \in Replies /\ "request" \in Replies /\ "delivery" \in Replies
      /\ "shutdown" \in Replies
      /\ "failed" \in Labels /\ "resolved" \in Labels /\ "run_failed" \in Labels
  BY DEF Reactions, Replies, FailureReplies, Labels
<1>2. /\ \A l \in Labels : Count(l) \in Seq(Calls) /\ Tally(Count(l), {l})
      /\ \A r, a \in Reactions : Transition(r, a) \in Seq(Calls) /\ Tally(Transition(r, a), {})
      /\ \A k \in Replies : Reply(k) \in Seq(Calls) /\ Tally(Reply(k), {})
      /\ \A r \in Reactions : Add(r) \in Seq(Calls) /\ Tally(Add(r), {})
      /\ <<>> \in Seq(Calls) /\ Tally(<<>>, {})
  BY SingleTally, TransitionTally
<1>3. \A s, t \in Seq(Calls) : \A A, B : Tally(s, A) /\ Tally(t, B) /\ A \cap B = {}
        => s \o t \in Seq(Calls) /\ Tally(s \o t, A \cup B)
  BY ConcatTally
<1>4. /\ \A s, t \in Seq(Calls) : \A A : Tally(s, A) /\ Tally(t, {})
           => s \o t \in Seq(Calls) /\ Tally(s \o t, A)
      /\ \A s, t \in Seq(Calls) : \A A : Tally(s, {}) /\ Tally(t, A)
           => s \o t \in Seq(Calls) /\ Tally(s \o t, A)
  <2>1. \A A : A \cup {} = A /\ {} \cup A = A /\ A \cap {} = {} /\ {} \cap A = {}
    OBVIOUS
  <2>2. \A s, t \in Seq(Calls) : \A A : Tally(s, A) /\ Tally(t, {})
           => s \o t \in Seq(Calls) /\ Tally(s \o t, A \cup {})
    BY <1>3, <2>1
  <2>3. \A s, t \in Seq(Calls) : \A A : Tally(s, {}) /\ Tally(t, A)
           => s \o t \in Seq(Calls) /\ Tally(s \o t, {} \cup A)
    BY <1>3, <2>1
  <2> QED BY <2>1, <2>2, <2>3
<1>5. Tally(FailScheduledShutdown, {"run_failed"})
  <2>1. Reply("shutdown") \o Add("x") \in Seq(Calls) /\ Tally(Reply("shutdown") \o Add("x"), {})
    BY <1>1, <1>2, <1>4
  <2> QED BY <1>1, <1>2, <1>4, <2>1 DEF FailScheduledShutdown
<1>6. Tally(FailVerification, {"failed"})
  <2>1. /\ Reply("verification") \o Count("failed") \in Seq(Calls)
        /\ Tally(Reply("verification") \o Count("failed"), {"failed"})
    BY <1>1, <1>2, <1>4
  <2> QED BY <1>1, <1>2, <1>4, <2>1 DEF FailVerification
<1>7. Tally(FailHistory, {"failed"})
  BY <1>1, <1>2, <1>4 DEF FailHistory
<1>8. Tally(Resolve, {"resolved"})
  BY <1>1, <1>2, <1>4 DEF Resolve
<1>9. Tally(BeginHolmes(i), {})
  BY <1>1, <1>2 DEF BeginHolmes
<1>10. ASSUME NEW k \in Replies
       PROVE  LET script == Count("failed") \o Reply(k) \o Transition("hourglass", "x") \o FailedRun(i) IN
              /\ Tally(script, IF i \in Scheduled THEN {"failed", "run_failed"} ELSE {"failed"})
              /\ i \in Scheduled => RunFailsLast(script, EventLabels)
  <2> DEFINE first == Count("failed") \o Reply(k) \o Transition("hourglass", "x")
  <2>1. Count("failed") \o Reply(k) \in Seq(Calls) /\ Tally(Count("failed") \o Reply(k), {"failed"})
    BY <1>1, <1>2, <1>4
  <2>2. first \in Seq(Calls) /\ Tally(first, {"failed"})
    BY <1>1, <1>2, <1>4, <2>1
  <2> HIDE DEF first
  <2>3. CASE i \in Scheduled
    <3>1. FailedRun(i) = Count("run_failed")
      BY <2>3 DEF FailedRun
    <3>2. {"failed"} \cap {"run_failed"} = {} /\ {"failed"} \cup {"run_failed"} = {"failed", "run_failed"}
      OBVIOUS
    <3>3. Tally(first \o FailedRun(i), {"failed"} \cup {"run_failed"})
      BY <1>1, <1>2, <1>3, <2>2, <3>1, <3>2
    <3>4. ~StillCounts(FailedRun(i), EventLabels) /\ StillCounts(FailedRun(i), {"run_failed"})
      <4>1. EventLabels \cap {"run_failed"} = {} /\ {"run_failed"} \cap {"run_failed"} # {}
        BY DEF EventLabels
      <4>2. Tally(FailedRun(i), {"run_failed"})
        BY <1>1, <1>2, <3>1
      <4> QED BY <4>1, <4>2 DEF Tally
    <3>5. FailedRun(i) \in Seq(Calls)
      BY <1>1, <1>2, <3>1
    <3>6. RunFailsLast(first \o FailedRun(i), EventLabels)
      BY <2>2, <3>4, <3>5, ConcatCounts
    <3> QED BY <2>3, <3>2, <3>3, <3>6 DEF first
  <2>4. CASE i \notin Scheduled
    <3>1. FailedRun(i) = <<>>
      BY <2>4 DEF FailedRun
    <3>2. Tally(first \o FailedRun(i), {"failed"})
      BY <1>2, <1>4, <2>2, <3>1
    <3> QED BY <2>4, <3>2 DEF first
  <2> QED BY <2>3, <2>4
<1>11. \A script \in {FailHolmesRequest(i, c), FailHolmesAnswerDelivery(i)} :
         /\ Tally(script, IF i \in Scheduled THEN {"failed", "run_failed"} ELSE {"failed"})
         /\ i \in Scheduled => RunFailsLast(script, EventLabels)
  <2>1. (IF c THEN "shutdown" ELSE "request") \in Replies
    BY <1>1
  <2> QED BY <1>1, <1>10, <2>1 DEF FailHolmesRequest, FailHolmesAnswerDelivery
<1>12. Tally(Succeed(i), {IF i \in Scheduled THEN "run_success"
                          ELSE IF Kind[i] = "ask" THEN "freeform" ELSE "firing"})
  <2> DEFINE label == CASE i \in Scheduled -> "run_success"
                        [] Kind[i] = "ask" -> "freeform"
                        [] OTHER -> "firing"
  <2>1. /\ label \in Labels
        /\ label = IF i \in Scheduled THEN "run_success"
                   ELSE IF Kind[i] = "ask" THEN "freeform" ELSE "firing"
    BY DEF Labels, Scheduled
  <2> HIDE DEF label
  <2>2. Tally(Transition("hourglass", "check") \o Count(label), {label})
    BY <1>1, <1>2, <1>4, <2>1
  <2>3. Tally(Transition("hourglass", "check") \o Count(label),
              {IF i \in Scheduled THEN "run_success" ELSE IF Kind[i] = "ask" THEN "freeform" ELSE "firing"})
    BY <2>1, <2>2
  <2> QED BY <2>3 DEF Succeed, label
<1> QED BY <1>5, <1>6, <1>7, <1>8, <1>9, <1>11, <1>12

---------------------------------------------------------------------------
(* What has been counted *)

\* Where a submitter gives up a run.
GivenUp == {"failed", "dropped", "refused"}

\* The items of S that are counted by one of the labels: by the submitter that
\* gave them up, or by the worker that holds or held them.
CountedOf(S, at, labels) ==
  {i \in S : \/ sub[i] \in at /\ ~StillCounts(todo[i], labels)
             \/ i \in finished
             \/ \E w \in Workers : job[w] = i /\ wpc[w] = "finish" /\ ~StillCounts(todo[w], labels)}

RunsCounted == CountedOf(Scheduled, GivenUp, RunLabels)
EventsCounted == CountedOf(SlackItems, {"rejected"}, EventLabels)
AcceptedCounted == {i \in SlackItems : sub[i] = "accepted" /\ ~StillCounts(todo[i], {"accepted"})}

\* The workers whose run is counted as a failed event, and not yet as a failed run.
RunsFailing ==
  {w \in Workers : /\ job[w] \in Scheduled /\ wpc[w] = "finish"
                   /\ StillCounts(todo[w], {"run_failed"})
                   /\ ~StillCounts(todo[w], EventLabels)}

EventCount == metrics["firing"] + metrics["freeform"] + metrics["resolved"] + metrics["failed"]
RunCount == metrics["run_success"] + metrics["run_failed"]

CountInv ==
  /\ IsFiniteSet(RunsCounted) /\ RunCount = Cardinality(RunsCounted)
  /\ IsFiniteSet(AcceptedCounted) /\ metrics["accepted"] = Cardinality(AcceptedCounted)
  /\ IsFiniteSet(EventsCounted) /\ IsFiniteSet(RunsFailing)
  /\ EventCount - Cardinality(EventsCounted) \in 0 .. metrics["run_failed"] + Cardinality(RunsFailing)

\* The counters that the submitter of item i at a place still has in its list.
Announces(i, at, list) ==
  /\ CountsOnce(list, RunLabels) /\ CountsOnce(list, EventLabels) /\ CountsOnce(list, {"accepted"})
  /\ StillCounts(list, RunLabels) => i \in Scheduled /\ at \in GivenUp
  /\ StillCounts(list, EventLabels) => i \in SlackItems /\ at = "rejected"
  /\ StillCounts(list, {"accepted"}) => i \in SlackItems /\ at = "accepted"

\* Those that the worker of item i at a place still has in its list.
Tallies(i, pc, list) ==
  /\ CountsOnce(list, RunLabels) /\ CountsOnce(list, EventLabels)
  /\ StillCounts(list, RunLabels) => pc = "finish" /\ i \in Scheduled
  /\ StillCounts(list, EventLabels) => pc = "finish"
  /\ i \in Scheduled => RunFailsLast(list, EventLabels)
  /\ ~StillCounts(list, {"accepted"})
  /\ pc = "verify" => Kind[i] = "firing"
  /\ pc = "history" => Kind[i] = "ask"

TallyInv ==
  /\ \A i \in Items : Announces(i, sub[i], todo[i])
  /\ \A w \in Workers : Tallies(job[w], wpc[w], todo[w])

\* The list of a process that is given up, rejected, accepted or done with an
\* item still holds the counter that stands for it.
Announced(i, at, list) ==
  /\ at \in GivenUp /\ i \in Scheduled => StillCounts(list, RunLabels)
  /\ at = "rejected" => StillCounts(list, EventLabels)
  /\ at = "accepted" /\ i \in SlackItems => StillCounts(list, {"accepted"})
Due(i, list) == StillCounts(list, IF i \in Scheduled THEN RunLabels ELSE EventLabels)

\* A submitter moves on and is given a list.
SubmitterMove(i) ==
  /\ sub[i] \notin GivenUp \cup {"accepted", "rejected"}
  /\ UNCHANGED <<metrics, wpc, job, finished>>
  /\ \E at \in SubmitterStates : \E list \in Seq(Calls) :
       /\ sub' = [sub EXCEPT ![i] = at] /\ todo' = [todo EXCEPT ![i] = list]
       /\ Announces(i, at, list) /\ Announced(i, at, list)

\* A worker moves on and is given a list.
PoolMove(w) ==
  /\ wpc[w] # "finish" /\ todo[w] = <<>>
  /\ UNCHANGED <<metrics, sub, finished>>
  /\ \E pc \in WorkerStates : \E list \in Seq(Calls) : \E i \in Items \cup {None} :
       /\ wpc' = [wpc EXCEPT ![w] = pc] /\ todo' = [todo EXCEPT ![w] = list]
       /\ job' = [job EXCEPT ![w] = i]
       /\ Tallies(i, pc, list) /\ (pc = "finish" /\ i \in Items => Due(i, list))

\* A worker is done with its item.
PoolFinish(w) ==
  /\ wpc[w] = "finish" /\ todo[w] = <<>>
  /\ UNCHANGED <<metrics, sub>>
  /\ wpc' = [wpc EXCEPT ![w] = "idle"] /\ todo' = [todo EXCEPT ![w] = <<>>]
  /\ job' = [job EXCEPT ![w] = None] /\ finished' = finished \cup {job[w]}

\* A process makes the next call of its list.
PoolCall(p) ==
  /\ todo[p] # <<>>
  /\ todo' = [todo EXCEPT ![p] = Tail(@)]
  /\ UNCHANGED <<sub, wpc, job, finished>>
  /\ IF Head(todo[p]).op = "count"
     THEN Head(todo[p]).arg \in Labels /\ metrics' = [metrics EXCEPT ![Head(todo[p]).arg] = @ + 1]
     ELSE UNCHANGED metrics

\* A list with at most one label of the sets that matter.
LEMMA TallyMeans ==
  ASSUME NEW list, NEW l, Tally(list, {l})
  PROVE  /\ \A L : CountsOnce(list, L)
         /\ \A L : StillCounts(list, L) <=> l \in L
<1>1. ASSUME NEW L PROVE CountsOnce(list, L) /\ (StillCounts(list, L) <=> l \in L)
  BY DEF Tally
<1> QED BY <1>1

\* A list without counters.
LEMMA NoTally ==
  ASSUME NEW list, Tally(list, {})
  PROVE  \A L : CountsOnce(list, L) /\ ~StillCounts(list, L) /\ RunFailsLast(list, L)
<1>1. ASSUME NEW L PROVE CountsOnce(list, L) /\ ~StillCounts(list, L) /\ RunFailsLast(list, L)
  BY DEF Tally, RunFailsLast, StillCounts
<1> QED BY <1>1

\* A list that does not count the labels counts nothing before a failed run.
LEMMA NothingBefore ==
  ASSUME NEW list, NEW L, ~StillCounts(list, L) PROVE RunFailsLast(list, L)
BY DEF RunFailsLast, StillCounts

---------------------------------------------------------------------------
(* The actions are such moves *)

\* Submit and SubmitScheduled.
LEMMA SubmitterMoves ==
  ASSUME TypeInv, NEW i \in Items,
         Submit(i) \/ Offer(i) \/ CronFires(i) \/ PostRoot(i) \/ OfferScheduled(i)
  PROVE  SubmitterMove(i)
<1>1. sub[i] \in {"new", "offering", "post", "root"}
  BY DEF Submit, Offer, CronFires, PostRoot, OfferScheduled
<1>2. ASSUME NEW at \in SubmitterStates, NEW list \in Seq(Calls), Submitted(i, at, list),
             Announces(i, at, list), Announced(i, at, list)
      PROVE  SubmitterMove(i)
  <2>1. UNCHANGED <<metrics, wpc, job, finished>>
    BY <1>2 DEF Submitted, workerVars
  <2>2. sub' = [sub EXCEPT ![i] = at] /\ todo' = [todo EXCEPT ![i] = list]
    BY <1>2 DEF Submitted
  <2>3. sub[i] \notin GivenUp \cup {"accepted", "rejected"}
    BY <1>1 DEF GivenUp
  <2> QED BY <1>2, <2>1, <2>2, <2>3 DEF SubmitterMove
\* What each list counts.
<1>3. /\ "eyes" \in Reactions /\ "x" \in Reactions /\ "intake" \in Replies
      /\ {"failed", "ignored", "dropped", "run_failed", "accepted"} \subseteq Labels
      /\ "run_failed" \in RunLabels /\ "run_failed" \notin EventLabels
      /\ "failed" \in EventLabels /\ "failed" \notin RunLabels
      /\ {"ignored", "dropped", "accepted"} \cap (RunLabels \cup EventLabels) = {}
  BY DEF Reactions, Replies, FailureReplies, Labels, RunLabels, EventLabels
<1>4. /\ <<>> \in Seq(Calls) /\ Add("eyes") \in Seq(Calls) /\ Accepted \in Seq(Calls)
      /\ FailScheduledIntake \in Seq(Calls) /\ Count("failed") \o Add("x") \in Seq(Calls)
      /\ Count("dropped") \o Transition("eyes", "x") \in Seq(Calls)
      /\ Count("ignored") \in Seq(Calls) /\ Count("dropped") \in Seq(Calls)
      /\ Count("run_failed") \in Seq(Calls)
  BY <1>3, CallTypes, ConcatTypes, TransitionTally DEF Accepted, FailScheduledIntake
<1>5. /\ Tally(<<>>, {}) /\ Tally(Add("eyes"), {})
      /\ Tally(Count("ignored"), {"ignored"}) /\ Tally(Count("dropped"), {"dropped"})
      /\ Tally(Count("run_failed"), {"run_failed"})
  BY <1>3, SingleTally
<1>6. ASSUME NEW at \in SubmitterStates, NEW list \in Seq(Calls), NEW l, Submitted(i, at, list),
             Tally(list, {l}), l \notin RunLabels \cup EventLabels \cup {"accepted"},
             at \notin GivenUp \/ i \notin Scheduled,
             at # "rejected", at # "accepted"
      PROVE  SubmitterMove(i)
  <2>1. /\ \A L : CountsOnce(list, L)
        /\ ~StillCounts(list, RunLabels) /\ ~StillCounts(list, EventLabels)
        /\ ~StillCounts(list, {"accepted"})
    BY <1>6, TallyMeans
  <2>2. Announces(i, at, list) /\ Announced(i, at, list)
    BY <1>6, <2>1 DEF Announces, Announced
  <2> QED BY <1>2, <1>6, <2>2
<1>7. ASSUME NEW at \in SubmitterStates, NEW list \in Seq(Calls), Submitted(i, at, list),
             Tally(list, {}), at \notin GivenUp \/ i \notin Scheduled,
             at # "rejected", at # "accepted" \/ i \notin SlackItems
      PROVE  SubmitterMove(i)
  <2>1. \A L : CountsOnce(list, L) /\ ~StillCounts(list, L)
    BY <1>7, NoTally
  <2>2. Announces(i, at, list) /\ Announced(i, at, list)
    BY <1>7, <2>1 DEF Announces, Announced
  <2> QED BY <1>2, <1>7, <2>2
<1>8. ASSUME NEW at \in GivenUp, NEW list \in Seq(Calls), Submitted(i, at, list),
             Tally(list, {"run_failed"}), i \in Scheduled
      PROVE  SubmitterMove(i)
  <2>1. /\ \A L : CountsOnce(list, L)
        /\ StillCounts(list, RunLabels) /\ ~StillCounts(list, EventLabels)
        /\ ~StillCounts(list, {"accepted"})
    BY <1>3, <1>8, TallyMeans
  <2>2. at \in SubmitterStates /\ at # "rejected" /\ at # "accepted"
    BY DEF GivenUp, SubmitterStates
  <2>3. Announces(i, at, list) /\ Announced(i, at, list)
    BY <1>8, <2>1, <2>2 DEF Announces, Announced
  <2> QED BY <1>2, <1>8, <2>2, <2>3
<1>9. {"new", "offering", "dropped", "rejected", "accepted", "ignored", "post", "root"}
        \subseteq SubmitterStates
      /\ {"dropped", "refused", "failed"} \subseteq GivenUp
      /\ {"ignored", "offering", "post", "root"} \cap GivenUp = {}
      /\ "rejected" \notin GivenUp /\ "accepted" \notin GivenUp
  BY DEF SubmitterStates, GivenUp
<1>10. CASE Submit(i)
  <2>1. i \in SlackItems /\ i \notin Scheduled
    BY <1>10 DEF Submit, SlackItems
  <2>2. CASE RejectMarker(i)
    <3>1. Submitted(i, "rejected", Count("failed") \o Add("x"))
      BY <2>2 DEF RejectMarker
    <3>2. /\ \A L : CountsOnce(Count("failed") \o Add("x"), L)
          /\ \A L : StillCounts(Count("failed") \o Add("x"), L) <=> "failed" \in L
      BY SubmitterTally, TallyMeans
    <3>3. ~StillCounts(Count("failed") \o Add("x"), {"accepted"})
      BY <3>2
    <3>4. Announces(i, "rejected", Count("failed") \o Add("x"))
          /\ Announced(i, "rejected", Count("failed") \o Add("x"))
      BY <1>3, <1>9, <2>1, <3>2, <3>3 DEF Announces, Announced
    <3> QED BY <1>2, <1>4, <1>9, <3>1, <3>4
  <2>3. CASE IgnoreUnmarked(i)
    <3>1. Submitted(i, "ignored", Count("ignored"))
      BY <2>3 DEF IgnoreUnmarked
    <3> QED BY <1>3, <1>4, <1>5, <1>6, <1>9, <3>1
  <2>4. CASE TakeReadLock(i) /\ intake = "open"
    <3>1. Submitted(i, "offering", Add("eyes"))
      BY <2>4 DEF TakeReadLock
    <3> QED BY <1>4, <1>5, <1>7, <1>9, <2>1, <3>1
  <2>5. CASE TakeReadLock(i) /\ intake # "open"
    <3>1. Submitted(i, "dropped", Count("dropped"))
      BY <2>5 DEF TakeReadLock
    <3> QED BY <1>3, <1>4, <1>5, <1>6, <1>9, <2>1, <3>1
  <2> QED BY <1>10, <2>2, <2>3, <2>4, <2>5 DEF Submit
<1>11. CASE Offer(i)
  <2>1. i \in SlackItems /\ i \notin Scheduled
    BY <1>11 DEF Offer, SlackItems
  <2>2. CASE Submitted(i, "accepted", Accepted)
    <3>1. /\ \A L : CountsOnce(Accepted, L)
          /\ \A L : StillCounts(Accepted, L) <=> "accepted" \in L
      BY SubmitterTally, TallyMeans
    <3>2. StillCounts(Accepted, {"accepted"})
      BY <3>1
    <3>3. Announces(i, "accepted", Accepted) /\ Announced(i, "accepted", Accepted)
      BY <1>3, <1>9, <2>1, <3>1, <3>2 DEF Announces, Announced
    <3> QED BY <1>2, <1>4, <1>9, <2>2, <3>3
  <2>3. CASE Submitted(i, "dropped", Count("dropped") \o Transition("eyes", "x"))
    BY <1>3, <1>4, <1>6, <1>9, <2>1, <2>3, SubmitterTally
  <2> QED BY <1>11, <2>2, <2>3 DEF Offer
<1>12. CASE CronFires(i)
  BY <1>4, <1>5, <1>7, <1>9, <1>12 DEF CronFires
<1>13. CASE PostRoot(i)
  <2>1. i \in Scheduled /\ (Submitted(i, "root", <<>>) \/ Submitted(i, "failed", Count("run_failed")))
    BY <1>13 DEF PostRoot
  <2>2. CASE Submitted(i, "root", <<>>)
    BY <1>4, <1>5, <1>7, <1>9, <2>2
  <2>3. CASE Submitted(i, "failed", Count("run_failed"))
    BY <1>4, <1>5, <1>8, <1>9, <2>1, <2>3
  <2> QED BY <2>1, <2>2, <2>3
<1>14. CASE OfferScheduled(i)
  <2>1. i \in Scheduled /\ i \notin SlackItems
    BY <1>14 DEF OfferScheduled, SlackItems
  <2>2. CASE Submitted(i, "accepted", <<>>)
    BY <1>4, <1>5, <1>7, <1>9, <2>1, <2>2
  <2>3. ASSUME NEW at \in {"refused", "dropped"}, Submitted(i, at, FailScheduledIntake)
        PROVE  SubmitterMove(i)
    BY <1>4, <1>8, <1>9, <2>1, <2>3, SubmitterTally
  <2> QED BY <1>14, <2>2, <2>3 DEF OfferScheduled
<1> QED BY <1>10, <1>11, <1>12, <1>13, <1>14

\* A worker's steps, but for the end of an item.
LEMMA PoolMoves ==
  ASSUME TypeInv, TallyInv, NEW w \in Workers,
         Take(w) \/ SkipCancelled(w) \/ Dispatch(w) \/ LockThread(w) \/ Verify(w) \/ ReadHistory(w)
           \/ Chat(w) \/ DeliverPart(w) \/ Conclude(w) \/ Exit(w)
  PROVE  PoolMove(w)
<1> USE ServiceAssumption
<1>1. /\ wpc[w] \in {"idle", "received", "lock", "verify", "history", "chat", "deliver"}
      /\ todo[w] = <<>>
  BY DEF Take, SkipCancelled, Dispatch, LockThread, Verify, ReadHistory, Chat, DeliverPart,
      Conclude,
    Exit, At, runVars
<1>2. /\ job \in [Workers -> Items \cup {None}] /\ wpc \in [Workers -> WorkerStates]
      /\ todo \in [Items \cup Workers -> Seq(Calls)] /\ queue \in Seq(Items)
  BY DEF TypeInv, TypeOK
<1>3. UNCHANGED <<metrics, sub, finished>>
  BY DEF Take, SkipCancelled, Dispatch, LockThread, Verify, ReadHistory, Chat, DeliverPart,
      Conclude,
    Exit, Goto, RequestFails, DeliveryFails, runVars
<1>4. ASSUME NEW pc \in WorkerStates, NEW list \in Seq(Calls), NEW i \in Items \cup {None},
             wpc' = [wpc EXCEPT ![w] = pc], todo' = [todo EXCEPT ![w] = list],
             job' = [job EXCEPT ![w] = i],
             Tallies(i, pc, list), pc = "finish" /\ i \in Items => Due(i, list)
      PROVE  PoolMove(w)
  <2>1. wpc[w] # "finish"
    BY <1>1
  <2> QED BY <1>1, <1>3, <1>4, <2>1 DEF PoolMove
<1>5. job = [job EXCEPT ![w] = job[w]] /\ job[w] \in Items \cup {None}
  BY <1>2
<1>6. {"idle", "received", "lock", "verify", "history", "chat", "deliver", "finish", "exited"} \subseteq WorkerStates
  BY DEF WorkerStates
<1> DEFINE Goes(pc, list) == wpc' = [wpc EXCEPT ![w] = pc] /\ todo' = [todo EXCEPT ![w] = list]
<1>g. \A pc, list : Goto(w, pc, list) => Goes(pc, list)
  BY DEF Goto, runVars
<1> HIDE DEF Goes
\* Lists without counters, lists of a Slack item, lists of a run.
<1>7. ASSUME NEW pc \in WorkerStates, pc # "finish", NEW list \in Seq(Calls), NEW i \in Items \cup {None},
             Goes(pc, list), job' = [job EXCEPT ![w] = i], Tally(list, {}),
             pc = "verify" => Kind[i] = "firing", pc = "history" => Kind[i] = "ask"
      PROVE  PoolMove(w)
  <2>1. \A L : CountsOnce(list, L) /\ ~StillCounts(list, L) /\ RunFailsLast(list, L)
    BY <1>7, NoTally
  <2>2. Tallies(i, pc, list)
    BY <1>7, <2>1 DEF Tallies
  <2> QED BY <1>4, <1>7, <2>2 DEF Goes
<1>8. ASSUME NEW list \in Seq(Calls), NEW l \in EventLabels, job[w] \in Items \ Scheduled,
             Goes("finish", list), UNCHANGED job, Tally(list, {l})
      PROVE  PoolMove(w)
  <2>1. (\A L : CountsOnce(list, L)) /\ \A L : StillCounts(list, L) <=> l \in L
    BY <1>8, TallyMeans
  <2>2. l \notin RunLabels /\ l \notin {"accepted"}
    BY DEF EventLabels, RunLabels
  <2>3. Tallies(job[w], "finish", list) /\ Due(job[w], list)
    BY <1>8, <2>1, <2>2 DEF Tallies, Due
  <2> QED BY <1>4, <1>5, <1>6, <1>8, <2>3 DEF Goes
<1>9. ASSUME NEW list \in Seq(Calls), NEW l \in RunLabels, job[w] \in Scheduled,
             Goes("finish", list), UNCHANGED job, Tally(list, {l})
      PROVE  PoolMove(w)
  <2>1. (\A L : CountsOnce(list, L)) /\ \A L : StillCounts(list, L) <=> l \in L
    BY <1>9, TallyMeans
  <2>2. l \notin EventLabels /\ l \notin {"accepted"}
    BY DEF EventLabels, RunLabels
  <2>3. RunFailsLast(list, EventLabels)
    BY <2>1, <2>2, NothingBefore
  <2>4. Tallies(job[w], "finish", list) /\ Due(job[w], list)
    BY <1>9, <2>1, <2>2, <2>3 DEF Tallies, Due
  <2> QED BY <1>4, <1>5, <1>6, <1>9, <2>4 DEF Goes
<1>10. ASSUME NEW list \in Seq(Calls), job[w] \in Scheduled,
              Goes("finish", list), UNCHANGED job, Tally(list, {"failed", "run_failed"}),
              RunFailsLast(list, EventLabels)
       PROVE  PoolMove(w)
  <2>1. /\ StillCounts(list, RunLabels) /\ ~StillCounts(list, {"accepted"})
        /\ CountsOnce(list, RunLabels) /\ CountsOnce(list, EventLabels)
    <3>1. /\ RunLabels \cap {"failed", "run_failed"} = {"run_failed"}
          /\ EventLabels \cap {"failed", "run_failed"} = {"failed"}
          /\ {"accepted"} \cap {"failed", "run_failed"} = {}
      BY DEF RunLabels, EventLabels
    <3>2. StillCounts(list, RunLabels) /\ CountsOnce(list, RunLabels)
      BY <1>10, <3>1 DEF Tally
    <3>3. CountsOnce(list, EventLabels)
      BY <1>10, <3>1 DEF Tally
    <3>4. ~StillCounts(list, {"accepted"})
      BY <1>10, <3>1 DEF Tally
    <3> QED BY <3>2, <3>3, <3>4
  <2>2. Tallies(job[w], "finish", list) /\ Due(job[w], list)
    BY <1>10, <2>1 DEF Tallies, Due
  <2> QED BY <1>4, <1>5, <1>6, <1>10, <2>2 DEF Goes
<1>11. /\ <<>> \in Seq(Calls) /\ Tally(<<>>, {})
       /\ \A i \in Items : BeginHolmes(i) \in Seq(Calls) /\ Tally(BeginHolmes(i), {})
  BY SingleTally, WorkerTally, ScriptTypes
<1>12. /\ FailScheduledShutdown \in Seq(Calls) /\ FailVerification \in Seq(Calls)
       /\ FailHistory \in Seq(Calls) /\ Resolve \in Seq(Calls)
       /\ \A i \in Items : /\ Succeed(i) \in Seq(Calls) /\ FailHolmesAnswerDelivery(i) \in Seq(Calls)
                           /\ \A c \in BOOLEAN : FailHolmesRequest(i, c) \in Seq(Calls)
  BY ScriptTypes
\* A failure at Holmes, or of the delivery.
<1>13. ASSUME NEW c \in BOOLEAN, NEW list \in {FailHolmesRequest(job[w], c), FailHolmesAnswerDelivery(job[w])},
              Goes("finish", list), UNCHANGED job, job[w] \in Items
       PROVE  PoolMove(w)
  <2>1. /\ Tally(list, IF job[w] \in Scheduled THEN {"failed", "run_failed"} ELSE {"failed"})
        /\ job[w] \in Scheduled => RunFailsLast(list, EventLabels)
        /\ list \in Seq(Calls)
    <3>1. PICK i \in Items : i = job[w]
      BY <1>13
    <3>2. list \in {FailHolmesRequest(i, c), FailHolmesAnswerDelivery(i)}
      BY <3>1
    <3>3. /\ Tally(list, IF i \in Scheduled THEN {"failed", "run_failed"} ELSE {"failed"})
          /\ i \in Scheduled => RunFailsLast(list, EventLabels)
      BY <3>2, WorkerTally
    <3>4. list \in Seq(Calls)
      BY <1>12, <3>2
    <3> QED BY <3>1, <3>3, <3>4
  <2>2. "failed" \in EventLabels
    BY DEF EventLabels
  <2> QED BY <1>8, <1>10, <1>13, <2>1, <2>2
<1>14. wpc[w] # "idle" => job[w] \in Items
  BY <1>1 DEF TypeInv, HoldsJob
<1>15. Tallies(job[w], wpc[w], todo[w])
  BY DEF TallyInv
<1>16. CASE Take(w)
  <2>1. Head(queue) \in Items /\ job' = [job EXCEPT ![w] = Head(queue)] /\ Goto(w, "received", <<>>)
    BY <1>2, <1>16 DEF Take
  <2> QED BY <1>g, <1>6, <1>7, <1>11, <2>1
<1>17. CASE SkipCancelled(w)
  <2>1. CASE job[w] \in Scheduled
    <3>1. Goto(w, "finish", FailScheduledShutdown) /\ UNCHANGED job
      BY <1>17, <2>1 DEF SkipCancelled, ReportedOnShutdown
    <3>2. Tally(FailScheduledShutdown, {"run_failed"}) /\ "run_failed" \in RunLabels
      <4>1. job[w] \in Items
        BY <2>1 DEF Scheduled
      <4> QED BY <4>1, WorkerTally DEF RunLabels
    <3> QED BY <1>g, <1>9, <1>12, <2>1, <3>1, <3>2
  <2>2. CASE job[w] \notin Scheduled
    <3>1. Goto(w, "idle", <<>>) /\ job' = [job EXCEPT ![w] = None]
      BY <1>17, <2>2 DEF SkipCancelled, ReportedOnShutdown
    <3> QED BY <1>g, <1>6, <1>7, <1>11, <3>1
  <2> QED BY <2>1, <2>2
<1>18. CASE Dispatch(w)
  <2>0. job[w] \in Items /\ UNCHANGED job
    BY <1>14, <1>18 DEF Dispatch, At
  <2>1. CASE Kind[job[w]] = "resolved"
    <3>1. Goto(w, "finish", Resolve) /\ job[w] \in Items \ Scheduled
      BY <1>18, <2>0, <2>1 DEF Dispatch, Scheduled
    <3>2. Tally(Resolve, {"resolved"}) /\ "resolved" \in EventLabels
      BY <2>0, WorkerTally DEF EventLabels
    <3> QED BY <1>g, <1>8, <1>12, <2>0, <3>1, <3>2
  <2>2. CASE Kind[job[w]] # "resolved"
    <3>1. Goto(w, "lock", <<>>)
      BY <1>18, <2>2 DEF Dispatch
    <3> QED BY <1>g, <1>5, <1>6, <1>7, <1>11, <2>0, <3>1
  <2> QED BY <2>1, <2>2
<1>19. CASE LockThread(w)
  <2>0. job[w] \in Items /\ UNCHANGED job
    BY <1>14, <1>19 DEF LockThread, At
  <2>1. /\ AfterLock(job[w]) \in {"verify", "history", "chat"}
        /\ AfterLock(job[w]) = "verify" => Kind[job[w]] = "firing"
        /\ AfterLock(job[w]) = "history" => Kind[job[w]] = "ask"
    BY <2>0 DEF AfterLock
  <2>2. CASE AfterLock(job[w]) = "chat"
    <3>1. Goto(w, "chat", BeginHolmes(job[w]))
      BY <1>19, <2>2 DEF LockThread
    <3> QED BY <1>g, <1>5, <1>6, <1>7, <1>11, <2>0, <3>1
  <2>3. CASE AfterLock(job[w]) # "chat"
    <3>1. Goto(w, AfterLock(job[w]), <<>>)
      BY <1>19, <2>3 DEF LockThread
    <3>2. AfterLock(job[w]) \in WorkerStates /\ AfterLock(job[w]) # "finish"
      BY <1>6, <2>1
    <3> QED BY <1>g, <1>5, <1>7, <1>11, <2>0, <2>1, <3>1, <3>2
  <2> QED BY <2>2, <2>3
<1>20. ASSUME Goto(w, "chat", BeginHolmes(job[w])), UNCHANGED job, job[w] \in Items PROVE PoolMove(w)
  BY <1>g, <1>5, <1>6, <1>7, <1>11, <1>20
<1>21. CASE Verify(w)
  <2>1. /\ job[w] \in Items /\ UNCHANGED job /\ wpc[w] = "verify"
        /\ Goto(w, "chat", BeginHolmes(job[w])) \/ Goto(w, "finish", FailVerification)
    BY <1>14, <1>21 DEF Verify, At
  <2>2. job[w] \in Items \ Scheduled
    BY <1>15, <2>1 DEF Tallies, Scheduled
  <2>3. Tally(FailVerification, {"failed"}) /\ "failed" \in EventLabels
    BY <2>1, WorkerTally DEF EventLabels
  <2> QED BY <1>g, <1>8, <1>12, <1>20, <2>1, <2>2, <2>3
<1>22. CASE ReadHistory(w)
  <2>1. /\ job[w] \in Items /\ UNCHANGED job /\ wpc[w] = "history"
        /\ Goto(w, "chat", BeginHolmes(job[w])) \/ Goto(w, "finish", FailHistory)
    BY <1>14, <1>22 DEF ReadHistory, At
  <2>2. job[w] \in Items \ Scheduled
    BY <1>15, <2>1 DEF Tallies, Scheduled
  <2>3. Tally(FailHistory, {"failed"}) /\ "failed" \in EventLabels
    BY <2>1, WorkerTally DEF EventLabels
  <2> QED BY <1>g, <1>8, <1>12, <1>20, <2>1, <2>2, <2>3
<1>23. ASSUME RequestFails(w), UNCHANGED job, job[w] \in Items PROVE PoolMove(w)
  <2>1. Cancelled \in BOOLEAN /\ Goto(w, "finish", FailHolmesRequest(job[w], Cancelled))
    BY <1>23 DEF RequestFails, Cancelled
  <2> DEFINE list == FailHolmesRequest(job[w], Cancelled)
  <2>2. list \in {FailHolmesRequest(job[w], Cancelled), FailHolmesAnswerDelivery(job[w])}
    OBVIOUS
  <2> HIDE DEF list
  <2>3. Goto(w, "finish", list)
    BY <2>1 DEF list
  <2> QED BY <1>g, <1>13, <1>23, <2>1, <2>2, <2>3
<1>24. ASSUME Goes("finish", FailHolmesAnswerDelivery(job[w])), UNCHANGED job, job[w] \in Items
       PROVE  PoolMove(w)
  <2> DEFINE list == FailHolmesAnswerDelivery(job[w])
  <2>1. list \in {FailHolmesRequest(job[w], TRUE), FailHolmesAnswerDelivery(job[w])} /\ TRUE \in BOOLEAN
    OBVIOUS
  <2> HIDE DEF list
  <2>2. Goes("finish", list)
    BY <1>24 DEF list
  <2> QED BY <1>g, <1>13, <1>24, <2>1, <2>2
<1>25. CASE Chat(w)
  <2>1. /\ job[w] \in Items /\ UNCHANGED job
        /\ RequestFails(w) \/ Goto(w, "deliver", <<>>)
    BY <1>14, <1>25 DEF Chat, At
  <2>2. CASE Goto(w, "deliver", <<>>)
    BY <1>g, <1>5, <1>6, <1>7, <1>11, <2>1, <2>2
  <2> QED BY <1>23, <2>1, <2>2
<1>26. CASE DeliverPart(w)
  <2>1. /\ job[w] \in Items /\ UNCHANGED job /\ wpc[w] = "deliver"
        /\ Goes("finish", FailHolmesAnswerDelivery(job[w])) \/ UNCHANGED <<wpc, todo>>
    BY <1>14, <1>26 DEF DeliverPart, At, Goes, runVars
  <2>2. CASE Goes("finish", FailHolmesAnswerDelivery(job[w]))
    BY <1>24, <2>1, <2>2
  <2>3. CASE UNCHANGED <<wpc, todo>>
    <3>1. /\ wpc' = [wpc EXCEPT ![w] = "deliver"] /\ todo' = [todo EXCEPT ![w] = <<>>]
          /\ job' = [job EXCEPT ![w] = job[w]]
      BY <1>1, <1>2, <1>5, <2>1, <2>3
    <3>2. Tallies(job[w], "deliver", <<>>)
      BY <1>1, <1>15, <2>1
    <3> QED BY <1>4, <1>5, <1>6, <1>11, <3>1, <3>2
  <2> QED BY <2>1, <2>2, <2>3
<1>27. CASE Conclude(w)
  <2>1. /\ job[w] \in Items /\ UNCHANGED job
        /\ RequestFails(w) \/ DeliveryFails(w) \/ Goto(w, "finish", Succeed(job[w]))
    BY <1>14, <1>27 DEF Conclude, At
  <2>2. CASE Goto(w, "finish", Succeed(job[w]))
    <3>1. Succeed(job[w]) \in Seq(Calls)
          /\ Tally(Succeed(job[w]), {IF job[w] \in Scheduled THEN "run_success"
                                     ELSE IF Kind[job[w]] = "ask" THEN "freeform" ELSE "firing"})
      BY <1>12, <2>1, WorkerTally
    <3>2. CASE job[w] \in Scheduled
      <4>1. "run_success" \in RunLabels /\ Tally(Succeed(job[w]), {"run_success"})
        BY <3>1, <3>2 DEF RunLabels
      <4> QED BY <1>g, <1>9, <2>1, <2>2, <3>1, <3>2, <4>1
    <3>3. CASE job[w] \notin Scheduled
      <4>1. PICK l \in {"freeform", "firing"} : Tally(Succeed(job[w]), {l})
        BY <3>1, <3>3
      <4>2. l \in EventLabels
        BY DEF EventLabels
      <4> QED BY <1>g, <1>8, <2>1, <2>2, <3>1, <3>3, <4>1, <4>2
    <3> QED BY <3>2, <3>3
  <2>3. CASE DeliveryFails(w)
    BY <1>g, <1>24, <2>1, <2>3 DEF DeliveryFails
  <2> QED BY <1>23, <2>1, <2>2, <2>3
<1>28. CASE Exit(w)
  <2>1. Goto(w, "exited", <<>>) /\ UNCHANGED job
    BY <1>28 DEF Exit
  <2> QED BY <1>g, <1>5, <1>6, <1>7, <1>11, <2>1
<1> QED BY <1>16, <1>17, <1>18, <1>19, <1>21, <1>22, <1>25, <1>26, <1>27, <1>28

\* The end of an item, and the next call of a list.
LEMMA PoolEnds ==
  ASSUME TypeInv
  PROVE  /\ \A w \in Workers : Finish(w) => PoolFinish(w)
         /\ \A p \in Items \cup Workers : BestEffort(p) => PoolCall(p)
<1>1. ASSUME NEW w \in Workers, Finish(w) PROVE PoolFinish(w)
  BY <1>1 DEF Finish, PoolFinish, Goto, At, runVars
<1>2. ASSUME NEW p \in Items \cup Workers, BestEffort(p) PROVE PoolCall(p)
  <2>1. todo[p] \in Seq(Calls) /\ todo[p] # <<>>
    BY <1>2 DEF TypeInv, TypeOK, BestEffort, runVars
  <2>2. Head(todo[p]) \in Calls
    BY <2>1
  <2>3. Head(todo[p]).op = "count" => Head(todo[p]).arg \in Labels
    BY <2>2 DEF Calls
  <2>4. IF Head(todo[p]).op = "count"
        THEN metrics' = [metrics EXCEPT ![Head(todo[p]).arg] = @ + 1] ELSE UNCHANGED metrics
    BY <1>2 DEF BestEffort, Apply, Post, runVars
  <2> QED BY <1>2, <2>1, <2>3, <2>4 DEF BestEffort, PoolCall, workerVars, runVars
<1> QED BY <1>1, <1>2

---------------------------------------------------------------------------
(* The lists stay what they are given as *)

\* Nothing is counted at first.
LEMMA InitTally == Init => TallyInv /\ CountInv
<1> SUFFICES ASSUME Init PROVE TallyInv /\ CountInv
  OBVIOUS
<1> USE ServiceAssumption
<1>1. \A L : CountsOnce(<<>>, L) /\ ~StillCounts(<<>>, L) /\ RunFailsLast(<<>>, L)
  BY SingleTally, NoTally
<1>2. TallyInv
  BY <1>1 DEF Init, TallyInv, Announces, Tallies
<1>3. /\ RunsCounted = {} /\ AcceptedCounted = {} /\ EventsCounted = {} /\ RunsFailing = {}
  <2>1. /\ \A i \in Items : sub[i] = "new" /\ i \notin finished
        /\ \A w \in Workers : wpc[w] # "finish"
    BY DEF Init
  <2>2. Scheduled \subseteq Items /\ SlackItems \subseteq Items
    BY DEF Scheduled, SlackItems
  <2>3. RunsFailing = {} /\ AcceptedCounted = {}
    BY <2>1, <2>2 DEF RunsFailing, AcceptedCounted
  <2>4. RunsCounted = {} /\ EventsCounted = {}
    BY <2>1, <2>2 DEF RunsCounted, EventsCounted, CountedOf, GivenUp
  <2> QED BY <2>3, <2>4
<1>4. RunCount = 0 /\ EventCount = 0 /\ metrics["accepted"] = 0 /\ metrics["run_failed"] = 0
  BY DEF Init, RunCount, EventCount, Labels
<1>5. IsFiniteSet({}) /\ Cardinality({}) = 0
  BY FS_EmptySet
<1>6. CountInv
  BY <1>3, <1>4, <1>5 DEF CountInv
<1> QED BY <1>2, <1>6

\* Every move keeps them.
LEMMA NextTally ==
  ASSUME TypeInv, TallyInv,
         \/ \E i \in Items : SubmitterMove(i)
         \/ \E w \in Workers : PoolMove(w) \/ PoolFinish(w)
         \/ \E p \in Items \cup Workers : PoolCall(p)
         \/ UNCHANGED <<sub, todo, wpc, job>>
  PROVE  TallyInv'
<1> USE ServiceAssumption
<1>1. /\ sub \in [Items -> SubmitterStates] /\ todo \in [Items \cup Workers -> Seq(Calls)]
      /\ wpc \in [Workers -> WorkerStates] /\ job \in [Workers -> Items \cup {None}]
  BY DEF TypeInv, TypeOK
<1>2. /\ \A i \in Items : Announces(i, sub[i], todo[i])
      /\ \A w \in Workers : Tallies(job[w], wpc[w], todo[w])
  BY DEF TallyInv
<1>3. ASSUME NEW i \in Items, SubmitterMove(i) PROVE TallyInv'
  <2>1. PICK at \in SubmitterStates, list \in Seq(Calls) :
          /\ sub' = [sub EXCEPT ![i] = at] /\ todo' = [todo EXCEPT ![i] = list]
          /\ Announces(i, at, list)
    BY <1>3 DEF SubmitterMove
  <2>2. UNCHANGED <<wpc, job>>
    BY <1>3 DEF SubmitterMove
  <2>3. /\ sub'[i] = at /\ todo'[i] = list
        /\ \A j \in Items : j # i => sub'[j] = sub[j] /\ todo'[j] = todo[j]
        /\ \A w \in Workers : todo'[w] = todo[w]
    BY <1>1, <2>1
  <2>4. \A j \in Items : Announces(j, sub'[j], todo'[j])
    BY <1>2, <2>1, <2>3
  <2>5. \A w \in Workers : Tallies(job'[w], wpc'[w], todo'[w])
    BY <1>2, <2>2, <2>3
  <2> QED BY <2>4, <2>5 DEF TallyInv
<1>4. ASSUME NEW w \in Workers, NEW pc \in WorkerStates, NEW list \in Seq(Calls), NEW i \in Items \cup {None},
             wpc' = [wpc EXCEPT ![w] = pc], todo' = [todo EXCEPT ![w] = list],
             job' = [job EXCEPT ![w] = i], sub' = sub, Tallies(i, pc, list)
      PROVE  TallyInv'
  <2>1. /\ wpc'[w] = pc /\ todo'[w] = list /\ job'[w] = i
        /\ \A v \in Workers : v # w => wpc'[v] = wpc[v] /\ todo'[v] = todo[v] /\ job'[v] = job[v]
        /\ \A j \in Items : todo'[j] = todo[j]
    BY <1>1, <1>4
  <2>2. \A j \in Items : Announces(j, sub'[j], todo'[j])
    BY <1>2, <1>4, <2>1
  <2>3. \A v \in Workers : Tallies(job'[v], wpc'[v], todo'[v])
    BY <1>2, <1>4, <2>1
  <2> QED BY <2>2, <2>3 DEF TallyInv
<1>5. ASSUME NEW w \in Workers, PoolMove(w) PROVE TallyInv'
  BY <1>4, <1>5 DEF PoolMove
<1>6. ASSUME NEW w \in Workers, PoolFinish(w) PROVE TallyInv'
  <2>1. \A L : CountsOnce(<<>>, L) /\ ~StillCounts(<<>>, L) /\ RunFailsLast(<<>>, L)
    BY SingleTally, NoTally
  <2>2. Tallies(None, "idle", <<>>) /\ "idle" \in WorkerStates
    BY <2>1 DEF Tallies, WorkerStates
  <2>3. <<>> \in Seq(Calls) /\ None \in Items \cup {None}
    BY SingleTally
  <2> QED BY <1>4, <1>6, <2>2, <2>3 DEF PoolFinish
<1>7. ASSUME NEW p \in Items \cup Workers, PoolCall(p) PROVE TallyInv'
  <2>1. /\ todo[p] \in Seq(Calls) /\ todo[p] # <<>> /\ todo'[p] = Tail(todo[p])
        /\ \A q \in Items \cup Workers : q # p => todo'[q] = todo[q]
        /\ UNCHANGED <<sub, wpc, job>>
    BY <1>1, <1>7 DEF PoolCall
  <2>2. PICK list \in Seq(Calls) : list = todo[p]
    BY <2>1
  <2>3. \A L : /\ StillCounts(Tail(list), L) => StillCounts(list, L)
               /\ CountsOnce(list, L) => CountsOnce(Tail(list), L)
               /\ RunFailsLast(list, L) => RunFailsLast(Tail(list), L)
    BY <2>1, <2>2, TailCounts
  <2>4. \A i \in Items : Announces(i, sub'[i], todo'[i])
    <3> SUFFICES ASSUME NEW i \in Items PROVE Announces(i, sub[i], todo'[i])
      BY <2>1
    <3>1. CASE i = p
      <4>1. Announces(i, sub[i], list)
        BY <1>2, <2>2, <3>1
      <4>2. Announces(i, sub[i], Tail(list))
        BY <4>1, <2>3 DEF Announces
      <4> QED BY <2>1, <2>2, <3>1, <4>2
    <3>2. CASE i # p
      BY <1>2, <2>1, <3>2
    <3> QED BY <3>1, <3>2
  <2>5. \A w \in Workers : Tallies(job'[w], wpc'[w], todo'[w])
    <3> SUFFICES ASSUME NEW w \in Workers PROVE Tallies(job[w], wpc[w], todo'[w])
      BY <2>1
    <3>1. CASE w = p
      <4>1. Tallies(job[w], wpc[w], list)
        BY <1>2, <2>2, <3>1
      <4>2. Tallies(job[w], wpc[w], Tail(list))
        BY <4>1, <2>3 DEF Tallies
      <4> QED BY <2>1, <2>2, <3>1, <4>2
    <3>2. CASE w # p
      BY <1>2, <2>1, <3>2
    <3> QED BY <3>1, <3>2
  <2> QED BY <2>4, <2>5 DEF TallyInv
<1>8. CASE UNCHANGED <<sub, todo, wpc, job>>
  BY <1>2, <1>8 DEF TallyInv
<1> QED BY <1>3, <1>5, <1>6, <1>7, <1>8

---------------------------------------------------------------------------
(* How the counted items change *)

\* A submitter that moves on counts nothing yet.
LEMMA SubmitterCounts ==
  ASSUME TypeInv, NEW S \in SUBSET Items, NEW at, at \subseteq GivenUp \cup {"rejected"}, NEW L,
         NEW i \in Items, SubmitterMove(i),
         i \in S /\ sub'[i] \in at => StillCounts(todo'[i], L)
  PROVE  CountedOf(S, at, L)' = CountedOf(S, at, L)
<1> USE ServiceAssumption
<1>1. /\ sub \in [Items -> SubmitterStates] /\ todo \in [Items \cup Workers -> Seq(Calls)]
  BY DEF TypeInv, TypeOK
<1>2. /\ UNCHANGED <<wpc, job, finished>>
      /\ \A j \in Items : j # i => sub'[j] = sub[j] /\ todo'[j] = todo[j]
      /\ \A w \in Workers : todo'[w] = todo[w]
      /\ sub[i] \notin at
  BY <1>1 DEF SubmitterMove
<1>3. \A j \in S : sub[j] \in at /\ ~StillCounts(todo[j], L) <=> sub'[j] \in at /\ ~StillCounts(todo'[j], L)
  BY <1>2
<1>4. \A w \in Workers : StillCounts(todo'[w], L) <=> StillCounts(todo[w], L)
  BY <1>2
<1> QED BY <1>2, <1>3, <1>4 DEF CountedOf

\* A worker that moves on counts nothing yet.
LEMMA PoolMoveCounts ==
  ASSUME TypeInv, NEW S \in SUBSET Items, NEW at, NEW L, NEW w \in Workers, PoolMove(w),
         wpc'[w] = "finish" /\ job'[w] \in S => StillCounts(todo'[w], L)
  PROVE  CountedOf(S, at, L)' = CountedOf(S, at, L)
<1> USE ServiceAssumption
<1>1. /\ wpc \in [Workers -> WorkerStates] /\ todo \in [Items \cup Workers -> Seq(Calls)]
      /\ job \in [Workers -> Items \cup {None}]
  BY DEF TypeInv, TypeOK
<1>2. /\ UNCHANGED <<sub, finished>> /\ wpc[w] # "finish"
      /\ \A v \in Workers : v # w => wpc'[v] = wpc[v] /\ job'[v] = job[v] /\ todo'[v] = todo[v]
      /\ \A j \in Items : todo'[j] = todo[j]
  BY <1>1 DEF PoolMove
<1>3. \A j \in S : \A v \in Workers :
        job'[v] = j /\ wpc'[v] = "finish" /\ ~StillCounts(todo'[v], L)
          <=> job[v] = j /\ wpc[v] = "finish" /\ ~StillCounts(todo[v], L)
  <2> SUFFICES ASSUME NEW j \in S, NEW v \in Workers
               PROVE  job'[v] = j /\ wpc'[v] = "finish" /\ ~StillCounts(todo'[v], L)
                        <=> job[v] = j /\ wpc[v] = "finish" /\ ~StillCounts(todo[v], L)
    OBVIOUS
  <2>1. CASE v = w
    BY <1>2, <2>1
  <2>2. CASE v # w
    BY <1>2, <2>2
  <2> QED BY <2>1, <2>2
<1>4. \A j \in S : StillCounts(todo'[j], L) <=> StillCounts(todo[j], L)
  BY <1>2
<1> QED BY <1>2, <1>3, <1>4 DEF CountedOf

\* An item whose worker has counted it stays counted when it is finished.
LEMMA PoolFinishCounts ==
  ASSUME TypeInv, NEW S \in SUBSET Items, NEW at, NEW L, NEW w \in Workers, PoolFinish(w)
  PROVE  CountedOf(S, at, L)' = CountedOf(S, at, L)
<1> USE ServiceAssumption
<1>1. /\ wpc \in [Workers -> WorkerStates] /\ todo \in [Items \cup Workers -> Seq(Calls)]
      /\ job \in [Workers -> Items \cup {None}]
  BY DEF TypeInv, TypeOK
<1>2. /\ sub' = sub /\ wpc[w] = "finish" /\ ~StillCounts(todo[w], L)
      /\ finished' = finished \cup {job[w]} /\ wpc'[w] # "finish"
      /\ \A v \in Workers : v # w => wpc'[v] = wpc[v] /\ job'[v] = job[v] /\ todo'[v] = todo[v]
      /\ \A j \in Items : todo'[j] = todo[j]
  BY <1>1 DEF PoolFinish, StillCounts
<1>3. \A j \in S : j # job[w] => \A v \in Workers :
        job'[v] = j /\ wpc'[v] = "finish" /\ ~StillCounts(todo'[v], L)
          <=> job[v] = j /\ wpc[v] = "finish" /\ ~StillCounts(todo[v], L)
  <2> SUFFICES ASSUME NEW j \in S, j # job[w], NEW v \in Workers
               PROVE  job'[v] = j /\ wpc'[v] = "finish" /\ ~StillCounts(todo'[v], L)
                        <=> job[v] = j /\ wpc[v] = "finish" /\ ~StillCounts(todo[v], L)
    OBVIOUS
  <2>1. CASE v = w
    BY <1>2, <2>1
  <2>2. CASE v # w
    BY <1>2, <2>2
  <2> QED BY <2>1, <2>2
<1>4. \A j \in S : StillCounts(todo'[j], L) <=> StillCounts(todo[j], L)
  BY <1>2
<1>5. \A j \in S : j # job[w] => (j \in CountedOf(S, at, L)' <=> j \in CountedOf(S, at, L))
  BY <1>2, <1>3, <1>4 DEF CountedOf
<1>6. job[w] \in S => job[w] \in CountedOf(S, at, L)' /\ job[w] \in CountedOf(S, at, L)
  <2>1. job[w] \in S => job[w] \in CountedOf(S, at, L)
    BY <1>2 DEF CountedOf
  <2>2. \A j \in S : j \in finished' => j \in CountedOf(S, at, L)'
    BY DEF CountedOf
  <2> QED BY <1>2, <2>1, <2>2
<1>7. CountedOf(S, at, L)' \subseteq S /\ CountedOf(S, at, L) \subseteq S
  BY DEF CountedOf
<1>8. \A j \in S : j \in CountedOf(S, at, L)' <=> j \in CountedOf(S, at, L)
  BY <1>5, <1>6
<1> HIDE DEF CountedOf
<1> QED BY <1>7, <1>8

\* A call that counts one of the labels.
Hits(c, labels) == c.op = "count" /\ c.arg \in labels

\* What the next call of a process changes: an item if it counts one of the
\* labels, for a process that has to do with one of the items.
CallCounted(p, S, at, L) ==
  LET c == Head(todo[p]) IN
  /\ ~Hits(c, L) => CountedOf(S, at, L)' = CountedOf(S, at, L)
  /\ p \in Items /\ ~(p \in S /\ sub[p] \in at) => CountedOf(S, at, L)' = CountedOf(S, at, L)
  /\ p \in Workers /\ job[p] \notin S => CountedOf(S, at, L)' = CountedOf(S, at, L)
  /\ Hits(c, L) /\ p \in S /\ sub[p] \in at =>
       /\ CountedOf(S, at, L)' = CountedOf(S, at, L) \cup {p}
       /\ p \notin CountedOf(S, at, L)
  /\ Hits(c, L) /\ p \in Workers /\ job[p] \in S /\ wpc[p] = "finish" =>
       /\ CountedOf(S, at, L)' = CountedOf(S, at, L) \cup {job[p]}
       /\ job[p] \notin CountedOf(S, at, L)

\* The next call of a process changes no more than that.
LEMMA CallCounts ==
  ASSUME TypeInv, PlaceInv, UniqueInv, NEW p \in Items \cup Workers, PoolCall(p),
         NEW S \in SUBSET Items, NEW at \in SUBSET (GivenUp \cup {"rejected"}), NEW L,
         CountsOnce(todo[p], L)
  PROVE  CallCounted(p, S, at, L)
<1> USE ServiceAssumption
<1>1. /\ todo \in [Items \cup Workers -> Seq(Calls)] /\ job \in [Workers -> Items \cup {None}]
      /\ finished \subseteq Items
  BY DEF TypeInv, TypeOK
<1>2. /\ todo[p] \in Seq(Calls) /\ todo[p] # <<>> /\ todo'[p] = Tail(todo[p])
      /\ \A q \in Items \cup Workers : q # p => todo'[q] = todo[q]
      /\ UNCHANGED <<sub, wpc, job, finished>>
  BY <1>1 DEF PoolCall
<1> DEFINE here == Hits(Head(todo[p]), L)
           C == CountedOf(S, at, L)
           Still(q) == StillCounts(todo[q], L)
           Held(j, w) == job[w] = j /\ wpc[w] = "finish"
<1>3. PICK list \in Seq(Calls) : list = todo[p]
  BY <1>2
<1>4. /\ StillCounts(list, L) <=> here \/ StillCounts(Tail(list), L)
      /\ here => ~StillCounts(Tail(list), L)
  BY <1>2, <1>3, TailCounts DEF Hits
<1>5. /\ Still(p) <=> here \/ StillCounts(todo'[p], L)
      /\ here => ~StillCounts(todo'[p], L)
      /\ \A q \in Items \cup Workers : q # p => (Still(q) <=> StillCounts(todo'[q], L))
  BY <1>2, <1>3, <1>4
<1>6. \A j : j \in C <=> /\ j \in S
                         /\ \/ sub[j] \in at /\ ~Still(j)
                            \/ j \in finished
                            \/ \E w \in Workers : Held(j, w) /\ ~Still(w)
  BY DEF CountedOf
<1>7. \A j : j \in CountedOf(S, at, L)' <=>
               /\ j \in S
               /\ \/ sub[j] \in at /\ ~StillCounts(todo'[j], L)
                  \/ j \in finished
                  \/ \E w \in Workers : Held(j, w) /\ ~StillCounts(todo'[w], L)
  BY <1>2 DEF CountedOf
<1>8. \A j \in S : sub[j] \in at => j \notin finished /\ \A w \in Workers : ~Held(j, w)
  BY DEF PlaceInv, GivenUp
<1>9. \A w \in Workers : job[w] \in Items => job[w] \notin finished /\ sub[job[w]] \notin at
  BY DEF PlaceInv, GivenUp, UniqueInv
<1>10. \A v, w \in Workers : \A j \in S : Held(j, v) /\ Held(j, w) => v = w
  BY DEF UniqueInv
<1> HIDE DEF here, C, Still, Held
<1>e. (\A j \in S : j \in CountedOf(S, at, L)' <=> j \in C) => CountedOf(S, at, L)' = C
  BY <1>6, <1>7
<1>11. ASSUME ~here PROVE CountedOf(S, at, L)' = C
  <2>1. \A q \in Items \cup Workers : Still(q) <=> StillCounts(todo'[q], L)
    BY <1>5, <1>11
  <2>2. \A j \in S : j \in CountedOf(S, at, L)' <=> j \in C
    BY <1>6, <1>7, <2>1
  <2> QED BY <1>e, <2>2
<1>12. ASSUME p \in Items, ~(p \in S /\ sub[p] \in at) PROVE CountedOf(S, at, L)' = C
  <2>1. \A w \in Workers : w # p
    BY <1>12
  <2>2. \A j \in S : j \in CountedOf(S, at, L)' <=> j \in C
    BY <1>5, <1>6, <1>7, <1>12, <2>1
  <2> QED BY <1>e, <2>2
<1>13. ASSUME p \in Workers, job[p] \notin S PROVE CountedOf(S, at, L)' = C
  <2>1. (\A j \in S : j # p) /\ \A j \in S : ~Held(j, p)
    BY <1>13 DEF Held
  <2>2. ASSUME NEW j \in S PROVE j \in CountedOf(S, at, L)' <=> j \in C
    <3>1. Still(j) <=> StillCounts(todo'[j], L)
      BY <1>5, <2>1
    <3>2. \A w \in Workers : Held(j, w) => (Still(w) <=> StillCounts(todo'[w], L))
      BY <1>5, <2>1
    <3> QED BY <1>6, <1>7, <3>1, <3>2
  <2> QED BY <1>e, <2>2
<1>14. ASSUME here, p \in S, sub[p] \in at PROVE CountedOf(S, at, L)' = C \cup {p} /\ p \notin C
  <2>1. \A w \in Workers : w # p
    BY <1>14
  <2>2. \A j \in S : j # p => (j \in CountedOf(S, at, L)' <=> j \in C)
    BY <1>5, <1>6, <1>7, <2>1
  <2>3. p \in CountedOf(S, at, L)' /\ p \notin C
    BY <1>5, <1>6, <1>7, <1>8, <1>14
  <2>4. C \subseteq S /\ CountedOf(S, at, L)' \subseteq S
    BY <1>6, <1>7
  <2> QED BY <1>14, <2>2, <2>3, <2>4
<1>15. ASSUME here, p \in Workers, job[p] \in S, wpc[p] = "finish"
       PROVE  CountedOf(S, at, L)' = C \cup {job[p]} /\ job[p] \notin C
  <2>1. \A j \in S : j # p
    BY <1>15
  <2>2. Held(job[p], p) /\ \A j \in S : j # job[p] => ~Held(j, p)
    BY <1>15 DEF Held
  <2>3. \A j \in S : j # job[p] => (j \in CountedOf(S, at, L)' <=> j \in C)
    BY <1>5, <1>6, <1>7, <2>1, <2>2
  <2>4. job[p] \in CountedOf(S, at, L)'
    BY <1>5, <1>7, <1>15, <2>2
  <2>5. job[p] \notin C
    BY <1>5, <1>6, <1>9, <1>10, <1>15, <2>2
  <2>6. C \subseteq S /\ CountedOf(S, at, L)' \subseteq S
    BY <1>6, <1>7
  <2> QED BY <1>15, <2>3, <2>4, <2>5, <2>6
<1>16. ~here => CountedOf(S, at, L)' = C
  BY <1>11
<1> QED BY <1>12, <1>13, <1>14, <1>15, <1>16 DEF here, C, CallCounted

\* The accepted items: only the call that counts one makes a difference.
LEMMA AcceptedCounts ==
  ASSUME TypeInv, TallyInv
  PROVE  /\ \A i \in Items : SubmitterMove(i) => AcceptedCounted' = AcceptedCounted
         /\ \A w \in Workers : PoolMove(w) \/ PoolFinish(w) => AcceptedCounted' = AcceptedCounted
         /\ \A p \in Items \cup Workers : PoolCall(p) =>
              IF Head(todo[p]).op = "count" /\ Head(todo[p]).arg = "accepted"
              THEN AcceptedCounted' = AcceptedCounted \cup {p} /\ p \notin AcceptedCounted
              ELSE AcceptedCounted' = AcceptedCounted
<1> USE ServiceAssumption
<1>1. /\ todo \in [Items \cup Workers -> Seq(Calls)] /\ sub \in [Items -> SubmitterStates]
  BY DEF TypeInv, TypeOK
<1>2. SlackItems \subseteq Items
  BY DEF SlackItems
<1> DEFINE Done(i, at, list) == at = "accepted" /\ ~StillCounts(list, {"accepted"})
<1>3. /\ AcceptedCounted = {i \in SlackItems : Done(i, sub[i], todo[i])}
      /\ AcceptedCounted' = {i \in SlackItems : Done(i, sub'[i], todo'[i])}
  BY DEF AcceptedCounted
<1> HIDE DEF Done
<1>4. ASSUME \A i \in SlackItems : Done(i, sub'[i], todo'[i]) <=> Done(i, sub[i], todo[i])
      PROVE  AcceptedCounted' = AcceptedCounted
  BY <1>3, <1>4
<1>5. ASSUME NEW i \in Items, SubmitterMove(i) PROVE AcceptedCounted' = AcceptedCounted
  <2>1. PICK at \in SubmitterStates, list \in Seq(Calls) :
          /\ sub' = [sub EXCEPT ![i] = at] /\ todo' = [todo EXCEPT ![i] = list]
          /\ Announced(i, at, list)
    BY <1>5 DEF SubmitterMove
  <2>2. /\ sub'[i] = at /\ todo'[i] = list
        /\ \A j \in Items : j # i => sub'[j] = sub[j] /\ todo'[j] = todo[j]
    BY <1>1, <2>1
  <2>3. sub[i] # "accepted"
    BY <1>5 DEF SubmitterMove
  <2>4. ~Done(i, sub[i], todo[i]) /\ (i \in SlackItems => ~Done(i, at, list))
    BY <2>1, <2>3 DEF Done, Announced
  <2> QED BY <1>2, <1>4, <2>2, <2>4
<1>6. ASSUME NEW w \in Workers, PoolMove(w) \/ PoolFinish(w) PROVE AcceptedCounted' = AcceptedCounted
  <2>1. \A i \in Items : sub'[i] = sub[i] /\ todo'[i] = todo[i]
    BY <1>1, <1>6 DEF PoolMove, PoolFinish
  <2> QED BY <1>2, <1>4, <2>1
<1>7. ASSUME NEW p \in Items \cup Workers, PoolCall(p)
      PROVE  IF Head(todo[p]).op = "count" /\ Head(todo[p]).arg = "accepted"
             THEN AcceptedCounted' = AcceptedCounted \cup {p} /\ p \notin AcceptedCounted
             ELSE AcceptedCounted' = AcceptedCounted
  <2>1. /\ todo[p] \in Seq(Calls) /\ todo[p] # <<>> /\ todo'[p] = Tail(todo[p])
        /\ \A q \in Items \cup Workers : q # p => todo'[q] = todo[q]
        /\ sub' = sub
    BY <1>1, <1>7 DEF PoolCall
  <2> DEFINE here == Head(todo[p]).op = "count" /\ Head(todo[p]).arg = "accepted"
  <2>2. PICK list \in Seq(Calls) : list = todo[p]
    BY <2>1
  <2>3. /\ StillCounts(list, {"accepted"}) <=> here \/ StillCounts(Tail(list), {"accepted"})
        /\ CountsOnce(list, {"accepted"}) /\ here => ~StillCounts(Tail(list), {"accepted"})
    BY <2>1, <2>2, TailCounts
  <2>4. CASE p \in Items /\ here
    <3>1. Announces(p, sub[p], list)
      BY <2>2, <2>4 DEF TallyInv
    <3>2. p \in SlackItems /\ sub[p] = "accepted" /\ ~StillCounts(Tail(list), {"accepted"})
      BY <2>3, <2>4, <3>1 DEF Announces
    <3>3. ~Done(p, sub[p], todo[p]) /\ Done(p, sub'[p], todo'[p])
      BY <2>1, <2>2, <2>3, <2>4, <3>2 DEF Done
    <3>4. \A i \in SlackItems : i # p => (Done(i, sub'[i], todo'[i]) <=> Done(i, sub[i], todo[i]))
      BY <1>2, <2>1
    <3> QED BY <1>3, <2>4, <3>2, <3>3, <3>4
  <2>5. CASE p \in Workers
    <3>1. \A i \in SlackItems : i # p
      BY <1>2, <2>5
    <3>2. AcceptedCounted' = AcceptedCounted
      BY <1>2, <1>4, <2>1, <3>1
    <3>3. ~here
      <4>1. ~StillCounts(list, {"accepted"})
        BY <2>2, <2>5 DEF TallyInv, Tallies
      <4> QED BY <2>3, <4>1
    <3> QED BY <3>2, <3>3
  <2>6. CASE p \in Items /\ ~here
    <3>1. \A i \in Items : StillCounts(todo'[i], {"accepted"}) <=> StillCounts(todo[i], {"accepted"})
      BY <2>1, <2>2, <2>3, <2>6
    <3>2. AcceptedCounted' = AcceptedCounted
      BY <1>2, <1>4, <2>1, <3>1 DEF Done
    <3> QED BY <2>6, <3>2
  <2> QED BY <2>4, <2>5, <2>6
<1> QED BY <1>5, <1>6, <1>7

\* The workers whose run is failing: one more when it counts as a failed event
\* or is to be counted, one less when it counts as a failed run.
LEMMA FailingCounts ==
  ASSUME TypeInv, TallyInv
  PROVE  /\ \A i \in Items : SubmitterMove(i) => RunsFailing' = RunsFailing
         /\ \A w \in Workers : PoolFinish(w) => RunsFailing' = RunsFailing
         /\ \A w \in Workers : PoolMove(w) =>
              RunsFailing' = RunsFailing \/ (RunsFailing' = RunsFailing \cup {w} /\ w \notin RunsFailing)
         /\ \A i \in Items : PoolCall(i) => RunsFailing' = RunsFailing
         /\ \A w \in Workers : PoolCall(w) =>
              LET c == Head(todo[w]) IN
              IF c.op = "count" /\ c.arg \in EventLabels /\ job[w] \in Scheduled
              THEN RunsFailing' = RunsFailing \cup {w} /\ w \notin RunsFailing
              ELSE IF c.op = "count" /\ c.arg = "run_failed"
              THEN RunsFailing' = RunsFailing \ {w} /\ w \in RunsFailing
              ELSE RunsFailing' = RunsFailing
<1> USE ServiceAssumption
<1>1. /\ todo \in [Items \cup Workers -> Seq(Calls)] /\ wpc \in [Workers -> WorkerStates]
      /\ job \in [Workers -> Items \cup {None}]
  BY DEF TypeInv, TypeOK
<1> DEFINE Fails(i, pc, list) == /\ i \in Scheduled /\ pc = "finish"
                                 /\ StillCounts(list, {"run_failed"}) /\ ~StillCounts(list, EventLabels)
<1>2. /\ RunsFailing = {w \in Workers : Fails(job[w], wpc[w], todo[w])}
      /\ RunsFailing' = {w \in Workers : Fails(job'[w], wpc'[w], todo'[w])}
  BY DEF RunsFailing
<1> HIDE DEF Fails
<1>3. ASSUME \A w \in Workers : Fails(job'[w], wpc'[w], todo'[w]) <=> Fails(job[w], wpc[w], todo[w])
      PROVE  RunsFailing' = RunsFailing
  BY <1>2, <1>3
<1>4. ASSUME NEW w \in Workers,
             \A v \in Workers : v # w => UNCHANGED <<job[v], wpc[v], todo[v]>>
      PROVE  /\ (Fails(job'[w], wpc'[w], todo'[w]) <=> Fails(job[w], wpc[w], todo[w]))
                  => RunsFailing' = RunsFailing
             /\ Fails(job'[w], wpc'[w], todo'[w]) /\ ~Fails(job[w], wpc[w], todo[w])
                  => RunsFailing' = RunsFailing \cup {w} /\ w \notin RunsFailing
             /\ ~Fails(job'[w], wpc'[w], todo'[w]) /\ Fails(job[w], wpc[w], todo[w])
                  => RunsFailing' = RunsFailing \ {w} /\ w \in RunsFailing
  <2>1. \A v \in Workers : v # w => (Fails(job'[v], wpc'[v], todo'[v]) <=> Fails(job[v], wpc[v], todo[v]))
    BY <1>4
  <2>2. RunsFailing \subseteq Workers /\ RunsFailing' \subseteq Workers
    BY <1>2
  <2>3. \A v \in Workers : v # w => (v \in RunsFailing' <=> v \in RunsFailing)
    BY <1>2, <2>1
  <2>4. /\ w \in RunsFailing' <=> Fails(job'[w], wpc'[w], todo'[w])
        /\ w \in RunsFailing <=> Fails(job[w], wpc[w], todo[w])
    BY <1>2
  <2> QED BY <2>2, <2>3, <2>4, SMTT(30)
<1>5. ASSUME NEW i \in Items, SubmitterMove(i) \/ PoolCall(i) PROVE RunsFailing' = RunsFailing
  <2>1. \A w \in Workers : job'[w] = job[w] /\ wpc'[w] = wpc[w] /\ todo'[w] = todo[w]
    BY <1>1, <1>5 DEF SubmitterMove, PoolCall
  <2> QED BY <1>3, <2>1
<1>6. ASSUME NEW w \in Workers, PoolMove(w) \/ PoolFinish(w) \/ PoolCall(w)
      PROVE  \A v \in Workers : v # w => UNCHANGED <<job[v], wpc[v], todo[v]>>
  <2>1. ASSUME PoolMove(w) PROVE \A v \in Workers : v # w => UNCHANGED <<job[v], wpc[v], todo[v]>>
    BY <1>1, <2>1 DEF PoolMove
  <2>2. ASSUME PoolFinish(w) \/ PoolCall(w)
        PROVE  \A v \in Workers : v # w => UNCHANGED <<job[v], wpc[v], todo[v]>>
    BY <1>1, <2>2 DEF PoolFinish, PoolCall
  <2> QED BY <1>6, <2>1, <2>2
<1>7. ASSUME NEW w \in Workers, PoolFinish(w) PROVE RunsFailing' = RunsFailing
  <2>1. wpc'[w] = "idle" /\ todo[w] = <<>>
    BY <1>1, <1>7 DEF PoolFinish
  <2>2. ~Fails(job'[w], wpc'[w], todo'[w]) /\ ~Fails(job[w], wpc[w], todo[w])
    BY <2>1 DEF Fails, StillCounts
  <2> QED BY <1>4, <1>6, <1>7, <2>2
<1>8. ASSUME NEW w \in Workers, PoolMove(w)
      PROVE  RunsFailing' = RunsFailing \/ (RunsFailing' = RunsFailing \cup {w} /\ w \notin RunsFailing)
  <2>1. ~Fails(job[w], wpc[w], todo[w])
    BY <1>8 DEF Fails, PoolMove
  <2>2. \A v \in Workers : v # w => UNCHANGED <<job[v], wpc[v], todo[v]>>
    BY <1>6, <1>8
  <2> QED BY <1>4, <2>1, <2>2
<1>9. ASSUME NEW w \in Workers, PoolCall(w)
      PROVE  LET c == Head(todo[w]) IN
             IF c.op = "count" /\ c.arg \in EventLabels /\ job[w] \in Scheduled
             THEN RunsFailing' = RunsFailing \cup {w} /\ w \notin RunsFailing
             ELSE IF c.op = "count" /\ c.arg = "run_failed"
             THEN RunsFailing' = RunsFailing \ {w} /\ w \in RunsFailing
             ELSE RunsFailing' = RunsFailing
  <2>1. /\ todo[w] \in Seq(Calls) /\ todo[w] # <<>> /\ todo'[w] = Tail(todo[w])
        /\ wpc' = wpc /\ job' = job
    BY <1>1, <1>9 DEF PoolCall
  <2>2. PICK list \in Seq(Calls), i \in Items \cup {None}, pc \in WorkerStates :
          list = todo[w] /\ i = job[w] /\ pc = wpc[w]
    BY <1>1, <2>1
  <2> DEFINE c == Head(list)
             event == c.op = "count" /\ c.arg \in EventLabels
             failed == c.op = "count" /\ c.arg = "run_failed"
  <2>3. Tallies(i, pc, list) /\ list # <<>>
    BY <2>1, <2>2 DEF TallyInv
  <2>4. /\ StillCounts(list, EventLabels) <=> event \/ StillCounts(Tail(list), EventLabels)
        /\ CountsOnce(list, EventLabels) /\ event => ~StillCounts(Tail(list), EventLabels)
        /\ RunFailsLast(list, EventLabels) /\ event => StillCounts(Tail(list), {"run_failed"})
        /\ RunFailsLast(list, EventLabels) => RunFailsLast(Tail(list), EventLabels)
    BY <2>3, TailCounts
  <2>5. /\ StillCounts(list, {"run_failed"}) <=> failed \/ StillCounts(Tail(list), {"run_failed"})
    BY <2>3, TailCounts
  <2>6. failed => ~StillCounts(Tail(list), {"run_failed"})
    <3>1. CountsOnce(list, RunLabels) /\ failed => ~StillCounts(Tail(list), RunLabels)
      BY <2>3, TailCounts DEF RunLabels
    <3>2. StillCounts(Tail(list), {"run_failed"}) => StillCounts(Tail(list), RunLabels)
      BY DEF StillCounts, CountsAt, RunLabels
    <3> QED BY <2>3, <3>1, <3>2 DEF Tallies
  <2>7. RunFailsLast(Tail(list), EventLabels) /\ StillCounts(Tail(list), EventLabels)
          => StillCounts(Tail(list), {"run_failed"})
    BY DEF RunFailsLast, StillCounts
  <2>8. failed => StillCounts(list, RunLabels)
    <3>1. failed => StillCounts(list, {"run_failed"})
      BY <2>5
    <3>2. StillCounts(list, {"run_failed"}) => StillCounts(list, RunLabels)
      BY DEF StillCounts, CountsAt, RunLabels
    <3> QED BY <3>1, <3>2
  <2>9. ~(event /\ failed)
    BY DEF EventLabels
  <2>10. \A v \in Workers : v # w => UNCHANGED <<job[v], wpc[v], todo[v]>>
    BY <1>6, <1>9
  <2> HIDE DEF event, failed
  <2>11. /\ Fails(job'[w], wpc'[w], todo'[w]) <=> Fails(i, pc, Tail(list))
         /\ Fails(job[w], wpc[w], todo[w]) <=> Fails(i, pc, list)
    BY <2>1, <2>2
  <2>12. CASE event /\ i \in Scheduled
    <3>1. Fails(i, pc, Tail(list)) /\ ~Fails(i, pc, list)
      BY <2>3, <2>4, <2>12 DEF Fails, Tallies
    <3>2. RunsFailing' = RunsFailing \cup {w} /\ w \notin RunsFailing
      BY <1>4, <2>10, <2>11, <3>1
    <3> QED BY <2>2, <2>12, <3>2 DEF event
  <2>13. CASE failed
    <3>1. i \in Scheduled /\ pc = "finish"
      BY <2>3, <2>8, <2>13 DEF Tallies
    <3>2. ~Fails(i, pc, Tail(list)) /\ Fails(i, pc, list)
      BY <2>3, <2>4, <2>5, <2>6, <2>7, <2>9, <2>13, <3>1 DEF Fails, Tallies
    <3>3. RunsFailing' = RunsFailing \ {w} /\ w \in RunsFailing
      BY <1>4, <2>10, <2>11, <3>2
    <3> QED BY <2>2, <2>9, <2>13, <3>3 DEF event, failed
  <2>14. CASE ~failed /\ ~(event /\ i \in Scheduled)
    <3>1. Fails(i, pc, Tail(list)) <=> Fails(i, pc, list)
      BY <2>4, <2>5, <2>14 DEF Fails
    <3>2. RunsFailing' = RunsFailing
      BY <1>4, <2>10, <2>11, <3>1
    <3> QED BY <2>2, <2>14, <3>2 DEF event, failed
  <2> QED BY <2>12, <2>13, <2>14
<1> QED BY <1>5, <1>7, <1>8, <1>9

---------------------------------------------------------------------------
(* The counters keep up *)

\* A set and its size grow or shrink together.
LEMMA SizeKeeps ==
  ASSUME NEW S, NEW T, NEW x, IsFiniteSet(S)
  PROVE  /\ Cardinality(S) \in Nat
         /\ T = S \cup {x} /\ x \notin S => IsFiniteSet(T) /\ Cardinality(T) = Cardinality(S) + 1
         /\ T = S \ {x} /\ x \in S => IsFiniteSet(T) /\ Cardinality(T) = Cardinality(S) - 1
BY FS_CardinalityType, FS_AddElement, FS_RemoveElement

\* What a counter adds to.
LEMMA CounterAdds ==
  ASSUME TypeInv, NEW l \in Labels, metrics' = [metrics EXCEPT ![l] = @ + 1]
  PROVE  /\ RunCount' = IF l \in RunLabels THEN RunCount + 1 ELSE RunCount
         /\ EventCount' = IF l \in EventLabels THEN EventCount + 1 ELSE EventCount
         /\ metrics'["accepted"] = IF l = "accepted" THEN metrics["accepted"] + 1 ELSE metrics["accepted"]
         /\ metrics'["run_failed"] = IF l = "run_failed" THEN metrics["run_failed"] + 1 ELSE metrics["run_failed"]
<1>1. metrics \in [Labels -> Nat]
  BY DEF TypeInv, TypeOK
<1>2. \A k \in Labels : metrics'[k] = IF k = l THEN metrics[k] + 1 ELSE metrics[k]
  BY <1>1
<1>3. \A k \in Labels : metrics[k] \in Nat
  BY <1>1
<1>4. {"run_success", "run_failed", "accepted", "firing", "freeform", "resolved", "failed"} \subseteq Labels
  BY DEF Labels
<1>5. RunCount' = IF l \in RunLabels THEN RunCount + 1 ELSE RunCount
  BY <1>2, <1>3, <1>4 DEF RunCount, RunLabels
<1>6. EventCount' = IF l \in EventLabels THEN EventCount + 1 ELSE EventCount
  BY <1>2, <1>3, <1>4 DEF EventCount, EventLabels
<1>7. /\ metrics'["accepted"] = IF l = "accepted" THEN metrics["accepted"] + 1 ELSE metrics["accepted"]
      /\ metrics'["run_failed"] = IF l = "run_failed" THEN metrics["run_failed"] + 1 ELSE metrics["run_failed"]
  BY <1>2, <1>4
<1> QED BY <1>5, <1>6, <1>7

\* Every move keeps the counters true to the sets of counted items.
LEMMA NextCount ==
  ASSUME TypeInv, PlaceInv, UniqueInv, TallyInv, CountInv,
         \/ \E i \in Items : SubmitterMove(i)
         \/ \E w \in Workers : PoolMove(w) \/ PoolFinish(w)
         \/ \E p \in Items \cup Workers : PoolCall(p)
         \/ UNCHANGED <<sub, todo, wpc, job, finished, metrics>>
  PROVE  CountInv'
<1> USE ServiceAssumption
<1>1. /\ Scheduled \in SUBSET Items /\ SlackItems \in SUBSET Items
      /\ \A i \in Items : i \in Scheduled <=> i \notin SlackItems
      /\ GivenUp \subseteq GivenUp \cup {"rejected"} /\ {"rejected"} \subseteq GivenUp \cup {"rejected"}
  BY DEF Scheduled, SlackItems
<1>2. /\ IsFiniteSet(RunsCounted) /\ RunCount = Cardinality(RunsCounted)
      /\ IsFiniteSet(AcceptedCounted) /\ metrics["accepted"] = Cardinality(AcceptedCounted)
      /\ IsFiniteSet(EventsCounted) /\ IsFiniteSet(RunsFailing)
      /\ EventCount - Cardinality(EventsCounted) \in 0 .. metrics["run_failed"] + Cardinality(RunsFailing)
  BY DEF CountInv
<1>3. /\ metrics["run_failed"] \in Nat /\ EventCount \in Nat
      /\ Cardinality(RunsCounted) \in Nat /\ Cardinality(AcceptedCounted) \in Nat
      /\ Cardinality(EventsCounted) \in Nat /\ Cardinality(RunsFailing) \in Nat
  <2>1. \A k \in {"run_failed", "firing", "freeform", "resolved", "failed"} : metrics[k] \in Nat
    BY DEF TypeInv, TypeOK, Labels
  <2> QED BY <1>2, <2>1, SizeKeeps DEF EventCount
<1>4. /\ sub \in [Items -> SubmitterStates] /\ todo \in [Items \cup Workers -> Seq(Calls)]
      /\ wpc \in [Workers -> WorkerStates] /\ job \in [Workers -> Items \cup {None}]
  BY DEF TypeInv, TypeOK
\* Without a counter.
<1>5. ASSUME metrics' = metrics, RunsCounted' = RunsCounted, AcceptedCounted' = AcceptedCounted,
             EventsCounted' = EventsCounted, NEW w,
             RunsFailing' = RunsFailing \/ (RunsFailing' = RunsFailing \cup {w} /\ w \notin RunsFailing)
      PROVE  CountInv'
  <2>1. RunCount' = RunCount /\ EventCount' = EventCount
    BY <1>5 DEF RunCount, EventCount
  <2>2. /\ IsFiniteSet(RunsFailing')
        /\ Cardinality(RunsFailing') \in {Cardinality(RunsFailing), Cardinality(RunsFailing) + 1}
    BY <1>2, <1>5, SizeKeeps
  <2>3. EventCount - Cardinality(EventsCounted) \in 0 .. metrics["run_failed"] + Cardinality(RunsFailing')
    BY <1>2, <1>3, <2>2
  <2> QED BY <1>2, <1>5, <2>1, <2>2, <2>3 DEF CountInv
<1>6. ASSUME NEW i \in Items, SubmitterMove(i) PROVE CountInv'
  <2>1. PICK at \in SubmitterStates, list \in Seq(Calls) :
          /\ sub' = [sub EXCEPT ![i] = at] /\ todo' = [todo EXCEPT ![i] = list]
          /\ Announced(i, at, list)
    BY <1>6 DEF SubmitterMove
  <2>2. sub'[i] = at /\ todo'[i] = list
    BY <1>4, <2>1
  <2>3. /\ i \in Scheduled /\ sub'[i] \in GivenUp => StillCounts(todo'[i], RunLabels)
        /\ i \in SlackItems /\ sub'[i] \in {"rejected"} => StillCounts(todo'[i], EventLabels)
    BY <2>1, <2>2 DEF Announced
  <2>4. RunsCounted' = RunsCounted
    BY <1>1, <1>6, <2>3, SubmitterCounts DEF RunsCounted
  <2>5. EventsCounted' = EventsCounted
    BY <1>1, <1>6, <2>3, SubmitterCounts DEF EventsCounted
  <2>6. AcceptedCounted' = AcceptedCounted /\ RunsFailing' = RunsFailing
    BY <1>6, AcceptedCounts, FailingCounts
  <2>7. metrics' = metrics
    BY <1>6 DEF SubmitterMove
  <2> QED BY <1>5, <2>4, <2>5, <2>6, <2>7
<1>7. ASSUME NEW w \in Workers, PoolMove(w) PROVE CountInv'
  <2>1. PICK pc \in WorkerStates, list \in Seq(Calls), i \in Items \cup {None} :
          /\ wpc' = [wpc EXCEPT ![w] = pc] /\ todo' = [todo EXCEPT ![w] = list]
          /\ job' = [job EXCEPT ![w] = i]
          /\ pc = "finish" /\ i \in Items => Due(i, list)
    BY <1>7 DEF PoolMove
  <2>2. wpc'[w] = pc /\ todo'[w] = list /\ job'[w] = i
    BY <1>4, <2>1
  <2>3. /\ wpc'[w] = "finish" /\ job'[w] \in Scheduled => StillCounts(todo'[w], RunLabels)
        /\ wpc'[w] = "finish" /\ job'[w] \in SlackItems => StillCounts(todo'[w], EventLabels)
    BY <1>1, <2>1, <2>2 DEF Due
  <2>4. RunsCounted' = RunsCounted
    BY <1>1, <1>7, <2>3, PoolMoveCounts DEF RunsCounted
  <2>5. EventsCounted' = EventsCounted
    BY <1>1, <1>7, <2>3, PoolMoveCounts DEF EventsCounted
  <2>6. /\ AcceptedCounted' = AcceptedCounted
        /\ RunsFailing' = RunsFailing \/ (RunsFailing' = RunsFailing \cup {w} /\ w \notin RunsFailing)
    BY <1>7, AcceptedCounts, FailingCounts
  <2>7. metrics' = metrics
    BY <1>7 DEF PoolMove
  <2> QED BY <1>5, <2>4, <2>5, <2>6, <2>7
<1>8. ASSUME NEW w \in Workers, PoolFinish(w) PROVE CountInv'
  <2>1. RunsCounted' = RunsCounted /\ EventsCounted' = EventsCounted
    BY <1>1, <1>8, PoolFinishCounts DEF RunsCounted, EventsCounted
  <2>2. AcceptedCounted' = AcceptedCounted /\ RunsFailing' = RunsFailing
    BY <1>8, AcceptedCounts, FailingCounts
  <2>3. metrics' = metrics
    BY <1>8 DEF PoolFinish
  <2> QED BY <1>5, <2>1, <2>2, <2>3
<1>9. ASSUME NEW p \in Items \cup Workers, PoolCall(p) PROVE CountInv'
  <2>1. /\ todo[p] \in Seq(Calls) /\ todo[p] # <<>>
    BY <1>4, <1>9 DEF PoolCall
  <2>a. PICK list \in Seq(Calls) : list = todo[p]
    BY <2>1
  <2>b. PICK c : c = Head(list)
    OBVIOUS
  <2>2. list = todo[p] /\ c = Head(list) /\ list # <<>>
    BY <2>1, <2>a, <2>b
  <2>3. CountsOnce(todo[p], RunLabels) /\ CountsOnce(todo[p], EventLabels)
    BY DEF TallyInv, Announces, Tallies
  <2>4. /\ ~Hits(c, RunLabels) => RunsCounted' = RunsCounted
        /\ Hits(c, RunLabels) /\ p \in Scheduled /\ sub[p] \in GivenUp
             => RunsCounted' = RunsCounted \cup {p} /\ p \notin RunsCounted
        /\ Hits(c, RunLabels) /\ p \in Workers /\ job[p] \in Scheduled /\ wpc[p] = "finish"
             => RunsCounted' = RunsCounted \cup {job[p]} /\ job[p] \notin RunsCounted
    <3>1. CallCounted(p, Scheduled, GivenUp, RunLabels)
      BY <1>1, <1>9, <2>3, CallCounts
    <3> QED BY <2>2, <3>1 DEF CallCounted, RunsCounted
  <2>5. /\ ~Hits(c, EventLabels) => EventsCounted' = EventsCounted
        /\ p \in Workers /\ job[p] \notin SlackItems => EventsCounted' = EventsCounted
        /\ Hits(c, EventLabels) /\ p \in SlackItems /\ sub[p] \in {"rejected"}
             => EventsCounted' = EventsCounted \cup {p} /\ p \notin EventsCounted
        /\ Hits(c, EventLabels) /\ p \in Workers /\ job[p] \in SlackItems /\ wpc[p] = "finish"
             => EventsCounted' = EventsCounted \cup {job[p]} /\ job[p] \notin EventsCounted
    <3>1. CallCounted(p, SlackItems, {"rejected"}, EventLabels)
      BY <1>1, <1>9, <2>3, CallCounts
    <3> QED BY <2>2, <3>1 DEF CallCounted, EventsCounted
  <2>6. IF c.op = "count" /\ c.arg = "accepted"
        THEN AcceptedCounted' = AcceptedCounted \cup {p} /\ p \notin AcceptedCounted
        ELSE AcceptedCounted' = AcceptedCounted
    BY <1>9, <2>2, AcceptedCounts
  <2>7. /\ p \in Items => RunsFailing' = RunsFailing
        /\ p \in Workers =>
             IF Hits(c, EventLabels) /\ job[p] \in Scheduled
             THEN RunsFailing' = RunsFailing \cup {p} /\ p \notin RunsFailing
             ELSE IF c.op = "count" /\ c.arg = "run_failed"
             THEN RunsFailing' = RunsFailing \ {p} /\ p \in RunsFailing
             ELSE RunsFailing' = RunsFailing
    BY <1>9, <2>2, FailingCounts DEF Hits
  <2>8. \A L : Hits(c, L) => StillCounts(todo[p], L)
    BY <2>2, TailCounts DEF Hits
  <2>9. /\ Hits(c, RunLabels) =>
             \/ p \in Scheduled /\ sub[p] \in GivenUp
             \/ p \in Workers /\ job[p] \in Scheduled /\ wpc[p] = "finish"
        /\ Hits(c, EventLabels) =>
             \/ p \in SlackItems /\ sub[p] = "rejected"
             \/ p \in Workers /\ job[p] \in Scheduled
             \/ p \in Workers /\ job[p] \in SlackItems /\ wpc[p] = "finish"
    <3>3. /\ Hits(c, RunLabels) => StillCounts(todo[p], RunLabels)
          /\ Hits(c, EventLabels) => StillCounts(todo[p], EventLabels)
      BY <2>8
    <3>1. CASE p \in Items
      <4>1. Announces(p, sub[p], todo[p])
        BY <3>1 DEF TallyInv
      <4> QED BY <3>3, <4>1 DEF Announces
    <3>2. CASE p \in Workers
      <4>1. job[p] \in Items
        BY <1>1, <2>1, <3>2 DEF TypeInv, HoldsJob
      <4>2. Tallies(job[p], wpc[p], todo[p])
        BY <3>2 DEF TallyInv
      <4> QED BY <1>1, <3>2, <3>3, <4>1, <4>2 DEF Tallies
    <3> QED BY <3>1, <3>2
  <2>10. IF c.op = "count" THEN c.arg \in Labels /\ metrics' = [metrics EXCEPT ![c.arg] = @ + 1]
         ELSE UNCHANGED metrics
    BY <1>9, <2>2 DEF PoolCall
  <2>11. ~(Hits(c, RunLabels) /\ Hits(c, EventLabels)) /\ ~("accepted" \in RunLabels \cup EventLabels)
         /\ "run_failed" \in RunLabels /\ "run_failed" # "accepted"
    BY DEF RunLabels, EventLabels, Hits
  <2>12. CASE c.op # "count"
    <3>1. metrics' = metrics /\ RunsFailing' = RunsFailing
      BY <2>7, <2>10, <2>12 DEF Hits
    <3> QED BY <1>5, <2>4, <2>5, <2>6, <2>12, <3>1 DEF Hits
  <2>13. CASE c.op = "count"
    <3>1. /\ RunCount' = IF Hits(c, RunLabels) THEN RunCount + 1 ELSE RunCount
          /\ EventCount' = IF Hits(c, EventLabels) THEN EventCount + 1 ELSE EventCount
          /\ metrics'["accepted"] = IF c.arg = "accepted" THEN metrics["accepted"] + 1 ELSE metrics["accepted"]
          /\ metrics'["run_failed"] = IF c.arg = "run_failed" THEN metrics["run_failed"] + 1 ELSE metrics["run_failed"]
      BY <2>10, <2>13, CounterAdds DEF Hits
    <3>2. c.arg = "run_failed" => Hits(c, RunLabels)
      BY <2>11, <2>13 DEF Hits
    <3>3. IsFiniteSet(RunsCounted') /\ RunCount' = Cardinality(RunsCounted')
      <4>1. CASE ~Hits(c, RunLabels)
        BY <1>2, <2>4, <3>1, <4>1
      <4>2. CASE Hits(c, RunLabels)
        <5>1. \E x : RunsCounted' = RunsCounted \cup {x} /\ x \notin RunsCounted
          BY <2>4, <2>9, <4>2
        <5> QED BY <1>2, <3>1, <4>2, <5>1, SizeKeeps
      <4> QED BY <4>1, <4>2
    <3>4. IsFiniteSet(AcceptedCounted') /\ metrics'["accepted"] = Cardinality(AcceptedCounted')
      BY <1>2, <2>6, <2>13, <3>1, SizeKeeps
    <3>5. /\ IsFiniteSet(EventsCounted') /\ IsFiniteSet(RunsFailing')
          /\ EventCount' - Cardinality(EventsCounted')
               \in 0 .. metrics'["run_failed"] + Cardinality(RunsFailing')
      <4>1. CASE Hits(c, EventLabels)
        <5>1. metrics'["run_failed"] = metrics["run_failed"] /\ EventCount' = EventCount + 1
          BY <2>11, <3>1, <3>2, <4>1
        <5>2. CASE p \in Workers /\ job[p] \in Scheduled
          <6>1. EventsCounted' = EventsCounted
            BY <1>1, <2>5, <5>2
          <6>2. RunsFailing' = RunsFailing \cup {p} /\ p \notin RunsFailing
            BY <2>7, <4>1, <5>2
          <6>3. IsFiniteSet(RunsFailing') /\ Cardinality(RunsFailing') = Cardinality(RunsFailing) + 1
            BY <1>2, <6>2, SizeKeeps
          <6> QED BY <1>2, <1>3, <5>1, <6>1, <6>3, SMTT(30)
        <5>3. CASE ~(p \in Workers /\ job[p] \in Scheduled)
          <6>1. RunsFailing' = RunsFailing
            BY <2>7, <2>11, <3>2, <4>1, <5>3
          <6>2. \E x : EventsCounted' = EventsCounted \cup {x} /\ x \notin EventsCounted
            BY <2>5, <2>9, <4>1, <5>3
          <6>3. IsFiniteSet(EventsCounted') /\ Cardinality(EventsCounted') = Cardinality(EventsCounted) + 1
            BY <1>2, <6>2, SizeKeeps
          <6> QED BY <1>2, <1>3, <5>1, <6>1, <6>3, SMTT(30)
        <5> QED BY <5>2, <5>3
      <4>2. CASE ~Hits(c, EventLabels) /\ c.arg = "run_failed"
        <5>1. EventsCounted' = EventsCounted /\ EventCount' = EventCount
              /\ metrics'["run_failed"] = metrics["run_failed"] + 1
          BY <2>5, <3>1, <4>2
        <5>2. CASE p \in Items
          BY <1>2, <1>3, <2>7, <5>1, <5>2
        <5>3. CASE p \in Workers
          <6>1. RunsFailing' = RunsFailing \ {p} /\ p \in RunsFailing
            BY <2>7, <2>13, <4>2, <5>3
          <6>2. IsFiniteSet(RunsFailing') /\ Cardinality(RunsFailing') = Cardinality(RunsFailing) - 1
            BY <1>2, <6>1, SizeKeeps
          <6> QED BY <1>2, <1>3, <5>1, <6>2, SMTT(30)
        <5> QED BY <5>2, <5>3
      <4>3. CASE ~Hits(c, EventLabels) /\ c.arg # "run_failed"
        <5>1. /\ EventsCounted' = EventsCounted /\ EventCount' = EventCount
              /\ metrics'["run_failed"] = metrics["run_failed"] /\ RunsFailing' = RunsFailing
          BY <2>5, <2>7, <3>1, <4>3
        <5> QED BY <1>2, <5>1
      <4> QED BY <4>1, <4>2, <4>3
    <3> QED BY <3>3, <3>4, <3>5 DEF CountInv
  <2> QED BY <2>12, <2>13
<1>10. CASE UNCHANGED <<sub, todo, wpc, job, finished, metrics>>
  <2>1. /\ RunsCounted' = RunsCounted /\ AcceptedCounted' = AcceptedCounted
        /\ EventsCounted' = EventsCounted /\ RunsFailing' = RunsFailing
    BY <1>10 DEF RunsCounted, AcceptedCounted, EventsCounted, RunsFailing, CountedOf
  <2> QED BY <1>5, <1>10, <2>1
<1> QED BY <1>6, <1>7, <1>8, <1>9, <1>10

---------------------------------------------------------------------------
(* At the end *)

\* An abandoned item is nowhere in the pool; a run is neither rejected nor
\* ignored.
EndInv ==
  /\ \A i \in abandoned : /\ \A k \in DOMAIN queue : queue[k] # i
                          /\ \A w \in Workers : job[w] # i
  /\ \A i \in Scheduled : sub[i] \notin {"rejected", "ignored"}

\* Nothing is abandoned at first.
LEMMA InitEnd == Init => EndInv
BY ServiceAssumption DEF Init, EndInv, Scheduled

\* An item is abandoned by the worker that lets it go.
LEMMA Abandons ==
  ASSUME TypeInv, [Next]_vars
  PROVE  abandoned' = abandoned \/ \E w \in Workers : Lets(w) /\ abandoned' = abandoned \cup {job[w]}
<1>1. ASSUME NEW p \in Items \cup Workers, BestEffort(p) PROVE abandoned' = abandoned
  BY <1>1 DEF BestEffort, workerVars, runVars
<1>2. ASSUME NEW i \in Items,
             Submit(i) \/ Offer(i) \/ CronFires(i) \/ PostRoot(i) \/ OfferScheduled(i)
      PROVE  abandoned' = abandoned
  BY <1>2 DEF Submit, RejectMarker, IgnoreUnmarked, TakeReadLock, Offer, CronFires, PostRoot,
    OfferScheduled, Submitted, workerVars
<1>3. ASSUME NEW w \in Workers, SkipCancelled(w)
      PROVE  abandoned' = abandoned \/ (Lets(w) /\ abandoned' = abandoned \cup {job[w]})
  <2>1. job[w] # None
    BY <1>3, ServiceAssumption DEF SkipCancelled, At, TypeInv, HoldsJob
  <2> QED BY <1>3, <2>1 DEF SkipCancelled, Lets
<1>4. ASSUME NEW w \in Workers,
             Take(w) \/ Dispatch(w) \/ LockThread(w) \/ Verify(w) \/ ReadHistory(w) \/ Chat(w)
               \/ DeliverPart(w) \/ Conclude(w) \/ Finish(w) \/ Exit(w)
      PROVE  abandoned' = abandoned
  BY <1>4 DEF Take, Dispatch, LockThread, Verify, ReadHistory, Chat, DeliverPart, Conclude, Finish,
      Exit, runVars
<1>5. Shutdown \/ RunStep \/ CloserStep \/ OnlyTimePasses => abandoned' = abandoned
  BY DEF Shutdown, RunStep, StopScheduler, DrainTimeout, CancelWork, Return, Advance, CloserStep,
    SchedulerStopped, CloseQueue, workerVars, OnlyTimePasses
<1> QED BY Steps, <1>1, <1>2, <1>3, <1>4, <1>5

\* What a step does to the submitters.
LEMMA SubmitterAdvances ==
  ASSUME TypeInv, [Next]_vars
  PROVE  sub' = sub \/ \E i \in Items : \E at \in SubmitterStates :
           sub' = [sub EXCEPT ![i] = at] /\ (at \in {"rejected", "ignored"} => i \notin Scheduled)
<1>1. ASSUME NEW p \in Items \cup Workers, BestEffort(p) PROVE sub' = sub
  BY <1>1 DEF BestEffort, runVars
<1>2. ASSUME NEW i \in Items, NEW at, NEW script, Submitted(i, at, script), at \in SubmitterStates,
             at \in {"rejected", "ignored"} => i \notin Scheduled
      PROVE  \E j \in Items : \E to \in SubmitterStates :
               sub' = [sub EXCEPT ![j] = to] /\ (to \in {"rejected", "ignored"} => j \notin Scheduled)
  BY <1>2 DEF Submitted
<1>3. ASSUME NEW i \in Items,
             Submit(i) \/ Offer(i) \/ CronFires(i) \/ PostRoot(i) \/ OfferScheduled(i)
      PROVE  \E j \in Items : \E to \in SubmitterStates :
               sub' = [sub EXCEPT ![j] = to] /\ (to \in {"rejected", "ignored"} => j \notin Scheduled)
  <2>1. {"rejected", "ignored", "offering", "dropped", "accepted", "post", "root", "failed", "refused"}
          \subseteq SubmitterStates
    BY DEF SubmitterStates
  <2>2. ASSUME Submit(i) PROVE i \notin Scheduled
    BY <2>2 DEF Submit, SlackItems
  <2>3. CASE Submit(i)
    BY <1>2, <2>1, <2>2, <2>3 DEF Submit, RejectMarker, IgnoreUnmarked, TakeReadLock
  <2>4. CASE Offer(i)
    BY <1>2, <2>1, <2>4 DEF Offer
  <2>5. CASE CronFires(i)
    BY <1>2, <2>1, <2>5 DEF CronFires
  <2>6. CASE PostRoot(i)
    BY <1>2, <2>1, <2>6 DEF PostRoot
  <2>7. CASE OfferScheduled(i)
    BY <1>2, <2>1, <2>7 DEF OfferScheduled
  <2> QED BY <1>3, <2>3, <2>4, <2>5, <2>6, <2>7
<1>4. ASSUME NEW w \in Workers,
             Take(w) \/ SkipCancelled(w) \/ Dispatch(w) \/ LockThread(w) \/ Verify(w)
               \/ ReadHistory(w) \/ Chat(w) \/ DeliverPart(w) \/ Conclude(w) \/ Finish(w) \/ Exit(w)
      PROVE  sub' = sub
  BY <1>4 DEF Take, SkipCancelled, Dispatch, LockThread, Verify, ReadHistory, Chat, DeliverPart,
      Conclude,
    Finish, Exit, RequestFails, DeliveryFails, Goto, runVars
<1>5. Shutdown \/ RunStep \/ CloserStep \/ OnlyTimePasses => sub' = sub
  BY DEF Shutdown, RunStep, StopScheduler, DrainTimeout, CancelWork, Return, Advance, CloserStep,
    SchedulerStopped, CloseQueue, OnlyTimePasses
<1> QED BY Steps, <1>1, <1>3, <1>4, <1>5

\* Every step keeps them.
LEMMA NextEnd ==
  ASSUME TypeInv, PlaceInv, UniqueInv, EndInv, [Next]_vars
  PROVE  EndInv'
<1> USE ServiceAssumption
<1>1. /\ queue \in Seq(Items) /\ job \in [Workers -> Items \cup {None}] /\ sub \in [Items -> SubmitterStates]
      /\ abandoned \subseteq Items /\ None \notin Items
  BY DEF TypeInv, TypeOK
<1>2. \A i \in Scheduled : sub'[i] \notin {"rejected", "ignored"}
  <2>1. CASE sub' = sub
    BY <2>1 DEF EndInv
  <2>2. ASSUME NEW i \in Items, NEW at \in SubmitterStates, sub' = [sub EXCEPT ![i] = at],
               at \in {"rejected", "ignored"} => i \notin Scheduled
        PROVE  \A j \in Scheduled : sub'[j] \notin {"rejected", "ignored"}
    <3>1. \A j \in Items : sub'[j] = IF j = i THEN at ELSE sub[j]
      BY <1>1, <2>2
    <3>2. Scheduled \subseteq Items
      BY DEF Scheduled
    <3> QED BY <2>2, <3>1, <3>2 DEF EndInv
  <2> QED BY <2>1, <2>2, SubmitterAdvances
<1> DEFINE Gone(i) == (\A k \in DOMAIN queue : queue[k] # i) /\ \A w \in Workers : job[w] # i
           Left(i) == (\A k \in DOMAIN queue' : queue'[k] # i) /\ \A w \in Workers : job'[w] # i
<1>3. (\A i \in abandoned' : Left(i)) => EndInv'
  BY <1>2 DEF EndInv, Scheduled
<1>4. \A i \in abandoned : Gone(i) /\ sub[i] = "accepted" /\ i # None
  BY <1>1 DEF EndInv, PlaceInv
<1>5. ASSUME NEW w \in Workers, Lets(w) PROVE (\A i \in abandoned : Left(i)) /\ Left(job[w])
  <2>1. /\ queue' = queue /\ job[w] \in Items
        /\ \A v \in Workers : job'[v] = IF v = w THEN None ELSE job[v]
    BY <1>1, <1>5 DEF Lets
  <2>2. Left(job[w])
    BY <1>1, <2>1 DEF UniqueInv
  <2> QED BY <1>4, <2>1, <2>2
<1>6. \A i \in abandoned : Left(i)
  <2>1. CASE UNCHANGED <<queue, job, finished>>
    BY <1>4, <2>1
  <2>2. ASSUME NEW i \in Items, Enqueues(i) PROVE \A j \in abandoned : Left(j)
    <3>1. /\ DOMAIN queue' = DOMAIN queue \cup {Len(queue) + 1}
          /\ \A k \in DOMAIN queue : queue'[k] = queue[k]
          /\ queue'[Len(queue) + 1] = i
      BY <1>1, <2>2 DEF Enqueues
    <3>2. job' = job /\ sub[i] # "accepted"
      BY <2>2 DEF Enqueues
    <3> QED BY <1>4, <3>1, <3>2
  <2>3. ASSUME NEW w \in Workers, Takes(w) PROVE \A j \in abandoned : Left(j)
    <3>1. /\ 1 \in DOMAIN queue /\ Head(queue) = queue[1]
          /\ \A k \in DOMAIN queue' : k + 1 \in DOMAIN queue /\ queue'[k] = queue[k + 1]
      BY <1>1, <2>3 DEF Takes
    <3>2. \A v \in Workers : job'[v] = IF v = w THEN queue[1] ELSE job[v]
      BY <1>1, <2>3, <3>1 DEF Takes
    <3> QED BY <1>4, <3>1, <3>2
  <2> QED BY Moves, <1>5, <2>1, <2>2, <2>3
<1>7. CASE abandoned' = abandoned
  BY <1>3, <1>6, <1>7
<1>8. ASSUME NEW w \in Workers, Lets(w), abandoned' = abandoned \cup {job[w]} PROVE EndInv'
  BY <1>3, <1>5, <1>8
<1> QED BY <1>7, <1>8, Abandons

\* The steps, as moves of the lists.
LEMMA ListMoves ==
  ASSUME TypeInv, TallyInv, [Next]_vars
  PROVE  \/ \E i \in Items : SubmitterMove(i)
         \/ \E w \in Workers : PoolMove(w) \/ PoolFinish(w)
         \/ \E p \in Items \cup Workers : PoolCall(p)
         \/ UNCHANGED <<sub, todo, wpc, job, finished, metrics>>
<1>1. Shutdown \/ RunStep \/ CloserStep \/ OnlyTimePasses
        => UNCHANGED <<sub, todo, wpc, job, finished, metrics>>
  BY DEF Shutdown, RunStep, StopScheduler, DrainTimeout, CancelWork, Return, Advance, CloserStep,
    SchedulerStopped, CloseQueue, workerVars, OnlyTimePasses
<1> QED BY Steps, SubmitterMoves, PoolMoves, PoolEnds, <1>1

\* Every step keeps the lists' counters and the counted items.
LEMMA NextCounted ==
  ASSUME TypeInv, PlaceInv, UniqueInv, TallyInv, CountInv, [Next]_vars
  PROVE  TallyInv' /\ CountInv'
<1>1. TallyInv'
  BY ListMoves, NextTally
<1>2. CountInv'
  BY ListMoves, NextCount
<1> QED BY <1>1, <1>2

\* Once everything has ended, the counted items are those that ended.
LEMMA AllCounted ==
  ASSUME TypeInv, ShutdownInv, PlaceInv, UniqueInv, EndInv,
         \A i \in Items : sub[i] = "new" \/ i \in abandoned \/ Settled(i)
  PROVE  /\ RunsCounted = Scheduled \ {i \in Items : sub[i] = "new"}
         /\ EventsCounted = SlackItems \cap (finished \cup {i \in Items : sub[i] = "rejected"})
         /\ (\A i \in abandoned : todo[i] = <<>>) =>
              AcceptedCounted = SlackItems \cap {i \in Items : sub[i] = "accepted"}
         /\ RunsFailing = {}
<1> USE ServiceAssumption
<1>1. /\ Scheduled \subseteq Items /\ SlackItems \subseteq Items
      /\ \A i \in Items : i \in SlackItems <=> i \notin Scheduled
  BY DEF Scheduled, SlackItems
<1>2. /\ \A i \in abandoned : sub[i] = "accepted" /\ i \notin Scheduled
      /\ \A i \in finished : sub[i] = "accepted"
      /\ finished \subseteq Items /\ abandoned \subseteq Items
  BY DEF TypeInv, TypeOK, PlaceInv, ShutdownInv, OnlyForcedSkips
<1>3. \A L : ~StillCounts(<<>>, L)
  BY DEF StillCounts
\* Nobody holds an item any more.
<1>4. \A w \in Workers : job[w] \notin Items
  <2> SUFFICES ASSUME NEW w \in Workers, job[w] \in Items PROVE FALSE
    OBVIOUS
  <2>1. sub[job[w]] = "accepted" /\ job[w] \notin abandoned /\ job[w] \notin finished
    BY DEF PlaceInv, EndInv, UniqueInv
  <2>2. Settled(job[w])
    BY <2>1
  <2> QED BY <2>1, <2>2 DEF Settled
<1>5. RunsFailing = {}
  BY <1>1, <1>4 DEF RunsFailing
<1>6. ASSUME NEW S \in SUBSET Items, NEW at
      PROVE  \A L : CountedOf(S, at, L) = {i \in S : (sub[i] \in at /\ ~StillCounts(todo[i], L)) \/ i \in finished}
  BY <1>4 DEF CountedOf
<1>7. RunsCounted = {i \in Scheduled : (sub[i] \in GivenUp /\ ~StillCounts(todo[i], RunLabels)) \/ i \in finished}
  BY <1>1, <1>6 DEF RunsCounted
<1>8. EventsCounted = {i \in SlackItems : (sub[i] \in {"rejected"} /\ ~StillCounts(todo[i], EventLabels))
                                          \/ i \in finished}
  BY <1>1, <1>6 DEF EventsCounted
<1>9. ASSUME NEW i \in Scheduled
      PROVE  i \in RunsCounted <=> sub[i] # "new"
  <2>1. sub[i] # "new" => Settled(i) /\ sub[i] \notin {"rejected", "ignored"}
    BY <1>1, <1>2 DEF EndInv
  <2>2. sub[i] # "new" => i \in RunsCounted
    BY <1>3, <1>7, <2>1 DEF Settled, GivenUp
  <2>3. i \in RunsCounted => sub[i] # "new"
    BY <1>2, <1>7 DEF GivenUp
  <2> QED BY <2>2, <2>3
<1>10. ASSUME NEW i \in SlackItems
       PROVE  i \in EventsCounted <=> i \in finished \/ sub[i] = "rejected"
  <2>1. sub[i] = "rejected" => todo[i] = <<>>
    BY <1>1, <1>2 DEF Settled
  <2> QED BY <1>3, <1>8, <2>1
<1>11. ASSUME \A i \in abandoned : todo[i] = <<>>, NEW i \in SlackItems
       PROVE  i \in AcceptedCounted <=> sub[i] = "accepted"
  <2>1. sub[i] = "accepted" => todo[i] = <<>>
    BY <1>1, <1>11 DEF Settled
  <2> QED BY <1>3, <2>1 DEF AcceptedCounted
<1>12. RunsCounted \subseteq Scheduled /\ EventsCounted \subseteq SlackItems /\ AcceptedCounted \subseteq SlackItems
  BY <1>7, <1>8 DEF AcceptedCounted
<1>13. RunsCounted = Scheduled \ {i \in Items : sub[i] = "new"}
  BY <1>1, <1>9, <1>12
<1>14. EventsCounted = SlackItems \cap (finished \cup {i \in Items : sub[i] = "rejected"})
  BY <1>1, <1>10, <1>12
<1>15. ASSUME \A i \in abandoned : todo[i] = <<>>
       PROVE  AcceptedCounted = SlackItems \cap {i \in Items : sub[i] = "accepted"}
  BY <1>1, <1>11, <1>12, <1>15
<1> QED BY <1>5, <1>13, <1>14, <1>15

\* Once everything has ended, every run is counted once as a success or as a
\* failure, every accepted Slack event once as accepted, and every handled or
\* rejected one has one outcome; only runs that fail count as failed events
\* besides.
THEOREM EverythingCountsOnce == Spec => []CountedOnce
<1> DEFINE Inv == TypeInv /\ IntakeInv /\ ShutdownInv /\ PlaceInv /\ UniqueInv /\ EndInv /\ TallyInv /\ CountInv
<1>1. Init => Inv
  BY InitTypes, InitIntake, InitShutdown, InitPlace, InitUnique, InitEnd, InitTally
<1>2. Inv /\ [Next]_vars => Inv'
  <2> SUFFICES ASSUME Inv, [Next]_vars PROVE Inv'
    OBVIOUS
  <2> QED BY NextTypes, NextIntake, NextShutdown, NextPlace, NextUnique, NextEnd, NextCounted
<1>3. Inv => CountedOnce
  <2> SUFFICES ASSUME Inv, \A i \in Items : sub[i] = "new" \/ i \in abandoned \/ Settled(i)
               PROVE  LET In(states) == {i \in Items : sub[i] \in states}
                          ended == Cardinality(SlackItems \cap (finished \cup In({"rejected"})))
                          counted == metrics["firing"] + metrics["freeform"] + metrics["resolved"]
                                       + metrics["failed"]
                      IN /\ metrics["run_success"] + metrics["run_failed"] = Cardinality(Scheduled \ In({"new"}))
                         /\ (\A i \in abandoned : todo[i] = <<>>) =>
                              metrics["accepted"] = Cardinality(SlackItems \cap In({"accepted"}))
                         /\ counted - ended \in 0 .. metrics["run_failed"]
    BY DEF CountedOnce
  <2>1. \A state : {i \in Items : sub[i] \in {state}} = {i \in Items : sub[i] = state}
    OBVIOUS
  <2>2. /\ RunsCounted = Scheduled \ {i \in Items : sub[i] \in {"new"}}
        /\ EventsCounted = SlackItems \cap (finished \cup {i \in Items : sub[i] \in {"rejected"}})
        /\ (\A i \in abandoned : todo[i] = <<>>) =>
             AcceptedCounted = SlackItems \cap {i \in Items : sub[i] \in {"accepted"}}
        /\ RunsFailing = {}
    BY <2>1, AllCounted
  <2>3. Cardinality(RunsFailing) = 0 /\ metrics["run_failed"] \in Nat
    BY <2>2, FS_EmptySet DEF TypeInv, TypeOK, Labels
  <2>4. metrics["run_success"] + metrics["run_failed"] = Cardinality(RunsCounted)
    BY DEF CountInv, RunCount
  <2>5. metrics["accepted"] = Cardinality(AcceptedCounted)
    BY DEF CountInv
  <2>6. EventCount - Cardinality(EventsCounted) \in 0 .. metrics["run_failed"]
    BY <2>3 DEF CountInv
  <2> QED BY <2>2, <2>4, <2>5, <2>6 DEF EventCount
<1> QED BY <1>1, <1>2, <1>3, PTL DEF Spec

---------------------------------------------------------------------------
(* What the lists of calls reply *)

\* The replies in a list are all of these kinds.
OnlyReplies(list, kinds) ==
  \A k \in DOMAIN list : list[k].op = "reply" => list[k].arg \in kinds

WorkerReplies == Replies \ {"intake"}

\* Concatenation keeps to the kinds.
LEMMA ConcatReplies ==
  ASSUME NEW s \in Seq(Calls), NEW t \in Seq(Calls), NEW kinds,
         OnlyReplies(s, kinds), OnlyReplies(t, kinds)
  PROVE  OnlyReplies(s \o t, kinds)
<1>1. DOMAIN (s \o t) = 1 .. Len(s) + Len(t) /\ DOMAIN s = 1 .. Len(s) /\ DOMAIN t = 1 .. Len(t)
  OBVIOUS
<1>2. \A k \in 1 .. Len(s) + Len(t) : (s \o t)[k] = IF k <= Len(s) THEN s[k] ELSE t[k - Len(s)]
  OBVIOUS
<1> QED BY <1>1, <1>2 DEF OnlyReplies

\* So does the rest of a list, and its head is of them.
LEMMA TailReplies ==
  ASSUME NEW s \in Seq(Calls), s # <<>>, NEW kinds, OnlyReplies(s, kinds)
  PROVE  /\ OnlyReplies(Tail(s), kinds)
         /\ Head(s).op = "reply" => Head(s).arg \in kinds
BY DEF OnlyReplies

\* Reactions and counters reply nothing.
LEMMA SingleReplies ==
  ASSUME NEW kinds
  PROVE  /\ \A r : OnlyReplies(Add(r), kinds) /\ OnlyReplies(Remove(r), kinds)
         /\ \A l : OnlyReplies(Count(l), kinds)
         /\ \A k \in kinds : OnlyReplies(Reply(k), kinds)
         /\ OnlyReplies(<<>>, kinds)
BY DEF OnlyReplies, Add, Remove, Count, Reply

\* A change of reactions replies nothing.
LEMMA TransitionReplies ==
  ASSUME NEW kinds, NEW r \in Reactions, NEW a \in Reactions
  PROVE  OnlyReplies(Transition(r, a), kinds) /\ Transition(r, a) \in Seq(Calls)
BY CallTypes, ConcatTypes, ConcatReplies, SingleReplies DEF Transition

\* What is left of a list while nobody has to own the thread, and what a worker
\* that owns it still has to say.
LEMMA ScriptReplies ==
  /\ OnlyReplies(Resolve, {}) /\ OnlyReplies(Accepted, {})
  /\ OnlyReplies(FailVerification, WorkerReplies) /\ OnlyReplies(FailHistory, WorkerReplies)
  /\ OnlyReplies(Count("dropped") \o Transition("eyes", "x"), {})
  /\ OnlyReplies(Count("failed") \o Add("x"), {})
  /\ \A i \in Items :
       /\ OnlyReplies(FailHolmesAnswerDelivery(i), WorkerReplies)
       /\ \A c \in BOOLEAN : OnlyReplies(FailHolmesRequest(i, c), WorkerReplies)
       /\ OnlyReplies(Succeed(i), WorkerReplies)
       /\ OnlyReplies(BeginHolmes(i), WorkerReplies)
<1> USE CallTypes, ConcatTypes, ConcatReplies, SingleReplies, TransitionReplies
<1>1. {"eyes", "x", "hourglass", "check", "green"} \subseteq Reactions
      /\ {"failed", "resolved", "dropped", "run_failed", "accepted"} \subseteq Labels
      /\ {"verification", "request", "shutdown", "delivery"} \subseteq WorkerReplies
      /\ WorkerReplies \subseteq Replies
  BY DEF Reactions, Labels, WorkerReplies, Replies, FailureReplies
<1>2. OnlyReplies(Resolve, {}) /\ OnlyReplies(Accepted, {})
  BY <1>1 DEF Resolve, Accepted
<1>3. OnlyReplies(FailVerification, WorkerReplies)
  <2>1. /\ Reply("verification") \o Count("failed") \in Seq(Calls)
        /\ OnlyReplies(Reply("verification") \o Count("failed"), WorkerReplies)
    BY <1>1
  <2> QED BY <1>1, <2>1 DEF FailVerification
<1>4. OnlyReplies(FailHistory, WorkerReplies)
  BY <1>1 DEF FailHistory
<1>5. OnlyReplies(Count("dropped") \o Transition("eyes", "x"), {})
      /\ OnlyReplies(Count("failed") \o Add("x"), {})
  BY <1>1
<1>6. ASSUME NEW i \in Items
      PROVE  OnlyReplies(FailedRun(i), WorkerReplies) /\ FailedRun(i) \in Seq(Calls)
  <2>1. <<>> \in Seq(Calls) /\ OnlyReplies(<<>>, WorkerReplies)
    OBVIOUS
  <2>2. Count("run_failed") \in Seq(Calls) /\ OnlyReplies(Count("run_failed"), WorkerReplies)
    BY <1>1
  <2> QED BY <2>1, <2>2 DEF FailedRun
<1>7. ASSUME NEW i \in Items PROVE OnlyReplies(FailHolmesAnswerDelivery(i), WorkerReplies)
  <2>1. /\ Count("failed") \o Reply("delivery") \in Seq(Calls)
        /\ OnlyReplies(Count("failed") \o Reply("delivery"), WorkerReplies)
    BY <1>1
  <2>2. /\ Count("failed") \o Reply("delivery") \o Transition("hourglass", "x") \in Seq(Calls)
        /\ OnlyReplies(Count("failed") \o Reply("delivery") \o Transition("hourglass", "x"), WorkerReplies)
    BY <1>1, <2>1
  <2> QED BY <1>6, <2>2 DEF FailHolmesAnswerDelivery
<1>8. ASSUME NEW i \in Items, NEW c \in BOOLEAN
      PROVE  OnlyReplies(FailHolmesRequest(i, c), WorkerReplies)
  <2> DEFINE kind == IF c THEN "shutdown" ELSE "request"
  <2>1. kind \in WorkerReplies
    BY <1>1
  <2> HIDE DEF kind
  <2>2. /\ Count("failed") \o Reply(kind) \in Seq(Calls)
        /\ OnlyReplies(Count("failed") \o Reply(kind), WorkerReplies)
    BY <1>1, <2>1
  <2>3. /\ Count("failed") \o Reply(kind) \o Transition("hourglass", "x") \in Seq(Calls)
        /\ OnlyReplies(Count("failed") \o Reply(kind) \o Transition("hourglass", "x"), WorkerReplies)
    BY <1>1, <2>2
  <2> QED BY <1>6, <2>3 DEF FailHolmesRequest, kind
<1>9. ASSUME NEW i \in Items PROVE OnlyReplies(Succeed(i), WorkerReplies)
  <2> DEFINE label == CASE i \in Scheduled -> "run_success"
                        [] Kind[i] = "ask" -> "freeform"
                        [] OTHER -> "firing"
  <2>1. label \in Labels
    BY DEF Labels
  <2> HIDE DEF label
  <2>2. OnlyReplies(Transition("hourglass", "check") \o Count(label), WorkerReplies)
    BY <1>1, <2>1
  <2> QED BY <2>2 DEF Succeed, label
<1>10. ASSUME NEW i \in Items PROVE OnlyReplies(BeginHolmes(i), WorkerReplies)
  BY <1>1 DEF BeginHolmes
<1> QED BY <1>2, <1>3, <1>4, <1>5, <1>7, <1>8, <1>9, <1>10

\* Head and tail of a list of three calls.
LEMMA ThreeCalls ==
  ASSUME NEW a \in Calls, NEW b \in Calls, NEW c \in Calls
  PROVE  /\ <<a>> \o <<b>> \o <<c>> # <<>>
         /\ Head(<<a>> \o <<b>> \o <<c>>) = a
         /\ Tail(<<a>> \o <<b>> \o <<c>>) = <<b>> \o <<c>>
OBVIOUS

\* A submitter's failure begins with its reply and replies no more.
LEMMA IntakeReplies ==
  /\ FailScheduledIntake # <<>>
  /\ Head(FailScheduledIntake) = [op |-> "reply", arg |-> "intake"]
  /\ OnlyReplies(Tail(FailScheduledIntake), {})
<1>1. /\ "intake" \in Replies /\ "x" \in Reactions /\ "run_failed" \in Labels
  BY DEF Replies, FailureReplies, Reactions, Labels
<1>2. /\ [op |-> "reply", arg |-> "intake"] \in Calls
      /\ [op |-> "add", arg |-> "x"] \in Calls
      /\ [op |-> "count", arg |-> "run_failed"] \in Calls
  BY <1>1 DEF Calls
<1>3. /\ FailScheduledIntake # <<>>
      /\ Head(FailScheduledIntake) = [op |-> "reply", arg |-> "intake"]
      /\ Tail(FailScheduledIntake) = Add("x") \o Count("run_failed")
  BY <1>2, ThreeCalls DEF FailScheduledIntake, Reply, Add, Count
<1>4. OnlyReplies(Add("x") \o Count("run_failed"), {})
  BY <1>1, CallTypes, ConcatReplies, SingleReplies
<1> QED BY <1>3, <1>4

---------------------------------------------------------------------------
(* Who may write in a thread *)

\* Worker w handles an item under the lock of its thread.
Posting(w) ==
  \/ wpc[w] \in {"verify", "history", "chat", "deliver"}
  \/ wpc[w] = "finish" /\ Kind[job[w]] # "resolved"

\* It has the lock, and has nothing to say without it.
Own(w) ==
  /\ wpc[w] \in {"lock", "verify", "history", "chat", "deliver"} => Kind[job[w]] # "resolved"
  /\ Posting(w) => lock[LockOf(job[w])] = w
  /\ OnlyReplies(todo[w], WorkerReplies)
  /\ ~Posting(w) => OnlyReplies(todo[w], {})

OwnInv == Graceful => \A w \in Workers : Own(w)

\* Nobody holds a lock or has anything to say at first.
LEMMA InitOwn == Init => OwnInv
BY SingleReplies DEF Init, OwnInv, Own, Posting

\* While the shutdown is graceful a worker at work does not see workCtx cancelled.
LEMMA NotCancelled ==
  ASSUME ShutdownInv, Graceful, NEW w \in Workers, wpc[w] # "exited"
  PROVE  ~Cancelled
BY DEF ShutdownInv, Graceful, Cancelled, Drained

\* What a step of worker w does to itself, to the locks and in its thread.
WorkerEffect(w) ==
  /\ \A v \in Workers \ {w} : wpc'[v] = wpc[v] /\ job'[v] = job[v] /\ todo'[v] = todo[v]
  /\ \A v \in Workers \ {w}, z \in Stripes : lock[z] = v => lock'[z] = v
  /\ \A i \in Items : todo'[i] = todo[i]
  /\ UNCHANGED sub
  /\ finished \subseteq finished'
  /\ Own(w)'
  /\ Posting(w) => (job'[w] = job[w] /\ Posting(w)') \/ job[w] \in finished'
  /\ \/ UNCHANGED thread
     \/ /\ Posting(w) /\ UNCHANGED <<job, finished>>
        /\ \E k \in WorkerReplies : Post(job[w], k)

\* A step in which w keeps its item and the lock, and neither writes nor ends.
LEMMA StaysEffect ==
  ASSUME TypeInv, NEW w \in Workers, NEW to, NEW script, Goto(w, to, script),
         UNCHANGED <<job, lock, finished>>,
         Own(w), Posting(w), to \in {"chat", "deliver", "finish"},
         Kind[job[w]] # "resolved",
         OnlyReplies(script, WorkerReplies)
  PROVE  WorkerEffect(w)
<1>1. /\ wpc \in [Workers -> WorkerStates] /\ todo \in [Items \cup Workers -> Seq(Calls)]
  BY DEF TypeInv, TypeOK
<1>2. /\ wpc' = [wpc EXCEPT ![w] = to] /\ todo' = [todo EXCEPT ![w] = script]
      /\ UNCHANGED <<sub, thread>>
  BY DEF Goto, slackVars, runVars
<1>3. wpc'[w] = to /\ todo'[w] = script /\ job'[w] = job[w]
  BY <1>1, <1>2
<1>4. Posting(w)'
  BY <1>3 DEF Posting
<1>5. Own(w)'
  BY <1>3, <1>4 DEF Own, LockOf
<1> QED BY <1>1, <1>2, <1>3, <1>4, <1>5, ServiceAssumption DEF WorkerEffect

\* A step outside the lock.
LEMMA OutsideEffect ==
  ASSUME TypeInv, NEW w \in Workers, NEW to, NEW script, Goto(w, to, script),
         \A v \in Workers \ {w} : job'[v] = job[v],
         UNCHANGED <<lock, finished>>,
         ~Posting(w),
         \/ to \in {"idle", "received", "exited"}
         \/ to = "lock" /\ Kind[job'[w]] # "resolved"
         \/ to = "finish" /\ Kind[job'[w]] = "resolved",
         OnlyReplies(script, {})
  PROVE  WorkerEffect(w)
<1>1. /\ wpc \in [Workers -> WorkerStates] /\ todo \in [Items \cup Workers -> Seq(Calls)]
  BY DEF TypeInv, TypeOK
<1>2. /\ wpc' = [wpc EXCEPT ![w] = to] /\ todo' = [todo EXCEPT ![w] = script]
      /\ UNCHANGED <<sub, thread>>
  BY DEF Goto, slackVars, runVars
<1>3. wpc'[w] = to /\ todo'[w] = script
  BY <1>1, <1>2
<1>4. ~(Posting(w)')
  BY <1>3 DEF Posting
<1>5. OnlyReplies(script, WorkerReplies)
  BY DEF OnlyReplies
<1>6. Own(w)'
  BY <1>3, <1>4, <1>5 DEF Own
<1> QED BY <1>1, <1>2, <1>6, ServiceAssumption DEF WorkerEffect

\* Every step of a worker is one of those, takes or returns the lock, or writes.
LEMMA WorkerEffects ==
  ASSUME TypeInv, ShutdownInv, OwnInv, Graceful, NEW w \in Workers,
         BestEffort(w) \/ Take(w) \/ SkipCancelled(w) \/ Dispatch(w) \/ LockThread(w) \/ Verify(w)
           \/ ReadHistory(w) \/ Chat(w) \/ DeliverPart(w) \/ Conclude(w) \/ Finish(w) \/ Exit(w)
  PROVE  WorkerEffect(w)
<1> USE ServiceAssumption
<1>1. /\ wpc \in [Workers -> WorkerStates] /\ todo \in [Items \cup Workers -> Seq(Calls)]
      /\ job \in [Workers -> Items \cup {None}] /\ lock \in [Stripes -> Workers \cup {None}]
  BY DEF TypeInv, TypeOK
<1>2. Own(w)
  BY DEF OwnInv
<1>3. OnlyReplies(<<>>, {}) /\ OnlyReplies(<<>>, WorkerReplies)
  BY SingleReplies
<1>4. wpc[w] \notin {"idle", "exited"} => job[w] \in Items
  BY DEF TypeInv, HoldsJob
<1>5. CASE BestEffort(w)
  <2>1. /\ todo[w] \in Seq(Calls) /\ todo[w] # <<>>
        /\ todo' = [todo EXCEPT ![w] = Tail(@)]
        /\ UNCHANGED <<wpc, job, lock, finished, sub>>
    BY <1>1, <1>5 DEF BestEffort, workerVars, runVars
  <2>2. /\ OnlyReplies(Tail(todo[w]), WorkerReplies)
        /\ Head(todo[w]).op = "reply" => Head(todo[w]).arg \in WorkerReplies
        /\ ~Posting(w) => OnlyReplies(Tail(todo[w]), {}) /\ Head(todo[w]).op # "reply"
    BY <1>2, <2>1, TailReplies DEF Own
  <2>3. Posting(w)' <=> Posting(w)
    BY <2>1 DEF Posting
  <2>4. todo'[w] = Tail(todo[w])
    BY <1>1, <2>1
  <2>5. Own(w)'
    BY <1>2, <2>1, <2>2, <2>3, <2>4, SMTT(30) DEF Own, LockOf
  <2>6. \/ UNCHANGED thread
        \/ Head(todo[w]).op = "reply" /\ Post(job[w], Head(todo[w]).arg)
    BY <1>5 DEF BestEffort, Apply, ItemOf, runVars
  <2> QED BY <1>1, <2>1, <2>2, <2>3, <2>5, <2>6 DEF WorkerEffect
<1>6. CASE Take(w)
  <2>1. ~Posting(w)
    BY <1>6 DEF Take, At, Posting
  <2> QED BY <1>1, <1>3, <1>6, <2>1, OutsideEffect DEF Take
<1>7. CASE SkipCancelled(w)
  BY <1>7, NotCancelled DEF SkipCancelled, At
<1>8. CASE Dispatch(w)
  <2>1. ~Posting(w)
    BY <1>8 DEF Dispatch, At, Posting
  <2> QED BY <1>1, <1>3, <1>8, <2>1, OutsideEffect, ScriptReplies DEF Dispatch
<1>9. CASE LockThread(w)
  <2> DEFINE to == AfterLock(job[w])
             script == IF AfterLock(job[w]) = "chat" THEN BeginHolmes(job[w]) ELSE <<>>
  <2>1. /\ Goto(w, to, script) /\ UNCHANGED <<job, finished>>
        /\ lock[LockOf(job[w])] = None /\ lock' = [lock EXCEPT ![LockOf(job[w])] = w]
        /\ wpc[w] = "lock"
    BY <1>9 DEF LockThread, At
  <2>2. job[w] \in Items /\ LockOf(job[w]) \in Stripes
    BY <1>4, <2>1 DEF LockOf
  <2>3. to \in {"verify", "history", "chat"}
    BY DEF AfterLock
  <2>4. OnlyReplies(script, WorkerReplies)
    BY <1>3, <2>2, ScriptReplies
  <2> HIDE DEF to, script
  <2>5. wpc' = [wpc EXCEPT ![w] = to] /\ todo' = [todo EXCEPT ![w] = script] /\ UNCHANGED <<sub, thread>>
    BY <2>1 DEF Goto, slackVars, runVars
  <2>6. wpc'[w] = to /\ todo'[w] = script /\ job'[w] = job[w] /\ lock'[LockOf(job[w])] = w
    BY <1>1, <2>1, <2>2, <2>5
  <2>7. Posting(w)'
    BY <2>3, <2>6 DEF Posting
  <2>8. Own(w)'
    BY <1>2, <2>1, <2>4, <2>6, <2>7 DEF Own, LockOf
  <2>9. ~Posting(w)
    BY <2>1 DEF Posting
  <2> QED BY <1>1, <2>1, <2>5, <2>8, <2>9 DEF WorkerEffect
<1>10. CASE Verify(w)
  <2>1. wpc[w] = "verify" /\ job[w] \in Items
    BY <1>4, <1>10 DEF Verify, At
  <2>2. Posting(w) /\ Kind[job[w]] # "resolved"
    BY <1>2, <2>1 DEF Posting, Own
  <2> QED BY <1>2, <1>10, <2>1, <2>2, StaysEffect, ScriptReplies DEF Verify
<1>11. CASE ReadHistory(w)
  <2>1. wpc[w] = "history" /\ job[w] \in Items
    BY <1>4, <1>11 DEF ReadHistory, At
  <2>2. Posting(w) /\ Kind[job[w]] # "resolved"
    BY <1>2, <2>1 DEF Posting, Own
  <2> QED BY <1>2, <1>11, <2>1, <2>2, StaysEffect, ScriptReplies DEF ReadHistory
<1>12. CASE Chat(w)
  <2>1. wpc[w] = "chat" /\ job[w] \in Items /\ Cancelled \in BOOLEAN
    BY <1>4, <1>12 DEF Chat, At, Cancelled
  <2>2. Posting(w) /\ Kind[job[w]] # "resolved"
    BY <1>2, <2>1 DEF Posting, Own
  <2>3. \/ Goto(w, "finish", FailHolmesRequest(job[w], Cancelled))
        \/ Goto(w, "deliver", <<>>)
    BY <1>12 DEF Chat, RequestFails
  <2> QED BY <1>2, <1>3, <1>12, <2>1, <2>2, <2>3, StaysEffect, ScriptReplies DEF Chat
<1>13. CASE DeliverPart(w)
  <2>1. wpc[w] = "deliver" /\ job[w] \in Items
    BY <1>4, <1>13 DEF DeliverPart, At, runVars
  <2>2. Posting(w) /\ Kind[job[w]] # "resolved"
    BY <1>2, <2>1 DEF Posting, Own
  <2>3. /\ UNCHANGED <<job, lock, finished, sub>>
        /\ \/ UNCHANGED <<wpc, todo>>
           \/ /\ wpc' = [wpc EXCEPT ![w] = "finish"]
              /\ todo' = [todo EXCEPT ![w] = FailHolmesAnswerDelivery(job[w])]
        /\ UNCHANGED thread \/ Post(job[w], "part")
    BY <1>13 DEF DeliverPart, runVars
  <2>4. /\ wpc'[w] \in {"deliver", "finish"}
        /\ todo'[w] \in {todo[w], FailHolmesAnswerDelivery(job[w])}
    BY <1>1, <2>1, <2>3
  <2>5. OnlyReplies(todo'[w], WorkerReplies)
    BY <1>2, <2>1, <2>4, ScriptReplies DEF Own
  <2>6. Posting(w)'
    BY <2>2, <2>3, <2>4 DEF Posting
  <2>7. Own(w)'
    BY <1>2, <2>2, <2>3, <2>5, <2>6 DEF Own, LockOf
  <2>8. "part" \in WorkerReplies
    BY DEF WorkerReplies, Replies, FailureReplies
  <2> QED BY <1>1, <2>2, <2>3, <2>6, <2>7, <2>8 DEF WorkerEffect
<1>14. CASE Conclude(w)
  <2>1. wpc[w] = "deliver" /\ job[w] \in Items /\ Cancelled \in BOOLEAN
    BY <1>4, <1>14 DEF Conclude, At, Cancelled
  <2>2. Posting(w) /\ Kind[job[w]] # "resolved"
    BY <1>2, <2>1 DEF Posting, Own
  <2>3. \/ Goto(w, "finish", FailHolmesRequest(job[w], Cancelled))
        \/ Goto(w, "finish", FailHolmesAnswerDelivery(job[w]))
        \/ Goto(w, "finish", Succeed(job[w]))
    BY <1>14 DEF Conclude, RequestFails, DeliveryFails
  <2> QED BY <1>2, <1>14, <2>1, <2>2, <2>3, StaysEffect, ScriptReplies DEF Conclude
<1>15. CASE Finish(w)
  <2>1. /\ wpc' = [wpc EXCEPT ![w] = "idle"] /\ todo' = [todo EXCEPT ![w] = <<>>]
        /\ job' = [job EXCEPT ![w] = None] /\ finished' = finished \cup {job[w]}
        /\ lock' = [z \in Stripes |-> IF lock[z] = w THEN None ELSE lock[z]]
        /\ UNCHANGED <<sub, thread>>
    BY <1>15 DEF Finish, Goto, slackVars, runVars
  <2>2. wpc'[w] = "idle" /\ todo'[w] = <<>>
    BY <1>1, <2>1
  <2>3. Own(w)'
    BY <1>3, <2>2 DEF Own, Posting
  <2> QED BY <1>1, <2>1, <2>3 DEF WorkerEffect
<1>16. CASE Exit(w)
  <2>1. ~Posting(w)
    BY <1>16 DEF Exit, At, Posting
  <2> QED BY <1>3, <1>16, <2>1, OutsideEffect DEF Exit
<1> QED BY <1>5, <1>6, <1>7, <1>8, <1>9, <1>10, <1>11, <1>12, <1>13, <1>14, <1>15, <1>16

---------------------------------------------------------------------------
(* What the submitters still say *)

\* Item i's submitter is about to reply that its intake failed.
Refusing(i) == todo[i] # <<>> /\ Head(todo[i]).op = "reply"

\* A submitter's only reply comes first, says that the intake failed, and is
\* the first of its item.
Says(i) ==
  /\ todo[i] # <<>> => OnlyReplies(Tail(todo[i]), {})
  /\ Refusing(i) => /\ Head(todo[i]).arg = "intake"
                    /\ sub[i] \in {"dropped", "refused"}
                    /\ \A k \in DOMAIN thread[Thread[i]] : thread[Thread[i]][k].item # i

\* Reply r, in the thread of message m, was written by a submitter whose item
\* was not accepted, or by a worker that has ended or still has the lock.
Written(r, m) ==
  /\ Thread[r.item] = m
  /\ IF r.kind = "intake" THEN sub[r.item] \in {"dropped", "refused"}
     ELSE r.item \in finished \/ \E w \in Workers : job[w] = r.item /\ Posting(w)

AllWritten == \A m \in Messages : \A k \in DOMAIN thread[m] : Written(thread[m][k], m)

\* An item that is not the last to write has ended.
OthersEnded ==
  \A m \in Messages : \A a, b \in DOMAIN thread[m] :
    a < b /\ thread[m][a].item # thread[m][b].item
      /\ thread[m][a].kind # "intake" /\ thread[m][b].kind # "intake"
        => thread[m][a].item \in finished

Contiguous ==
  \A m \in Messages : \A a, b, c \in DOMAIN thread[m] :
    a < b /\ b < c /\ thread[m][a].item = thread[m][c].item
      => thread[m][b].item = thread[m][a].item \/ thread[m][b].kind = "intake"

ThreadInv ==
  Graceful => /\ \A i \in Items : Says(i)
              /\ AllWritten /\ OthersEnded /\ Contiguous

\* Nobody has written or has anything to say at first.
LEMMA InitThread == Init => ThreadInv
BY ServiceAssumption DEF Init, ThreadInv, Says, Refusing, AllWritten, OthersEnded, Contiguous

Entries == [item : Items, kind : Replies]

\* What Post does to the threads.
LEMMA Posts ==
  ASSUME TypeInv, NEW i \in Items, NEW k \in Replies, Post(i, k)
  PROVE  /\ \A m \in Messages : m # Thread[i] => thread'[m] = thread[m]
         /\ \E n \in Nat :
              /\ n \notin DOMAIN thread[Thread[i]]
              /\ DOMAIN thread'[Thread[i]] = DOMAIN thread[Thread[i]] \cup {n}
              /\ \A j \in DOMAIN thread[Thread[i]] :
                   j \in Nat /\ j < n /\ thread'[Thread[i]][j] = thread[Thread[i]][j]
              /\ thread'[Thread[i]][n] = [item |-> i, kind |-> k]
<1> DEFINE old == thread[Thread[i]]
           r == [item |-> i, kind |-> k]
<1>1. Thread[i] \in Messages /\ thread \in [Messages -> Seq(Entries)]
  BY ServiceAssumption DEF TypeInv, TypeOK, Entries
<1>2. old \in Seq(Entries) /\ r \in Entries
  BY <1>1 DEF Entries
<1>3. thread'[Thread[i]] = Append(old, r) /\ \A m \in Messages : m # Thread[i] => thread'[m] = thread[m]
  BY <1>1 DEF Post
<1> HIDE DEF old, r
<1>4. /\ Len(old) + 1 \in Nat /\ Len(old) + 1 \notin DOMAIN old
      /\ DOMAIN Append(old, r) = DOMAIN old \cup {Len(old) + 1}
      /\ \A j \in DOMAIN old : j \in Nat /\ j < Len(old) + 1 /\ Append(old, r)[j] = old[j]
      /\ Append(old, r)[Len(old) + 1] = r
  BY <1>2
<1> QED BY <1>3, <1>4 DEF old, r

\* A step that writes nothing keeps what is known of the threads.
LEMMA SilentStep ==
  ASSUME TypeInv, UNCHANGED thread, finished \subseteq finished',
         \A r \in Entries, m \in Messages : Written(r, m) => Written(r, m)',
         AllWritten, OthersEnded, Contiguous
  PROVE  (AllWritten /\ OthersEnded /\ Contiguous)'
<1>1. \A m \in Messages : \A k \in DOMAIN thread[m] : thread[m][k] \in Entries
  <2>1. \A m \in Messages : thread[m] \in Seq(Entries)
    BY DEF TypeInv, TypeOK, Entries
  <2>2. \A e \in Seq(Entries) : \A k \in DOMAIN e : e[k] \in Entries
    OBVIOUS
  <2> QED BY <2>1, <2>2
<1>2. AllWritten'
  BY <1>1 DEF AllWritten
<1>3. OthersEnded'
  BY DEF OthersEnded
<1>4. Contiguous'
  BY DEF Contiguous
<1> QED BY <1>2, <1>3, <1>4

\* A step that writes one reply keeps it too, if the reply is the first of an
\* item that was not accepted, or that of an item at work whose predecessors in
\* the thread have all ended.
LEMMA WritingStep ==
  ASSUME TypeInv, NEW i \in Items, NEW k \in Replies, Post(i, k), UNCHANGED finished,
         \A r \in Entries, m \in Messages : Written(r, m) => Written(r, m)',
         Written([item |-> i, kind |-> k], Thread[i])',
         AllWritten, OthersEnded, Contiguous,
         \/ /\ k = "intake"
            /\ \A j \in DOMAIN thread[Thread[i]] : thread[Thread[i]][j].item # i
         \/ /\ k # "intake" /\ i \notin finished
            /\ \A j \in DOMAIN thread[Thread[i]] :
                 IF thread[Thread[i]][j].item = i THEN thread[Thread[i]][j].kind # "intake"
                 ELSE thread[Thread[i]][j].kind # "intake" => thread[Thread[i]][j].item \in finished
  PROVE  (AllWritten /\ OthersEnded /\ Contiguous)'
<1> DEFINE t == Thread[i]
<1>1. t \in Messages
  BY ServiceAssumption
<1>2. \A m \in Messages : \A j \in DOMAIN thread[m] : thread[m][j] \in Entries
  <2>1. \A m \in Messages : thread[m] \in Seq(Entries)
    BY DEF TypeInv, TypeOK, Entries
  <2>2. \A e \in Seq(Entries) : \A j \in DOMAIN e : e[j] \in Entries
    OBVIOUS
  <2> QED BY <2>1, <2>2
<1>3. \A m \in Messages : m # t => thread'[m] = thread[m]
  BY Posts
<1>4. PICK n \in Nat :
        /\ n \notin DOMAIN thread[t]
        /\ DOMAIN thread'[t] = DOMAIN thread[t] \cup {n}
        /\ \A j \in DOMAIN thread[t] : j \in Nat /\ j < n /\ thread'[t][j] = thread[t][j]
        /\ thread'[t][n] = [item |-> i, kind |-> k]
  BY Posts
<1>5. thread'[t][n].item = i /\ thread'[t][n].kind = k
  BY <1>4
<1>6. \A j, l \in DOMAIN thread'[t] : j < l => j \in DOMAIN thread[t]
  BY <1>4
<1> HIDE DEF t
<1>7. AllWritten'
  <2> SUFFICES ASSUME NEW m \in Messages, NEW j \in DOMAIN thread'[m] PROVE Written(thread[m][j], m)'
    BY DEF AllWritten
  <2>1. CASE m = t /\ j = n
    BY <1>4, <2>1 DEF t, Written
  <2>2. CASE ~(m = t /\ j = n)
    <3>1. PICK e \in Entries : j \in DOMAIN thread[m] /\ e = thread[m][j] /\ e = thread'[m][j]
      BY <1>2, <1>3, <1>4, <2>2
    <3>2. Written(e, m)'
      BY <3>1 DEF AllWritten
    <3> QED BY <3>1, <3>2 DEF Written
  <2> QED BY <2>1, <2>2
<1>8. OthersEnded'
  <2> SUFFICES ASSUME NEW m \in Messages, NEW a \in DOMAIN thread'[m], NEW b \in DOMAIN thread'[m],
                      a < b, thread'[m][a].item # thread'[m][b].item,
                      thread'[m][a].kind # "intake", thread'[m][b].kind # "intake"
               PROVE  thread'[m][a].item \in finished'
    BY DEF OthersEnded
  <2>1. CASE m # t
    BY <1>3, <2>1 DEF OthersEnded
  <2>2. CASE m = t /\ b = n
    BY <1>4, <1>5, <1>6, <2>2 DEF t
  <2>3. CASE m = t /\ b # n
    BY <1>1, <1>4, <1>6, <2>3 DEF OthersEnded
  <2> QED BY <2>1, <2>2, <2>3
<1>9. Contiguous'
  <2> SUFFICES ASSUME NEW m \in Messages,
                      NEW a \in DOMAIN thread'[m], NEW b \in DOMAIN thread'[m],
                      NEW c \in DOMAIN thread'[m],
                      a < b, b < c, thread'[m][a].item = thread'[m][c].item,
                      thread'[m][b].item # thread'[m][a].item
               PROVE  thread'[m][b].kind = "intake"
    BY DEF Contiguous
  <2>1. CASE m # t
    BY <1>3, <2>1 DEF Contiguous
  <2>2. CASE m = t /\ c = n
    <3>1. /\ a \in DOMAIN thread[t] /\ b \in DOMAIN thread[t]
          /\ thread'[t][a] = thread[t][a] /\ thread'[t][b] = thread[t][b]
          /\ thread[t][a].item = i
      BY <1>4, <1>5, <1>6, <2>2
    <3>2. i \notin finished /\ thread[t][a].kind # "intake"
      BY <3>1 DEF t
    <3> QED BY <1>1, <2>2, <3>1, <3>2 DEF OthersEnded
  <2>3. CASE m = t /\ c # n
    <3>1. /\ a \in DOMAIN thread[t] /\ b \in DOMAIN thread[t] /\ c \in DOMAIN thread[t]
          /\ thread'[t][a] = thread[t][a] /\ thread'[t][b] = thread[t][b] /\ thread'[t][c] = thread[t][c]
      BY <1>4, <1>6, <2>3
    <3> QED BY <1>1, <2>3, <3>1 DEF Contiguous
  <2> QED BY <2>1, <2>2, <2>3
<1> QED BY <1>7, <1>8, <1>9

\* A worker's step keeps the invariant.
LEMMA WorkerKeeps ==
  ASSUME TypeInv, UniqueInv, PlaceInv, OwnInv, ThreadInv, Graceful,
         NEW w \in Workers, WorkerEffect(w)
  PROVE  (\A v \in Workers : Own(v))' /\ ThreadInv'
<1> USE ServiceAssumption
<1>1. /\ \A i \in Items : Says(i)
      /\ AllWritten /\ OthersEnded /\ Contiguous
      /\ \A v \in Workers : Own(v)
  BY DEF ThreadInv, OwnInv
<1>2. \A v \in Workers : Posting(v) => job[v] \in Items
  BY DEF Posting, TypeInv, HoldsJob
<1>3. (\A v \in Workers : Own(v))'
  <2> SUFFICES ASSUME NEW v \in Workers, v # w PROVE Own(v)'
    BY DEF WorkerEffect
  <2>1. wpc'[v] = wpc[v] /\ job'[v] = job[v] /\ todo'[v] = todo[v]
    BY DEF WorkerEffect
  <2>2. Posting(v)' <=> Posting(v)
    BY <2>1 DEF Posting
  <2>3. Posting(v) => LockOf(job[v]) \in Stripes
    BY <1>2 DEF LockOf
  <2>4. Posting(v) => lock'[LockOf(job[v])] = v
    BY <1>1, <2>3 DEF WorkerEffect, Own
  <2> QED BY <1>1, <2>1, <2>2, <2>4 DEF Own, LockOf
<1>4. ASSUME NEW r \in Entries, NEW m \in Messages, Written(r, m) PROVE Written(r, m)'
  <2>1. CASE r.kind = "intake"
    BY <1>4, <2>1 DEF Written, WorkerEffect
  <2>2. CASE r.item \in finished
    BY <1>4, <2>2 DEF Written, WorkerEffect, PlaceInv
  <2>3. CASE r.kind # "intake" /\ r.item \notin finished
    <3>1. PICK v \in Workers : job[v] = r.item /\ Posting(v)
      BY <1>4, <2>3 DEF Written
    <3>2. CASE v # w
      BY <1>4, <2>3, <3>1, <3>2 DEF Written, WorkerEffect, Posting
    <3>3. CASE v = w
      BY <1>4, <2>3, <3>1, <3>3 DEF Written, WorkerEffect
    <3> QED BY <3>2, <3>3
  <2> QED BY <2>1, <2>2, <2>3
<1>5. CASE UNCHANGED thread
  <2>1. (AllWritten /\ OthersEnded /\ Contiguous)'
    BY <1>1, <1>4, <1>5, SilentStep DEF WorkerEffect
  <2>2. \A i \in Items : Says(i)'
    BY <1>1, <1>5 DEF Says, Refusing, WorkerEffect
  <2> QED BY <1>3, <2>1, <2>2 DEF ThreadInv
<1>6. CASE thread' # thread
  <2>1. /\ Posting(w) /\ UNCHANGED <<job, finished>>
        /\ \E k \in WorkerReplies : Post(job[w], k)
    BY <1>6 DEF WorkerEffect
  <2>2. PICK i \in Items, k \in WorkerReplies : i = job[w] /\ Post(i, k)
    BY <1>2, <2>1
  <2>3. k \in Replies /\ k # "intake"
    BY DEF WorkerReplies
  <2>4. sub[i] = "accepted" /\ i \notin finished
    BY <2>1, <2>2 DEF PlaceInv, UniqueInv
  <2>5. Posting(w)'
    BY <2>1, <2>2, <2>4 DEF WorkerEffect
  <2>6. Written([item |-> i, kind |-> k], Thread[i])'
    BY <2>1, <2>2, <2>3, <2>5 DEF Written
  <2>7. ASSUME NEW j \in DOMAIN thread[Thread[i]]
        PROVE  IF thread[Thread[i]][j].item = i THEN thread[Thread[i]][j].kind # "intake"
               ELSE thread[Thread[i]][j].kind # "intake" => thread[Thread[i]][j].item \in finished
    <3> DEFINE e == thread[Thread[i]][j]
    <3>1. Written(e, Thread[i])
      BY <1>1, <2>3 DEF AllWritten
    <3> HIDE DEF e
    <3>2. CASE e.item = i
      <4>1. e.kind # "intake"
        BY <2>4, <3>1, <3>2 DEF Written
      <4> QED BY <3>2, <4>1 DEF e
    <3>3. CASE e.item # i /\ e.kind # "intake" /\ e.item \notin finished
      <4>1. PICK v \in Workers : job[v] = e.item /\ Posting(v)
        BY <3>1, <3>3 DEF Written
      <4>2. Thread[e.item] = Thread[i]
        BY <3>1 DEF Written
      <4>3. lock[Stripe[Thread[i]]] = v /\ lock[Stripe[Thread[i]]] = w
        BY <1>1, <2>1, <2>2, <4>1, <4>2 DEF Own, LockOf
      <4> QED BY <2>2, <3>3, <4>1, <4>3
    <3> QED BY <3>2, <3>3 DEF e
  <2>8. (AllWritten /\ OthersEnded /\ Contiguous)'
    BY <1>1, <1>4, <2>1, <2>2, <2>3, <2>4, <2>6, <2>7, WritingStep
  <2>9. ASSUME NEW j \in Items PROVE Says(j)'
    <3>1. Says(j) /\ todo'[j] = todo[j] /\ sub' = sub
      BY <1>1 DEF WorkerEffect
    <3>2. ASSUME Refusing(j), NEW l \in DOMAIN thread'[Thread[j]]
          PROVE  thread'[Thread[j]][l].item # j
      <4>1. j # i /\ Thread[j] \in Messages
        BY <2>4, <3>1, <3>2 DEF Says
      <4>2. PICK n \in Nat :
              /\ DOMAIN thread'[Thread[i]] = DOMAIN thread[Thread[i]] \cup {n}
              /\ \A q \in DOMAIN thread[Thread[i]] : thread'[Thread[i]][q] = thread[Thread[i]][q]
              /\ thread'[Thread[i]][n] = [item |-> i, kind |-> k]
        BY <2>2, <2>3, Posts
      <4>3. thread'[Thread[i]][n].item = i
        BY <4>2
      <4>4. \A m \in Messages : m # Thread[i] => thread'[m] = thread[m]
        BY <2>2, <2>3, Posts
      <4> QED BY <3>1, <3>2, <4>1, <4>2, <4>3, <4>4, ZenonT(60) DEF Says
    <3> QED BY <3>1, <3>2 DEF Says, Refusing
  <2> QED BY <1>3, <2>8, <2>9 DEF ThreadInv
<1> QED BY <1>5, <1>6

\* A step that leaves the workers, the locks and the threads alone.
LEMMA WorkersAlone ==
  ASSUME UNCHANGED <<wpc, job, lock>>, \A w \in Workers : todo'[w] = todo[w],
         \A w \in Workers : Own(w)
  PROVE  (\A w \in Workers : Own(w))'
BY DEF Own, Posting

\* A submitter that moves on, perhaps with a failed intake to report.
LEMMA SubmitterKeeps ==
  ASSUME TypeInv, PlaceInv, OwnInv, ThreadInv, Graceful,
         NEW i \in Items, NEW at, NEW script \in Seq(Calls), Submitted(i, at, script),
         sub[i] \notin {"accepted", "dropped", "refused"},
         \/ OnlyReplies(script, {})
         \/ script = FailScheduledIntake /\ at \in {"dropped", "refused"}
  PROVE  (\A w \in Workers : Own(w))' /\ ThreadInv'
<1> USE ServiceAssumption
<1>1. /\ \A j \in Items : Says(j)
      /\ AllWritten /\ OthersEnded /\ Contiguous
      /\ \A v \in Workers : Own(v)
  BY DEF ThreadInv, OwnInv
<1>2. /\ sub' = [sub EXCEPT ![i] = at] /\ todo' = [todo EXCEPT ![i] = script]
      /\ UNCHANGED <<wpc, job, lock, finished, thread>>
      /\ sub \in [Items -> SubmitterStates] /\ todo \in [Items \cup Workers -> Seq(Calls)]
  BY DEF Submitted, workerVars, slackVars, TypeInv, TypeOK
<1>3. /\ sub'[i] = at /\ todo'[i] = script
      /\ \A j \in Items \ {i} : sub'[j] = sub[j] /\ todo'[j] = todo[j]
      /\ \A w \in Workers : todo'[w] = todo[w]
  BY <1>2
<1>4. (\A w \in Workers : Own(w))'
  BY <1>1, <1>2, <1>3, WorkersAlone
<1>5. ASSUME NEW r \in Entries, NEW m \in Messages, Written(r, m) PROVE Written(r, m)'
  <2>1. r.item \in Items /\ (r.item = i => r.kind # "intake")
    BY <1>5 DEF Entries, Written
  <2> QED BY <1>2, <1>3, <1>5, <2>1 DEF Written, Posting
<1>6. (AllWritten /\ OthersEnded /\ Contiguous)'
  BY <1>1, <1>2, <1>5, SilentStep
<1>7. ASSUME NEW k \in DOMAIN thread[Thread[i]] PROVE thread[Thread[i]][k].item # i
  <2>1. Written(thread[Thread[i]][k], Thread[i])
    BY <1>1 DEF AllWritten
  <2>2. i \notin finished /\ \A w \in Workers : job[w] # i
    BY DEF PlaceInv
  <2> QED BY <2>1, <2>2 DEF Written
<1>8. ASSUME NEW j \in Items, j # i PROVE Says(j)'
  BY <1>1, <1>2, <1>3, <1>8 DEF Says, Refusing
<1>9. Says(i)'
  <2>1. CASE OnlyReplies(script, {})
    <3>1. script # <<>> => OnlyReplies(Tail(script), {}) /\ Head(script).op # "reply"
      BY <2>1, TailReplies
    <3> QED BY <1>3, <3>1 DEF Says, Refusing
  <2>2. CASE script = FailScheduledIntake /\ at \in {"dropped", "refused"}
    BY <1>2, <1>3, <1>7, <2>2, IntakeReplies DEF Says, Refusing
  <2> QED BY <2>1, <2>2
<1> QED BY <1>4, <1>6, <1>8, <1>9 DEF ThreadInv

\* A submitter's call or counter.
LEMMA IntakeKeeps ==
  ASSUME TypeInv, PlaceInv, OwnInv, ThreadInv, Graceful, NEW i \in Items, BestEffort(i)
  PROVE  (\A w \in Workers : Own(w))' /\ ThreadInv'
<1> USE ServiceAssumption
<1>1. /\ \A j \in Items : Says(j)
      /\ AllWritten /\ OthersEnded /\ Contiguous
      /\ \A v \in Workers : Own(v)
  BY DEF ThreadInv, OwnInv
<1>2. /\ todo[i] # <<>> /\ todo[i] \in Seq(Calls)
      /\ todo' = [todo EXCEPT ![i] = Tail(@)]
      /\ UNCHANGED <<wpc, job, lock, finished, sub>>
      /\ todo \in [Items \cup Workers -> Seq(Calls)]
  BY DEF BestEffort, workerVars, TypeInv, TypeOK, runVars
<1>3. /\ todo'[i] = Tail(todo[i])
      /\ \A j \in Items \ {i} : todo'[j] = todo[j]
      /\ \A w \in Workers : todo'[w] = todo[w]
  BY <1>2
<1>4. (\A w \in Workers : Own(w))'
  BY <1>1, <1>2, <1>3, WorkersAlone
<1>5. \A r \in Entries, m \in Messages : Written(r, m) => Written(r, m)'
  BY <1>2 DEF Written, Posting
<1>6. UNCHANGED thread \/ (Refusing(i) /\ Post(i, "intake"))
  BY <1>1 DEF BestEffort, Apply, ItemOf, Says, Refusing, runVars
<1>7. ~(Refusing(i)') /\ (todo'[i] # <<>> => OnlyReplies(Tail(todo'[i]), {}))
  <2>1. OnlyReplies(Tail(todo[i]), {}) /\ Tail(todo[i]) \in Seq(Calls)
    BY <1>1, <1>2 DEF Says
  <2>2. Tail(todo[i]) # <<>> =>
          OnlyReplies(Tail(Tail(todo[i])), {}) /\ Head(Tail(todo[i])).op # "reply"
    BY <2>1, TailReplies
  <2> QED BY <1>3, <2>2 DEF Refusing
<1>8. CASE UNCHANGED thread
  <2>1. (AllWritten /\ OthersEnded /\ Contiguous)'
    BY <1>1, <1>2, <1>5, <1>8, SilentStep
  <2>2. \A j \in Items : Says(j)'
    BY <1>1, <1>2, <1>3, <1>7, <1>8 DEF Says, Refusing
  <2> QED BY <1>4, <2>1, <2>2 DEF ThreadInv
<1>9. CASE Refusing(i) /\ Post(i, "intake")
  <2>1. /\ sub[i] \in {"dropped", "refused"}
        /\ \A k \in DOMAIN thread[Thread[i]] : thread[Thread[i]][k].item # i
    BY <1>1, <1>9 DEF Says
  <2>2. "intake" \in Replies
    BY DEF Replies, FailureReplies
  <2>3. Written([item |-> i, kind |-> "intake"], Thread[i])'
    BY <1>2, <2>1 DEF Written
  <2>4. (AllWritten /\ OthersEnded /\ Contiguous)'
    BY <1>1, <1>2, <1>5, <1>9, <2>1, <2>2, <2>3, WritingStep
  <2>5. ASSUME NEW j \in Items, j # i PROVE Says(j)'
    <3>1. Says(j) /\ todo'[j] = todo[j] /\ sub' = sub
      BY <1>1, <1>2, <1>3, <2>5
    <3>2. PICK n \in Nat :
            /\ DOMAIN thread'[Thread[i]] = DOMAIN thread[Thread[i]] \cup {n}
            /\ \A q \in DOMAIN thread[Thread[i]] : thread'[Thread[i]][q] = thread[Thread[i]][q]
            /\ thread'[Thread[i]][n] = [item |-> i, kind |-> "intake"]
      BY <1>9, <2>2, Posts
    <3>3. thread'[Thread[i]][n].item = i
      BY <3>2
    <3>4. \A m \in Messages : m # Thread[i] => thread'[m] = thread[m]
      BY <1>9, <2>2, Posts
    <3>5. ASSUME Refusing(j), NEW l \in DOMAIN thread'[Thread[j]]
          PROVE  thread'[Thread[j]][l].item # j
      <4>1. /\ Thread[j] \in Messages
            /\ \A q \in DOMAIN thread[Thread[j]] : thread[Thread[j]][q].item # j
        BY <3>1, <3>5 DEF Says
      <4>2. CASE Thread[j] # Thread[i]
        BY <3>4, <3>5, <4>1, <4>2
      <4>3. CASE Thread[j] = Thread[i]
        BY <2>5, <3>2, <3>3, <3>5, <4>1, <4>3
      <4> QED BY <4>2, <4>3
    <3> QED BY <3>1, <3>5 DEF Says, Refusing
  <2>6. Says(i)'
    BY <1>7 DEF Says
  <2> QED BY <1>4, <2>4, <2>5, <2>6 DEF ThreadInv
<1> QED BY <1>6, <1>8, <1>9

\* A forced shutdown stays forced.
LEMMA ForcedStays == ASSUME TypeInv, [Next]_vars, ~Graceful PROVE ~(Graceful')
<1>1. ASSUME NEW p \in Items \cup Workers, BestEffort(p) PROVE UNCHANGED replyCtx
  BY <1>1 DEF BestEffort, runVars
<1>2. ASSUME NEW i \in Items,
             Submit(i) \/ Offer(i) \/ CronFires(i) \/ PostRoot(i) \/ OfferScheduled(i)
      PROVE  UNCHANGED replyCtx
  BY <1>2 DEF Submit, RejectMarker, IgnoreUnmarked, TakeReadLock, Offer, CronFires, PostRoot,
    OfferScheduled, Submitted, runVars
<1>3. ASSUME NEW w \in Workers,
             Take(w) \/ SkipCancelled(w) \/ Dispatch(w) \/ LockThread(w) \/ Verify(w)
               \/ ReadHistory(w) \/ Chat(w) \/ DeliverPart(w) \/ Conclude(w) \/ Finish(w) \/ Exit(w)
      PROVE  UNCHANGED replyCtx
  BY <1>3 DEF Take, SkipCancelled, Dispatch, LockThread, Verify, ReadHistory, Chat, DeliverPart,
    Conclude, RequestFails, DeliveryFails, Finish, Exit, Goto, runVars
<1>4. Shutdown \/ RunStep \/ CloserStep \/ OnlyTimePasses => replyCtx' \in {replyCtx, "deadline"}
  BY DEF Shutdown, RunStep, StopScheduler, DrainTimeout, CancelWork, Return, CloserStep,
    SchedulerStopped, CloseQueue, runVars, OnlyTimePasses
<1> QED BY Steps, <1>1, <1>2, <1>3, <1>4 DEF Graceful

\* Where each submitter's list of calls comes from.
LEMMA SubmitterScripts ==
  ASSUME NEW i \in Items,
         Submit(i) \/ Offer(i) \/ CronFires(i) \/ PostRoot(i) \/ OfferScheduled(i)
  PROVE  \E at : \E script \in Seq(Calls) :
           /\ Submitted(i, at, script)
           /\ sub[i] \notin {"accepted", "dropped", "refused"}
           /\ \/ OnlyReplies(script, {})
              \/ script = FailScheduledIntake /\ at \in {"dropped", "refused"}
<1>1. /\ OnlyReplies(<<>>, {}) /\ OnlyReplies(Add("eyes"), {})
      /\ OnlyReplies(Count("ignored"), {}) /\ OnlyReplies(Count("dropped"), {})
      /\ OnlyReplies(Count("run_failed"), {})
  BY SingleReplies
<1>2. /\ <<>> \in Seq(Calls) /\ Add("eyes") \in Seq(Calls)
      /\ Count("ignored") \in Seq(Calls) /\ Count("dropped") \in Seq(Calls)
      /\ Count("run_failed") \in Seq(Calls) /\ Accepted \in Seq(Calls)
      /\ FailScheduledIntake \in Seq(Calls)
      /\ Count("failed") \o Add("x") \in Seq(Calls)
      /\ Count("dropped") \o Transition("eyes", "x") \in Seq(Calls)
  BY CallTypes, ScriptTypes, ConcatTypes DEF Reactions, Labels
<1>3. CASE Submit(i)
  BY <1>1, <1>2, <1>3, ScriptReplies DEF Submit, RejectMarker, IgnoreUnmarked, TakeReadLock
<1>4. CASE Offer(i)
  BY <1>1, <1>2, <1>4, ScriptReplies DEF Offer
<1>5. CASE CronFires(i) \/ PostRoot(i)
  BY <1>1, <1>2, <1>5 DEF CronFires, PostRoot
<1>6. CASE OfferScheduled(i)
  BY <1>1, <1>2, <1>6 DEF OfferScheduled
<1> QED BY <1>3, <1>4, <1>5, <1>6

\* Every step keeps the locks with their owners and the threads in order.
LEMMA NextThread ==
  ASSUME TypeInv, ShutdownInv, PlaceInv, UniqueInv, OwnInv, ThreadInv, [Next]_vars
  PROVE  OwnInv' /\ ThreadInv'
<1>1. CASE ~Graceful
  BY <1>1, ForcedStays DEF OwnInv, ThreadInv
<1>2. CASE Graceful
  <2> SUFFICES (\A w \in Workers : Own(w))' /\ ThreadInv'
    BY DEF OwnInv
  <2>1. ASSUME NEW i \in Items, BestEffort(i) PROVE (\A w \in Workers : Own(w))' /\ ThreadInv'
    BY <1>2, <2>1, IntakeKeeps
  <2>2. ASSUME NEW w \in Workers,
               BestEffort(w) \/ Take(w) \/ SkipCancelled(w) \/ Dispatch(w) \/ LockThread(w)
                 \/ Verify(w) \/ ReadHistory(w) \/ Chat(w) \/ DeliverPart(w) \/ Conclude(w)
                 \/ Finish(w) \/ Exit(w)
        PROVE  (\A v \in Workers : Own(v))' /\ ThreadInv'
    BY <1>2, <2>2, WorkerEffects, WorkerKeeps
  <2>3. ASSUME NEW i \in Items,
               Submit(i) \/ Offer(i) \/ CronFires(i) \/ PostRoot(i) \/ OfferScheduled(i)
        PROVE  (\A w \in Workers : Own(w))' /\ ThreadInv'
    <3>1. PICK at : \E script \in Seq(Calls) :
            /\ Submitted(i, at, script)
            /\ sub[i] \notin {"accepted", "dropped", "refused"}
            /\ \/ OnlyReplies(script, {})
               \/ script = FailScheduledIntake /\ at \in {"dropped", "refused"}
      BY <2>3, SubmitterScripts
    <3> QED BY <1>2, <3>1, SubmitterKeeps
  <2>4. ASSUME UNCHANGED <<sub, todo, wpc, job, lock, finished, thread>>
        PROVE  (\A w \in Workers : Own(w))' /\ ThreadInv'
    <3>1. \A w \in Workers : Own(w)
      BY <1>2 DEF OwnInv
    <3>2. (\A w \in Workers : Own(w))'
      BY <2>4, <3>1, WorkersAlone
    <3>3. /\ \A i \in Items : Says(i)
          /\ AllWritten /\ OthersEnded /\ Contiguous
      BY <1>2 DEF ThreadInv
    <3>4. \A i \in Items : Says(i)'
      BY <2>4, <3>3 DEF Says, Refusing
    <3>5. \A r \in Entries, m \in Messages : Written(r, m) => Written(r, m)'
      BY <2>4 DEF Written, Posting
    <3>6. (AllWritten /\ OthersEnded /\ Contiguous)'
      BY <2>4, <3>3, <3>5, SilentStep
    <3> QED BY <3>2, <3>4, <3>6 DEF ThreadInv
  <2>5. Shutdown \/ RunStep \/ CloserStep \/ OnlyTimePasses
          => UNCHANGED <<sub, todo, wpc, job, lock, finished, thread>>
    BY DEF Shutdown, RunStep, StopScheduler, DrainTimeout, CancelWork, Return, Advance, CloserStep,
      SchedulerStopped, CloseQueue, workerVars, slackVars, OnlyTimePasses
  <2> QED BY Steps, <2>1, <2>2, <2>3, <2>4, <2>5
<1> QED BY <1>1, <1>2

---------------------------------------------------------------------------
\* Until a shutdown is forced, the parts of one answer and the failure that cuts
\* it short are never interleaved with another item's replies in their thread,
\* whatever the number of workers, however the threads share the stripes and
\* whichever calls Slack refuses or loses.
THEOREM AnswersDoNotMix == Spec => []RepliesContiguous
<1>1. Spec => [](TypeInv /\ IntakeInv /\ ShutdownInv)
  BY InitTypes, NextTypes, InitIntake, NextIntake, InitShutdown, NextShutdown, PTL DEF Spec
<1>2. TypeInv /\ IntakeInv /\ ShutdownInv /\ PlaceInv /\ [Next]_vars => PlaceInv'
  BY NextPlace
<1>3. TypeInv /\ PlaceInv /\ UniqueInv /\ [Next]_vars => UniqueInv'
  BY NextUnique
<1>4. TypeInv /\ ShutdownInv /\ PlaceInv /\ UniqueInv /\ OwnInv /\ ThreadInv /\ [Next]_vars
        => OwnInv' /\ ThreadInv'
  BY NextThread
<1>5. ThreadInv => RepliesContiguous
  BY DEF ThreadInv, Contiguous, RepliesContiguous
<1> QED
  BY <1>1, <1>2, <1>3, <1>4, <1>5, InitPlace, InitUnique, InitOwn, InitThread, PTL DEF Spec

---------------------------------------------------------------------------
(* What has been replied *)

\* Thread t has a reply of item i of kind k.
Has(t, i, k) == \E j \in DOMAIN t : t[j].item = i /\ t[j].kind = k

\* The kinds in RepliesOf are those of the item's replies.
LEMMA RepliesFound ==
  ASSUME NEW t \in Seq(Entries), NEW i \in Items
  PROVE  \A k : k \in {r.kind : r \in {t[j] : j \in DOMAIN t} \cap [item : {i}, kind : Replies]}
                  <=> Has(t, i, k)
<1>1. \A j \in DOMAIN t : t[j] \in Entries
  OBVIOUS
<1>2. \A r \in Entries : r \in [item : {i}, kind : Replies] <=> r.item = i
  BY DEF Entries
<1>3. \A r \in [item : {i}, kind : Replies] : r.item = i
  OBVIOUS
<1> QED BY <1>1, <1>2, <1>3 DEF Has

\* A reply adds its kind to its item's and leaves the other items' alone.
LEMMA PostAdds ==
  ASSUME TypeInv, TypeInv', NEW i \in Items, NEW k \in Replies, Post(i, k)
  PROVE  /\ RepliesOf(i)' = RepliesOf(i) \cup {k}
         /\ \A j \in Items \ {i} : RepliesOf(j)' = RepliesOf(j)
<1>1. \A j \in Items : Thread[j] \in Messages
  BY ServiceAssumption
<1>2. \A m \in Messages : thread[m] \in Seq(Entries) /\ thread'[m] \in Seq(Entries)
  BY DEF TypeInv, TypeOK, Entries
<1>3. \A j \in Items : \A l : l \in RepliesOf(j) <=> Has(thread[Thread[j]], j, l)
  BY <1>1, <1>2, RepliesFound DEF RepliesOf
<1>4. \A j \in Items : \A l : l \in RepliesOf(j)' <=> Has(thread'[Thread[j]], j, l)
  BY <1>1, <1>2, RepliesFound DEF RepliesOf
<1>5. PICK n \in Nat :
        /\ DOMAIN thread'[Thread[i]] = DOMAIN thread[Thread[i]] \cup {n}
        /\ \A q \in DOMAIN thread[Thread[i]] : q < n /\ thread'[Thread[i]][q] = thread[Thread[i]][q]
        /\ thread'[Thread[i]][n].item = i /\ thread'[Thread[i]][n].kind = k
  <2>1. \E n \in Nat :
          /\ DOMAIN thread'[Thread[i]] = DOMAIN thread[Thread[i]] \cup {n}
          /\ \A q \in DOMAIN thread[Thread[i]] : q < n /\ thread'[Thread[i]][q] = thread[Thread[i]][q]
          /\ thread'[Thread[i]][n] = [item |-> i, kind |-> k]
    BY Posts
  <2> QED BY <2>1
<1>6. \A j \in Items : \A l : Has(thread'[Thread[j]], j, l)
                                 <=> Has(thread[Thread[j]], j, l) \/ (j = i /\ l = k)
  <2> SUFFICES ASSUME NEW j \in Items, NEW l
               PROVE  Has(thread'[Thread[j]], j, l)
                        <=> Has(thread[Thread[j]], j, l) \/ (j = i /\ l = k)
    OBVIOUS
  <2>1. CASE Thread[j] # Thread[i]
    <3>1. thread'[Thread[j]] = thread[Thread[j]]
      BY <1>1, <2>1, Posts, ZenonT(60)
    <3> QED BY <2>1, <3>1
  <2>2. CASE Thread[j] = Thread[i]
    BY <1>5, <2>2 DEF Has
  <2> QED BY <2>1, <2>2
<1>7. RepliesOf(i)' = RepliesOf(i) \cup {k}
  <2>1. \A l : l \in RepliesOf(i)' <=> l \in RepliesOf(i) \cup {k}
    BY <1>3, <1>4, <1>6
  <2> QED BY <2>1
<1>8. ASSUME NEW j \in Items \ {i} PROVE RepliesOf(j)' = RepliesOf(j)
  <2>1. \A l : l \in RepliesOf(j)' <=> l \in RepliesOf(j)
    BY <1>3, <1>4, <1>6
  <2> QED BY <2>1
<1> QED BY <1>7, <1>8

\* Where thread t shows a part of item i's answer.
PartsAt(t, i) == {k \in DOMAIN t : t[k] = [item |-> i, kind |-> "part"]}

\* They can be counted.
LEMMA PartsFinite ==
  ASSUME TypeInv, NEW i \in Items
  PROVE  /\ IsFiniteSet(PartsAt(thread[Thread[i]], i))
         /\ PartsShown(i) = Cardinality(PartsAt(thread[Thread[i]], i))
<1>1. thread[Thread[i]] \in Seq([item : Items, kind : Replies])
  BY ServiceAssumption DEF TypeInv, TypeOK
<1>2. DOMAIN thread[Thread[i]] = 1 .. Len(thread[Thread[i]]) /\ Len(thread[Thread[i]]) \in Int
  BY <1>1
<1>3. IsFiniteSet(DOMAIN thread[Thread[i]])
  BY <1>2, FS_Interval
<1>4. PartsAt(thread[Thread[i]], i) \in SUBSET DOMAIN thread[Thread[i]]
  BY DEF PartsAt
<1> QED BY <1>3, <1>4, FS_Subset DEF PartsShown, PartsAt

\* Without a reply there is no part.
LEMMA NoParts ==
  ASSUME TypeInv, NEW i \in Items, RepliesOf(i) = {}
  PROVE  PartsShown(i) = 0
<1>1. thread[Thread[i]] \in Seq(Entries)
  BY ServiceAssumption DEF TypeInv, TypeOK, Entries
<1>2. ~Has(thread[Thread[i]], i, "part")
  BY <1>1, RepliesFound DEF RepliesOf
<1>3. \A k \in DOMAIN thread[Thread[i]] : thread[Thread[i]][k] # [item |-> i, kind |-> "part"]
  BY <1>2 DEF Has
<1>4. PartsAt(thread[Thread[i]], i) = {}
  BY <1>3 DEF PartsAt
<1> QED BY <1>4, PartsFinite, FS_EmptySet

\* A part that is delivered is one more, of its own item.
LEMMA PartsAdd ==
  ASSUME TypeInv, NEW i \in Items, NEW k \in Replies, Post(i, k)
  PROVE  /\ k = "part" => PartsShown(i)' = PartsShown(i) + 1
         /\ \A j \in Items \ {i} : PartsShown(j)' = PartsShown(j)
<1>1. PICK n \in Nat :
        /\ n \notin DOMAIN thread[Thread[i]]
        /\ DOMAIN thread'[Thread[i]] = DOMAIN thread[Thread[i]] \cup {n}
        /\ \A q \in DOMAIN thread[Thread[i]] :
             q \in Nat /\ q < n /\ thread'[Thread[i]][q] = thread[Thread[i]][q]
        /\ thread'[Thread[i]][n] = [item |-> i, kind |-> k]
  BY Posts
<1>2. ASSUME k = "part" PROVE PartsShown(i)' = PartsShown(i) + 1
  <2>1. PartsAt(thread'[Thread[i]], i) = PartsAt(thread[Thread[i]], i) \cup {n}
    BY <1>1, <1>2 DEF PartsAt
  <2>2. n \notin PartsAt(thread[Thread[i]], i)
    BY <1>1 DEF PartsAt
  <2>3. Cardinality(PartsAt(thread[Thread[i]], i) \cup {n})
          = Cardinality(PartsAt(thread[Thread[i]], i)) + 1
    BY <2>2, PartsFinite, FS_AddElement
  <2>4. PartsShown(i)' = Cardinality(PartsAt(thread'[Thread[i]], i))
    BY DEF PartsShown, PartsAt
  <2> QED BY <2>1, <2>3, <2>4, PartsFinite
<1>3. ASSUME NEW j \in Items \ {i} PROVE PartsShown(j)' = PartsShown(j)
  <2>1. CASE Thread[j] # Thread[i]
    <3>1. Thread[j] \in Messages
      BY ServiceAssumption
    <3>2. thread'[Thread[j]] = thread[Thread[j]]
      BY <2>1, <3>1, Posts, ZenonT(60)
    <3> QED BY <3>2 DEF PartsShown
  <2>2. CASE Thread[j] = Thread[i]
    <3>1. [item |-> i, kind |-> k] # [item |-> j, kind |-> "part"]
      <4>1. [item |-> i, kind |-> k].item # [item |-> j, kind |-> "part"].item
        BY <1>3
      <4> QED BY <4>1
    <3>2. PartsAt(thread'[Thread[j]], j) = PartsAt(thread[Thread[j]], j)
      BY <1>1, <2>2, <3>1 DEF PartsAt
    <3> QED BY <3>2 DEF PartsShown, PartsAt
  <2> QED BY <2>1, <2>2
<1> QED BY <1>2, <1>3

---------------------------------------------------------------------------
(* Which lists show white_check_mark *)

NoCheck(list) == \A k \in DOMAIN list : ~(list[k].op = "add" /\ list[k].arg = "check")

\* Neither a reply nor the mark.
Quiet(list) == OnlyReplies(list, {}) /\ NoCheck(list)

\* Concatenation shows nothing new.
LEMMA ConcatNoCheck ==
  ASSUME NEW s \in Seq(Calls), NEW t \in Seq(Calls), NoCheck(s), NoCheck(t)
  PROVE  NoCheck(s \o t)
<1>1. DOMAIN (s \o t) = 1 .. Len(s) + Len(t) /\ DOMAIN s = 1 .. Len(s) /\ DOMAIN t = 1 .. Len(t)
  OBVIOUS
<1>2. \A k \in 1 .. Len(s) + Len(t) : (s \o t)[k] = IF k <= Len(s) THEN s[k] ELSE t[k - Len(s)]
  OBVIOUS
<1> QED BY <1>1, <1>2 DEF NoCheck

\* Nor does the rest of a list.
LEMMA TailNoCheck ==
  ASSUME NEW s \in Seq(Calls), s # <<>>, NoCheck(s)
  PROVE  NoCheck(Tail(s)) /\ ~(Head(s).op = "add" /\ Head(s).arg = "check")
BY DEF NoCheck

\* Only one call shows the mark.
LEMMA SingleNoCheck ==
  /\ \A r : r # "check" => NoCheck(Add(r))
  /\ \A x : NoCheck(Remove(x)) /\ NoCheck(Reply(x)) /\ NoCheck(Count(x))
  /\ NoCheck(<<>>)
BY DEF NoCheck, Add, Remove, Reply, Count

\* Only the list of a success has the mark, and it has no reply.
LEMMA ScriptNoCheck ==
  /\ NoCheck(FailScheduledIntake) /\ NoCheck(FailScheduledShutdown)
  /\ NoCheck(FailVerification) /\ NoCheck(FailHistory) /\ NoCheck(Accepted) /\ NoCheck(Resolve)
  /\ NoCheck(Count("dropped") \o Transition("eyes", "x"))
  /\ NoCheck(Count("failed") \o Add("x"))
  /\ \A i \in Items :
       /\ NoCheck(FailHolmesAnswerDelivery(i))
       /\ \A c \in BOOLEAN : NoCheck(FailHolmesRequest(i, c))
       /\ Quiet(BeginHolmes(i))
       /\ OnlyReplies(Succeed(i), {})
<1> USE CallTypes, ConcatTypes, ConcatNoCheck, SingleNoCheck
<1>1. {"eyes", "x", "hourglass", "check", "green"} \subseteq Reactions
      /\ {"failed", "resolved", "dropped", "run_failed", "accepted"} \subseteq Labels
      /\ {"verification", "request", "shutdown", "delivery", "intake"} \subseteq Replies
  BY DEF Reactions, Labels, Replies, FailureReplies
<1>2. ASSUME NEW r \in Reactions, NEW a \in Reactions, a # "check"
      PROVE  NoCheck(Transition(r, a)) /\ Transition(r, a) \in Seq(Calls)
  BY <1>2 DEF Transition
<1>3. /\ NoCheck(Transition("eyes", "x")) /\ Transition("eyes", "x") \in Seq(Calls)
      /\ NoCheck(Transition("hourglass", "x")) /\ Transition("hourglass", "x") \in Seq(Calls)
      /\ NoCheck(Transition("eyes", "green")) /\ Transition("eyes", "green") \in Seq(Calls)
      /\ NoCheck(Transition("eyes", "hourglass")) /\ Transition("eyes", "hourglass") \in Seq(Calls)
  BY <1>1, <1>2
<1>4. NoCheck(FailScheduledIntake) /\ NoCheck(FailScheduledShutdown)
  <2>1. ASSUME NEW k \in Replies PROVE NoCheck(Reply(k) \o Add("x") \o Count("run_failed"))
    <3>1. Reply(k) \o Add("x") \in Seq(Calls) /\ NoCheck(Reply(k) \o Add("x"))
      BY <1>1
    <3> QED BY <1>1, <3>1
  <2> QED BY <1>1, <2>1 DEF FailScheduledIntake, FailScheduledShutdown
<1>5. NoCheck(FailVerification)
  <2>1. /\ Reply("verification") \o Count("failed") \in Seq(Calls)
        /\ NoCheck(Reply("verification") \o Count("failed"))
    BY <1>1
  <2> QED BY <1>3, <2>1 DEF FailVerification
<1>6. NoCheck(FailHistory) /\ NoCheck(Accepted) /\ NoCheck(Resolve)
      /\ NoCheck(Count("dropped") \o Transition("eyes", "x")) /\ NoCheck(Count("failed") \o Add("x"))
  BY <1>1, <1>3 DEF FailHistory, Accepted, Resolve
<1>7. ASSUME NEW i \in Items PROVE NoCheck(FailedRun(i)) /\ FailedRun(i) \in Seq(Calls)
  <2>1. <<>> \in Seq(Calls)
    OBVIOUS
  <2>2. Count("run_failed") \in Seq(Calls) /\ NoCheck(Count("run_failed"))
    BY <1>1
  <2> QED BY <2>1, <2>2 DEF FailedRun
<1>8. ASSUME NEW i \in Items, NEW k \in Replies
      PROVE  NoCheck(Count("failed") \o Reply(k) \o Transition("hourglass", "x") \o FailedRun(i))
  <2>1. /\ Count("failed") \o Reply(k) \in Seq(Calls)
        /\ NoCheck(Count("failed") \o Reply(k))
    BY <1>1
  <2>2. /\ Count("failed") \o Reply(k) \o Transition("hourglass", "x") \in Seq(Calls)
        /\ NoCheck(Count("failed") \o Reply(k) \o Transition("hourglass", "x"))
    BY <1>3, <2>1
  <2> QED BY <1>7, <2>2
<1>9. ASSUME NEW i \in Items
      PROVE  /\ NoCheck(FailHolmesAnswerDelivery(i))
             /\ \A c \in BOOLEAN : NoCheck(FailHolmesRequest(i, c))
  <2>1. NoCheck(FailHolmesAnswerDelivery(i))
    BY <1>1, <1>8 DEF FailHolmesAnswerDelivery
  <2>2. ASSUME NEW c \in BOOLEAN PROVE NoCheck(FailHolmesRequest(i, c))
    BY <1>1, <1>8 DEF FailHolmesRequest
  <2> QED BY <2>1, <2>2
<1>10. ASSUME NEW i \in Items PROVE Quiet(BeginHolmes(i))
  <2>1. NoCheck(BeginHolmes(i))
    BY <1>3 DEF BeginHolmes
  <2>2. OnlyReplies(BeginHolmes(i), {})
    BY <1>1, SingleReplies, TransitionReplies DEF BeginHolmes
  <2> QED BY <2>1, <2>2 DEF Quiet
<1>11. ASSUME NEW i \in Items PROVE OnlyReplies(Succeed(i), {})
  <2> DEFINE label == CASE i \in Scheduled -> "run_success"
                        [] Kind[i] = "ask" -> "freeform"
                        [] OTHER -> "firing"
  <2>1. label \in Labels
    BY DEF Labels
  <2> HIDE DEF label
  <2>2. OnlyReplies(Transition("hourglass", "check") \o Count(label), {})
    BY <1>1, <2>1, ConcatReplies, SingleReplies, TransitionReplies
  <2> QED BY <2>2 DEF Succeed, label
<1> QED BY <1>4, <1>5, <1>6, <1>9, <1>10, <1>11

\* A submitter shows no mark, and replies only for an item that is not accepted.
LEMMA SubmitterLists ==
  ASSUME NEW i \in Items,
         Submit(i) \/ Offer(i) \/ CronFires(i) \/ PostRoot(i) \/ OfferScheduled(i)
  PROVE  \E at : \E script \in Seq(Calls) :
           /\ Submitted(i, at, script)
           /\ sub[i] \notin {"accepted", "dropped", "refused"}
           /\ NoCheck(script)
           /\ OnlyReplies(script, {}) \/ at \in {"dropped", "refused"}
<1>1. /\ OnlyReplies(<<>>, {}) /\ OnlyReplies(Add("eyes"), {})
      /\ OnlyReplies(Count("ignored"), {}) /\ OnlyReplies(Count("dropped"), {})
      /\ OnlyReplies(Count("run_failed"), {})
  BY SingleReplies
<1>2. /\ <<>> \in Seq(Calls) /\ Add("eyes") \in Seq(Calls)
      /\ Count("ignored") \in Seq(Calls) /\ Count("dropped") \in Seq(Calls)
      /\ Count("run_failed") \in Seq(Calls) /\ Accepted \in Seq(Calls)
      /\ FailScheduledIntake \in Seq(Calls)
      /\ Count("failed") \o Add("x") \in Seq(Calls)
      /\ Count("dropped") \o Transition("eyes", "x") \in Seq(Calls)
  BY CallTypes, ScriptTypes, ConcatTypes DEF Reactions, Labels
<1>3. NoCheck(<<>>) /\ NoCheck(Add("eyes")) /\ NoCheck(Count("ignored"))
      /\ NoCheck(Count("dropped")) /\ NoCheck(Count("run_failed"))
  BY SingleNoCheck
<1>4. CASE Submit(i)
  BY <1>1, <1>2, <1>3, <1>4, ScriptReplies, ScriptNoCheck
  DEF Submit, RejectMarker, IgnoreUnmarked, TakeReadLock
<1>5. CASE Offer(i)
  BY <1>1, <1>2, <1>3, <1>5, ScriptReplies, ScriptNoCheck DEF Offer
<1>6. CASE CronFires(i) \/ PostRoot(i)
  BY <1>1, <1>2, <1>3, <1>6 DEF CronFires, PostRoot
<1>7. CASE OfferScheduled(i)
  BY <1>1, <1>2, <1>3, <1>7, ScriptNoCheck DEF OfferScheduled
<1> QED BY <1>4, <1>5, <1>6, <1>7

---------------------------------------------------------------------------
(* The invariant *)

\* A submitter shows no mark, and replies only for an item that is not accepted.
Unaccepted(i) ==
  /\ NoCheck(todo[i])
  /\ OnlyReplies(todo[i], {}) \/ sub[i] \in {"dropped", "refused"}

\* Nobody replies for an item before a worker delivers its answer.
Fresh(i) ==
  \/ RepliesOf(i) = {} \/ i \in finished \/ sub[i] \in {"dropped", "refused"}
  \/ \E w \in Workers : job[w] = i /\ wpc[w] \in {"deliver", "finish"}

\* The parts of a whole answer; none, if Holmes gave a part of one.
Whole(a) == IF a.failed \/ a.tooLarge \/ a.parts > MaxParts THEN 0 ELSE a.parts

\* Item i was given a whole answer, and all of it is in the thread.
Complete(i) == whole[i] > 0 /\ PartsShown(i) = whole[i]

\* What a worker still has to say, and what its item has been replied.
Handling(w) ==
  /\ wpc[w] # "finish" => Quiet(todo[w])
  /\ wpc[w] = "deliver" => /\ RepliesOf(job[w]) \subseteq {"part"}
                           /\ answer[w].sent > 0 => "part" \in RepliesOf(job[w])
                           /\ answer[w].parts > 0
                           /\ PartsShown(job[w]) = answer[w].sent
                           /\ whole[job[w]] = Whole(answer[w])
  /\ wpc[w] = "finish" /\ ~NoCheck(todo[w]) =>
       OnlyReplies(todo[w], {}) /\ RepliesOf(job[w]) = {"part"} /\ Complete(job[w])

\* Worker w will say no more of its item.
Silent(w) == wpc[w] = "finish" /\ OnlyReplies(todo[w], {})

\* Item i was answered in full, and nothing is to follow.
Answered(i) ==
  /\ RepliesOf(i) = {"part"}
  /\ Complete(i)
  /\ i \in finished \/ \E w \in Workers : job[w] = i /\ Silent(w)

AnswerInv ==
  /\ \A i \in Items : Unaccepted(i) /\ Fresh(i)
  /\ \A w \in Workers : Handling(w)
  /\ \A m \in Messages :
       "check" \in reactions[m] => \E i \in Items : Message[i] = m /\ Answered(i)

\* Nobody has anything to say at first, and nothing is shown.
LEMMA InitAnswer == Init => AnswerInv
<1> SUFFICES ASSUME Init PROVE AnswerInv
  OBVIOUS
<1>1. ASSUME NEW i \in Items PROVE RepliesOf(i) = {}
  <2>1. thread[Thread[i]] = <<>>
    BY ServiceAssumption DEF Init
  <2> QED BY <2>1 DEF RepliesOf
<1>2. Quiet(<<>>)
  BY SingleReplies, SingleNoCheck DEF Quiet
<1> QED BY <1>1, <1>2 DEF Init, AnswerInv, Unaccepted, Fresh, Handling, Quiet

\* What a step of worker w does.
AnswerStep(w) ==
  /\ \A v \in Workers \ {w} : /\ wpc'[v] = wpc[v] /\ job'[v] = job[v]
                              /\ todo'[v] = todo[v] /\ answer'[v] = answer[v]
  /\ \A i \in Items : todo'[i] = todo[i]
  /\ UNCHANGED sub
  /\ finished \subseteq finished'
  /\ wpc[w] \in {"deliver", "finish"} =>
       job[w] \in finished' \/ (job'[w] = job[w] /\ wpc'[w] \in {"deliver", "finish"})
  /\ Silent(w) => job[w] \in finished' \/ (job'[w] = job[w] /\ Silent(w)')
  /\ \/ UNCHANGED thread
     \/ /\ wpc[w] \in {"deliver", "finish"} /\ ~Silent(w) /\ UNCHANGED <<job, finished>>
        /\ \E k \in Replies : Post(job[w], k)
  /\ \A m \in Messages : "check" \in reactions'[m] =>
       \/ "check" \in reactions[m]
       \/ /\ m = Message[job[w]] /\ wpc[w] = "finish" /\ ~NoCheck(todo[w])
          /\ UNCHANGED <<thread, job>>
  /\ \A i \in Items : whole'[i] = whole[i] \/ (i = job[w] /\ wpc[w] = "chat")
  /\ Handling(w)'

\* Nothing that is known of item i's answer changes.
Same(i) ==
  RepliesOf(i)' = RepliesOf(i) /\ PartsShown(i)' = PartsShown(i) /\ whole'[i] = whole[i]

\* A worker's step keeps the invariant.
LEMMA AnswerKeeps ==
  ASSUME TypeInv, TypeInv', UniqueInv, PlaceInv, AnswerInv, NEW w \in Workers, AnswerStep(w)
  PROVE  AnswerInv'
<1> USE ServiceAssumption
<1>1. /\ \A i \in Items : Unaccepted(i) /\ Fresh(i)
      /\ \A v \in Workers : Handling(v)
      /\ \A m \in Messages :
           "check" \in reactions[m] => \E i \in Items : Message[i] = m /\ Answered(i)
  BY DEF AnswerInv
<1>2. \A v \in Workers : wpc[v] \in {"deliver", "finish"} => job[v] \in Items
  BY DEF TypeInv, HoldsJob
\* Only the replies of the item at work change.
<1>3. \A j \in Items : j # job[w] => Same(j)
  <2>0. \A j \in Items : j # job[w] => whole'[j] = whole[j]
    BY DEF AnswerStep
  <2>1. CASE UNCHANGED thread
    BY <2>0, <2>1 DEF RepliesOf, PartsShown, Same
  <2>2. CASE thread' # thread
    <3>1. PICK i \in Items, k \in Replies : i = job[w] /\ Post(i, k)
      BY <1>2, <2>2 DEF AnswerStep
    <3>2. \A j \in Items \ {i} : RepliesOf(j)' = RepliesOf(j)
      BY <3>1, PostAdds
    <3>3. \A j \in Items \ {i} : PartsShown(j)' = PartsShown(j)
      BY <3>1, PartsAdd
    <3> QED BY <2>0, <3>1, <3>2, <3>3 DEF Same
  <2> QED BY <2>1, <2>2
<1>4. \A i \in Items : Unaccepted(i)'
  BY <1>1 DEF Unaccepted, AnswerStep
<1>5. ASSUME NEW i \in Items PROVE Fresh(i)'
  <2>1. CASE i \in finished \/ sub[i] \in {"dropped", "refused"}
    BY <2>1 DEF Fresh, AnswerStep
  <2>2. ASSUME NEW v \in Workers, job[v] = i, wpc[v] \in {"deliver", "finish"} PROVE Fresh(i)'
    <3>1. CASE v = w
      BY <2>2, <3>1 DEF Fresh, AnswerStep
    <3>2. CASE v # w
      BY <2>2, <3>2 DEF Fresh, AnswerStep
    <3> QED BY <3>1, <3>2
  <2>3. ASSUME RepliesOf(i) = {}, \A v \in Workers : job[v] = i => wpc[v] \notin {"deliver", "finish"}
        PROVE  Fresh(i)'
    <3>1. CASE i # job[w]
      BY <1>3, <2>3, <3>1 DEF Fresh, Same
    <3>2. CASE i = job[w]
      <4>1. UNCHANGED thread
        BY <2>3, <3>2 DEF AnswerStep
      <4>2. RepliesOf(i)' = RepliesOf(i)
        BY <4>1 DEF RepliesOf
      <4> QED BY <2>3, <4>2 DEF Fresh
    <3> QED BY <3>1, <3>2
  <2> QED BY <1>1, <2>1, <2>2, <2>3 DEF Fresh
<1>6. ASSUME NEW v \in Workers PROVE Handling(v)'
  <2>1. CASE v = w
    BY <2>1 DEF AnswerStep
  <2>2. CASE v # w
    <3>1. /\ wpc'[v] = wpc[v] /\ job'[v] = job[v]
          /\ todo'[v] = todo[v] /\ answer'[v] = answer[v]
      BY <2>2 DEF AnswerStep
    <3>2. wpc[v] \in {"deliver", "finish"} => job[v] \in Items /\ job[v] # job[w]
      BY <1>2, <2>2 DEF UniqueInv
    <3>3. ASSUME wpc[v] \in {"deliver", "finish"}
          PROVE  /\ RepliesOf(job[v])' = RepliesOf(job[v])
                 /\ PartsShown(job[v])' = PartsShown(job[v])
                 /\ whole'[job'[v]] = whole[job[v]]
      <4>1. PICK j \in Items : j = job[v] /\ j # job[w]
        BY <3>2, <3>3
      <4>2. RepliesOf(j)' = RepliesOf(j) /\ PartsShown(j)' = PartsShown(j) /\ whole'[j] = whole[j]
        BY <1>3, <4>1 DEF Same
      <4>3. RepliesOf(job[v])' = RepliesOf(job[v])
        BY <3>1, <4>1, <4>2, SMTT(30) DEF RepliesOf
      <4>4. PartsShown(job[v])' = PartsShown(j)' /\ PartsShown(job[v]) = PartsShown(j)
        BY <3>1, <4>1 DEF PartsShown
      <4> QED BY <3>1, <4>1, <4>2, <4>3, <4>4
    <3>4. Handling(v)
      BY <1>1
    <3> QED BY <3>1, <3>3, <3>4 DEF Handling, Complete, Whole
  <2> QED BY <2>1, <2>2
\* What was answered stays answered.
<1>7. ASSUME NEW i \in Items, Answered(i) PROVE Answered(i)'
  <2>1. i \in finished' \/ \E v \in Workers : job'[v] = i /\ Silent(v)'
    <3>1. CASE i \in finished
      BY <3>1 DEF AnswerStep
    <3>2. ASSUME NEW v \in Workers, job[v] = i, Silent(v), v # w PROVE job'[v] = i /\ Silent(v)'
      BY <3>2 DEF AnswerStep, Silent
    <3>3. ASSUME job[w] = i, Silent(w) PROVE i \in finished' \/ (job'[w] = i /\ Silent(w)')
      BY <3>3 DEF AnswerStep
    <3> QED BY <1>7, <3>1, <3>2, <3>3 DEF Answered
  <2>2. Same(i)
    <3>1. CASE i # job[w]
      BY <1>3, <3>1
    <3>2. CASE i = job[w]
      <4>1. Silent(w)
        BY <1>7, <3>2 DEF Answered, UniqueInv
      <4>2. UNCHANGED thread /\ whole'[i] = whole[i]
        BY <4>1 DEF AnswerStep, Silent
      <4> QED BY <4>2 DEF RepliesOf, PartsShown, Same
    <3> QED BY <3>1, <3>2
  <2> QED BY <1>7, <2>1, <2>2 DEF Answered, Complete, Same
<1>8. ASSUME NEW m \in Messages, "check" \in reactions'[m]
      PROVE  \E i \in Items : Message[i] = m /\ Answered(i)'
  <2>1. CASE "check" \in reactions[m]
    BY <1>1, <1>7, <2>1
  <2>2. CASE "check" \notin reactions[m]
    <3>1. /\ m = Message[job[w]] /\ wpc[w] = "finish" /\ ~NoCheck(todo[w])
          /\ UNCHANGED <<thread, job>>
      BY <1>8, <2>2 DEF AnswerStep
    <3>2. OnlyReplies(todo[w], {}) /\ RepliesOf(job[w]) = {"part"} /\ Complete(job[w])
      BY <1>1, <3>1 DEF Handling
    <3>3. PICK i \in Items : i = job[w] /\ Message[i] = m
      BY <1>2, <3>1
    <3>4. RepliesOf(i) = {"part"} /\ Complete(i) /\ Silent(w)
      BY <3>1, <3>2, <3>3 DEF Silent
    <3>5. Answered(i)
      BY <3>3, <3>4 DEF Answered
    <3> QED BY <1>7, <3>3, <3>5
  <2> QED BY <2>1, <2>2
<1> QED BY <1>4, <1>5, <1>6, <1>8 DEF AnswerInv

---------------------------------------------------------------------------
(* The steps of a worker *)

\* A step that shows and writes nothing and ends in another place of handle.
LEMMA MovesOn ==
  ASSUME TypeInv, NEW w \in Workers, NEW to, NEW script, Goto(w, to, script),
         wpc[w] # "finish", wpc[w] = "deliver" => to = "finish" /\ UNCHANGED job,
         \A v \in Workers \ {w} : job'[v] = job[v] /\ answer'[v] = answer[v],
         UNCHANGED finished,
         \A i \in Items : whole'[i] = whole[i] \/ (i = job[w] /\ wpc[w] = "chat"),
         \/ to \notin {"deliver", "finish"} /\ Quiet(script)
         \/ to = "finish" /\ NoCheck(script)
         \/ Handling(w)'
  PROVE  AnswerStep(w)
<1> USE ServiceAssumption
<1>1. wpc \in [Workers -> WorkerStates] /\ todo \in [Items \cup Workers -> Seq(Calls)]
  BY DEF TypeInv, TypeOK
<1>2. /\ wpc' = [wpc EXCEPT ![w] = to] /\ todo' = [todo EXCEPT ![w] = script]
      /\ UNCHANGED <<sub, thread, reactions>>
  BY DEF Goto, slackVars, runVars
<1>3. wpc'[w] = to /\ todo'[w] = script
  BY <1>1, <1>2
<1>4. Handling(w)'
  BY <1>3 DEF Handling
<1> QED BY <1>1, <1>2, <1>3, <1>4 DEF AnswerStep, Silent

\* Every step of a worker is a step of AnswerStep.
LEMMA AnswerSteps ==
  ASSUME TypeInv, TypeInv', UniqueInv, PlaceInv, AnswerInv, NEW w \in Workers,
         BestEffort(w) \/ Take(w) \/ SkipCancelled(w) \/ Dispatch(w) \/ LockThread(w) \/ Verify(w)
           \/ ReadHistory(w) \/ Chat(w) \/ DeliverPart(w) \/ Conclude(w) \/ Finish(w) \/ Exit(w)
  PROVE  AnswerStep(w)
<1> USE ServiceAssumption
<1>1. /\ wpc \in [Workers -> WorkerStates] /\ todo \in [Items \cup Workers -> Seq(Calls)]
      /\ job \in [Workers -> Items \cup {None}]
      /\ answer \in [Workers -> [parts : 0 .. MaxParts + 1, failed : BOOLEAN,
                                 tooLarge : BOOLEAN, sent : 0 .. MaxParts]]
      /\ reactions \in [Messages -> SUBSET Reactions]
      /\ whole \in [Items -> 0 .. MaxParts]
  BY DEF TypeInv, TypeOK
<1>2. Handling(w) /\ \A i \in Items : Fresh(i)
  BY DEF AnswerInv
<1>3. Quiet(<<>>)
  BY SingleReplies, SingleNoCheck DEF Quiet
<1>4. wpc[w] \notin {"idle", "exited"} => job[w] \in Items
  BY DEF TypeInv, HoldsJob
<1>5. CASE BestEffort(w)
  <2>1. /\ todo[w] \in Seq(Calls) /\ todo[w] # <<>>
        /\ todo' = [todo EXCEPT ![w] = Tail(@)]
        /\ UNCHANGED <<wpc, job, answer, finished, sub, whole>>
    BY <1>1, <1>5 DEF BestEffort, workerVars, runVars
  <2>2. job[w] \in Items
    BY <2>1 DEF TypeInv, HoldsJob
  <2>3. /\ \A kinds : OnlyReplies(todo[w], kinds) => /\ OnlyReplies(Tail(todo[w]), kinds)
                                                     /\ Head(todo[w]).op = "reply" => Head(todo[w]).arg \in kinds
        /\ NoCheck(todo[w]) => NoCheck(Tail(todo[w]))
    BY <2>1, TailReplies, TailNoCheck
  <2>4. todo'[w] = Tail(todo[w])
    BY <1>1, <2>1, SMTT(30)
  <2>5. \/ UNCHANGED thread
        \/ Head(todo[w]).op = "reply" /\ Post(job[w], Head(todo[w]).arg)
    BY <1>5 DEF BestEffort, Apply, ItemOf, runVars
  <2>6. CASE UNCHANGED thread
    <3>1. Handling(w)'
      <4>1. RepliesOf(job[w])' = RepliesOf(job[w]) /\ PartsShown(job[w])' = PartsShown(job[w])
        BY <2>1, <2>6 DEF RepliesOf, PartsShown
      <4> QED BY <1>2, <2>1, <2>3, <2>4, <4>1 DEF Handling, Quiet, Complete, Whole
    <3>2. \A m \in Messages : "check" \in reactions'[m] =>
            \/ "check" \in reactions[m]
            \/ m = Message[job[w]] /\ Head(todo[w]).op = "add" /\ Head(todo[w]).arg = "check"
      BY <1>1, <1>5, <2>2 DEF BestEffort, Apply, ItemOf, runVars
    <3>3. Head(todo[w]).op = "add" /\ Head(todo[w]).arg = "check" => ~NoCheck(todo[w])
      BY <2>1, TailNoCheck
    <3>4. ~NoCheck(todo[w]) => wpc[w] = "finish"
      BY <1>2 DEF Handling, Quiet
    <3> QED BY <1>1, <2>1, <2>3, <2>4, <2>6, <3>1, <3>2, <3>3, <3>4 DEF AnswerStep, Silent
  <2>7. CASE Head(todo[w]).op = "reply" /\ Post(job[w], Head(todo[w]).arg)
    <3>1. ~OnlyReplies(todo[w], {})
      BY <2>3, <2>7
    <3>2. wpc[w] = "finish" /\ NoCheck(todo[w]) /\ ~Silent(w)
      BY <1>2, <3>1 DEF Handling, Quiet, Silent
    <3>3. Handling(w)'
      BY <2>1, <2>3, <2>4, <3>2 DEF Handling
    <3>4. UNCHANGED reactions
      BY <1>5, <2>7 DEF BestEffort, Apply, runVars
    <3>5. Head(todo[w]).arg \in Replies
      <4>1. Head(todo[w]) \in Calls
        BY <2>1
      <4> QED BY <2>7, <4>1 DEF Calls
    <3> QED BY <1>1, <2>1, <2>3, <2>4, <2>7, <3>2, <3>3, <3>4, <3>5 DEF AnswerStep, Silent
  <2> QED BY <2>5, <2>6, <2>7
<1>6. CASE Take(w)
  BY <1>1, <1>3, <1>6, MovesOn DEF Take, At
<1>7. CASE SkipCancelled(w)
  BY <1>1, <1>3, <1>7, MovesOn, ScriptNoCheck DEF SkipCancelled, At
<1>8. CASE Dispatch(w)
  BY <1>3, <1>8, MovesOn, ScriptNoCheck DEF Dispatch, At
<1>9. CASE LockThread(w)
  <2> DEFINE script == IF AfterLock(job[w]) = "chat" THEN BeginHolmes(job[w]) ELSE <<>>
  <2>1. wpc[w] = "lock" /\ Goto(w, AfterLock(job[w]), script) /\ UNCHANGED <<job, answer, finished, whole>>
    BY <1>9 DEF LockThread, At
  <2>2. Quiet(script)
    BY <1>3, <1>4, <2>1, ScriptNoCheck
  <2> HIDE DEF script
  <2>3. AfterLock(job[w]) \notin {"deliver", "finish"}
    BY DEF AfterLock
  <2> QED BY <2>1, <2>2, <2>3, MovesOn
<1>10. CASE Verify(w)
  BY <1>4, <1>10, MovesOn, ScriptNoCheck DEF Verify, At
<1>11. CASE ReadHistory(w)
  BY <1>4, <1>11, MovesOn, ScriptNoCheck DEF ReadHistory, At
<1>12. CASE Chat(w)
  <2>1. /\ wpc[w] = "chat" /\ job[w] \in Items /\ Cancelled \in BOOLEAN
        /\ UNCHANGED <<job, finished>>
    BY <1>4, <1>12 DEF Chat, At, Cancelled
  <2>2. PICK a \in Answers(Cancelled) :
          /\ answer' = [answer EXCEPT ![w] = a]
          /\ whole' = [whole EXCEPT ![job[w]] = Whole(a)]
          /\ IF a.parts = 0 THEN RequestFails(w)
             ELSE Goto(w, "deliver", <<>>) /\ UNCHANGED ctx
    BY <1>12 DEF Chat, Whole
  <2>3. /\ \A v \in Workers \ {w} : answer'[v] = answer[v]
        /\ \A i \in Items : whole'[i] = whole[i] \/ (i = job[w] /\ wpc[w] = "chat")
    BY <1>1, <2>1, <2>2
  <2>4. CASE a.parts = 0
    BY <2>1, <2>2, <2>3, <2>4, MovesOn, ScriptNoCheck DEF RequestFails
  <2>5. CASE a.parts # 0
    <3>1. a.sent = 0
      <4>1. \E P, F, L : a \in [parts : P, failed : F, tooLarge : L, sent : {0}]
        BY <2>2 DEF Answers
      <4> QED BY <4>1
    <3>2. answer'[w] = a /\ a.parts > 0
      <4>1. answer'[w] = a
        BY <1>1, <2>2
      <4>2. answer'[w].parts \in 0 .. MaxParts + 1
        BY DEF TypeInv, TypeOK
      <4> QED BY <2>5, <4>1, <4>2
    <3>3. Goto(w, "deliver", <<>>)
      BY <2>2, <2>5
    <3>4. wpc'[w] = "deliver" /\ todo'[w] = <<>> /\ job' = job /\ thread' = thread
      BY <1>1, <2>1, <3>3 DEF Goto, slackVars, runVars
    <3>5. RepliesOf(job[w]) = {}
      <4>1. sub[job[w]] = "accepted" /\ job[w] \notin finished
        BY <2>1 DEF PlaceInv, UniqueInv
      <4>2. \A v \in Workers : job[v] = job[w] => wpc[v] = "chat"
        BY <2>1 DEF UniqueInv
      <4> QED BY <1>2, <2>1, <4>1, <4>2 DEF Fresh
    <3>6. RepliesOf(job[w])' = RepliesOf(job[w]) /\ PartsShown(job[w])' = 0
      <4>1. PartsShown(job[w]) = 0
        BY <2>1, <3>5, NoParts
      <4> QED BY <3>4, <4>1 DEF RepliesOf, PartsShown
    <3>8. whole'[job'[w]] = Whole(answer'[w])
      BY <1>1, <2>1, <2>2, <3>2
    <3>7. Handling(w)'
      BY <1>3, <3>1, <3>2, <3>4, <3>5, <3>6, <3>8 DEF Handling, Whole
    <3> QED BY <2>1, <2>3, <3>3, <3>7, MovesOn
  <2> QED BY <2>4, <2>5
<1>13. CASE DeliverPart(w)
  <2>1. wpc[w] = "deliver" /\ job[w] \in Items /\ todo[w] = <<>>
    BY <1>4, <1>13 DEF DeliverPart, At, runVars
  <2>2. PICK outcome \in Outcomes(w) :
          /\ IF outcome = "failed" THEN UNCHANGED thread ELSE Post(job[w], "part")
          /\ answer' = [answer EXCEPT ![w].sent = @ + 1]
          /\ IF outcome # "ok"
             THEN /\ wpc' = [wpc EXCEPT ![w] = "finish"]
                  /\ todo' = [todo EXCEPT ![w] = FailHolmesAnswerDelivery(job[w])]
             ELSE UNCHANGED <<wpc, todo>>
    BY <1>13 DEF DeliverPart, DeliveryFailed, runVars
  <2>3. UNCHANGED <<job, finished, sub, reactions, whole>>
    BY <1>13 DEF DeliverPart, runVars
  <2>4. "part" \in Replies
    BY DEF Replies
  <2>5. /\ \A v \in Workers \ {w} : wpc'[v] = wpc[v] /\ todo'[v] = todo[v] /\ answer'[v] = answer[v]
        /\ \A i \in Items : todo'[i] = todo[i]
        /\ answer'[w].parts = answer[w].parts
        /\ answer'[w].failed = answer[w].failed /\ answer'[w].tooLarge = answer[w].tooLarge
        /\ answer'[w].sent = answer[w].sent + 1
        /\ IF outcome # "ok" THEN wpc'[w] = "finish" /\ todo'[w] = FailHolmesAnswerDelivery(job[w])
           ELSE wpc'[w] = "deliver" /\ todo'[w] = <<>>
    BY <1>1, <2>1, <2>2
  <2>6. Handling(w)'
    <3>1. CASE outcome # "ok"
      BY <2>1, <2>5, <3>1, ScriptNoCheck DEF Handling
    <3>2. CASE outcome = "ok"
      <4>1. PICK i \in Items : i = job[w] /\ Post(i, "part")
        BY <2>1, <2>2, <3>2
      <4>2. RepliesOf(i)' = RepliesOf(i) \cup {"part"} /\ PartsShown(i)' = PartsShown(i) + 1
        BY <2>4, <4>1, PostAdds, PartsAdd
      <4>3. RepliesOf(job[w])' = RepliesOf(job[w]) \cup {"part"}
        BY <2>3, <4>1, <4>2 DEF RepliesOf
      <4>4. PartsShown(job[w])' = PartsShown(job[w]) + 1
        BY <2>3, <4>1, <4>2 DEF PartsShown
      <4>5. Whole(answer[w])' = Whole(answer[w])
        BY <2>5 DEF Whole
      <4>6. answer'[w].sent > 0 /\ answer'[w].parts > 0
        BY <1>1, <1>2, <2>1, <2>5 DEF Handling
      <4> QED BY <1>2, <1>3, <2>1, <2>3, <2>5, <3>2, <4>3, <4>4, <4>5, <4>6 DEF Handling
    <3> QED BY <3>1, <3>2
  <2> QED BY <2>1, <2>2, <2>3, <2>4, <2>5, <2>6 DEF AnswerStep, Silent
<1>14. CASE Conclude(w)
  <2>1. /\ wpc[w] = "deliver" /\ job[w] \in Items /\ Cancelled \in BOOLEAN
        /\ answer[w].sent = PartsToSend(w) /\ UNCHANGED <<job, answer, finished, whole>>
    BY <1>4, <1>14 DEF Conclude, At, Cancelled
  <2>2. \/ Goto(w, "finish", FailHolmesRequest(job[w], Cancelled))
        \/ Goto(w, "finish", FailHolmesAnswerDelivery(job[w]))
        \/ Goto(w, "finish", Succeed(job[w])) /\ ~answer[w].failed /\ ~CutShort(w)
    BY <1>14 DEF Conclude, RequestFails, DeliveryFails
  <2>3. CASE Goto(w, "finish", Succeed(job[w])) /\ ~answer[w].failed /\ ~CutShort(w)
    <3>1. answer[w].parts > 0 /\ answer[w].parts \in 0 .. MaxParts + 1
      BY <1>1, <1>2, <2>1 DEF Handling
    <3>2. answer[w].sent > 0
      BY <2>1, <3>1 DEF PartsToSend
    <3>3. RepliesOf(job[w]) = {"part"}
      BY <1>2, <2>1, <3>2 DEF Handling
    <3>4. wpc'[w] = "finish" /\ todo'[w] = Succeed(job[w]) /\ job' = job /\ thread' = thread
      BY <1>1, <2>1, <2>3 DEF Goto, slackVars, runVars
    <3>5. RepliesOf(job[w])' = RepliesOf(job[w]) /\ PartsShown(job[w])' = PartsShown(job[w])
      BY <3>4 DEF RepliesOf, PartsShown
    <3>7. whole[job[w]] = answer[w].parts /\ PartsShown(job[w]) = answer[w].parts
      BY <1>2, <2>1, <2>3, <3>1 DEF Handling, Whole, CutShort, PartsToSend
    <3>8. Complete(job[w])'
      BY <2>1, <3>1, <3>4, <3>5, <3>7 DEF Complete
    <3>6. Handling(w)'
      BY <2>1, <3>3, <3>4, <3>5, <3>8, ScriptNoCheck DEF Handling
    <3> QED BY <2>1, <2>3, <3>6, MovesOn
  <2>4. ASSUME NEW script, Goto(w, "finish", script), NoCheck(script) PROVE AnswerStep(w)
    BY <2>1, <2>4, MovesOn
  <2> QED BY <2>1, <2>2, <2>3, <2>4, ScriptNoCheck
<1>15. CASE Finish(w)
  <2>1. /\ wpc' = [wpc EXCEPT ![w] = "idle"] /\ todo' = [todo EXCEPT ![w] = <<>>]
        /\ job' = [job EXCEPT ![w] = None] /\ finished' = finished \cup {job[w]}
        /\ UNCHANGED <<sub, thread, reactions, whole>>
        /\ \A v \in Workers \ {w} : answer'[v] = answer[v]
    BY <1>1, <1>15 DEF Finish, Goto, slackVars, runVars
  <2>2. wpc'[w] = "idle" /\ todo'[w] = <<>>
    BY <1>1, <2>1
  <2>3. Handling(w)'
    BY <1>3, <2>2 DEF Handling
  <2> QED BY <1>1, <2>1, <2>3 DEF AnswerStep
<1>16. CASE Exit(w)
  BY <1>3, <1>16, MovesOn DEF Exit, At
<1> QED BY <1>5, <1>6, <1>7, <1>8, <1>9, <1>10, <1>11, <1>12, <1>13, <1>14, <1>15, <1>16

---------------------------------------------------------------------------
(* The other steps *)

\* A step that neither writes nor shows anything, and leaves the workers alone.
LEMMA NothingSaid ==
  ASSUME UNCHANGED <<wpc, job, answer, finished, thread, whole>>,
         \A w \in Workers : todo'[w] = todo[w],
         \A m \in Messages : "check" \in reactions'[m] => "check" \in reactions[m],
         \A i \in Items : sub[i] \in {"dropped", "refused"} => sub'[i] \in {"dropped", "refused"},
         \A i \in Items : Unaccepted(i)',
         AnswerInv
  PROVE  AnswerInv'
<1>1. \A i : RepliesOf(i)' = RepliesOf(i) /\ PartsShown(i)' = PartsShown(i)
  BY DEF RepliesOf, PartsShown
<1>2. \A i \in Items : Fresh(i) => Fresh(i)'
  BY <1>1 DEF Fresh
<1>3. \A w \in Workers : Handling(w)'
  <2>1. \A w \in Workers : /\ RepliesOf(job[w])' = RepliesOf(job[w])
                           /\ PartsShown(job[w])' = PartsShown(job[w])
    BY DEF RepliesOf, PartsShown
  <2> QED BY <2>1 DEF AnswerInv, Handling, Complete, Whole
<1>4. \A i \in Items : Answered(i) => Answered(i)'
  BY <1>1 DEF Answered, Silent, Complete
<1> QED BY <1>2, <1>3, <1>4 DEF AnswerInv

\* A submitter's call or counter.
LEMMA SubmitterSays ==
  ASSUME TypeInv, TypeInv', PlaceInv, AnswerInv, NEW i \in Items, BestEffort(i)
  PROVE  AnswerInv'
<1> USE ServiceAssumption
<1>1. \A j \in Items : Unaccepted(j)
  BY DEF AnswerInv
<1>2. /\ todo[i] # <<>> /\ todo[i] \in Seq(Calls)
      /\ todo' = [todo EXCEPT ![i] = Tail(@)]
      /\ UNCHANGED <<wpc, job, answer, finished, sub, whole>>
      /\ todo \in [Items \cup Workers -> Seq(Calls)]
      /\ reactions \in [Messages -> SUBSET Reactions]
  BY DEF BestEffort, workerVars, TypeInv, TypeOK, runVars
<1>3. /\ todo'[i] = Tail(todo[i])
      /\ \A j \in Items \ {i} : todo'[j] = todo[j]
      /\ \A w \in Workers : todo'[w] = todo[w]
  BY <1>2
<1>4. /\ NoCheck(Tail(todo[i])) /\ ~(Head(todo[i]).op = "add" /\ Head(todo[i]).arg = "check")
      /\ OnlyReplies(todo[i], {}) => OnlyReplies(Tail(todo[i]), {}) /\ Head(todo[i]).op # "reply"
  BY <1>1, <1>2, TailReplies, TailNoCheck DEF Unaccepted
<1>5. \A j \in Items : Unaccepted(j)'
  BY <1>1, <1>2, <1>3, <1>4 DEF Unaccepted
<1>6. \A m \in Messages : "check" \in reactions'[m] => "check" \in reactions[m]
  <2>1. ItemOf(i) = i /\ Message[i] \in Messages
    BY DEF ItemOf
  <2>2. \/ UNCHANGED reactions
        \/ reactions' = [reactions EXCEPT ![Message[i]] = @ \cup {Head(todo[i]).arg}]
             /\ Head(todo[i]).op = "add"
        \/ reactions' = [reactions EXCEPT ![Message[i]] = @ \ {Head(todo[i]).arg}]
    BY <2>1 DEF BestEffort, Apply, runVars
  <2>3. \A m \in Messages :
          reactions'[m] \in {reactions[m], reactions[m] \ {Head(todo[i]).arg}}
            \/ (Head(todo[i]).op = "add" /\ reactions'[m] = reactions[m] \cup {Head(todo[i]).arg})
    BY <1>2, <2>1, <2>2
  <2> QED BY <1>4, <2>3
<1>7. CASE UNCHANGED thread
  BY <1>2, <1>3, <1>5, <1>6, <1>7, NothingSaid
<1>8. CASE thread' # thread
  <2>1. Head(todo[i]).op = "reply" /\ Post(i, Head(todo[i]).arg)
    BY <1>8 DEF BestEffort, Apply, ItemOf, runVars
  <2>2. Head(todo[i]).arg \in Replies
    <3>1. Head(todo[i]) \in Calls
      BY <1>2
    <3> QED BY <2>1, <3>1 DEF Calls
  <2>3. sub[i] \in {"dropped", "refused"}
    BY <1>1, <1>4, <2>1 DEF Unaccepted
  <2>4. i \notin finished /\ \A w \in Workers : job[w] # i
    BY <2>3 DEF PlaceInv
  <2>5. \A j \in Items \ {i} : RepliesOf(j)' = RepliesOf(j) /\ PartsShown(j)' = PartsShown(j)
    BY <2>1, <2>2, PostAdds, PartsAdd
  <2>6. ASSUME NEW j \in Items PROVE Fresh(j)'
    BY <1>2, <2>3, <2>5 DEF AnswerInv, Fresh
  <2>7. ASSUME NEW w \in Workers PROVE Handling(w)'
    <3>1. wpc[w] \in {"deliver", "finish"} => /\ RepliesOf(job[w])' = RepliesOf(job[w])
                                               /\ PartsShown(job[w])' = PartsShown(job[w])
      <4>1. ASSUME wpc[w] \in {"deliver", "finish"}
            PROVE  /\ RepliesOf(job[w])' = RepliesOf(job[w])
                   /\ PartsShown(job[w])' = PartsShown(job[w])
        <5>1. PICK j \in Items \ {i} : j = job[w]
          BY <2>4, <4>1 DEF TypeInv, HoldsJob
        <5>2. RepliesOf(j)' = RepliesOf(j) /\ job' = job
          BY <1>2, <2>5
        <5>3. PartsShown(j)' = PartsShown(j)
          BY <2>5
        <5>4. RepliesOf(job[w])' = RepliesOf(job[w])
          BY <5>1, <5>2 DEF RepliesOf
        <5>5. PartsShown(job[w])' = PartsShown(job[w])
          BY <5>1, <5>2, <5>3 DEF PartsShown
        <5> QED BY <5>4, <5>5
      <4> QED BY <4>1
    <3>2. Handling(w) /\ wpc'[w] = wpc[w] /\ todo'[w] = todo[w] /\ answer'[w] = answer[w]
      BY <1>2, <1>3 DEF AnswerInv
    <3> QED BY <1>2, <3>1, <3>2 DEF Handling, Complete, Whole
  <2>8. ASSUME NEW j \in Items, Answered(j) PROVE Answered(j)'
    <3>1. j # i
      BY <2>4, <2>8 DEF Answered
    <3> QED BY <1>2, <1>3, <2>5, <2>8, <3>1 DEF Answered, Silent, Complete
  <2> QED BY <1>5, <1>6, <2>6, <2>7, <2>8 DEF AnswerInv
<1> QED BY <1>7, <1>8

\* Every step keeps the invariant.
LEMMA NextAnswer ==
  ASSUME TypeInv, TypeInv', PlaceInv, UniqueInv, AnswerInv, [Next]_vars
  PROVE  AnswerInv'
<1> USE ServiceAssumption
<1>1. ASSUME NEW i \in Items, BestEffort(i) PROVE AnswerInv'
  BY <1>1, SubmitterSays
<1>2. ASSUME NEW w \in Workers,
             BestEffort(w) \/ Take(w) \/ SkipCancelled(w) \/ Dispatch(w) \/ LockThread(w)
               \/ Verify(w) \/ ReadHistory(w) \/ Chat(w) \/ DeliverPart(w) \/ Conclude(w)
               \/ Finish(w) \/ Exit(w)
      PROVE  AnswerInv'
  BY <1>2, AnswerSteps, AnswerKeeps
<1>3. ASSUME NEW i \in Items,
             Submit(i) \/ Offer(i) \/ CronFires(i) \/ PostRoot(i) \/ OfferScheduled(i)
      PROVE  AnswerInv'
  <2>1. PICK at : \E script \in Seq(Calls) :
          /\ Submitted(i, at, script)
          /\ sub[i] \notin {"accepted", "dropped", "refused"}
          /\ NoCheck(script)
          /\ OnlyReplies(script, {}) \/ at \in {"dropped", "refused"}
    BY <1>3, SubmitterLists
  <2>2. PICK script \in Seq(Calls) :
          /\ Submitted(i, at, script)
          /\ NoCheck(script)
          /\ OnlyReplies(script, {}) \/ at \in {"dropped", "refused"}
    BY <2>1
  <2>3. /\ sub' = [sub EXCEPT ![i] = at] /\ todo' = [todo EXCEPT ![i] = script]
        /\ UNCHANGED <<wpc, job, answer, finished, thread, reactions, whole>>
        /\ sub \in [Items -> SubmitterStates] /\ todo \in [Items \cup Workers -> Seq(Calls)]
    BY <2>2 DEF Submitted, workerVars, slackVars, TypeInv, TypeOK
  <2>4. /\ sub'[i] = at /\ todo'[i] = script
        /\ \A j \in Items \ {i} : sub'[j] = sub[j] /\ todo'[j] = todo[j]
        /\ \A w \in Workers : todo'[w] = todo[w]
    BY <2>3
  <2>5. \A j \in Items : Unaccepted(j)'
    BY <2>2, <2>4 DEF AnswerInv, Unaccepted
  <2> QED BY <2>1, <2>3, <2>4, <2>5, NothingSaid
<1>4. Shutdown \/ RunStep \/ CloserStep \/ OnlyTimePasses
        => UNCHANGED <<sub, todo, wpc, job, answer, finished, thread, reactions, whole>>
  BY DEF Shutdown, RunStep, StopScheduler, DrainTimeout, CancelWork, Return, Advance, CloserStep,
    SchedulerStopped, CloseQueue, workerVars, slackVars, OnlyTimePasses
<1>5. ASSUME UNCHANGED <<sub, todo, wpc, job, answer, finished, thread, reactions, whole>> PROVE AnswerInv'
  <2>1. \A i \in Items : Unaccepted(i)'
    BY <1>5 DEF AnswerInv, Unaccepted
  <2> QED BY <1>5, <2>1, NothingSaid
<1> QED BY Steps, <1>1, <1>2, <1>3, <1>4, <1>5

---------------------------------------------------------------------------
\* white_check_mark is never shown for an answer that was cut short, of which a
\* part is missing or which a failure reply follows, whatever Slack refuses, loses
\* or repeats and whenever the shutdown comes.
THEOREM TheMarkMeansAnswered == Spec => []CheckMeansAnswered
<1>1. Spec => [](TypeInv /\ IntakeInv /\ ShutdownInv)
  BY InitTypes, NextTypes, InitIntake, NextIntake, InitShutdown, NextShutdown, PTL DEF Spec
<1>2. TypeInv /\ IntakeInv /\ ShutdownInv /\ PlaceInv /\ [Next]_vars => PlaceInv'
  BY NextPlace
<1>3. TypeInv /\ PlaceInv /\ UniqueInv /\ [Next]_vars => UniqueInv'
  BY NextUnique
<1>4. TypeInv /\ TypeInv' /\ PlaceInv /\ UniqueInv /\ AnswerInv /\ [Next]_vars => AnswerInv'
  BY NextAnswer
<1>5. AnswerInv => CheckMeansAnswered
  BY DEF AnswerInv, Answered, Complete, AnsweredWhole, CheckMeansAnswered
<1> QED
  BY <1>1, <1>2, <1>3, <1>4, <1>5, InitPlace, InitUnique, InitAnswer, PTL DEF Spec

---------------------------------------------------------------------------
(* Lists of calls *)

IsReply(c) == c.op = "reply"
TakesGlass(c) == c.op = "remove" /\ c.arg = "hourglass"

\* The hourglass is not removed, or not before a reply; a reply is to come.
KeepsGlass(list) == \A k \in DOMAIN list : ~TakesGlass(list[k])
ReplyFirst(list) ==
  \A k \in DOMAIN list : TakesGlass(list[k]) => \E j \in DOMAIN list : j < k /\ IsReply(list[j])
WillReply(list) == \E k \in DOMAIN list : IsReply(list[k])

\* Concatenation keeps the hourglass, and every reply.
LEMMA ConcatGlass ==
  ASSUME NEW s \in Seq(Calls), NEW t \in Seq(Calls)
  PROVE  /\ KeepsGlass(s) /\ KeepsGlass(t) => KeepsGlass(s \o t)
         /\ WillReply(s) \/ WillReply(t) => WillReply(s \o t)
         /\ ReplyFirst(s) /\ WillReply(s) => ReplyFirst(s \o t)
<1>1. DOMAIN (s \o t) = 1 .. Len(s) + Len(t) /\ DOMAIN s = 1 .. Len(s) /\ DOMAIN t = 1 .. Len(t)
      /\ Len(s) \in Nat /\ Len(t) \in Nat
  OBVIOUS
<1>2. \A k \in 1 .. Len(s) + Len(t) : (s \o t)[k] = IF k <= Len(s) THEN s[k] ELSE t[k - Len(s)]
  OBVIOUS
<1>3. KeepsGlass(s) /\ KeepsGlass(t) => KeepsGlass(s \o t)
  BY <1>1, <1>2 DEF KeepsGlass
<1>4. WillReply(s) \/ WillReply(t) => WillReply(s \o t)
  <2>1. CASE WillReply(s)
    BY <1>1, <1>2, <2>1 DEF WillReply
  <2>2. CASE WillReply(t)
    <3>1. PICK k \in 1 .. Len(t) : IsReply(t[k])
      BY <1>1, <2>2 DEF WillReply
    <3>2. k + Len(s) \in 1 .. Len(s) + Len(t) /\ (s \o t)[k + Len(s)] = t[k]
      BY <1>1, <1>2
    <3> QED BY <1>1, <3>1, <3>2 DEF WillReply
  <2> QED BY <2>1, <2>2
<1>5. ASSUME ReplyFirst(s), WillReply(s) PROVE ReplyFirst(s \o t)
  <2> SUFFICES ASSUME NEW k \in 1 .. Len(s) + Len(t), TakesGlass((s \o t)[k])
               PROVE  \E j \in DOMAIN (s \o t) : j < k /\ IsReply((s \o t)[j])
    BY <1>1 DEF ReplyFirst
  <2>1. CASE k <= Len(s)
    <3>1. PICK j \in 1 .. Len(s) : j < k /\ IsReply(s[j])
      BY <1>1, <1>2, <1>5, <2>1 DEF ReplyFirst
    <3> QED BY <1>1, <1>2, <3>1
  <2>2. CASE k > Len(s)
    <3>1. PICK j \in 1 .. Len(s) : IsReply(s[j])
      BY <1>1, <1>5 DEF WillReply
    <3> QED BY <1>1, <1>2, <2>2, <3>1
  <2> QED BY <2>1, <2>2
<1> QED BY <1>3, <1>4, <1>5

\* What holds of the rest of a list, once its head is known.
LEMMA TailGlass ==
  ASSUME NEW s \in Seq(Calls), s # <<>>
  PROVE  /\ KeepsGlass(s) => KeepsGlass(Tail(s)) /\ ~TakesGlass(Head(s))
         /\ ReplyFirst(s) => ~TakesGlass(Head(s)) /\ (~IsReply(Head(s)) => ReplyFirst(Tail(s)))
         /\ WillReply(s) /\ ~IsReply(Head(s)) => WillReply(Tail(s))
<1>1. /\ Head(s) = s[1] /\ DOMAIN s = 1 .. Len(s) /\ Len(s) \in Nat \ {0}
      /\ DOMAIN Tail(s) = 1 .. Len(s) - 1
      /\ \A k \in 1 .. Len(s) - 1 : Tail(s)[k] = s[k + 1]
  OBVIOUS
<1>2. KeepsGlass(s) => KeepsGlass(Tail(s)) /\ ~TakesGlass(Head(s))
  BY <1>1 DEF KeepsGlass
<1>3. ReplyFirst(s) => ~TakesGlass(Head(s))
  BY <1>1 DEF ReplyFirst
<1>4. ASSUME ReplyFirst(s), ~IsReply(Head(s)) PROVE ReplyFirst(Tail(s))
  <2> SUFFICES ASSUME NEW k \in 1 .. Len(s) - 1, TakesGlass(Tail(s)[k])
               PROVE  \E j \in DOMAIN Tail(s) : j < k /\ IsReply(Tail(s)[j])
    BY <1>1 DEF ReplyFirst
  <2>1. PICK j \in 1 .. Len(s) : j < k + 1 /\ IsReply(s[j])
    BY <1>1, <1>4 DEF ReplyFirst
  <2>2. j # 1
    BY <1>1, <1>4, <2>1
  <2>3. j - 1 \in 1 .. Len(s) - 1 /\ j - 1 < k /\ Tail(s)[j - 1] = s[j]
    BY <1>1, <2>1, <2>2
  <2> QED BY <1>1, <2>1, <2>3
<1>5. ASSUME WillReply(s), ~IsReply(Head(s)) PROVE WillReply(Tail(s))
  <2>1. PICK j \in 1 .. Len(s) : IsReply(s[j])
    BY <1>1, <1>5 DEF WillReply
  <2>2. j # 1
    BY <1>1, <1>5, <2>1
  <2>3. j - 1 \in 1 .. Len(s) - 1 /\ Tail(s)[j - 1] = s[j]
    BY <1>1, <2>1, <2>2
  <2> QED BY <1>1, <2>1, <2>3 DEF WillReply
<1> QED BY <1>2, <1>3, <1>4, <1>5

\* One call, and a counter before a reply.
LEMMA SingleGlass ==
  /\ \A x : KeepsGlass(Add(x)) /\ KeepsGlass(Count(x)) /\ KeepsGlass(Reply(x))
  /\ \A x : x # "hourglass" => KeepsGlass(Remove(x))
  /\ KeepsGlass(<<>>)
  /\ \A x : WillReply(Reply(x))
  /\ \A list : KeepsGlass(list) => ReplyFirst(list)
BY DEF KeepsGlass, WillReply, ReplyFirst, TakesGlass, IsReply, Add, Count, Reply, Remove

\* A counter and a reply come before anything else in the failures of Holmes.
LEMMA FailureGlass ==
  /\ WillReply(FailScheduledShutdown)
  /\ \A i \in Items :
       /\ ReplyFirst(FailHolmesAnswerDelivery(i)) /\ WillReply(FailHolmesAnswerDelivery(i))
       /\ \A c \in BOOLEAN : ReplyFirst(FailHolmesRequest(i, c)) /\ WillReply(FailHolmesRequest(i, c))
<1> USE CallTypes, ConcatTypes, ConcatGlass, SingleGlass
<1>1. /\ "x" \in Reactions /\ "hourglass" \in Reactions
      /\ "failed" \in Labels /\ "run_failed" \in Labels
      /\ {"shutdown", "delivery", "request"} \subseteq Replies
  BY DEF Reactions, Labels, Replies, FailureReplies
<1>2. WillReply(FailScheduledShutdown)
  <2>1. /\ Reply("shutdown") \o Add("x") \in Seq(Calls)
        /\ WillReply(Reply("shutdown") \o Add("x"))
    BY <1>1
  <2> QED BY <1>1, <2>1 DEF FailScheduledShutdown
<1>3. Transition("hourglass", "x") \in Seq(Calls)
  BY <1>1 DEF Transition
<1>4. ASSUME NEW i \in Items PROVE FailedRun(i) \in Seq(Calls)
  BY <1>1 DEF FailedRun
<1>5. ASSUME NEW i \in Items, NEW k \in Replies
      PROVE  /\ ReplyFirst(Count("failed") \o Reply(k) \o Transition("hourglass", "x") \o FailedRun(i))
             /\ WillReply(Count("failed") \o Reply(k) \o Transition("hourglass", "x") \o FailedRun(i))
  <2> DEFINE s == Count("failed") \o Reply(k)
  <2>1. s \in Seq(Calls) /\ KeepsGlass(s)
    BY <1>1
  <2>2. WillReply(s)
    BY <1>1
  <2> HIDE DEF s
  <2>3. ReplyFirst(s)
    BY <2>1
  <2>4. s \o Transition("hourglass", "x") \in Seq(Calls)
        /\ ReplyFirst(s \o Transition("hourglass", "x"))
        /\ WillReply(s \o Transition("hourglass", "x"))
    BY <1>3, <2>1, <2>2, <2>3
  <2>5. ReplyFirst(s \o Transition("hourglass", "x") \o FailedRun(i))
        /\ WillReply(s \o Transition("hourglass", "x") \o FailedRun(i))
    BY <1>4, <2>4
  <2> QED BY <2>5 DEF s
<1>6. ASSUME NEW i \in Items
      PROVE  ReplyFirst(FailHolmesAnswerDelivery(i)) /\ WillReply(FailHolmesAnswerDelivery(i))
  BY <1>1, <1>5 DEF FailHolmesAnswerDelivery
<1>7. ASSUME NEW i \in Items, NEW c \in BOOLEAN
      PROVE  ReplyFirst(FailHolmesRequest(i, c)) /\ WillReply(FailHolmesRequest(i, c))
  BY <1>1, <1>5 DEF FailHolmesRequest
<1> QED BY <1>2, <1>6, <1>7

\* No submitter removes an hourglass.
LEMMA SubmitterGlass ==
  ASSUME NEW i \in Items,
         Submit(i) \/ Offer(i) \/ CronFires(i) \/ PostRoot(i) \/ OfferScheduled(i)
  PROVE  \E at : \E script \in Seq(Calls) : Submitted(i, at, script) /\ KeepsGlass(script)
<1> USE SingleGlass
<1>1. /\ <<>> \in Seq(Calls) /\ Add("eyes") \in Seq(Calls) /\ Add("x") \in Seq(Calls)
      /\ Count("ignored") \in Seq(Calls) /\ Count("dropped") \in Seq(Calls)
      /\ Count("run_failed") \in Seq(Calls) /\ Accepted \in Seq(Calls)
      /\ FailScheduledIntake \in Seq(Calls)
      /\ Count("failed") \in Seq(Calls) /\ Count("failed") \o Add("x") \in Seq(Calls)
      /\ Reply("intake") \in Seq(Calls) /\ Reply("intake") \o Add("x") \in Seq(Calls)
      /\ Remove("eyes") \in Seq(Calls) /\ Transition("eyes", "x") \in Seq(Calls)
      /\ Count("dropped") \o Transition("eyes", "x") \in Seq(Calls)
  BY CallTypes, ScriptTypes, ConcatTypes DEF Reactions, Labels, Replies, FailureReplies
<1>2. /\ KeepsGlass(Accepted) /\ KeepsGlass(Count("failed") \o Add("x"))
      /\ KeepsGlass(Transition("eyes", "x")) /\ KeepsGlass(Reply("intake") \o Add("x"))
  BY <1>1, ConcatGlass DEF Accepted, Transition
<1>3. KeepsGlass(FailScheduledIntake) /\ KeepsGlass(Count("dropped") \o Transition("eyes", "x"))
  BY <1>1, <1>2, ConcatGlass DEF FailScheduledIntake
<1>4. CASE Submit(i)
  BY <1>1, <1>2, <1>4 DEF Submit, RejectMarker, IgnoreUnmarked, TakeReadLock
<1>5. CASE Offer(i)
  BY <1>1, <1>2, <1>3, <1>5 DEF Offer
<1>6. CASE CronFires(i) \/ PostRoot(i)
  BY <1>1, <1>6 DEF CronFires, PostRoot
<1>7. CASE OfferScheduled(i)
  BY <1>1, <1>3, <1>7 DEF OfferScheduled
<1> QED BY <1>4, <1>5, <1>6, <1>7

---------------------------------------------------------------------------
(* The invariant *)

\* There is something to see of item i.
Shown(i) == RepliesOf(i) # {} \/ "hourglass" \in reactions[Message[i]]

\* Worker w handles a scheduled run: its first sign is the hourglass, which goes
\* only after a reply.  A worker whose calls fail because workCtx is cancelled
\* leaves the hourglass; one that sees the cancellation first still has a reply
\* to make, on a context of its own.
Visible(w) ==
  /\ wpc[w] \notin {"verify", "history"}
  /\ wpc[w] = "chat" => \/ todo[w] = Add("hourglass")
                        \/ todo[w] = <<>> /\ (Shown(job[w]) \/ Cancelled)
  /\ wpc[w] = "deliver" => todo[w] = <<>> /\ Shown(job[w])
  /\ wpc[w] = "finish" =>
       \/ RepliesOf(job[w]) # {}
       \/ "hourglass" \in reactions[Message[job[w]]] /\ (ReplyFirst(todo[w]) \/ ~Alive(w))
       \/ ctx[w] # "work" /\ WillReply(todo[w])

RunInv ==
  ~SlackFaults /\ ReportsInTime =>
    /\ \A i \in Items : KeepsGlass(todo[i])
    /\ \A i \in Scheduled \cap finished : Shown(i)
    /\ \A w \in Workers : job[w] \in Scheduled => Visible(w)

\* There is no run at first.
LEMMA InitRun == Init => RunInv
BY SingleGlass, ServiceAssumption DEF Init, RunInv, Scheduled

\* What a step of worker w does to the hourglasses and to its own run.
GlassStep(w) ==
  /\ UNCHANGED stage
  /\ \A v \in Workers \ {w} : ctx'[v] = ctx[v]
  /\ \/ UNCHANGED reactions
     \/ /\ job[w] \in Items
        /\ \A m \in Messages :
             m # Message[job[w]] /\ "hourglass" \in reactions[m] => "hourglass" \in reactions'[m]
  /\ job'[w] \in Scheduled => Visible(w)'
  /\ \A i \in finished' : i \in finished \/ (i \in Scheduled => Shown(i)')

\* Replies are never taken back.
LEMMA RepliesGrow ==
  ASSUME TypeInv, TypeInv', NEW w \in Workers, AnswerStep(w)
  PROVE  \A j \in Items : RepliesOf(j) \subseteq RepliesOf(j)'
<1>1. CASE UNCHANGED thread
  BY <1>1 DEF RepliesOf
<1>2. CASE thread' # thread
  <2>1. PICK i \in Items, k \in Replies : i = job[w] /\ Post(i, k)
    BY <1>2 DEF AnswerStep, TypeInv, HoldsJob
  <2>2. RepliesOf(i)' = RepliesOf(i) \cup {k} /\ \A j \in Items \ {i} : RepliesOf(j)' = RepliesOf(j)
    BY <2>1, PostAdds
  <2> QED BY <2>2
<1> QED BY <1>1, <1>2

\* A worker's step keeps the invariant.
LEMMA RunKeeps ==
  ASSUME TypeInv, TypeInv', UniqueInv, RunInv, NEW w \in Workers, AnswerStep(w),
         expired' = expired, ~SlackFaults /\ ReportsInTime => GlassStep(w)
  PROVE  RunInv'
<1> USE ServiceAssumption
<1> SUFFICES ASSUME ~SlackFaults, ReportsInTime
             PROVE  /\ \A i \in Items : KeepsGlass(todo[i])'
                    /\ \A i \in Scheduled \cap finished' : Shown(i)'
                    /\ \A v \in Workers : job'[v] \in Scheduled => Visible(v)'
  BY DEF RunInv, ReportsInTime
<1>1. /\ \A i \in Items : KeepsGlass(todo[i])
      /\ \A i \in Scheduled \cap finished : Shown(i)
      /\ \A v \in Workers : job[v] \in Scheduled => Visible(v)
      /\ GlassStep(w)
  BY DEF RunInv
<1>2. \A i \in Items : KeepsGlass(todo[i])'
  BY <1>1 DEF AnswerStep
<1>3. ASSUME NEW i \in Scheduled, i # job[w] PROVE /\ RepliesOf(i) \subseteq RepliesOf(i)'
                                                   /\ "hourglass" \in reactions[Message[i]] =>
                                                        "hourglass" \in reactions'[Message[i]]
  <2>1. i \in Items /\ Message[i] \in Messages /\ Kind[i] = "scheduled"
    BY DEF Scheduled
  <2>2. job[w] \in Items => Message[i] # Message[job[w]]
    BY <1>3, <2>1
  <2> QED BY <1>1, <2>1, <2>2, RepliesGrow DEF GlassStep
<1>4. ASSUME NEW i \in Scheduled, i \in finished' PROVE Shown(i)'
  <2>1. CASE i \notin finished
    BY <1>1, <1>4, <2>1 DEF GlassStep
  <2>2. CASE i \in finished
    <3>1. i # job[w] /\ Shown(i)
      BY <1>1, <2>2 DEF UniqueInv
    <3> QED BY <1>3, <3>1 DEF Shown
  <2> QED BY <2>1, <2>2
<1>5. ASSUME NEW v \in Workers, job'[v] \in Scheduled PROVE Visible(v)'
  <2>1. CASE v = w
    BY <1>1, <1>5, <2>1 DEF GlassStep
  <2>2. CASE v # w
    <3>1. /\ wpc'[v] = wpc[v] /\ job'[v] = job[v] /\ todo'[v] = todo[v]
          /\ ctx'[v] = ctx[v] /\ stage' = stage
      BY <1>1, <2>2 DEF GlassStep, AnswerStep
    <3>2. PICK i \in Scheduled : i = job[v]
      BY <1>5, <3>1
    <3>3. i # job[w] /\ Visible(v) /\ i \in Items
      BY <1>1, <2>2, <3>2 DEF UniqueInv, Scheduled
    <3>4. /\ RepliesOf(i) \subseteq RepliesOf(i)'
          /\ "hourglass" \in reactions[Message[i]] => "hourglass" \in reactions'[Message[i]]
      BY <1>3, <3>3
    <3>5. /\ RepliesOf(job[v]) # {} => RepliesOf(job[v])' # {}
          /\ "hourglass" \in reactions[Message[job[v]]] => "hourglass" \in reactions'[Message[job'[v]]]
      <4>1. RepliesOf(i) # {} => RepliesOf(i)' # {}
        BY <3>4
      <4>2. RepliesOf(job[v])' = RepliesOf(i)' /\ RepliesOf(job[v]) = RepliesOf(i)
        BY <3>1, <3>2 DEF RepliesOf
      <4> QED BY <3>1, <3>2, <3>4, <4>1, <4>2
    <3>6. Shown(job[v]) => Shown(job[v])'
      BY <3>5 DEF Shown
    <3>7. (Alive(v)' <=> Alive(v)) /\ (Cancelled' <=> Cancelled)
      BY <3>1 DEF Alive, Cancelled
    <3> QED BY <3>1, <3>3, <3>5, <3>6, <3>7 DEF Visible
  <2> QED BY <2>1, <2>2
<1> QED BY <1>2, <1>4, <1>5

---------------------------------------------------------------------------
(* The steps of a worker *)

\* A step that ends in Goto and lets no item go.
LEMMA GlassGoto ==
  ASSUME TypeInv, NEW w \in Workers, NEW to, NEW script, Goto(w, to, script),
         \A v \in Workers \ {w} : ctx'[v] = ctx[v], UNCHANGED finished,
         job'[w] \in Scheduled => Visible(w)'
  PROVE  GlassStep(w)
BY DEF Goto, slackVars, GlassStep, runVars

\* What is shown stays shown when nothing is written.
LEMMA ShownStays ==
  ASSUME UNCHANGED <<thread, reactions>>, NEW i
  PROVE  (Shown(i)' <=> Shown(i)) /\ RepliesOf(i)' = RepliesOf(i)
BY DEF Shown, RepliesOf

\* Every step of a worker is a step of GlassStep.
LEMMA GlassSteps ==
  ASSUME TypeInv, TypeInv', UniqueInv, PlaceInv, ShutdownInv, AnswerInv, RunInv, ~SlackFaults,
         ReportsInTime, NEW w \in Workers, AnswerStep(w),
         BestEffort(w) \/ Take(w) \/ SkipCancelled(w) \/ Dispatch(w) \/ LockThread(w) \/ Verify(w)
           \/ ReadHistory(w) \/ Chat(w) \/ DeliverPart(w) \/ Conclude(w) \/ Finish(w) \/ Exit(w)
  PROVE  GlassStep(w)
<1> USE ServiceAssumption
<1>1. /\ wpc \in [Workers -> WorkerStates] /\ todo \in [Items \cup Workers -> Seq(Calls)]
      /\ job \in [Workers -> Items \cup {None}]
      /\ ctx \in [Workers -> {"work", "background", "deadline", "fresh"}]
      /\ answer \in [Workers -> [parts : 0 .. MaxParts + 1, failed : BOOLEAN,
                                 tooLarge : BOOLEAN, sent : 0 .. MaxParts]]
      /\ reactions \in [Messages -> SUBSET Reactions]
  BY DEF TypeInv, TypeOK
<1>2. /\ job[w] \in Scheduled => Visible(w)
      /\ Handling(w)
  BY DEF RunInv, AnswerInv
<1>3. wpc[w] \notin {"idle", "exited"} => job[w] \in Items
  BY DEF TypeInv, HoldsJob
<1>4. /\ Scheduled \subseteq Items /\ None \notin Scheduled
      /\ \A i \in Scheduled : Kind[i] = "scheduled" /\ Thread[i] = Message[i]
  BY DEF Scheduled
<1>5. CASE BestEffort(w)
  <2> DEFINE c == Head(todo[w])
  <2>1. /\ todo[w] \in Seq(Calls) /\ todo[w] # <<>>
        /\ todo' = [todo EXCEPT ![w] = Tail(@)]
        /\ UNCHANGED <<stage, expired, wpc, job, ctx, finished>>
    BY <1>1, <1>5 DEF BestEffort, workerVars, runVars
  <2>2. job[w] \in Items /\ todo'[w] = Tail(todo[w])
    BY <1>1, <2>1 DEF TypeInv, HoldsJob
  <2>3. /\ ReplyFirst(todo[w]) => ~TakesGlass(c) /\ (~IsReply(c) => ReplyFirst(Tail(todo[w])))
        /\ WillReply(todo[w]) /\ ~IsReply(c) => WillReply(Tail(todo[w]))
    BY <2>1, TailGlass
  <2>4. c \in Calls
    BY <2>1
  <2>5. \/ Apply(c, job[w]) /\ (c.op = "count" \/ Alive(w))
        \/ ~Alive(w) /\ UNCHANGED <<reactions, thread>>
    BY <1>5 DEF BestEffort, Outcomes, ItemOf, runVars
  <2>6. ASSUME UNCHANGED thread PROVE RepliesOf(job[w])' = RepliesOf(job[w])
    BY <2>1, <2>6 DEF RepliesOf
  <2>7. (Alive(w)' <=> Alive(w)) /\ (Cancelled' <=> Cancelled) /\ (~Alive(w) => Cancelled /\ ctx[w] = "work")
    BY <2>1 DEF Alive, Cancelled, ReportsInTime
  <2> HIDE DEF c
  <2>8. CASE ~Alive(w) /\ UNCHANGED <<reactions, thread>>
    <3>1. (Shown(job[w])' <=> Shown(job[w])) /\ RepliesOf(job[w])' = RepliesOf(job[w])
      BY <2>1, <2>6, <2>8 DEF Shown
    <3>2. todo[w] = Add("hourglass") => Tail(todo[w]) = <<>>
      BY DEF Add
    <3>3. ASSUME job[w] \in Scheduled PROVE Visible(w)'
      BY <1>2, <2>1, <2>2, <2>7, <2>8, <3>1, <3>2, <3>3 DEF Visible
    <3> QED BY <2>1, <2>8, <3>3 DEF GlassStep
  <2>9. CASE c.op = "reply" /\ Post(job[w], c.arg) /\ UNCHANGED reactions
    <3>1. c.arg \in Replies
      BY <2>4, <2>9 DEF Calls
    <3>2. PICK i \in Items, k \in Replies : i = job[w] /\ k = c.arg /\ Post(i, k)
      BY <2>2, <2>9, <3>1
    <3>3. RepliesOf(i)' = RepliesOf(i) \cup {k}
      BY <3>2, PostAdds
    <3>4. RepliesOf(job[w])' # {}
      <4>1. RepliesOf(job[w])' = RepliesOf(i)'
        BY <2>1, <3>2 DEF RepliesOf
      <4> QED BY <3>3, <4>1
    <3>5. ~OnlyReplies(todo[w], {})
      BY <2>1, <2>9, TailReplies DEF c
    <3>6. wpc[w] = "finish"
      BY <1>2, <3>5 DEF Handling, Quiet
    <3> QED BY <2>1, <2>9, <3>4, <3>6 DEF GlassStep, Visible
  <2>10. CASE /\ UNCHANGED thread /\ ~IsReply(c) /\ Apply(c, job[w])
              /\ c.op = "count" \/ Alive(w)
    <3>1. Message[job[w]] \in Messages
      BY <2>2
    <3>2. \A m \in Messages : m # Message[job[w]] => reactions'[m] = reactions[m]
      BY <1>1, <2>10 DEF Apply, IsReply
    <3>3. /\ ~TakesGlass(c) /\ "hourglass" \in reactions[Message[job[w]]]
               => "hourglass" \in reactions'[Message[job[w]]]
          /\ c.op = "add" /\ c.arg = "hourglass" => "hourglass" \in reactions'[Message[job[w]]]
      BY <1>1, <2>10, <3>1 DEF Apply, IsReply, TakesGlass
    <3>4. RepliesOf(job[w])' = RepliesOf(job[w])
      BY <2>6, <2>10
    <3>5. todo[w] = Add("hourglass") => /\ Tail(todo[w]) = <<>>
                                        /\ c.op = "add" /\ c.arg = "hourglass"
      BY DEF Add, c
    <3>6. ASSUME job[w] \in Scheduled PROVE Visible(w)'
      <4>1. CASE wpc[w] = "chat"
        <5>1. "hourglass" \in reactions'[Message[job[w]]] /\ todo'[w] = <<>>
          BY <1>2, <2>1, <2>2, <3>3, <3>5, <3>6, <4>1 DEF Visible
        <5> QED BY <2>1, <4>1, <5>1 DEF Visible, Shown
      <4>2. CASE wpc[w] = "finish"
        <5>1. CASE RepliesOf(job[w]) # {}
          <6>1. RepliesOf(job[w])' # {}
            BY <3>4, <5>1
          <6> QED BY <2>1, <4>2, <6>1 DEF Visible
        <5>2. CASE "hourglass" \in reactions[Message[job[w]]] /\ ReplyFirst(todo[w])
          <6>1. "hourglass" \in reactions'[Message[job'[w]]] /\ ReplyFirst(todo'[w])
            BY <2>1, <2>2, <2>3, <2>10, <3>3, <5>2
          <6> QED BY <2>1, <4>2, <6>1 DEF Visible
        <5>3. CASE "hourglass" \in reactions[Message[job[w]]] /\ ~Alive(w)
          <6>1. ~TakesGlass(c)
            BY <2>10, <5>3 DEF TakesGlass
          <6>2. "hourglass" \in reactions'[Message[job'[w]]] /\ ~(Alive(w)')
            BY <2>1, <2>7, <3>3, <5>3, <6>1
          <6> QED BY <2>1, <4>2, <6>2 DEF Visible
        <5>4. CASE ctx[w] # "work" /\ WillReply(todo[w])
          <6>1. ctx'[w] # "work" /\ WillReply(todo'[w])
            BY <2>1, <2>2, <2>3, <2>10, <5>4
          <6> QED BY <2>1, <4>2, <6>1 DEF Visible
        <5> QED BY <1>2, <3>6, <4>2, <5>1, <5>2, <5>3, <5>4 DEF Visible
      <4>3. CASE wpc[w] \notin {"chat", "finish"}
        BY <1>2, <2>1, <3>6, <4>3 DEF Visible
      <4> QED BY <4>1, <4>2, <4>3
    <3> QED BY <2>1, <2>2, <3>2, <3>6 DEF GlassStep
  <2> QED BY <2>5, <2>8, <2>9, <2>10 DEF Apply, IsReply
<1>6. CASE Take(w)
  <2>1. Goto(w, "received", <<>>) /\ UNCHANGED finished /\ \A v \in Workers \ {w} : ctx'[v] = ctx[v]
    BY <1>1, <1>6 DEF Take
  <2>2. Visible(w)'
    BY <1>1, <2>1 DEF Goto, Visible, runVars
  <2> QED BY <2>1, <2>2, GlassGoto
<1>7. CASE SkipCancelled(w)
  <2>1. stage = "forced" /\ replyCtx = "deadline"
    BY <1>7 DEF SkipCancelled, At, Cancelled, ShutdownInv, Drained
  <2>2. CASE ReportedOnShutdown(job[w])
    <3>1. /\ Goto(w, "finish", FailScheduledShutdown) /\ UNCHANGED <<job, finished>>
          /\ ctx' = [ctx EXCEPT ![w] = replyCtx]
      BY <1>7, <2>2 DEF SkipCancelled
    <3>2. wpc'[w] = "finish" /\ todo'[w] = FailScheduledShutdown /\ ctx'[w] = "deadline"
      BY <1>1, <2>1, <3>1 DEF Goto, runVars
    <3>3. Visible(w)'
      BY <3>2, FailureGlass DEF Visible
    <3>4. \A v \in Workers \ {w} : ctx'[v] = ctx[v]
      BY <1>1, <3>1
    <3> QED BY <3>1, <3>3, <3>4, GlassGoto
  <2>3. CASE ~ReportedOnShutdown(job[w])
    <3>1. Goto(w, "idle", <<>>) /\ job'[w] = None /\ UNCHANGED <<ctx, finished>>
      BY <1>1, <1>7, <2>3 DEF SkipCancelled
    <3> QED BY <1>4, <3>1, GlassGoto
  <2> QED BY <2>2, <2>3
<1>8. CASE Dispatch(w)
  <2>1. UNCHANGED <<job, ctx, finished>>
    BY <1>8 DEF Dispatch
  <2>2. CASE Kind[job[w]] = "resolved"
    BY <1>4, <1>8, <2>1, <2>2, GlassGoto DEF Dispatch
  <2>3. CASE Kind[job[w]] # "resolved"
    <3>1. Goto(w, "lock", <<>>)
      BY <1>8, <2>3 DEF Dispatch
    <3>2. Visible(w)'
      BY <1>1, <3>1 DEF Goto, Visible, runVars
    <3> QED BY <2>1, <3>1, <3>2, GlassGoto
  <2> QED BY <2>2, <2>3
<1>9. CASE LockThread(w)
  <2> DEFINE script == IF AfterLock(job[w]) = "chat" THEN BeginHolmes(job[w]) ELSE <<>>
  <2>1. Goto(w, AfterLock(job[w]), script) /\ UNCHANGED <<job, ctx, finished>>
    BY <1>9 DEF LockThread
  <2>2. ASSUME job[w] \in Scheduled PROVE Visible(w)'
    <3>1. AfterLock(job[w]) = "chat" /\ BeginHolmes(job[w]) = Add("hourglass")
      BY <1>4, <2>2 DEF AfterLock, BeginHolmes
    <3>2. wpc'[w] = "chat" /\ todo'[w] = Add("hourglass")
      BY <1>1, <2>1, <3>1 DEF Goto, runVars
    <3> QED BY <3>2 DEF Visible
  <2> HIDE DEF script
  <2> QED BY <2>1, <2>2, GlassGoto
<1>10. CASE Verify(w)
  <2>1. wpc[w] = "verify" /\ UNCHANGED <<job, ctx, finished>>
    BY <1>10 DEF Verify, At
  <2> QED BY <1>2, <1>10, <2>1, GlassGoto DEF Verify, Visible
<1>11. CASE ReadHistory(w)
  <2>1. wpc[w] = "history" /\ UNCHANGED <<job, ctx, finished>>
    BY <1>11 DEF ReadHistory, At
  <2> QED BY <1>2, <1>11, <2>1, GlassGoto DEF ReadHistory, Visible
<1>12. CASE Chat(w)
  <2>1. /\ wpc[w] = "chat" /\ todo[w] = <<>> /\ job[w] \in Items /\ Cancelled \in BOOLEAN
        /\ UNCHANGED <<job, finished>>
    BY <1>3, <1>12 DEF Chat, At, Cancelled
  <2>2. PICK a \in Answers(Cancelled) :
          IF a.parts = 0 THEN RequestFails(w) ELSE Goto(w, "deliver", <<>>) /\ UNCHANGED ctx
    BY <1>12 DEF Chat
  <2>3. job[w] \in Scheduled => Shown(job[w]) \/ Cancelled
    <3>1. Add("hourglass") # <<>>
      BY DEF Add
    <3> QED BY <1>2, <2>1, <3>1 DEF Visible
  <2>4. CASE a.parts = 0
    <3>1. /\ Goto(w, "finish", FailHolmesRequest(job[w], Cancelled))
          /\ ctx' = [ctx EXCEPT ![w] = FailureContext]
      BY <2>2, <2>4 DEF RequestFails
    <3>2. /\ wpc'[w] = "finish" /\ todo'[w] = FailHolmesRequest(job[w], Cancelled)
          /\ ctx'[w] = FailureContext /\ job' = job /\ UNCHANGED <<thread, reactions>>
          /\ \A v \in Workers \ {w} : ctx'[v] = ctx[v]
      BY <1>1, <2>1, <3>1 DEF Goto, slackVars, runVars
    <3>3. ReplyFirst(todo'[w]) /\ WillReply(todo'[w])
      BY <2>1, <3>2, FailureGlass
    <3>4. ASSUME job[w] \in Scheduled PROVE Visible(w)'
      <4>1. CASE Cancelled
        BY <3>2, <3>3, <4>1 DEF Visible, FailureContext
      <4>2. CASE Shown(job[w])
        <5>1. RepliesOf(job[w])' = RepliesOf(job[w])
          BY <3>2 DEF RepliesOf
        <5> QED BY <3>2, <3>3, <4>2, <5>1 DEF Visible, Shown
      <4> QED BY <2>3, <3>4, <4>1, <4>2
    <3> QED BY <2>1, <3>1, <3>2, <3>4, GlassGoto
  <2>5. CASE a.parts # 0
    <3>1. ~Cancelled
      <4>1. ASSUME Cancelled PROVE FALSE
        <5>1. a \in [parts : {0}, failed : {TRUE}, tooLarge : {FALSE}, sent : {0}]
          BY <2>2, <4>1 DEF Answers
        <5> QED BY <2>5, <5>1
      <4> QED BY <4>1
    <3>2. Goto(w, "deliver", <<>>) /\ UNCHANGED ctx
      BY <2>2, <2>5
    <3>3. wpc'[w] = "deliver" /\ todo'[w] = <<>> /\ job' = job /\ UNCHANGED <<thread, reactions>>
      BY <1>1, <2>1, <3>2 DEF Goto, slackVars, runVars
    <3>4. ASSUME job[w] \in Scheduled PROVE Visible(w)'
      <4>1. Shown(job[w])'
        BY <2>3, <3>1, <3>3, <3>4 DEF Shown, RepliesOf
      <4> QED BY <3>3, <4>1 DEF Visible
    <3> QED BY <2>1, <3>2, <3>4, GlassGoto
  <2> QED BY <2>4, <2>5
<1>13. CASE DeliverPart(w)
  <2>1. wpc[w] = "deliver" /\ job[w] \in Items /\ todo[w] = <<>>
    BY <1>3, <1>13 DEF DeliverPart, At, runVars
  <2>2. /\ UNCHANGED <<stage, job, ctx, finished, reactions>>
        /\ \/ UNCHANGED <<wpc, todo>>
           \/ /\ wpc' = [wpc EXCEPT ![w] = "finish"]
              /\ todo' = [todo EXCEPT ![w] = FailHolmesAnswerDelivery(job[w])]
    BY <1>13 DEF DeliverPart, runVars
  <2>3. \/ wpc'[w] = "deliver" /\ todo'[w] = <<>>
        \/ wpc'[w] = "finish" /\ todo'[w] = FailHolmesAnswerDelivery(job[w])
    BY <1>1, <2>1, <2>2
  <2>4. ReplyFirst(FailHolmesAnswerDelivery(job[w]))
    BY <2>1, FailureGlass
  <2>5. RepliesOf(job[w]) # {} => RepliesOf(job[w])' # {}
    <3>1. PICK i \in Items : i = job[w]
      BY <2>1
    <3>2. RepliesOf(i) # {} => RepliesOf(i)' # {}
      BY RepliesGrow
    <3> QED BY <2>2, <3>1, <3>2 DEF RepliesOf
  <2>6. ASSUME job[w] \in Scheduled PROVE Visible(w)'
    <3>1. Shown(job[w])
      BY <1>2, <2>1, <2>6 DEF Visible
    <3>2. RepliesOf(job[w])' # {} \/ "hourglass" \in reactions'[Message[job'[w]]]
      BY <2>2, <2>5, <3>1 DEF Shown
    <3>3. Shown(job[w])'
      BY <3>2 DEF Shown
    <3> QED BY <2>3, <2>4, <3>2, <3>3 DEF Visible
  <2> QED BY <2>2, <2>6 DEF GlassStep
<1>14. CASE Conclude(w)
  <2>1. /\ wpc[w] = "deliver" /\ job[w] \in Items /\ Cancelled \in BOOLEAN
        /\ answer[w].sent = PartsToSend(w) /\ UNCHANGED <<job, finished>>
    BY <1>3, <1>14 DEF Conclude, At, Cancelled
  <2>2. \A v \in Workers \ {w} : ctx'[v] = ctx[v]
    BY <1>1, <1>14 DEF Conclude, RequestFails, DeliveryFails
  <2>3. answer[w].sent > 0
    <3>1. answer[w].parts > 0 /\ answer[w].parts \in 0 .. MaxParts + 1
      BY <1>1, <1>2, <2>1 DEF Handling
    <3> QED BY <2>1, <3>1 DEF PartsToSend
  <2>4. RepliesOf(job[w]) # {}
    BY <1>2, <2>1, <2>3 DEF Handling
  <2>5. PICK script : Goto(w, "finish", script)
    BY <1>14 DEF Conclude, RequestFails, DeliveryFails
  <2>6. wpc'[w] = "finish" /\ job' = job /\ UNCHANGED thread
    BY <1>1, <2>1, <2>5 DEF Goto, slackVars, runVars
  <2>7. RepliesOf(job[w])' # {}
    BY <2>4, <2>6 DEF RepliesOf
  <2>8. Visible(w)'
    BY <2>6, <2>7 DEF Visible
  <2> QED BY <2>1, <2>2, <2>5, <2>8, GlassGoto
<1>15. CASE Finish(w)
  <2>1. /\ finished' = finished \cup {job[w]} /\ job' = [job EXCEPT ![w] = None]
        /\ UNCHANGED <<ctx, stage, thread, reactions>>
        /\ wpc[w] = "finish" /\ todo[w] = <<>> /\ job[w] \in Items
    BY <1>3, <1>15 DEF Finish, At, Goto, slackVars, runVars
  <2>2. ASSUME NEW i \in Scheduled, i = job[w] PROVE Shown(i)'
    <3>1. ~WillReply(todo[w])
      BY <2>1 DEF WillReply
    <3>2. Shown(i)
      BY <1>2, <2>1, <2>2, <3>1 DEF Visible, Shown
    <3> QED BY <2>1, <3>2, ShownStays
  <2>3. job'[w] \notin Scheduled
    BY <1>1, <1>4, <2>1
  <2> QED BY <2>1, <2>2, <2>3 DEF GlassStep
<1>16. CASE Exit(w)
  <2>1. job[w] = None /\ UNCHANGED <<job, ctx, finished>> /\ Goto(w, "exited", <<>>)
    BY <1>16 DEF Exit, At, TypeInv, HoldsJob
  <2> QED BY <1>4, <2>1, GlassGoto
<1> QED BY <1>5, <1>6, <1>7, <1>8, <1>9, <1>10, <1>11, <1>12, <1>13, <1>14, <1>15, <1>16

---------------------------------------------------------------------------
(* The other steps *)

\* A step that neither writes nor takes an hourglass, and leaves the workers alone.
LEMMA NothingHidden ==
  ASSUME UNCHANGED <<wpc, job, ctx, finished>>,
         \A w \in Workers : todo'[w] = todo[w],
         \A m \in Messages : "hourglass" \in reactions[m] => "hourglass" \in reactions'[m],
         \A i \in Items : RepliesOf(i) \subseteq RepliesOf(i)',
         \A i \in Items : KeepsGlass(todo[i])',
         Cancelled => Cancelled', expired \subseteq expired',
         RunInv
  PROVE  RunInv'
<1> USE ServiceAssumption
<1> SUFFICES ASSUME ~SlackFaults, ReportsInTime
             PROVE  /\ \A i \in Scheduled \cap finished : Shown(i)'
                    /\ \A w \in Workers : job[w] \in Scheduled => Visible(w)'
  BY DEF RunInv, ReportsInTime
<1>1. \A i \in Scheduled : i \in Items /\ Message[i] \in Messages
  BY DEF Scheduled
<1>2. \A i \in Scheduled : Shown(i) => Shown(i)'
  BY <1>1 DEF Shown
<1>3. ASSUME NEW w \in Workers, job[w] \in Scheduled PROVE Visible(w)'
  <2>1. PICK i \in Scheduled : i = job[w]
    BY <1>3
  <2>2. /\ Shown(i) => Shown(i)'
        /\ RepliesOf(i) # {} => RepliesOf(i)' # {}
        /\ "hourglass" \in reactions[Message[i]] => "hourglass" \in reactions'[Message[i]]
    BY <1>1, <1>2
  <2>3. /\ Shown(job[w]) => Shown(job[w])'
        /\ RepliesOf(job[w]) # {} => RepliesOf(job[w])' # {}
        /\ "hourglass" \in reactions[Message[job[w]]] => "hourglass" \in reactions'[Message[job'[w]]]
    BY <2>1, <2>2 DEF Shown, RepliesOf
  <2>4. ~Alive(w) => ~(Alive(w)')
    BY DEF Alive
  <2>5. Visible(w) /\ wpc'[w] = wpc[w] /\ todo'[w] = todo[w] /\ ctx'[w] = ctx[w]
    BY <1>3 DEF RunInv
  <2> QED BY <2>3, <2>4, <2>5 DEF Visible
<1> QED BY <1>2, <1>3 DEF RunInv

\* Every step keeps the invariant.
LEMMA NextRun ==
  ASSUME TypeInv, TypeInv', ShutdownInv, PlaceInv, UniqueInv, AnswerInv, RunInv, [Next]_vars
  PROVE  RunInv'
<1> USE ServiceAssumption
<1>1. ASSUME NEW i \in Items, BestEffort(i) PROVE RunInv'
  <2> SUFFICES ASSUME ~SlackFaults, ReportsInTime PROVE RunInv'
    BY <1>1 DEF RunInv, ReportsInTime, BestEffort, runVars
  <2>1. /\ todo[i] # <<>> /\ todo[i] \in Seq(Calls)
        /\ todo' = [todo EXCEPT ![i] = Tail(@)]
        /\ UNCHANGED <<stage, expired, wpc, job, ctx, finished>>
        /\ todo \in [Items \cup Workers -> Seq(Calls)]
        /\ reactions \in [Messages -> SUBSET Reactions]
        /\ ItemOf(i) = i
    BY <1>1 DEF BestEffort, workerVars, TypeInv, TypeOK, ItemOf, runVars
  <2>2. KeepsGlass(Tail(todo[i])) /\ ~TakesGlass(Head(todo[i]))
    BY <2>1, TailGlass DEF RunInv
  <2>3. \A j \in Items : KeepsGlass(todo[j])'
    <3>1. \A j \in Items : todo'[j] = IF j = i THEN Tail(todo[i]) ELSE todo[j]
      BY <2>1
    <3> QED BY <2>2, <3>1 DEF RunInv
  <2>4. \A w \in Workers : todo'[w] = todo[w]
    BY <2>1
  <2>5. \A m \in Messages : "hourglass" \in reactions[m] => "hourglass" \in reactions'[m]
    <3>1. Message[i] \in Messages
      OBVIOUS
    <3>2. \/ UNCHANGED reactions
          \/ reactions' = [reactions EXCEPT ![Message[i]] = @ \cup {Head(todo[i]).arg}]
          \/ /\ reactions' = [reactions EXCEPT ![Message[i]] = @ \ {Head(todo[i]).arg}]
             /\ Head(todo[i]).op = "remove"
      BY <1>1, <2>1 DEF BestEffort, Apply, runVars
    <3>3. \A m \in Messages :
            \/ reactions'[m] \in {reactions[m], reactions[m] \cup {Head(todo[i]).arg}}
            \/ /\ Head(todo[i]).op = "remove"
               /\ reactions'[m] = reactions[m] \ {Head(todo[i]).arg}
      BY <2>1, <3>1, <3>2
    <3> QED BY <2>2, <3>3 DEF TakesGlass
  <2>6. \A j \in Items : RepliesOf(j) \subseteq RepliesOf(j)'
    <3>1. CASE UNCHANGED thread
      BY <3>1 DEF RepliesOf
    <3>2. CASE thread' # thread
      <4>1. Post(i, Head(todo[i]).arg) /\ Head(todo[i]).op = "reply"
        BY <1>1, <2>1, <3>2 DEF BestEffort, Apply, runVars
      <4>2. Head(todo[i]).arg \in Replies
        <5>1. Head(todo[i]) \in Calls
          BY <2>1
        <5> QED BY <4>1, <5>1 DEF Calls
      <4>3. RepliesOf(i) \subseteq RepliesOf(i)' /\ \A j \in Items \ {i} : RepliesOf(j)' = RepliesOf(j)
        BY <4>1, <4>2, PostAdds
      <4> QED BY <4>3
    <3> QED BY <3>1, <3>2
  <2>7. Cancelled => Cancelled'
    BY <2>1 DEF Cancelled
  <2> QED BY <2>1, <2>3, <2>4, <2>5, <2>6, <2>7, NothingHidden
<1>2. ASSUME NEW w \in Workers,
             BestEffort(w) \/ Take(w) \/ SkipCancelled(w) \/ Dispatch(w) \/ LockThread(w)
               \/ Verify(w) \/ ReadHistory(w) \/ Chat(w) \/ DeliverPart(w) \/ Conclude(w)
               \/ Finish(w) \/ Exit(w)
      PROVE  RunInv'
  <2>1. AnswerStep(w)
    BY <1>2, AnswerSteps
  <2>2. ~SlackFaults /\ ReportsInTime => GlassStep(w)
    BY <1>2, <2>1, GlassSteps
  <2>3. expired' = expired
    BY <1>2, WorkersKeepTime DEF runVars
  <2> QED BY <2>1, <2>2, <2>3, RunKeeps
<1>3. ASSUME NEW i \in Items,
             Submit(i) \/ Offer(i) \/ CronFires(i) \/ PostRoot(i) \/ OfferScheduled(i)
      PROVE  RunInv'
  <2>0. expired' = expired
    BY <1>3, SubmittersKeepTime DEF runVars
  <2> SUFFICES ASSUME ~SlackFaults, ReportsInTime PROVE RunInv'
    BY <2>0 DEF RunInv, ReportsInTime
  <2>1. PICK at : \E script \in Seq(Calls) : Submitted(i, at, script) /\ KeepsGlass(script)
    BY <1>3, SubmitterGlass
  <2>2. PICK script \in Seq(Calls) : Submitted(i, at, script) /\ KeepsGlass(script)
    BY <2>1
  <2>3. /\ todo' = [todo EXCEPT ![i] = script]
        /\ UNCHANGED <<stage, wpc, job, ctx, finished, thread, reactions>>
        /\ todo \in [Items \cup Workers -> Seq(Calls)]
    BY <2>2 DEF Submitted, runVars, workerVars, slackVars, TypeInv, TypeOK
  <2>4. /\ \A j \in Items : todo'[j] = IF j = i THEN script ELSE todo[j]
        /\ \A w \in Workers : todo'[w] = todo[w]
    BY <2>3
  <2>5. \A j \in Items : KeepsGlass(todo[j])'
    BY <2>2, <2>4 DEF RunInv
  <2>6. \A j \in Items : RepliesOf(j) \subseteq RepliesOf(j)'
    BY <2>3 DEF RepliesOf
  <2>7. Cancelled => Cancelled'
    BY <2>3 DEF Cancelled
  <2> QED BY <2>0, <2>3, <2>4, <2>5, <2>6, <2>7, NothingHidden
<1>4. Shutdown \/ RunStep \/ CloserStep \/ OnlyTimePasses
        => /\ UNCHANGED <<todo, wpc, job, ctx, finished, thread, reactions>>
           /\ Cancelled => Cancelled'
           /\ expired \subseteq expired'
  BY DEF Shutdown, RunStep, StopScheduler, DrainTimeout, CancelWork, Return, Advance, CloserStep,
    SchedulerStopped, CloseQueue, runVars, workerVars, slackVars, OnlyTimePasses, Cancelled
<1>5. ASSUME UNCHANGED <<todo, wpc, job, ctx, finished, thread, reactions>>, Cancelled => Cancelled',
             expired \subseteq expired'
      PROVE  RunInv'
  <2> SUFFICES ASSUME ~SlackFaults, ReportsInTime PROVE RunInv'
    BY <1>5 DEF RunInv, ReportsInTime
  <2>1. \A i \in Items : KeepsGlass(todo[i])'
    BY <1>5 DEF RunInv
  <2>2. \A j \in Items : RepliesOf(j) \subseteq RepliesOf(j)'
    BY <1>5 DEF RepliesOf
  <2> QED BY <1>5, <2>1, <2>2, NothingHidden
<1> QED BY Steps, <1>1, <1>2, <1>3, <1>4, <1>5

---------------------------------------------------------------------------
\* When Slack answers, a scheduled run that has ended left a reply in its thread
\* or at least the hourglass on its root, wherever the forced cancellation met it:
\* in the queue, at Holmes, or between two of its calls.
THEOREM RunsStayVisible == Spec => []NoRunVanishes
<1>1. Spec => [](TypeInv /\ IntakeInv /\ ShutdownInv)
  BY InitTypes, NextTypes, InitIntake, NextIntake, InitShutdown, NextShutdown, PTL DEF Spec
<1>2. TypeInv /\ IntakeInv /\ ShutdownInv /\ PlaceInv /\ [Next]_vars => PlaceInv'
  BY NextPlace
<1>3. TypeInv /\ PlaceInv /\ UniqueInv /\ [Next]_vars => UniqueInv'
  BY NextUnique
<1>4. TypeInv /\ TypeInv' /\ PlaceInv /\ UniqueInv /\ AnswerInv /\ [Next]_vars => AnswerInv'
  BY NextAnswer
<1>5. TypeInv /\ TypeInv' /\ ShutdownInv /\ PlaceInv /\ UniqueInv /\ AnswerInv /\ RunInv /\ [Next]_vars
        => RunInv'
  BY NextRun
<1>6. RunInv => NoRunVanishes
  BY DEF RunInv, Shown, NoRunVanishes
<1> QED
  BY <1>1, <1>2, <1>3, <1>4, <1>5, <1>6, InitPlace, InitUnique, InitAnswer, InitRun, PTL DEF Spec

---------------------------------------------------------------------------
(* Contexts that end *)

\* Once the service's context has ended the Slack consumer's has, and only a worker
\* that met the forced cancellation makes its calls on another than workCtx.
ContextInv ==
  /\ stage # "serving" => ~ConsumerLives
  /\ \A w \in Workers : ctx[w] # "work" => Cancelled

\* Nothing has ended at first.
LEMMA InitContext == Init => ContextInv
BY DEF Init, ContextInv

\* Every step keeps it.
LEMMA NextContext == TypeInv /\ ShutdownInv /\ ContextInv /\ [Next]_vars => ContextInv'
<1> SUFFICES ASSUME TypeInv, ShutdownInv, ContextInv, [Next]_vars PROVE ContextInv'
  OBVIOUS
<1> USE ServiceAssumption DEF ContextInv, ConsumerLives, Cancelled
<1>1. ctx \in [Workers -> Contexts]
  BY DEF TypeInv, TypeOK, Contexts
<1>2. ASSUME NEW p \in Items \cup Workers, BestEffort(p) PROVE ContextInv'
  BY <1>2 DEF BestEffort, workerVars, runVars
<1>3. ASSUME NEW i \in Items,
             Submit(i) \/ Offer(i) \/ CronFires(i) \/ PostRoot(i) \/ OfferScheduled(i)
      PROVE  ContextInv'
  <2>1. ASSUME NEW at, NEW script, Submitted(i, at, script) PROVE ContextInv'
    BY <2>1 DEF Submitted, runVars, workerVars
  <2> QED BY <1>3, <2>1 DEF Submit, RejectMarker, IgnoreUnmarked, TakeReadLock, Offer, CronFires,
        PostRoot, OfferScheduled
<1>4. ASSUME NEW w \in Workers,
             Take(w) \/ SkipCancelled(w) \/ Dispatch(w) \/ LockThread(w) \/ Verify(w)
               \/ ReadHistory(w) \/ Chat(w) \/ DeliverPart(w) \/ Conclude(w) \/ Finish(w) \/ Exit(w)
      PROVE  ContextInv'
  <2>1. UNCHANGED <<stage, expired>>
    BY <1>4, WorkersKeepTime DEF runVars
  <2>2. \A v \in Workers : ctx'[v] = ctx[v] \/ ctx'[v] = "work" \/ Cancelled
    <3>1. RequestFails(w) => \A v \in Workers : ctx'[v] = ctx[v] \/ ctx'[v] = "work" \/ Cancelled
      BY <1>1 DEF RequestFails, FailureContext
    <3> QED BY <1>1, <1>4, <3>1 DEF Take, SkipCancelled, Dispatch, LockThread, Verify, ReadHistory,
          Chat, DeliverPart, Conclude, DeliveryFails, Finish, Exit
  <2> QED BY <2>1, <2>2
<1>5. CASE Shutdown \/ RunStep \/ CloserStep \/ OnlyTimePasses
  <2>1. ctx' = ctx /\ expired \subseteq expired' /\ (Cancelled => Cancelled')
        /\ (stage = "serving" => stage' = "serving" \/ "consumer" \in expired')
    BY <1>5 DEF Shutdown, RunStep, StopScheduler, DrainTimeout, CancelWork, Return, Advance,
      CloserStep, SchedulerStopped, CloseQueue, runVars, workerVars, OnlyTimePasses
  <2> QED BY <2>1
<1> QED BY Steps, <1>2, <1>3, <1>4, <1>5

---------------------------------------------------------------------------
(* What a list still holds *)

\* A list still holds the call op(arg).
Will(list, op, arg) == \E k \in DOMAIN list : list[k].op = op /\ list[k].arg = arg

\* It still holds a failure reply.
WillFail(list) == \E k \in FailureReplies : Will(list, "reply", k)

\* A concatenation holds what its parts hold.
LEMMA ConcatWill ==
  ASSUME NEW s \in Seq(Calls), NEW t \in Seq(Calls)
  PROVE  \A op, arg : Will(s \o t, op, arg) <=> Will(s, op, arg) \/ Will(t, op, arg)
<1>1. DOMAIN (s \o t) = 1 .. Len(s) + Len(t) /\ DOMAIN s = 1 .. Len(s) /\ DOMAIN t = 1 .. Len(t)
      /\ Len(s) \in Nat /\ Len(t) \in Nat
  OBVIOUS
<1>2. \A k \in 1 .. Len(s) + Len(t) : (s \o t)[k] = IF k <= Len(s) THEN s[k] ELSE t[k - Len(s)]
  OBVIOUS
<1> SUFFICES ASSUME NEW op, NEW arg
             PROVE  Will(s \o t, op, arg) <=> Will(s, op, arg) \/ Will(t, op, arg)
  OBVIOUS
<1>3. Will(s \o t, op, arg) => Will(s, op, arg) \/ Will(t, op, arg)
  BY <1>1, <1>2 DEF Will
<1>4. Will(s, op, arg) => Will(s \o t, op, arg)
  BY <1>1, <1>2 DEF Will
<1>5. ASSUME Will(t, op, arg) PROVE Will(s \o t, op, arg)
  <2>1. PICK k \in 1 .. Len(t) : t[k].op = op /\ t[k].arg = arg
    BY <1>1, <1>5 DEF Will
  <2>2. k + Len(s) \in 1 .. Len(s) + Len(t) /\ (s \o t)[k + Len(s)] = t[k]
    BY <1>1, <1>2
  <2> QED BY <1>1, <2>1, <2>2 DEF Will
<1> QED BY <1>3, <1>4, <1>5

\* A list holds its head and what the rest of it holds.
LEMMA TailWill ==
  ASSUME NEW s \in Seq(Calls), s # <<>>
  PROVE  \A op, arg : Will(s, op, arg) <=> (Head(s).op = op /\ Head(s).arg = arg) \/ Will(Tail(s), op, arg)
<1>1. /\ Head(s) = s[1] /\ DOMAIN s = 1 .. Len(s) /\ Len(s) \in Nat \ {0}
      /\ DOMAIN Tail(s) = 1 .. Len(s) - 1
      /\ \A k \in 1 .. Len(s) - 1 : Tail(s)[k] = s[k + 1]
  OBVIOUS
<1> SUFFICES ASSUME NEW op, NEW arg
             PROVE  Will(s, op, arg) <=> (Head(s).op = op /\ Head(s).arg = arg) \/ Will(Tail(s), op, arg)
  OBVIOUS
<1>2. ASSUME Will(s, op, arg) PROVE (Head(s).op = op /\ Head(s).arg = arg) \/ Will(Tail(s), op, arg)
  <2>1. PICK k \in 1 .. Len(s) : s[k].op = op /\ s[k].arg = arg
    BY <1>1, <1>2 DEF Will
  <2>2. CASE k = 1
    BY <1>1, <2>1, <2>2
  <2>3. CASE k # 1
    <3>1. k - 1 \in 1 .. Len(s) - 1 /\ Tail(s)[k - 1] = s[k]
      BY <1>1, <2>1, <2>3
    <3> QED BY <1>1, <2>1, <3>1 DEF Will
  <2> QED BY <2>2, <2>3
<1>3. Head(s).op = op /\ Head(s).arg = arg => Will(s, op, arg)
  BY <1>1 DEF Will
<1>4. ASSUME Will(Tail(s), op, arg) PROVE Will(s, op, arg)
  <2>1. PICK k \in 1 .. Len(s) - 1 : Tail(s)[k].op = op /\ Tail(s)[k].arg = arg
    BY <1>1, <1>4 DEF Will
  <2>2. k + 1 \in 1 .. Len(s) /\ s[k + 1] = Tail(s)[k]
    BY <1>1, <2>1
  <2> QED BY <1>1, <2>1, <2>2 DEF Will
<1> QED BY <1>2, <1>3, <1>4

\* What a list of one call holds, and an empty one.
LEMMA SingleWill ==
  \A x : \A op, arg :
    /\ Will(Add(x), op, arg) <=> op = "add" /\ arg = x
    /\ Will(Remove(x), op, arg) <=> op = "remove" /\ arg = x
    /\ Will(Reply(x), op, arg) <=> op = "reply" /\ arg = x
    /\ Will(Count(x), op, arg) <=> op = "count" /\ arg = x
    /\ ~Will(<<>>, op, arg)
BY DEF Will, Add, Remove, Reply, Count

\* A change of reactions.
LEMMA TransitionWill ==
  ASSUME NEW r \in Reactions, NEW a \in Reactions
  PROVE  /\ Transition(r, a) \in Seq(Calls)
         /\ \A op, arg : Will(Transition(r, a), op, arg)
                           <=> (op = "remove" /\ arg = r) \/ (op = "add" /\ arg = a)
BY CallTypes, ConcatTypes, ConcatWill, SingleWill DEF Transition

\* The reactions and the replies of the lists that submitters are given.
LEMMA SubmitterWill ==
  \A op, arg : op # "count" =>
    /\ ~Will(Accepted, op, arg)
    /\ Will(FailScheduledIntake, op, arg) <=> (op = "reply" /\ arg = "intake") \/ (op = "add" /\ arg = "x")
    /\ Will(Count("failed") \o Add("x"), op, arg) <=> op = "add" /\ arg = "x"
    /\ Will(Count("dropped") \o Transition("eyes", "x"), op, arg)
         <=> (op = "remove" /\ arg = "eyes") \/ (op = "add" /\ arg = "x")
<1>1. /\ "eyes" \in Reactions /\ "x" \in Reactions /\ "intake" \in Replies
      /\ "failed" \in Labels /\ "dropped" \in Labels /\ "run_failed" \in Labels
  BY DEF Reactions, Replies, FailureReplies, Labels
<1>2. /\ Add("x") \in Seq(Calls) /\ Reply("intake") \in Seq(Calls)
      /\ Count("failed") \in Seq(Calls) /\ Count("dropped") \in Seq(Calls)
      /\ Count("run_failed") \in Seq(Calls) /\ Transition("eyes", "x") \in Seq(Calls)
  BY <1>1, CallTypes, TransitionWill
<1>3. Reply("intake") \o Add("x") \in Seq(Calls)
  BY <1>2, ConcatTypes
<1> SUFFICES ASSUME NEW op, NEW arg, op # "count"
             PROVE  /\ ~Will(Accepted, op, arg)
                    /\ Will(FailScheduledIntake, op, arg)
                         <=> (op = "reply" /\ arg = "intake") \/ (op = "add" /\ arg = "x")
                    /\ Will(Count("failed") \o Add("x"), op, arg) <=> op = "add" /\ arg = "x"
                    /\ Will(Count("dropped") \o Transition("eyes", "x"), op, arg)
                         <=> (op = "remove" /\ arg = "eyes") \/ (op = "add" /\ arg = "x")
  OBVIOUS
<1> DEFINE W(list) == Will(list, op, arg)
<1>a. \A s, t \in Seq(Calls) : W(s \o t) <=> W(s) \/ W(t)
  BY ConcatWill
<1>b. \A r, a \in Reactions :
        W(Transition(r, a)) <=> (op = "remove" /\ arg = r) \/ (op = "add" /\ arg = a)
  BY TransitionWill
<1>c. /\ \A x : W(Add(x)) <=> op = "add" /\ arg = x
      /\ \A x : W(Remove(x)) <=> op = "remove" /\ arg = x
      /\ \A x : W(Reply(x)) <=> op = "reply" /\ arg = x
      /\ \A x : ~W(Count(x))
      /\ ~W(<<>>)
  BY SingleWill
<1> HIDE DEF W
<1>4. ~W(Accepted)
  BY <1>c DEF Accepted
<1>5. W(FailScheduledIntake)
        <=> (op = "reply" /\ arg = "intake") \/ (op = "add" /\ arg = "x")
  BY <1>2, <1>3, <1>a, <1>c, ZenonT(60) DEF FailScheduledIntake
<1>6. W(Count("failed") \o Add("x")) <=> op = "add" /\ arg = "x"
  BY <1>2, <1>a, <1>c
<1>7. W(Count("dropped") \o Transition("eyes", "x"))
        <=> (op = "remove" /\ arg = "eyes") \/ (op = "add" /\ arg = "x")
  BY <1>1, <1>2, <1>a, <1>c, <1>b
<1> QED BY <1>4, <1>5, <1>6, <1>7 DEF W

\* Those of the lists that workers are given.
LEMMA WorkerWill ==
  ASSUME NEW i \in Items
  PROVE  \A op, arg : op # "count" =>
           /\ Will(FailVerification, op, arg)
                <=> (op = "reply" /\ arg = "verification") \/ (op = "remove" /\ arg = "eyes")
                      \/ (op = "add" /\ arg = "x")
           /\ Will(Resolve, op, arg) <=> (op = "remove" /\ arg = "eyes") \/ (op = "add" /\ arg = "green")
           /\ Will(FailHolmesRequest(i, FALSE), op, arg)
                <=> (op = "reply" /\ arg = "request") \/ (op = "remove" /\ arg = "hourglass")
                      \/ (op = "add" /\ arg = "x")
           /\ Will(FailHolmesAnswerDelivery(i), op, arg)
                <=> (op = "reply" /\ arg = "delivery") \/ (op = "remove" /\ arg = "hourglass")
                      \/ (op = "add" /\ arg = "x")
           /\ Will(Succeed(i), op, arg)
                <=> (op = "remove" /\ arg = "hourglass") \/ (op = "add" /\ arg = "check")
           /\ Will(BeginHolmes(i), op, arg)
                <=> (i \notin Scheduled /\ op = "remove" /\ arg = "eyes") \/ (op = "add" /\ arg = "hourglass")
<1>1. /\ "eyes" \in Reactions /\ "x" \in Reactions /\ "hourglass" \in Reactions
      /\ "check" \in Reactions /\ "green" \in Reactions
      /\ "verification" \in Replies /\ "request" \in Replies /\ "delivery" \in Replies
      /\ "failed" \in Labels /\ "resolved" \in Labels /\ "run_failed" \in Labels
  BY DEF Reactions, Replies, FailureReplies, Labels
<1>2. /\ \A r, a \in Reactions : Transition(r, a) \in Seq(Calls)
      /\ \A k \in Replies : Reply(k) \in Seq(Calls)
      /\ \A l \in Labels : Count(l) \in Seq(Calls)
  BY CallTypes, TransitionWill
<1>3. /\ Transition("eyes", "x") \in Seq(Calls) /\ Transition("hourglass", "x") \in Seq(Calls)
      /\ Transition("hourglass", "check") \in Seq(Calls)
      /\ Transition("eyes", "green") \in Seq(Calls) /\ Count("resolved") \in Seq(Calls)
  BY <1>1, <1>2
<1> SUFFICES ASSUME NEW op, NEW arg, op # "count"
             PROVE  /\ Will(FailVerification, op, arg)
                         <=> (op = "reply" /\ arg = "verification") \/ (op = "remove" /\ arg = "eyes")
                               \/ (op = "add" /\ arg = "x")
                    /\ Will(Resolve, op, arg) <=> (op = "remove" /\ arg = "eyes") \/ (op = "add" /\ arg = "green")
                    /\ Will(FailHolmesRequest(i, FALSE), op, arg)
                         <=> (op = "reply" /\ arg = "request") \/ (op = "remove" /\ arg = "hourglass")
                               \/ (op = "add" /\ arg = "x")
                    /\ Will(FailHolmesAnswerDelivery(i), op, arg)
                         <=> (op = "reply" /\ arg = "delivery") \/ (op = "remove" /\ arg = "hourglass")
                               \/ (op = "add" /\ arg = "x")
                    /\ Will(Succeed(i), op, arg)
                         <=> (op = "remove" /\ arg = "hourglass") \/ (op = "add" /\ arg = "check")
                    /\ Will(BeginHolmes(i), op, arg)
                         <=> (i \notin Scheduled /\ op = "remove" /\ arg = "eyes") \/ (op = "add" /\ arg = "hourglass")
  OBVIOUS
<1> DEFINE W(list) == Will(list, op, arg)
<1>a. \A s, t \in Seq(Calls) : W(s \o t) <=> W(s) \/ W(t)
  BY ConcatWill
<1>b. \A r, a \in Reactions :
        W(Transition(r, a)) <=> (op = "remove" /\ arg = r) \/ (op = "add" /\ arg = a)
  BY TransitionWill
<1>c. /\ \A x : W(Add(x)) <=> op = "add" /\ arg = x
      /\ \A x : W(Remove(x)) <=> op = "remove" /\ arg = x
      /\ \A x : W(Reply(x)) <=> op = "reply" /\ arg = x
      /\ \A x : ~W(Count(x))
      /\ ~W(<<>>)
  BY SingleWill
<1> HIDE DEF W
<1>d. /\ W(Transition("eyes", "x")) <=> (op = "remove" /\ arg = "eyes") \/ (op = "add" /\ arg = "x")
      /\ W(Transition("hourglass", "x"))
           <=> (op = "remove" /\ arg = "hourglass") \/ (op = "add" /\ arg = "x")
      /\ W(Transition("hourglass", "check"))
           <=> (op = "remove" /\ arg = "hourglass") \/ (op = "add" /\ arg = "check")
      /\ W(Transition("eyes", "green"))
           <=> (op = "remove" /\ arg = "eyes") \/ (op = "add" /\ arg = "green")
      /\ W(Transition("eyes", "hourglass"))
           <=> (op = "remove" /\ arg = "eyes") \/ (op = "add" /\ arg = "hourglass")
  BY <1>1, <1>b
<1>4. W(FailVerification)
        <=> (op = "reply" /\ arg = "verification") \/ (op = "remove" /\ arg = "eyes")
              \/ (op = "add" /\ arg = "x")
  <2>1. Reply("verification") \o Count("failed") \in Seq(Calls)
    BY <1>1, <1>2, ConcatTypes
  <2>2. W(Reply("verification") \o Count("failed")) <=> op = "reply" /\ arg = "verification"
    BY <1>1, <1>2, <1>a, <1>c, ZenonT(60)
  <2> QED BY <1>3, <2>1, <2>2, <1>a, <1>d DEF FailVerification
<1>5. W(Resolve) <=> (op = "remove" /\ arg = "eyes") \/ (op = "add" /\ arg = "green")
  BY <1>3, <1>a, <1>c, <1>d DEF Resolve
<1>6. ASSUME NEW k \in Replies
      PROVE  W(Count("failed") \o Reply(k) \o Transition("hourglass", "x") \o FailedRun(i))
               <=> (op = "reply" /\ arg = k) \/ (op = "remove" /\ arg = "hourglass")
                     \/ (op = "add" /\ arg = "x")
  <2>1. FailedRun(i) \in Seq(Calls) /\ ~W(FailedRun(i))
    <3>1. <<>> \in Seq(Calls) /\ Count("run_failed") \in Seq(Calls)
      BY <1>1, <1>2
    <3> QED BY <3>1, <1>c DEF FailedRun
  <2>2. Count("failed") \o Reply(k) \in Seq(Calls)
    BY <1>1, <1>2, ConcatTypes
  <2>3. W(Count("failed") \o Reply(k)) <=> op = "reply" /\ arg = k
    BY <1>1, <1>2, <1>a, <1>c, ZenonT(60)
  <2>4. Count("failed") \o Reply(k) \o Transition("hourglass", "x") \in Seq(Calls)
    BY <1>1, <1>2, <2>2, ConcatTypes
  <2>5. W(Count("failed") \o Reply(k) \o Transition("hourglass", "x"))
          <=> (op = "reply" /\ arg = k) \/ (op = "remove" /\ arg = "hourglass") \/ (op = "add" /\ arg = "x")
    BY <1>3, <2>2, <2>3, <1>a, <1>d
  <2> QED BY <2>1, <2>4, <2>5, <1>a
<1>7. W(Succeed(i)) <=> (op = "remove" /\ arg = "hourglass") \/ (op = "add" /\ arg = "check")
  <2> DEFINE label == CASE i \in Scheduled -> "run_success"
                        [] Kind[i] = "ask" -> "freeform"
                        [] OTHER -> "firing"
  <2>1. label \in Labels
    BY DEF Labels
  <2> HIDE DEF label
  <2>2. W(Transition("hourglass", "check") \o Count(label))
          <=> (op = "remove" /\ arg = "hourglass") \/ (op = "add" /\ arg = "check")
    BY <1>2, <1>3, <2>1, <1>a, <1>c, <1>d
  <2> QED BY <2>2 DEF Succeed, label
<1>8. W(BeginHolmes(i))
        <=> (i \notin Scheduled /\ op = "remove" /\ arg = "eyes") \/ (op = "add" /\ arg = "hourglass")
  BY <1>c, <1>d DEF BeginHolmes
<1>9. /\ W(FailHolmesRequest(i, FALSE))
           <=> (op = "reply" /\ arg = "request") \/ (op = "remove" /\ arg = "hourglass")
                 \/ (op = "add" /\ arg = "x")
      /\ W(FailHolmesAnswerDelivery(i))
           <=> (op = "reply" /\ arg = "delivery") \/ (op = "remove" /\ arg = "hourglass")
                 \/ (op = "add" /\ arg = "x")
  BY <1>1, <1>6 DEF FailHolmesRequest, FailHolmesAnswerDelivery
<1> QED BY <1>4, <1>5, <1>7, <1>8, <1>9 DEF W

---------------------------------------------------------------------------
(* Who answers for a reaction that is shown *)

\* Slack answers, and the shutdown is graceful.
Good == ~SlackFaults /\ Graceful

\* Worker w is going to take the reaction away.
TakesEyes(w) ==
  wpc[w] \in {"received", "lock", "verify", "history"} \/ Will(todo[w], "remove", "eyes")
EndsGlass(w) ==
  wpc[w] \in {"chat", "deliver"} \/ Will(todo[w], "remove", "hourglass")

\* The eyes on the message of item i are yet to be taken away, or nobody can
\* because the Slack consumer's context has ended.
EyesOwed(i) ==
  /\ i \in SlackItems
  /\ \/ sub[i] = "offering"
     \/ sub[i] = "dropped" /\ (~ConsumerLives \/ Will(todo[i], "remove", "eyes"))
     \/ sub[i] = "accepted" /\ i \notin finished /\ \A w \in Workers : job[w] = i => TakesEyes(w)

GlassOwed(i) == \E w \in Workers : job[w] = i /\ EndsGlass(w)

Refused == {"rejected", "dropped", "refused"}

\* A failure reply of item i is in its thread, or is to come.
Failing(i) == FailedVisibly(i) \/ \E w \in Workers : job[w] = i /\ WillFail(todo[w])

\* Item i is a reason why its message shows r.
Owes(i, r) ==
  /\ r = "eyes" => EyesOwed(i)
  /\ r = "hourglass" => GlassOwed(i)
  /\ r = "x" => \/ sub[i] \in Refused
                \/ sub[i] = "accepted" /\ Kind[i] # "resolved" /\ Failing(i)
  /\ r = "green" => sub[i] = "accepted" /\ Kind[i] = "resolved"

---------------------------------------------------------------------------
(* Which reaction an item ends with *)

\* The message of item i shows r, or the list will.
Marks(i, r, list) == r \in reactions[Message[i]] \/ Will(list, "add", r)

\* A failure that is seen or to come has its x, another end its own mark.
Ends(i, list) ==
  IF Kind[i] = "resolved" THEN Marks(i, "green", list)
  ELSE IF FailedVisibly(i) \/ WillFail(list) THEN Marks(i, "x", list)
  ELSE Marks(i, "check", list)

\* What the submitter of item i still has to do.
Submits(i) ==
  /\ \A r : Will(todo[i], "add", r) =>
       (r = "eyes" /\ sub[i] = "offering") \/ (r = "x" /\ sub[i] \in Refused)
  /\ \A r : Will(todo[i], "remove", r) => r = "eyes" /\ sub[i] = "dropped"
  /\ \A k : Will(todo[i], "reply", k) => i \in Scheduled /\ sub[i] \in Refused
  /\ sub[i] \in Refused /\ (ConsumerLives \/ i \in Scheduled) => Marks(i, "x", todo[i])

\* What worker w still has to do for its item i.
Handles(w, i) ==
  /\ \A r : Will(todo[w], "add", r) =>
       \/ r = "hourglass" /\ wpc[w] = "chat"
       \/ r = "green" /\ wpc[w] = "finish" /\ Kind[i] = "resolved"
       \/ r = "check" /\ wpc[w] = "finish" /\ Kind[i] # "resolved"
       \/ r = "x" /\ wpc[w] = "finish" /\ Kind[i] # "resolved" /\ (FailedVisibly(i) \/ WillFail(todo[w]))
  /\ \A r : Will(todo[w], "remove", r) => r \in {"eyes", "hourglass"}
  /\ \A k : Will(todo[w], "reply", k) => wpc[w] = "finish" /\ Kind[i] # "resolved"
  /\ wpc[w] \in {"lock", "verify", "history", "chat", "deliver"} => Kind[i] # "resolved"
  /\ wpc[w] = "finish" => Ends(i, todo[w])

ReactInv ==
  Good =>
    /\ \A i \in Items : Submits(i)
    /\ \A w \in Workers : \A i \in Items : job[w] = i => Handles(w, i)
    /\ \A m \in Messages : \A r \in reactions[m] : \E i \in Items : Message[i] = m /\ Owes(i, r)
    /\ \A i \in finished : Ends(i, <<>>)
    /\ \A i \in Items : Kind[i] = "resolved" => RepliesOf(i) = {}

\* Nothing is shown at first, and nothing to do.
LEMMA InitReact == Init => ReactInv
<1> SUFFICES ASSUME Init PROVE ReactInv
  OBVIOUS
<1> USE ServiceAssumption
<1>1. \A op, arg : ~Will(<<>>, op, arg)
  BY SingleWill
<1>2. /\ \A i \in Items : todo[i] = <<>> /\ sub[i] = "new"
      /\ \A w \in Workers : job[w] = None
      /\ \A m \in Messages : reactions[m] = {} /\ thread[m] = <<>>
      /\ finished = {}
  BY DEF Init
<1>3. \A i \in Items : Submits(i)
  BY <1>1, <1>2 DEF Submits, Refused
<1>4. \A i \in Items : RepliesOf(i) = {}
  BY <1>2 DEF RepliesOf
<1> QED BY <1>2, <1>3, <1>4 DEF ReactInv

---------------------------------------------------------------------------
(* What the steps leave alone *)

\* No mark of an end is taken away.
MarksStay ==
  \A m \in Messages : \A r \in {"x", "check", "green"} : r \in reactions[m] => r \in reactions'[m]

\* A submitter that does nothing keeps its part.
LEMMA SubmitsStays ==
  ASSUME NEW i \in Items, Submits(i), sub'[i] = sub[i], todo'[i] = todo[i],
         ConsumerLives' => ConsumerLives, MarksStay
  PROVE  Submits(i)'
BY ServiceAssumption DEF Submits, Marks, MarksStay, Refused

\* So does a worker that does nothing.
LEMMA HandlesStays ==
  ASSUME NEW w \in Workers, NEW i \in Items, Handles(w, i),
         wpc'[w] = wpc[w], todo'[w] = todo[w],
         RepliesOf(i)' = RepliesOf(i), MarksStay
  PROVE  Handles(w, i)'
<1>1. Message[i] \in Messages
  BY ServiceAssumption
<1>2. FailedVisibly(i)' <=> FailedVisibly(i)
  BY DEF FailedVisibly
<1>3. Ends(i, todo[w]) => Ends(i, todo[w])'
  BY <1>1, <1>2 DEF Ends, Marks, MarksStay
<1> QED BY <1>2, <1>3 DEF Handles

\* An item that has ended keeps its mark.
LEMMA EndsStays ==
  ASSUME NEW i \in Items, Ends(i, <<>>), RepliesOf(i)' = RepliesOf(i), MarksStay
  PROVE  Ends(i, <<>>)'
<1>1. Message[i] \in Messages
  BY ServiceAssumption
<1>2. FailedVisibly(i)' <=> FailedVisibly(i)
  BY DEF FailedVisibly
<1> QED BY <1>1, <1>2 DEF Ends, Marks, MarksStay

\* Item i remains a reason for r if neither its submitter nor its worker has
\* done what it owed.
LEMMA OwesStays ==
  ASSUME NEW i \in Items, NEW r, Owes(i, r),
         ~ConsumerLives => ~(ConsumerLives'),
         \/ sub'[i] = sub[i]
         \/ /\ r = "eyes" => EyesOwed(i)'
            /\ sub[i] # "accepted" /\ sub[i] \notin Refused,
         r = "eyes" /\ Will(todo[i], "remove", "eyes")
           => Will(todo[i], "remove", "eyes")' \/ ~(ConsumerLives'),
         i \in finished' => i \in finished,
         \A w \in Workers : job[w] = i => job'[w] = i,
         \A w \in Workers : job'[w] = i => \/ job[w] = i /\ (r = "eyes" /\ i \in SlackItems /\ TakesEyes(w) => TakesEyes(w)')
                                           \/ TakesEyes(w)',
         \A w \in Workers : job[w] = i /\ r = "hourglass" /\ EndsGlass(w) => EndsGlass(w)',
         \A w \in Workers : job[w] = i /\ WillFail(todo[w]) => WillFail(todo[w])' \/ FailedVisibly(i)',
         FailedVisibly(i) => FailedVisibly(i)'
  PROVE  Owes(i, r)'
<1>1. r = "eyes" => EyesOwed(i)'
  BY DEF Owes, EyesOwed
<1>2. r = "hourglass" => GlassOwed(i)'
  BY DEF Owes, GlassOwed
<1>3. ASSUME r = "x" PROVE sub'[i] \in Refused \/ (sub'[i] = "accepted" /\ Kind[i] # "resolved" /\ Failing(i)')
  <2>1. Failing(i) => Failing(i)'
    BY DEF Failing
  <2> QED BY <1>3, <2>1 DEF Owes
<1>4. r = "green" => sub'[i] = "accepted" /\ Kind[i] = "resolved"
  BY DEF Owes
<1> QED BY <1>1, <1>2, <1>3, <1>4 DEF Owes

---------------------------------------------------------------------------
(* A step of a worker *)

\* What a step does in which worker w keeps its item i.
WorkerMove(w, i) ==
  /\ job[w] = i /\ UNCHANGED <<expired, sub, finished, job>>
  /\ \A v \in Workers \ {w} : wpc'[v] = wpc[v] /\ todo'[v] = todo[v]
  /\ \A j \in Items : todo'[j] = todo[j]
  /\ MarksStay
  /\ \A j \in Items \ {i} : RepliesOf(j)' = RepliesOf(j)
  /\ RepliesOf(i) \subseteq RepliesOf(i)'
  /\ Kind[i] = "resolved" => RepliesOf(i)' = RepliesOf(i)
  /\ WillFail(todo[w]) => WillFail(todo[w])' \/ FailedVisibly(i)'
  /\ i \in SlackItems /\ TakesEyes(w) => TakesEyes(w)' \/ "eyes" \notin reactions'[Message[i]]
  /\ EndsGlass(w) => EndsGlass(w)' \/ "hourglass" \notin reactions'[Message[i]]
  /\ \A m \in Messages : \A r \in reactions'[m] : r \in reactions[m] \/ (m = Message[i] /\ Owes(i, r)')
  /\ Handles(w, i)'

\* Such a step keeps the invariant.
LEMMA MoveKeeps ==
  ASSUME TypeInv, UniqueInv, ReactInv, Good, NEW w \in Workers, NEW i \in Items, WorkerMove(w, i)
  PROVE  ReactInv'
<1> USE ServiceAssumption DEF ConsumerLives
<1>1. /\ \A j \in Items : Submits(j)
      /\ \A v \in Workers : \A j \in Items : job[v] = j => Handles(v, j)
      /\ \A m \in Messages : \A r \in reactions[m] : \E j \in Items : Message[j] = m /\ Owes(j, r)
      /\ \A j \in finished : Ends(j, <<>>)
      /\ \A j \in Items : Kind[j] = "resolved" => RepliesOf(j) = {}
  BY DEF ReactInv
<1>2. /\ MarksStay /\ UNCHANGED <<expired, sub, finished, job>> /\ job[w] = i
      /\ \A v \in Workers \ {w} : wpc'[v] = wpc[v] /\ todo'[v] = todo[v]
      /\ \A j \in Items : todo'[j] = todo[j]
      /\ \A j \in Items \ {i} : RepliesOf(j)' = RepliesOf(j)
  BY DEF WorkerMove
<1>3. /\ \A v \in Workers \ {w} : job[v] # i
      /\ i \notin finished /\ finished \subseteq Items
  BY <1>2 DEF UniqueInv, TypeInv, TypeOK
<1>4. \A j \in Items : Submits(j)'
  BY <1>1, <1>2, SubmitsStays
<1>5. ASSUME NEW v \in Workers, NEW j \in Items, job'[v] = j PROVE Handles(v, j)'
  <2>1. CASE v = w
    BY <1>2, <1>5, <2>1 DEF WorkerMove
  <2>2. CASE v # w
    BY <1>1, <1>2, <1>3, <1>5, <2>2, HandlesStays
  <2> QED BY <2>1, <2>2
<1>6. ASSUME NEW j \in Items, NEW r, r \in reactions'[Message[j]], Owes(j, r) PROVE Owes(j, r)'
  <2>1. FailedVisibly(j) => FailedVisibly(j)'
    BY DEF WorkerMove, FailedVisibly
  <2>2. \A v \in Workers \ {w} : /\ TakesEyes(v) => TakesEyes(v)'
                                 /\ EndsGlass(v) => EndsGlass(v)'
                                 /\ WillFail(todo[v]) => WillFail(todo[v])'
    BY <1>2 DEF TakesEyes, EndsGlass, WillFail, Will
  <2>3. j = i => /\ r = "eyes" /\ i \in SlackItems /\ TakesEyes(w) => TakesEyes(w)'
                 /\ r = "hourglass" /\ EndsGlass(w) => EndsGlass(w)'
                 /\ WillFail(todo[w]) => WillFail(todo[w])' \/ FailedVisibly(i)'
    BY <1>6 DEF WorkerMove
  <2>4. \A v \in Workers : job[v] = j =>
          /\ r = "eyes" /\ j \in SlackItems /\ TakesEyes(v) => TakesEyes(v)'
          /\ r = "hourglass" /\ EndsGlass(v) => EndsGlass(v)'
          /\ WillFail(todo[v]) => WillFail(todo[v])' \/ FailedVisibly(j)'
    <3> SUFFICES ASSUME NEW v \in Workers, job[v] = j
                 PROVE  /\ r = "eyes" /\ j \in SlackItems /\ TakesEyes(v) => TakesEyes(v)'
                        /\ r = "hourglass" /\ EndsGlass(v) => EndsGlass(v)'
                        /\ WillFail(todo[v]) => WillFail(todo[v])' \/ FailedVisibly(j)'
      OBVIOUS
    <3>1. CASE v = w
      <4>1. j = i
        BY <1>2, <3>1
      <4> QED BY <2>3, <3>1, <4>1
    <3>2. CASE v # w
      BY <2>2, <3>2
    <3> QED BY <3>1, <3>2
  <2>5. /\ sub'[j] = sub[j] /\ ConsumerLives' = ConsumerLives /\ finished' = finished /\ job' = job
        /\ Will(todo[j], "remove", "eyes") => Will(todo[j], "remove", "eyes")'
    BY <1>2 DEF Will
  <2> QED BY <1>6, <2>1, <2>4, <2>5, OwesStays
<1>7. ASSUME NEW m \in Messages, NEW r \in reactions'[m]
      PROVE  \E j \in Items : Message[j] = m /\ Owes(j, r)'
  <2>1. CASE r \in reactions[m]
    BY <1>1, <1>6, <2>1
  <2>2. CASE r \notin reactions[m]
    BY <2>2 DEF WorkerMove
  <2> QED BY <2>1, <2>2
<1>8. \A j \in finished' : Ends(j, <<>>)'
  BY <1>1, <1>2, <1>3, EndsStays
<1>9. \A j \in Items : Kind[j] = "resolved" => RepliesOf(j)' = {}
  BY <1>1 DEF WorkerMove
<1> QED BY <1>4, <1>5, <1>7, <1>8, <1>9 DEF ReactInv

\* A step that neither shows nor replies anything.
LEMMA QuietMove ==
  ASSUME TypeInv, Good, NEW w \in Workers, NEW i \in Items, job[w] = i,
         NEW to, NEW script, Goto(w, to, script), UNCHANGED <<finished, job>>,
         ~WillFail(todo[w]),
         i \in SlackItems /\ TakesEyes(w) => TakesEyes(w)',
         EndsGlass(w) => EndsGlass(w)',
         Handles(w, i)'
  PROVE  WorkerMove(w, i)
<1> USE ServiceAssumption DEF ConsumerLives
<1>1. todo \in [Items \cup Workers -> Seq(Calls)] /\ wpc \in [Workers -> WorkerStates]
  BY DEF TypeInv, TypeOK
<1>2. UNCHANGED <<expired, sub, reactions, thread>>
  BY DEF Goto, slackVars, runVars
<1>3. /\ \A v \in Workers \ {w} : wpc'[v] = wpc[v] /\ todo'[v] = todo[v]
      /\ \A j \in Items : todo'[j] = todo[j]
  BY <1>1 DEF Goto, runVars
<1>4. \A j \in Items : RepliesOf(j)' = RepliesOf(j)
  BY <1>2 DEF RepliesOf
<1>5. MarksStay
  BY <1>2 DEF MarksStay
<1>6. job[w] = i /\ UNCHANGED <<expired, sub, finished, job>>
  BY <1>2
<1>7. /\ \A j \in Items \ {i} : RepliesOf(j)' = RepliesOf(j)
      /\ RepliesOf(i) \subseteq RepliesOf(i)'
      /\ Kind[i] = "resolved" => RepliesOf(i)' = RepliesOf(i)
  BY <1>4
<1>8. \A m \in Messages : \A r \in reactions'[m] : r \in reactions[m] \/ (m = Message[i] /\ Owes(i, r)')
  BY <1>2
<1> QED BY <1>3, <1>5, <1>6, <1>7, <1>8 DEF WorkerMove

---------------------------------------------------------------------------
(* A step of a submitter *)

\* The submitter of item i moves to `at`, with the list `script` to run there.
LEMMA SubmittedKeeps ==
  ASSUME TypeInv, PlaceInv, ReactInv, Good, NEW i \in Items, NEW at, NEW script,
         Submitted(i, at, script),
         sub[i] # "accepted", sub[i] \notin Refused,
         ~Will(todo[i], "remove", "eyes"),
         EyesOwed(i) => EyesOwed(i)',
         Submits(i)'
  PROVE  ReactInv'
<1> USE ServiceAssumption DEF ConsumerLives
<1>1. /\ \A j \in Items : Submits(j)
      /\ \A w \in Workers : \A j \in Items : job[w] = j => Handles(w, j)
      /\ \A m \in Messages : \A r \in reactions[m] : \E j \in Items : Message[j] = m /\ Owes(j, r)
      /\ \A j \in finished : Ends(j, <<>>)
      /\ \A j \in Items : Kind[j] = "resolved" => RepliesOf(j) = {}
  BY DEF ReactInv
<1>2. /\ UNCHANGED <<expired, wpc, job, finished, reactions, thread>>
      /\ sub' = [sub EXCEPT ![i] = at] /\ todo' = [todo EXCEPT ![i] = script]
      /\ sub \in [Items -> SubmitterStates] /\ todo \in [Items \cup Workers -> Seq(Calls)]
      /\ finished \subseteq Items
  BY DEF Submitted, runVars, workerVars, slackVars, TypeInv, TypeOK
<1>3. /\ \A j \in Items \ {i} : sub'[j] = sub[j] /\ todo'[j] = todo[j]
      /\ \A w \in Workers : todo'[w] = todo[w] /\ wpc'[w] = wpc[w] /\ job'[w] = job[w]
  BY <1>2
<1>4. MarksStay /\ \A j \in Items : RepliesOf(j)' = RepliesOf(j)
  BY <1>2 DEF MarksStay, RepliesOf
<1>5. \A j \in Items : Submits(j)'
  BY <1>1, <1>2, <1>3, <1>4, SubmitsStays, ZenonT(60)
<1>6. \A w \in Workers : \A j \in Items : job'[w] = j => Handles(w, j)'
  BY <1>1, <1>3, <1>4, HandlesStays
<1>7. ASSUME NEW j \in Items, NEW r, Owes(j, r) PROVE Owes(j, r)'
  <2>1. \A w \in Workers : /\ TakesEyes(w) => TakesEyes(w)'
                           /\ EndsGlass(w) => EndsGlass(w)'
                           /\ WillFail(todo[w]) => WillFail(todo[w])'
    BY <1>3 DEF TakesEyes, EndsGlass, WillFail, Will
  <2>2. FailedVisibly(j) => FailedVisibly(j)'
    BY <1>4 DEF FailedVisibly
  <2>3. \/ sub'[j] = sub[j]
        \/ /\ r = "eyes" => EyesOwed(j)'
           /\ sub[j] # "accepted" /\ sub[j] \notin Refused
    BY <1>3, <1>7 DEF Owes
  <2>4. Will(todo[j], "remove", "eyes") => Will(todo[j], "remove", "eyes")'
    <3>1. CASE j = i
      BY <3>1
    <3>2. CASE j # i
      BY <1>3, <3>2 DEF Will
    <3> QED BY <3>1, <3>2
  <2> QED BY <1>2, <1>3, <1>7, <2>1, <2>2, <2>3, <2>4, OwesStays, ZenonT(60)
<1>8. \A m \in Messages : \A r \in reactions'[m] : \E j \in Items : Message[j] = m /\ Owes(j, r)'
  BY <1>1, <1>2, <1>7
<1>9. \A j \in finished' : Ends(j, <<>>)'
  BY <1>1, <1>2, <1>4, EndsStays
<1>10. \A j \in Items : Kind[j] = "resolved" => RepliesOf(j)' = {}
  BY <1>1, <1>4
<1> QED BY <1>5, <1>6, <1>8, <1>9, <1>10 DEF ReactInv

\* Each step of a submitter.
LEMMA SubmitterSteps ==
  ASSUME TypeInv, IntakeInv, ContextInv, PlaceInv, ReactInv, Good, NEW i \in Items,
         Submit(i) \/ Offer(i) \/ CronFires(i) \/ PostRoot(i) \/ OfferScheduled(i)
  PROVE  ReactInv'
<1> USE ServiceAssumption DEF ConsumerLives
<1>1. sub \in [Items -> SubmitterStates] /\ todo \in [Items \cup Workers -> Seq(Calls)]
  BY DEF TypeInv, TypeOK
<1>2. Submits(i)
  BY DEF ReactInv
<1>3. ASSUME NEW at, NEW script, Submitted(i, at, script)
      PROVE  sub'[i] = at /\ todo'[i] = script /\ ConsumerLives' = ConsumerLives /\ reactions' = reactions
             /\ job' = job /\ finished' = finished
  BY <1>1, <1>3 DEF Submitted, runVars, slackVars, workerVars
<1>4. ~Will(todo[i], "remove", "eyes") /\ sub[i] # "accepted" /\ sub[i] \notin Refused
  <2>1. sub[i] \in {"new", "offering", "post", "root"}
    BY DEF Submit, Offer, CronFires, PostRoot, OfferScheduled
  <2> QED BY <1>2, <2>1 DEF Submits, Refused
<1>5. ASSUME NEW at, NEW script, Submitted(i, at, script), at \notin Refused,
             \A op, arg : op # "count" => ~Will(script, op, arg)
      PROVE  Submits(i)'
  <2>1. sub'[i] = at /\ todo'[i] = script
    BY <1>3, <1>5
  <2> QED BY <1>5, <2>1 DEF Submits
<1>6. ASSUME NEW at, NEW script, Submitted(i, at, script), sub[i] # "offering"
      PROVE  ~EyesOwed(i)
  BY <1>4, <1>6 DEF EyesOwed, Refused
<1>7. /\ \A op, arg : ~Will(<<>>, op, arg)
      /\ \A l : \A op, arg : op # "count" => ~Will(Count(l), op, arg)
      /\ \A op, arg : op # "count" => ~Will(Accepted, op, arg)
  BY SingleWill, SubmitterWill
<1>8. CASE Submit(i)
  <2>1. i \in SlackItems /\ i \notin Scheduled /\ sub[i] = "new"
    BY <1>8 DEF Submit, SlackItems
  <2>2. CASE RejectMarker(i)
    <3>1. Submitted(i, "rejected", Count("failed") \o Add("x"))
      BY <2>2 DEF RejectMarker
    <3>2. sub'[i] = "rejected" /\ todo'[i] = Count("failed") \o Add("x")
      BY <1>3, <3>1
    <3>3. Submits(i)'
      BY <3>2, SubmitterWill DEF Submits, Refused, Marks
    <3> QED BY <1>4, <1>6, <2>1, <3>1, <3>3, SubmittedKeeps
  <2>3. CASE IgnoreUnmarked(i)
    <3>1. Submitted(i, "ignored", Count("ignored"))
      BY <2>3 DEF IgnoreUnmarked
    <3>2. Submits(i)'
      BY <1>5, <1>7, <3>1 DEF Refused
    <3> QED BY <1>4, <1>6, <2>1, <3>1, <3>2, SubmittedKeeps
  <2>4. CASE TakeReadLock(i) /\ intake = "open"
    <3>1. Submitted(i, "offering", Add("eyes"))
      BY <2>4 DEF TakeReadLock
    <3>2. sub'[i] = "offering" /\ todo'[i] = Add("eyes")
      BY <1>3, <3>1
    <3>3. Submits(i)'
      BY <3>2, SingleWill DEF Submits, Refused
    <3> QED BY <1>4, <1>6, <2>1, <3>1, <3>3, SubmittedKeeps
  <2>5. CASE TakeReadLock(i) /\ intake # "open"
    <3>1. Submitted(i, "dropped", Count("dropped")) /\ ~ConsumerLives
      BY <2>5 DEF TakeReadLock, IntakeInv, ContextInv
    <3>2. sub'[i] = "dropped" /\ todo'[i] = Count("dropped") /\ ~(ConsumerLives')
      BY <1>3, <3>1
    <3>3. Submits(i)'
      BY <1>7, <2>1, <3>2 DEF Submits, Refused
    <3> QED BY <1>4, <1>6, <2>1, <3>1, <3>3, SubmittedKeeps
  <2> QED BY <1>8, <2>2, <2>3, <2>4, <2>5 DEF Submit
<1>9. CASE Offer(i)
  <2>1. i \in SlackItems /\ sub[i] = "offering"
    BY <1>9 DEF Offer
  <2>2. CASE Len(queue) < QueueSize
    <3>1. Submitted(i, "accepted", Accepted)
      BY <1>9, <2>2 DEF Offer
    <3>2. sub'[i] = "accepted" /\ UNCHANGED <<job, finished>>
      BY <1>3, <3>1
    <3>3. (\A w \in Workers : job[w] # i) /\ i \notin finished
      BY <1>4 DEF PlaceInv
    <3>4. EyesOwed(i)'
      BY <2>1, <3>2, <3>3 DEF EyesOwed
    <3>5. Submits(i)'
      BY <1>5, <1>7, <3>1 DEF Refused
    <3> QED BY <1>4, <3>1, <3>4, <3>5, SubmittedKeeps
  <2>3. CASE ~(Len(queue) < QueueSize)
    <3>1. Submitted(i, "dropped", Count("dropped") \o Transition("eyes", "x"))
      BY <1>9, <2>3 DEF Offer
    <3>2. sub'[i] = "dropped" /\ todo'[i] = Count("dropped") \o Transition("eyes", "x")
      BY <1>3, <3>1
    <3>3. EyesOwed(i)'
      BY <2>1, <3>2, SubmitterWill DEF EyesOwed
    <3>4. Submits(i)'
      BY <3>2, SubmitterWill DEF Submits, Refused, Marks
    <3> QED BY <1>4, <3>1, <3>3, <3>4, SubmittedKeeps
  <2> QED BY <2>2, <2>3
<1>10. CASE CronFires(i)
  <2>1. Submitted(i, "post", <<>>) /\ sub[i] = "new"
    BY <1>10 DEF CronFires
  <2>2. Submits(i)'
    BY <1>5, <1>7, <2>1 DEF Refused
  <2> QED BY <1>4, <1>6, <2>1, <2>2, SubmittedKeeps
<1>11. CASE PostRoot(i)
  <2>1. sub[i] = "post" /\ (Submitted(i, "root", <<>>) \/ Submitted(i, "failed", Count("run_failed")))
    BY <1>11 DEF PostRoot
  <2>2. Submits(i)'
    BY <1>5, <1>7, <2>1 DEF Refused
  <2> QED BY <1>4, <1>6, <2>1, <2>2, SubmittedKeeps
<1>12. CASE OfferScheduled(i)
  <2>1. sub[i] = "root" /\ i \in Scheduled
    BY <1>12 DEF OfferScheduled
  <2>2. CASE Submitted(i, "accepted", <<>>)
    <3>1. Submits(i)'
      BY <1>5, <1>7, <2>2 DEF Refused
    <3> QED BY <1>4, <1>6, <2>1, <2>2, <3>1, SubmittedKeeps
  <2>3. ASSUME NEW at \in {"refused", "dropped"}, Submitted(i, at, FailScheduledIntake)
        PROVE  ReactInv'
    <3>1. sub'[i] = at /\ todo'[i] = FailScheduledIntake
      BY <1>3, <2>3
    <3>2. Submits(i)'
      BY <2>1, <3>1, SubmitterWill DEF Submits, Refused, Marks
    <3> QED BY <1>4, <1>6, <2>1, <2>3, <3>2, SubmittedKeeps
  <2> QED BY <1>12, <2>2, <2>3 DEF OfferScheduled
<1> QED BY <1>8, <1>9, <1>10, <1>11, <1>12

\* A scheduled run's submitter with calls left can make them.
LEMMA CronAlive ==
  ASSUME IntakeInv, ShutdownInv, Good, NEW i \in Scheduled, todo[i] # <<>>
  PROVE  ~Cancelled
<1>1. CronRunning
  BY DEF CronRunning
<1> QED BY <1>1 DEF Cancelled, Drained, IntakeInv, ShutdownInv, Good, Graceful

\* A call of a submitter: it takes effect, or the Slack consumer's context has ended.
LEMMA SubmitterCalls ==
  ASSUME TypeInv, TypeInv', IntakeInv, ShutdownInv, PlaceInv, ReactInv, Good,
         NEW i \in Items, BestEffort(i)
  PROVE  ReactInv'
<1> USE ServiceAssumption DEF ConsumerLives
<1> DEFINE h == Head(todo[i])
<1>1. /\ \A j \in Items : Submits(j)
      /\ \A w \in Workers : \A j \in Items : job[w] = j => Handles(w, j)
      /\ \A m \in Messages : \A r \in reactions[m] : \E j \in Items : Message[j] = m /\ Owes(j, r)
      /\ \A j \in finished : Ends(j, <<>>)
      /\ \A j \in Items : Kind[j] = "resolved" => RepliesOf(j) = {}
  BY DEF ReactInv
<1>2. /\ todo[i] # <<>> /\ todo[i] \in Seq(Calls) /\ i \notin Workers
      /\ todo' = [todo EXCEPT ![i] = Tail(@)]
      /\ UNCHANGED <<expired, sub, wpc, job, finished>>
      /\ todo \in [Items \cup Workers -> Seq(Calls)]
      /\ reactions \in [Messages -> SUBSET Reactions]
      /\ finished \subseteq Items
      /\ ItemOf(i) = i /\ Message[i] \in Messages
  BY DEF BestEffort, workerVars, TypeInv, TypeOK, ItemOf, runVars
<1>3. h \in Calls
  BY <1>2
<1>4. /\ todo'[i] = Tail(todo[i])
      /\ \A j \in Items \ {i} : todo'[j] = todo[j]
      /\ \A w \in Workers : todo'[w] = todo[w]
  BY <1>2
<1>5. \A op, arg : Will(todo[i], op, arg) <=> (h.op = op /\ h.arg = arg) \/ Will(todo[i], op, arg)'
  <2>1. \A op, arg : Will(todo[i], op, arg) <=> (h.op = op /\ h.arg = arg) \/ Will(Tail(todo[i]), op, arg)
    BY <1>2, TailWill
  <2>2. \A op, arg : Will(todo[i], op, arg)' <=> Will(Tail(todo[i]), op, arg)
    BY <1>4 DEF Will
  <2> QED BY <2>1, <2>2
<1>6. \/ Apply(h, i)
      \/ ~ConsumerLives /\ i \notin Scheduled /\ UNCHANGED <<reactions, thread>>
  <2>1. CASE Apply(h, i)
    BY <2>1
  <2>2. CASE ~Apply(h, i)
    <3>1. "failed" \in Outcomes(i) /\ UNCHANGED <<reactions, thread>>
      BY <1>2, <2>2 DEF BestEffort, runVars
    <3>2. ~Alive(i)
      BY <3>1 DEF Outcomes, Good
    <3>3. i \notin Scheduled
      BY <1>2, <3>2, CronAlive DEF Alive
    <3> QED BY <1>2, <3>1, <3>2, <3>3 DEF Alive
  <2> QED BY <2>1, <2>2
<1> HIDE DEF h
\* What becomes of the reactions.
<1>7. /\ \A m \in Messages \ {Message[i]} : reactions'[m] = reactions[m]
      /\ \/ reactions'[Message[i]] = reactions[Message[i]]
         \/ h.op = "add" /\ reactions'[Message[i]] = reactions[Message[i]] \cup {h.arg}
         \/ h.op = "remove" /\ reactions'[Message[i]] = reactions[Message[i]] \ {h.arg}
      /\ ConsumerLives \/ i \in Scheduled =>
           /\ h.op = "add" => h.arg \in reactions'[Message[i]]
           /\ h.op = "remove" => h.arg \notin reactions'[Message[i]]
  <2>1. CASE Apply(h, i)
    BY <1>2, <2>1 DEF Apply
  <2>2. CASE ~ConsumerLives /\ i \notin Scheduled /\ UNCHANGED <<reactions, thread>>
    BY <2>2
  <2> QED BY <1>6, <2>1, <2>2
<1>8. /\ h.op = "add" => (h.arg = "eyes" /\ sub[i] = "offering") \/ (h.arg = "x" /\ sub[i] \in Refused)
      /\ h.op = "remove" => h.arg = "eyes" /\ sub[i] = "dropped"
      /\ h.op = "reply" => i \in Scheduled /\ sub[i] \in Refused
  BY <1>1, <1>5 DEF Submits
<1>9. MarksStay
  BY <1>7, <1>8 DEF MarksStay
\* What becomes of the replies.
<1>10. /\ \A j \in Items \ {i} : RepliesOf(j)' = RepliesOf(j)
       /\ RepliesOf(i) \subseteq RepliesOf(i)'
       /\ (i \in Scheduled /\ sub[i] \in Refused) \/ RepliesOf(i)' = RepliesOf(i)
  <2>1. CASE UNCHANGED thread
    BY <2>1 DEF RepliesOf
  <2>2. CASE thread' # thread
    <3>1. h.op = "reply" /\ Post(i, h.arg)
      BY <1>6, <2>2 DEF Apply
    <3>2. h.arg \in Replies
      BY <1>3, <3>1 DEF Calls
    <3>3. PICK k \in Replies : k = h.arg
      BY <3>2
    <3>4. Post(i, k)
      BY <3>1, <3>3
    <3>5. RepliesOf(i)' = RepliesOf(i) \cup {k} /\ \A j \in Items \ {i} : RepliesOf(j)' = RepliesOf(j)
      BY <3>4, PostAdds
    <3> QED BY <1>8, <3>1, <3>5
  <2> QED BY <2>1, <2>2
<1>11. Submits(i)'
  <2>1. \A r : Will(todo[i], "add", r)' => (r = "eyes" /\ sub[i] = "offering") \/ (r = "x" /\ sub[i] \in Refused)
    BY <1>1, <1>5 DEF Submits
  <2>2. \A r : Will(todo[i], "remove", r)' => r = "eyes" /\ sub[i] = "dropped"
    BY <1>1, <1>5 DEF Submits
  <2>3. \A k : Will(todo[i], "reply", k)' => i \in Scheduled /\ sub[i] \in Refused
    BY <1>1, <1>5 DEF Submits
  <2>4. sub[i] \in Refused /\ (ConsumerLives \/ i \in Scheduled) => Marks(i, "x", todo[i])'
    <3> SUFFICES ASSUME sub[i] \in Refused, ConsumerLives \/ i \in Scheduled
                 PROVE  Marks(i, "x", todo[i])'
      OBVIOUS
    <3>1. "x" \in reactions[Message[i]] \/ Will(todo[i], "add", "x")
      BY <1>1 DEF Submits, Marks
    <3>2. CASE "x" \in reactions[Message[i]]
      BY <1>2, <1>9, <3>2 DEF MarksStay, Marks
    <3>3. CASE h.op = "add" /\ h.arg = "x"
      BY <1>7, <3>3 DEF Marks
    <3>4. CASE Will(todo[i], "add", "x")'
      BY <3>4 DEF Marks
    <3> QED BY <1>5, <3>1, <3>2, <3>3, <3>4
  <2> QED BY <1>2, <2>1, <2>2, <2>3, <2>4 DEF Submits
<1>12. ASSUME sub[i] \in Refused PROVE i \notin finished /\ \A w \in Workers : job[w] # i
  BY <1>12 DEF PlaceInv, Refused
<1>13. \A j \in Items : Submits(j)'
  BY <1>1, <1>2, <1>4, <1>9, <1>11, SubmitsStays
<1>14. ASSUME NEW w \in Workers, NEW j \in Items, job'[w] = j PROVE Handles(w, j)'
  <2>1. job[w] = j /\ wpc'[w] = wpc[w] /\ Handles(w, j)
    BY <1>1, <1>2, <1>14
  <2>2. RepliesOf(j)' = RepliesOf(j)
    BY <1>10, <1>12, <2>1
  <2> QED BY <1>4, <1>9, <2>1, <2>2, HandlesStays
<1>15. ASSUME NEW j \in Items, NEW r, r \in reactions'[Message[j]], Owes(j, r) PROVE Owes(j, r)'
  <2>1. \A w \in Workers : /\ TakesEyes(w) => TakesEyes(w)'
                           /\ EndsGlass(w) => EndsGlass(w)'
                           /\ WillFail(todo[w]) => WillFail(todo[w])'
    BY <1>2, <1>4 DEF TakesEyes, EndsGlass, WillFail, Will
  <2>2. FailedVisibly(j) => FailedVisibly(j)'
    BY <1>10 DEF FailedVisibly
  <2>3. r = "eyes" /\ Will(todo[j], "remove", "eyes")
          => Will(todo[j], "remove", "eyes")' \/ ~(ConsumerLives')
    <3>1. CASE j = i
      BY <1>2, <1>5, <1>7, <1>15, <3>1
    <3>2. CASE j # i
      BY <1>4, <3>2 DEF Will
    <3> QED BY <3>1, <3>2
  <2>4. sub'[j] = sub[j] /\ ConsumerLives' = ConsumerLives /\ finished' = finished /\ job' = job
    BY <1>2
  <2> QED BY <1>15, <2>1, <2>2, <2>3, <2>4, OwesStays
<1>16. ASSUME NEW m \in Messages, NEW r \in reactions'[m]
       PROVE  \E j \in Items : Message[j] = m /\ Owes(j, r)'
  <2>1. CASE r \in reactions[m]
    BY <1>1, <1>15, <2>1
  <2>2. CASE r \notin reactions[m]
    <3>1. m = Message[i] /\ h.op = "add" /\ r = h.arg
      BY <1>7, <1>16, <2>2
    <3>2. Owes(i, r)'
      <4>1. CASE r = "eyes" /\ sub[i] = "offering"
        <5>1. EyesOwed(i)'
          BY <1>2, <4>1 DEF EyesOwed, IntakeInv
        <5> QED BY <4>1, <5>1 DEF Owes
      <4>2. CASE r = "x" /\ sub[i] \in Refused
        BY <1>2, <4>2 DEF Owes
      <4> QED BY <1>8, <3>1, <4>1, <4>2
    <3> QED BY <3>1, <3>2
  <2> QED BY <2>1, <2>2
<1>17. ASSUME NEW j \in finished' PROVE Ends(j, <<>>)'
  <2>1. j \in finished /\ j \in Items /\ Ends(j, <<>>)
    BY <1>1, <1>2
  <2>2. RepliesOf(j)' = RepliesOf(j)
    BY <1>10, <1>12, <2>1
  <2> QED BY <1>9, <2>1, <2>2, EndsStays
<1>18. \A j \in Items : Kind[j] = "resolved" => RepliesOf(j)' = {}
  <2>1. i \in Scheduled => Kind[i] # "resolved"
    BY DEF Scheduled
  <2> QED BY <1>1, <1>10, <2>1
<1> QED BY <1>13, <1>14, <1>16, <1>17, <1>18 DEF ReactInv

---------------------------------------------------------------------------
(* The steps of a worker *)

\* A call of a worker always takes effect, and is a move.
LEMMA WorkerCalls ==
  ASSUME TypeInv, TypeInv', ShutdownInv, ContextInv, PlaceInv, ReactInv, Good,
         NEW w \in Workers, NEW i \in Items, job[w] = i, BestEffort(w)
  PROVE  WorkerMove(w, i)
<1> USE ServiceAssumption DEF ConsumerLives
<1> DEFINE h == Head(todo[w])
<1>1. /\ todo[w] # <<>> /\ todo[w] \in Seq(Calls) /\ w \notin Items
      /\ todo' = [todo EXCEPT ![w] = Tail(@)]
      /\ UNCHANGED <<expired, sub, wpc, job, finished>>
      /\ todo \in [Items \cup Workers -> Seq(Calls)]
      /\ reactions \in [Messages -> SUBSET Reactions]
      /\ ItemOf(w) = i /\ Message[i] \in Messages
  BY DEF BestEffort, workerVars, TypeInv, TypeOK, ItemOf, runVars
<1>2. wpc[w] \notin {"idle", "exited"} /\ sub[i] = "accepted" /\ Handles(w, i)
  <2>1. wpc[w] \notin {"idle", "exited"}
    BY <1>1 DEF TypeInv, HoldsJob
  <2>2. sub[job[w]] = "accepted"
    BY DEF PlaceInv
  <2>3. Handles(w, i)
    BY DEF ReactInv
  <2> QED BY <2>1, <2>2, <2>3
<1>3. h \in Calls
  BY <1>1
<1>4. /\ todo'[w] = Tail(todo[w])
      /\ \A j \in Items : todo'[j] = todo[j]
      /\ \A v \in Workers \ {w} : todo'[v] = todo[v] /\ wpc'[v] = wpc[v]
  BY <1>1
<1>5. \A op, arg : Will(todo[w], op, arg) <=> (h.op = op /\ h.arg = arg) \/ Will(todo[w], op, arg)'
  <2>1. \A op, arg : Will(todo[w], op, arg) <=> (h.op = op /\ h.arg = arg) \/ Will(Tail(todo[w]), op, arg)
    BY <1>1, TailWill
  <2>2. \A op, arg : Will(todo[w], op, arg)' <=> Will(Tail(todo[w]), op, arg)
    BY <1>4 DEF Will
  <2> QED BY <2>1, <2>2
<1>6. Apply(h, i)
  <2>1. ~Cancelled
    BY <1>2, NotCancelled DEF Good
  <2>2. Outcomes(w) = {"ok"}
    BY <2>1 DEF Outcomes, Alive, Good, ContextInv
  <2> QED BY <1>1, <2>2 DEF BestEffort, runVars
<1> HIDE DEF h
\* What becomes of the reactions.
<1>7. /\ \A m \in Messages \ {Message[i]} : reactions'[m] = reactions[m]
      /\ \/ h.op \notin {"add", "remove"} /\ reactions'[Message[i]] = reactions[Message[i]]
         \/ h.op = "add" /\ reactions'[Message[i]] = reactions[Message[i]] \cup {h.arg}
         \/ h.op = "remove" /\ reactions'[Message[i]] = reactions[Message[i]] \ {h.arg}
  BY <1>1, <1>6 DEF Apply
<1>8. /\ h.op = "add" =>
           \/ h.arg = "hourglass" /\ wpc[w] = "chat"
           \/ h.arg = "green" /\ wpc[w] = "finish" /\ Kind[i] = "resolved"
           \/ h.arg = "check" /\ wpc[w] = "finish" /\ Kind[i] # "resolved"
           \/ /\ h.arg = "x" /\ wpc[w] = "finish" /\ Kind[i] # "resolved"
              /\ FailedVisibly(i) \/ WillFail(todo[w])
      /\ h.op = "remove" => h.arg \in {"eyes", "hourglass"}
      /\ h.op = "reply" => wpc[w] = "finish" /\ Kind[i] # "resolved"
  <2>1. \A r : Will(todo[w], "add", r) =>
          \/ r = "hourglass" /\ wpc[w] = "chat"
          \/ r = "green" /\ wpc[w] = "finish" /\ Kind[i] = "resolved"
          \/ r = "check" /\ wpc[w] = "finish" /\ Kind[i] # "resolved"
          \/ r = "x" /\ wpc[w] = "finish" /\ Kind[i] # "resolved" /\ (FailedVisibly(i) \/ WillFail(todo[w]))
    BY <1>2 DEF Handles
  <2>2. h.op = "add" => Will(todo[w], "add", h.arg)
    BY <1>5
  <2>3. h.op = "remove" => Will(todo[w], "remove", h.arg)
    BY <1>5
  <2>4. h.op = "reply" => Will(todo[w], "reply", h.arg)
    BY <1>5
  <2>5. h.op = "remove" => h.arg \in {"eyes", "hourglass"}
    BY <1>2, <2>3 DEF Handles
  <2>6. h.op = "reply" => wpc[w] = "finish" /\ Kind[i] # "resolved"
    BY <1>2, <2>4 DEF Handles
  <2> QED BY <2>1, <2>2, <2>5, <2>6
<1>9. MarksStay
  BY <1>7, <1>8 DEF MarksStay
\* What becomes of the replies.
<1>10. \/ h.op # "reply" /\ \A j \in Items : RepliesOf(j)' = RepliesOf(j)
       \/ /\ h.op = "reply" /\ RepliesOf(i)' = RepliesOf(i) \cup {h.arg}
          /\ \A j \in Items \ {i} : RepliesOf(j)' = RepliesOf(j)
  <2>1. CASE UNCHANGED thread /\ h.op # "reply"
    BY <2>1 DEF RepliesOf
  <2>2. CASE h.op = "reply" /\ Post(i, h.arg)
    <3>1. h.arg \in Replies
      BY <1>3, <2>2 DEF Calls
    <3>2. PICK k \in Replies : k = h.arg
      BY <3>1
    <3>3. Post(i, k)
      BY <2>2, <3>2
    <3>4. RepliesOf(i)' = RepliesOf(i) \cup {k} /\ \A j \in Items \ {i} : RepliesOf(j)' = RepliesOf(j)
      BY <3>3, PostAdds
    <3> QED BY <2>2, <3>2, <3>4
  <2> QED BY <1>6, <2>1, <2>2 DEF Apply
<1>11. FailedVisibly(i) \/ WillFail(todo[w]) <=> FailedVisibly(i)' \/ WillFail(todo[w])'
  <2>1. WillFail(todo[w]) <=> (h.op = "reply" /\ h.arg \in FailureReplies) \/ WillFail(todo[w])'
    BY <1>5 DEF WillFail
  <2>2. FailedVisibly(i)' <=> FailedVisibly(i) \/ (h.op = "reply" /\ h.arg \in FailureReplies)
    BY <1>10 DEF FailedVisibly
  <2> QED BY <2>1, <2>2
<1>12. WillFail(todo[w]) => WillFail(todo[w])' \/ FailedVisibly(i)'
  BY <1>11
<1>13. \A r \in {"x", "check", "green"} : Marks(i, r, todo[w]) => Marks(i, r, todo[w])'
  <2> SUFFICES ASSUME NEW r \in {"x", "check", "green"}, Marks(i, r, todo[w])
               PROVE  Marks(i, r, todo[w])'
    OBVIOUS
  <2>1. CASE r \in reactions[Message[i]]
    BY <1>1, <1>9, <2>1 DEF MarksStay, Marks
  <2>2. CASE h.op = "add" /\ h.arg = r
    BY <1>7, <2>2 DEF Marks
  <2>3. CASE Will(todo[w], "add", r)'
    BY <2>3 DEF Marks
  <2> QED BY <1>5, <2>1, <2>2, <2>3 DEF Marks
<1>14. Ends(i, todo[w]) => Ends(i, todo[w])'
  <2>1. CASE Kind[i] = "resolved"
    BY <1>13, <2>1 DEF Ends
  <2>2. CASE Kind[i] # "resolved" /\ (FailedVisibly(i) \/ WillFail(todo[w]))
    BY <1>11, <1>13, <2>2 DEF Ends
  <2>3. CASE Kind[i] # "resolved" /\ ~(FailedVisibly(i) \/ WillFail(todo[w]))
    BY <1>11, <1>13, <2>3 DEF Ends
  <2> QED BY <2>1, <2>2, <2>3
<1>15. Handles(w, i)'
  <2>1. \A r : Will(todo[w], "add", r)' =>
          \/ r = "hourglass" /\ wpc[w] = "chat"
          \/ r = "green" /\ wpc[w] = "finish" /\ Kind[i] = "resolved"
          \/ r = "check" /\ wpc[w] = "finish" /\ Kind[i] # "resolved"
          \/ r = "x" /\ wpc[w] = "finish" /\ Kind[i] # "resolved"
             /\ (FailedVisibly(i)' \/ WillFail(todo[w])')
    BY <1>2, <1>5, <1>11 DEF Handles
  <2>2. \A r : Will(todo[w], "remove", r)' => r \in {"eyes", "hourglass"}
    BY <1>2, <1>5 DEF Handles
  <2>3. \A k : Will(todo[w], "reply", k)' => wpc[w] = "finish" /\ Kind[i] # "resolved"
    BY <1>2, <1>5 DEF Handles
  <2>4. wpc[w] \in {"lock", "verify", "history", "chat", "deliver"} => Kind[i] # "resolved"
    BY <1>2 DEF Handles
  <2>5. wpc[w] = "finish" => Ends(i, todo[w])'
    BY <1>2, <1>14 DEF Handles
  <2>6. wpc'[w] = wpc[w]
    BY <1>1
  <2> QED BY <2>1, <2>2, <2>3, <2>4, <2>5, <2>6 DEF Handles
<1>16. ASSUME NEW m \in Messages, NEW r \in reactions'[m]
       PROVE  r \in reactions[m] \/ (m = Message[i] /\ Owes(i, r)')
  <2> SUFFICES ASSUME r \notin reactions[m] PROVE m = Message[i] /\ Owes(i, r)'
    OBVIOUS
  <2>1. m = Message[i] /\ h.op = "add" /\ r = h.arg
    BY <1>7, <1>16
  <2>2. wpc'[w] = wpc[w] /\ job'[w] = i /\ sub'[i] = "accepted"
    BY <1>1, <1>2
  <2>3. CASE r = "hourglass" /\ wpc[w] = "chat"
    <3>1. GlassOwed(i)'
      BY <2>2, <2>3 DEF GlassOwed, EndsGlass
    <3> QED BY <2>1, <2>3, <3>1 DEF Owes
  <2>4. CASE r = "green" /\ Kind[i] = "resolved"
    BY <2>1, <2>2, <2>4 DEF Owes
  <2>5. CASE r = "check"
    BY <2>1, <2>5 DEF Owes
  <2>6. CASE r = "x" /\ Kind[i] # "resolved" /\ (FailedVisibly(i) \/ WillFail(todo[w]))
    <3>1. Failing(i)'
      BY <1>11, <2>2, <2>6 DEF Failing
    <3> QED BY <2>1, <2>2, <2>6, <3>1 DEF Owes
  <2> QED BY <1>8, <2>1, <2>3, <2>4, <2>5, <2>6
<1>17. TakesEyes(w) => TakesEyes(w)' \/ "eyes" \notin reactions'[Message[i]]
  <2>1. wpc'[w] = wpc[w]
    BY <1>1
  <2>2. Will(todo[w], "remove", "eyes") => Will(todo[w], "remove", "eyes")' \/ "eyes" \notin reactions'[Message[i]]
    BY <1>5, <1>7
  <2> QED BY <2>1, <2>2 DEF TakesEyes
<1>18. EndsGlass(w) => EndsGlass(w)' \/ "hourglass" \notin reactions'[Message[i]]
  <2>1. wpc'[w] = wpc[w]
    BY <1>1
  <2>2. Will(todo[w], "remove", "hourglass")
          => Will(todo[w], "remove", "hourglass")' \/ "hourglass" \notin reactions'[Message[i]]
    BY <1>5, <1>7
  <2> QED BY <2>1, <2>2 DEF EndsGlass
<1>19. /\ \A j \in Items \ {i} : RepliesOf(j)' = RepliesOf(j)
       /\ RepliesOf(i) \subseteq RepliesOf(i)'
       /\ Kind[i] = "resolved" => RepliesOf(i)' = RepliesOf(i)
  BY <1>8, <1>10
<1> QED
  BY <1>1, <1>4, <1>9, <1>12, <1>15, <1>16, <1>17, <1>18, <1>19 DEF WorkerMove

\* A worker with nothing left to do there moves to `to`, with the list `script`.
LEMMA GotoMoves ==
  ASSUME TypeInv, Good, NEW w \in Workers, NEW i \in Items, job[w] = i, todo[w] = <<>>,
         NEW to, NEW script, Goto(w, to, script), UNCHANGED <<finished, job>>,
         i \in SlackItems /\ wpc[w] \in {"received", "lock", "verify", "history"} =>
           to \in {"received", "lock", "verify", "history"} \/ Will(script, "remove", "eyes"),
         wpc[w] \in {"chat", "deliver"} =>
           to \in {"chat", "deliver"} \/ Will(script, "remove", "hourglass"),
         \A r : Will(script, "add", r) =>
           \/ r = "hourglass" /\ to = "chat"
           \/ r = "green" /\ to = "finish" /\ Kind[i] = "resolved"
           \/ r = "check" /\ to = "finish" /\ Kind[i] # "resolved"
           \/ r = "x" /\ to = "finish" /\ Kind[i] # "resolved" /\ WillFail(script),
         \A r : Will(script, "remove", r) => r \in {"eyes", "hourglass"},
         \A k : Will(script, "reply", k) => to = "finish" /\ Kind[i] # "resolved",
         to \in {"lock", "verify", "history", "chat", "deliver"} => Kind[i] # "resolved",
         to = "finish" => Ends(i, script)
  PROVE  WorkerMove(w, i)
<1>1. wpc'[w] = to /\ todo'[w] = script
  BY DEF Goto, TypeInv, TypeOK, runVars
<1>2. UNCHANGED <<reactions, thread>>
  BY DEF Goto, slackVars, runVars
<1>3. (FailedVisibly(i)' <=> FailedVisibly(i)) /\ (WillFail(todo[w])' <=> WillFail(script))
  BY <1>1, <1>2 DEF FailedVisibly, RepliesOf, WillFail, Will
<1>4. \A op, arg : Will(todo[w], op, arg)' <=> Will(script, op, arg)
  BY <1>1 DEF Will
<1>5. Ends(i, script) => Ends(i, todo[w])'
  BY <1>1, <1>2, <1>3, <1>4 DEF Ends, Marks
<1>6. Handles(w, i)'
  <2>1. \A r : Will(todo[w], "add", r)' =>
          \/ r = "hourglass" /\ to = "chat"
          \/ r = "green" /\ to = "finish" /\ Kind[i] = "resolved"
          \/ r = "check" /\ to = "finish" /\ Kind[i] # "resolved"
          \/ r = "x" /\ to = "finish" /\ Kind[i] # "resolved"
             /\ (FailedVisibly(i)' \/ WillFail(todo[w])')
    BY <1>3, <1>4
  <2>2. \A r : Will(todo[w], "remove", r)' => r \in {"eyes", "hourglass"}
    BY <1>4
  <2>3. \A k : Will(todo[w], "reply", k)' => to = "finish" /\ Kind[i] # "resolved"
    BY <1>4
  <2> QED BY <1>1, <1>5, <2>1, <2>2, <2>3 DEF Handles
<1>7. \A op, arg : ~Will(todo[w], op, arg)
  BY SingleWill
<1>8. ~WillFail(todo[w])
  BY <1>7 DEF WillFail
<1>9. i \in SlackItems /\ TakesEyes(w) => TakesEyes(w)'
  BY <1>1, <1>4, <1>7 DEF TakesEyes
<1>10. EndsGlass(w) => EndsGlass(w)'
  BY <1>1, <1>4, <1>7 DEF EndsGlass
<1> QED BY <1>6, <1>8, <1>9, <1>10, QuietMove

\* The steps in which a worker keeps its item.
LEMMA WorkerMoves ==
  ASSUME TypeInv, TypeInv', ShutdownInv, ContextInv, AnswerInv, ReactInv, Good,
         NEW w \in Workers, NEW i \in Items, job[w] = i,
         Dispatch(w) \/ LockThread(w) \/ Verify(w) \/ ReadHistory(w) \/ Chat(w) \/ DeliverPart(w)
           \/ Conclude(w)
  PROVE  WorkerMove(w, i)
<1> USE ServiceAssumption DEF ConsumerLives
<1>1. /\ todo[w] = <<>> /\ UNCHANGED <<finished, job>>
      /\ wpc[w] \in {"received", "lock", "verify", "history", "chat", "deliver"}
  BY DEF Dispatch, LockThread, Verify, ReadHistory, Chat, DeliverPart, Conclude, At, runVars
<1>2. /\ wpc[w] \in {"lock", "verify", "history", "chat", "deliver"} => Kind[i] # "resolved"
      /\ Handling(w)
  BY DEF ReactInv, Handles, AnswerInv
<1>3. ~Cancelled /\ Outcomes(w) = {"ok"}
  <2>1. ~Cancelled
    BY <1>1, NotCancelled DEF Good
  <2> QED BY <2>1 DEF Outcomes, Alive, Good, ContextInv
<1>5. /\ WillFail(FailVerification) /\ WillFail(FailHolmesRequest(i, FALSE))
      /\ WillFail(FailHolmesAnswerDelivery(i)) /\ ~WillFail(Succeed(i))
  BY WorkerWill DEF WillFail, FailureReplies
\* What a worker that goes to Holmes, fails or succeeds does.
<1>6. ASSUME Goto(w, "chat", BeginHolmes(i)), wpc[w] \in {"lock", "verify", "history"}
      PROVE  WorkerMove(w, i)
  <2>1. i \in SlackItems => Will(BeginHolmes(i), "remove", "eyes")
    BY WorkerWill DEF SlackItems
  <2>2. Kind[i] # "resolved"
    BY <1>2, <1>6
  <2>3. /\ \A r : Will(BeginHolmes(i), "add", r) => r = "hourglass"
        /\ \A r : Will(BeginHolmes(i), "remove", r) => r = "eyes"
        /\ \A k : ~Will(BeginHolmes(i), "reply", k)
    BY WorkerWill, ZenonT(60)
  <2> QED BY <1>1, <1>6, <2>1, <2>2, <2>3, GotoMoves
<1>7. ASSUME NEW script, Goto(w, "finish", script), wpc[w] # "received", Kind[i] # "resolved",
             WillFail(script),
             \A op, arg : op # "count" /\ Will(script, op, arg)
               => op = "reply" \/ (op = "remove" /\ arg \in {"eyes", "hourglass"}) \/ (op = "add" /\ arg = "x"),
             Will(script, "add", "x"),
             wpc[w] \in {"chat", "deliver"} => Will(script, "remove", "hourglass"),
             wpc[w] \in {"lock", "verify", "history"} => Will(script, "remove", "eyes")
      PROVE  WorkerMove(w, i)
  <2>1. Ends(i, script)
    BY <1>7 DEF Ends, Marks
  <2>2. /\ \A r : Will(script, "add", r) => r = "x"
        /\ \A r : Will(script, "remove", r) => r \in {"eyes", "hourglass"}
    BY <1>7
  <2>3. wpc[w] \in {"chat", "deliver", "lock", "verify", "history"}
    BY <1>1, <1>7
  <2> QED BY <1>1, <1>7, <2>1, <2>2, <2>3, GotoMoves
<1>8. CASE Dispatch(w)
  <2>1. CASE Kind[i] = "resolved"
    <3>1. Goto(w, "finish", Resolve) /\ wpc[w] = "received"
      BY <1>8, <2>1 DEF Dispatch, At
    <3>2. Ends(i, Resolve) /\ Will(Resolve, "remove", "eyes")
      BY WorkerWill, <2>1 DEF Ends, Marks
    <3>3. /\ \A r : Will(Resolve, "add", r) => r = "green"
          /\ \A r : Will(Resolve, "remove", r) => r = "eyes"
          /\ \A k : ~Will(Resolve, "reply", k)
      BY WorkerWill, ZenonT(60)
    <3> QED BY <1>1, <2>1, <3>1, <3>2, <3>3, GotoMoves
  <2>2. CASE Kind[i] # "resolved"
    <3>1. Goto(w, "lock", <<>>) /\ wpc[w] = "received"
      BY <1>8, <2>2 DEF Dispatch, At
    <3>2. \A op, arg : ~Will(<<>>, op, arg)
      BY SingleWill
    <3> QED BY <1>1, <2>2, <3>1, <3>2, GotoMoves
  <2> QED BY <2>1, <2>2
<1>9. CASE LockThread(w)
  <2>1. wpc[w] = "lock" /\ Kind[i] # "resolved"
    BY <1>2, <1>9 DEF LockThread, At
  <2>2. CASE AfterLock(i) = "chat"
    <3>1. Goto(w, "chat", BeginHolmes(i))
      BY <1>9, <2>2 DEF LockThread
    <3> QED BY <1>6, <2>1, <3>1
  <2>3. CASE AfterLock(i) # "chat"
    <3>1. AfterLock(i) \in {"verify", "history"} /\ Goto(w, AfterLock(i), <<>>)
      BY <1>9, <2>3 DEF LockThread, AfterLock
    <3>2. \A op, arg : ~Will(<<>>, op, arg)
      BY SingleWill
    <3> QED BY <1>1, <2>1, <3>1, <3>2, GotoMoves
  <2> QED BY <2>2, <2>3
<1>10. CASE Verify(w)
  <2>1. wpc[w] = "verify" /\ Kind[i] # "resolved"
    BY <1>2, <1>10 DEF Verify, At
  <2>2. CASE Goto(w, "chat", BeginHolmes(i))
    BY <1>6, <2>1, <2>2
  <2>3. CASE Goto(w, "finish", FailVerification)
    <3>1. \A op, arg : op # "count" /\ Will(FailVerification, op, arg)
            => op = "reply" \/ (op = "remove" /\ arg = "eyes") \/ (op = "add" /\ arg = "x")
      BY WorkerWill
    <3>2. Will(FailVerification, "add", "x") /\ Will(FailVerification, "remove", "eyes")
      BY WorkerWill
    <3> QED BY <1>5, <1>7, <2>1, <2>3, <3>1, <3>2
  <2> QED BY <1>10, <2>2, <2>3 DEF Verify
<1>11. CASE ReadHistory(w)
  <2>1. wpc[w] = "history" /\ Goto(w, "chat", BeginHolmes(i))
    BY <1>3, <1>11 DEF ReadHistory, At
  <2> QED BY <1>6, <2>1
<1>12. ASSUME RequestFails(w), wpc[w] \in {"chat", "deliver"} PROVE WorkerMove(w, i)
  <2>1. Goto(w, "finish", FailHolmesRequest(i, FALSE))
    <3>1. Cancelled = FALSE
      BY <1>3 DEF Cancelled
    <3> QED BY <1>12, <3>1 DEF RequestFails
  <2>2. Kind[i] # "resolved"
    BY <1>2, <1>12
  <2>3. \A op, arg : op # "count" /\ Will(FailHolmesRequest(i, FALSE), op, arg)
          => op = "reply" \/ (op = "remove" /\ arg = "hourglass") \/ (op = "add" /\ arg = "x")
    BY WorkerWill
  <2>4. /\ Will(FailHolmesRequest(i, FALSE), "add", "x")
        /\ Will(FailHolmesRequest(i, FALSE), "remove", "hourglass")
    BY WorkerWill
  <2> QED BY <1>5, <1>7, <1>12, <2>1, <2>2, <2>3, <2>4
<1>13. CASE Chat(w)
  <2>1. wpc[w] = "chat" /\ Kind[i] # "resolved"
    BY <1>2, <1>13 DEF Chat, At
  <2>2. CASE RequestFails(w)
    BY <1>12, <2>1, <2>2
  <2>3. CASE Goto(w, "deliver", <<>>)
    <3>1. \A op, arg : ~Will(<<>>, op, arg)
      BY SingleWill
    <3> QED BY <1>1, <2>1, <2>3, <3>1, GotoMoves
  <2> QED BY <1>13, <2>2, <2>3 DEF Chat
<1>14. CASE DeliverPart(w)
  <2>1. wpc[w] = "deliver" /\ Kind[i] # "resolved"
    BY <1>2, <1>14 DEF DeliverPart, At, runVars
  <2>2. Post(i, "part") /\ UNCHANGED <<expired, sub, wpc, todo, reactions>>
    <3>1. PICK outcome \in Outcomes(w) :
            /\ IF outcome = "failed" THEN UNCHANGED thread ELSE Post(job[w], "part")
            /\ IF DeliveryFailed(outcome)
               THEN /\ wpc' = [wpc EXCEPT ![w] = "finish"]
                    /\ todo' = [todo EXCEPT ![w] = FailHolmesAnswerDelivery(job[w])]
               ELSE UNCHANGED <<wpc, todo>>
      BY <1>14 DEF DeliverPart, runVars
    <3>2. outcome = "ok"
      BY <1>3, <3>1
    <3> QED BY <1>14, <3>1, <3>2 DEF DeliveryFailed, DeliverPart, runVars
  <2>3. RepliesOf(i)' = RepliesOf(i) \cup {"part"} /\ \A j \in Items \ {i} : RepliesOf(j)' = RepliesOf(j)
    BY <2>2, PostAdds DEF Replies
  <2>4. \A op, arg : ~Will(todo[w], op, arg) /\ ~(Will(todo[w], op, arg)')
    <3>1. todo[w] = <<>> /\ todo'[w] = <<>>
      BY <1>1, <2>2
    <3> QED BY <3>1 DEF Will
  <2>5. Handles(w, i)'
    BY <2>1, <2>2, <2>4 DEF Handles
  <2>6. MarksStay
    BY <2>2 DEF MarksStay
  <2>7. ~WillFail(todo[w]) /\ (EndsGlass(w) => EndsGlass(w)') /\ ~TakesEyes(w)
    BY <2>1, <2>2, <2>4 DEF WillFail, EndsGlass, TakesEyes
  <2> QED BY <1>1, <2>1, <2>2, <2>3, <2>5, <2>6, <2>7 DEF WorkerMove
<1>15. CASE Conclude(w)
  <2>1. wpc[w] = "deliver" /\ Kind[i] # "resolved"
    BY <1>2, <1>15 DEF Conclude, At
  <2>2. CASE RequestFails(w)
    BY <1>12, <2>1, <2>2
  <2>3. CASE DeliveryFails(w)
    <3>1. Goto(w, "finish", FailHolmesAnswerDelivery(i))
      BY <2>3 DEF DeliveryFails
    <3>2. \A op, arg : op # "count" /\ Will(FailHolmesAnswerDelivery(i), op, arg)
            => op = "reply" \/ (op = "remove" /\ arg = "hourglass") \/ (op = "add" /\ arg = "x")
      BY WorkerWill
    <3>3. Will(FailHolmesAnswerDelivery(i), "add", "x") /\ Will(FailHolmesAnswerDelivery(i), "remove", "hourglass")
      BY WorkerWill
    <3> QED BY <1>5, <1>7, <2>1, <3>1, <3>2, <3>3
  <2>4. CASE Goto(w, "finish", Succeed(i))
    <3>1. ~FailedVisibly(i)
      BY <1>2, <2>1 DEF Handling, FailedVisibly, FailureReplies
    <3>2. Ends(i, Succeed(i))
      BY WorkerWill, <1>5, <2>1, <3>1 DEF Ends, Marks
    <3>3. /\ \A r : Will(Succeed(i), "add", r) => r = "check"
          /\ \A r : Will(Succeed(i), "remove", r) => r = "hourglass"
          /\ \A k : ~Will(Succeed(i), "reply", k)
          /\ Will(Succeed(i), "remove", "hourglass")
      BY WorkerWill, ZenonT(60)
    <3> QED BY <1>1, <2>1, <2>4, <3>2, <3>3, GotoMoves
  <2> QED BY <1>15, <2>2, <2>3, <2>4 DEF Conclude
<1> QED BY <1>8, <1>9, <1>10, <1>11, <1>13, <1>14, <1>15

\* The steps in which a worker takes an item, lets it go, or leaves.
LEMMA LoopSteps ==
  ASSUME TypeInv, PlaceInv, UniqueInv, ReactInv, Good, NEW w \in Workers,
         Take(w) \/ Finish(w) \/ Exit(w)
  PROVE  ReactInv'
<1> USE ServiceAssumption DEF ConsumerLives
<1>1. /\ \A j \in Items : Submits(j)
      /\ \A v \in Workers : \A j \in Items : job[v] = j => Handles(v, j)
      /\ \A m \in Messages : \A r \in reactions[m] : \E j \in Items : Message[j] = m /\ Owes(j, r)
      /\ \A j \in finished : Ends(j, <<>>)
      /\ \A j \in Items : Kind[j] = "resolved" => RepliesOf(j) = {}
  BY DEF ReactInv
<1>2. /\ job \in [Workers -> Items \cup {None}] /\ todo \in [Items \cup Workers -> Seq(Calls)]
      /\ wpc \in [Workers -> WorkerStates] /\ finished \subseteq Items
  BY DEF TypeInv, TypeOK
<1>3. /\ todo[w] = <<>> /\ UNCHANGED <<expired, sub, reactions, thread>>
      /\ \E to : Goto(w, to, <<>>)
  BY DEF Take, Finish, Exit, At, Goto, slackVars, runVars
<1>4. /\ todo'[w] = <<>>
      /\ \A v \in Workers \ {w} : wpc'[v] = wpc[v] /\ todo'[v] = todo[v]
      /\ \A j \in Items : todo'[j] = todo[j]
  BY <1>2, <1>3 DEF Goto, runVars
<1>5. \/ Take(w) /\ job[w] = None /\ wpc'[w] = "received" /\ finished' = finished
      \/ Finish(w) /\ wpc[w] = "finish" /\ job'[w] = None /\ finished' = finished \cup {job[w]}
      \/ Exit(w) /\ job[w] = None /\ job' = job /\ finished' = finished
  BY <1>2 DEF Take, Finish, Exit, At, Goto, TypeInv, HoldsJob, runVars
<1>6. \A v \in Workers \ {w} : job'[v] = job[v]
  BY <1>2 DEF Take, Finish, Exit
<1>7. MarksStay /\ \A j \in Items : RepliesOf(j)' = RepliesOf(j)
  BY <1>3 DEF MarksStay, RepliesOf
<1>8. \A j \in Items : Submits(j)'
  BY <1>1, <1>3, <1>4, <1>7, SubmitsStays
<1>9. \A op, arg : ~Will(todo[w], op, arg) /\ ~(Will(todo[w], op, arg)')
  BY <1>3, <1>4 DEF Will
<1>10. ASSUME NEW v \in Workers, NEW j \in Items, job'[v] = j PROVE Handles(v, j)'
  <2>1. CASE v # w
    BY <1>1, <1>4, <1>6, <1>7, <1>10, <2>1, HandlesStays
  <2>2. CASE v = w
    <3>1. wpc'[w] = "received"
      BY <1>5, <1>10, <2>2
    <3> QED BY <1>9, <2>2, <3>1 DEF Handles
  <2> QED BY <2>1, <2>2
<1>11. ASSUME NEW j \in finished' PROVE Ends(j, <<>>)'
  <2>1. CASE j \in finished
    BY <1>1, <1>2, <1>7, <2>1, EndsStays
  <2>2. CASE j \notin finished
    <3>1. j = job[w] /\ wpc[w] = "finish"
      BY <1>5, <1>11, <2>2
    <3>2. j \in Items
      BY <3>1 DEF TypeInv, HoldsJob
    <3>3. Ends(j, todo[w])
      BY <1>1, <3>1, <3>2 DEF Handles
    <3>4. Ends(j, <<>>)
      BY <1>3, <3>3
    <3> QED BY <1>7, <3>2, <3>4, EndsStays
  <2> QED BY <2>1, <2>2
<1>12. ASSUME NEW j \in Items, NEW r, Owes(j, r) PROVE Owes(j, r)'
  <2>1. FailedVisibly(j)' <=> FailedVisibly(j)
    BY <1>7 DEF FailedVisibly
  <2>2. CASE job[w] # j
    <3>1. \A v \in Workers : v # w => /\ TakesEyes(v) => TakesEyes(v)'
                                      /\ EndsGlass(v) => EndsGlass(v)'
                                      /\ WillFail(todo[v]) => WillFail(todo[v])'
      BY <1>4 DEF TakesEyes, EndsGlass, WillFail, Will
    <3>2. \A v \in Workers : job[v] = j => v # w /\ job'[v] = j
      BY <1>6, <2>2
    <3>3. \A v \in Workers : job'[v] = j => (v # w /\ job[v] = j) \/ TakesEyes(v)'
      BY <1>5, <1>6, <2>2 DEF TakesEyes
    <3>4. j \in finished' => j \in finished
      BY <1>5, <2>2
    <3>5. Will(todo[j], "remove", "eyes") => Will(todo[j], "remove", "eyes")'
      BY <1>4 DEF Will
    <3> QED BY <1>3, <1>12, <2>1, <3>1, <3>2, <3>3, <3>4, <3>5, OwesStays
  <2>3. CASE job[w] = j
    <3>1. wpc[w] = "finish" /\ sub[j] = "accepted" /\ sub'[j] = "accepted"
      BY <1>3, <1>5, <2>3 DEF PlaceInv
    <3>2. ~TakesEyes(w) /\ ~EndsGlass(w) /\ ~WillFail(todo[w])
      BY <1>9, <3>1 DEF TakesEyes, EndsGlass, WillFail
    <3>3. \A v \in Workers : job[v] = j => v = w
      BY <2>3 DEF UniqueInv
    <3>4. r # "eyes" /\ r # "hourglass"
      BY <1>12, <2>3, <3>1, <3>2, <3>3 DEF Owes, EyesOwed, GlassOwed
    <3>5. r = "x" => Kind[j] # "resolved" /\ FailedVisibly(j)
      BY <1>12, <3>1, <3>2, <3>3 DEF Owes, Failing, Refused
    <3>6. r = "green" => Kind[j] = "resolved"
      BY <1>12 DEF Owes
    <3> QED BY <2>1, <3>1, <3>4, <3>5, <3>6 DEF Owes, Failing
  <2> QED BY <2>2, <2>3
<1>13. \A m \in Messages : \A r \in reactions'[m] : \E j \in Items : Message[j] = m /\ Owes(j, r)'
  BY <1>1, <1>3, <1>12
<1>14. \A j \in Items : Kind[j] = "resolved" => RepliesOf(j)' = {}
  BY <1>1, <1>7
<1> QED BY <1>8, <1>10, <1>11, <1>13, <1>14 DEF ReactInv

---------------------------------------------------------------------------
(* All steps together *)

\* The stage moves on, or nothing does.
LEMMA StageKeeps ==
  ASSUME TypeInv, ReactInv, Good,
         UNCHANGED <<sub, todo, wpc, job, finished, reactions, thread>>,
         ~ConsumerLives => ~(ConsumerLives')
  PROVE  ReactInv'
<1> USE ServiceAssumption DEF ConsumerLives
<1>1. /\ \A j \in Items : Submits(j)
      /\ \A w \in Workers : \A j \in Items : job[w] = j => Handles(w, j)
      /\ \A m \in Messages : \A r \in reactions[m] : \E j \in Items : Message[j] = m /\ Owes(j, r)
      /\ \A j \in finished : Ends(j, <<>>)
      /\ \A j \in Items : Kind[j] = "resolved" => RepliesOf(j) = {}
  BY DEF ReactInv
<1>2. MarksStay /\ (\A j \in Items : RepliesOf(j)' = RepliesOf(j)) /\ finished \subseteq Items
  BY DEF MarksStay, RepliesOf, TypeInv, TypeOK
<1>3. \A j \in Items : Submits(j)'
  BY <1>1, <1>2, SubmitsStays
<1>4. \A w \in Workers : \A j \in Items : job'[w] = j => Handles(w, j)'
  BY <1>1, <1>2, HandlesStays
<1>5. ASSUME NEW j \in Items, NEW r, Owes(j, r) PROVE Owes(j, r)'
  <2>1. \A w \in Workers : /\ TakesEyes(w) => TakesEyes(w)'
                           /\ EndsGlass(w) => EndsGlass(w)'
                           /\ WillFail(todo[w]) => WillFail(todo[w])'
    BY DEF TakesEyes, EndsGlass, WillFail, Will
  <2>2. /\ FailedVisibly(j) => FailedVisibly(j)'
        /\ Will(todo[j], "remove", "eyes") => Will(todo[j], "remove", "eyes")'
    BY <1>2 DEF FailedVisibly, Will
  <2> QED BY <1>5, <2>1, <2>2, OwesStays
<1>6. \A m \in Messages : \A r \in reactions'[m] : \E j \in Items : Message[j] = m /\ Owes(j, r)'
  BY <1>1, <1>5
<1>7. \A j \in finished' : Ends(j, <<>>)'
  BY <1>1, <1>2, EndsStays
<1> QED BY <1>1, <1>2, <1>3, <1>4, <1>6, <1>7 DEF ReactInv

\* Every step keeps the invariant.
LEMMA NextReact ==
  ASSUME TypeInv, TypeInv', IntakeInv, ShutdownInv, ContextInv, PlaceInv, UniqueInv, AnswerInv,
         ReactInv, [Next]_vars
  PROVE  ReactInv'
<1> SUFFICES ASSUME Good' PROVE ReactInv'
  BY DEF ReactInv
<1>1. Good
  BY ForcedStays DEF Good
<1>2. ASSUME NEW i \in Items, BestEffort(i) PROVE ReactInv'
  BY <1>1, <1>2, SubmitterCalls
<1>3. ASSUME NEW i \in Items,
             Submit(i) \/ Offer(i) \/ CronFires(i) \/ PostRoot(i) \/ OfferScheduled(i)
      PROVE  ReactInv'
  BY <1>1, <1>3, SubmitterSteps
<1>4. ASSUME NEW w \in Workers,
             BestEffort(w) \/ Dispatch(w) \/ LockThread(w) \/ Verify(w) \/ ReadHistory(w)
               \/ Chat(w) \/ DeliverPart(w) \/ Conclude(w)
      PROVE  ReactInv'
  <2>1. job[w] \in Items
    <3>1. wpc[w] \notin {"idle", "exited"} \/ todo[w] # <<>>
      BY <1>4 DEF BestEffort, Dispatch, LockThread, Verify, ReadHistory, Chat, DeliverPart,
          Conclude, At, runVars
    <3> QED BY <3>1 DEF TypeInv, HoldsJob
  <2>2. PICK i \in Items : job[w] = i
    BY <2>1
  <2>3. WorkerMove(w, i)
    BY <1>1, <1>4, <2>2, WorkerCalls, WorkerMoves
  <2> QED BY <1>1, <2>3, MoveKeeps
<1>5. ASSUME NEW w \in Workers, Take(w) \/ Finish(w) \/ Exit(w) PROVE ReactInv'
  BY <1>1, <1>5, LoopSteps
<1>6. ASSUME NEW w \in Workers, SkipCancelled(w) PROVE FALSE
  BY <1>1, <1>6, NotCancelled DEF SkipCancelled, At, Good
<1>7. CASE Shutdown \/ RunStep \/ CloserStep \/ OnlyTimePasses
  <2>1. /\ UNCHANGED <<sub, todo, wpc, job, finished, reactions, thread>>
        /\ ~ConsumerLives => ~(ConsumerLives')
    BY <1>7 DEF Shutdown, RunStep, StopScheduler, DrainTimeout, CancelWork, Return, Advance,
      CloserStep, SchedulerStopped, CloseQueue, runVars, workerVars, slackVars, OnlyTimePasses,
      ConsumerLives
  <2> QED BY <1>1, <2>1, StageKeeps
<1> QED BY Steps, <1>2, <1>3, <1>4, <1>5, <1>6, <1>7

---------------------------------------------------------------------------
(* What a message shows *)

\* Items that are not new and have a given message.
Here(m) == {i \in Items : Message[i] = m /\ sub[i] # "new"}

\* A reaction that is shown stands for an end, or is the eyes of an event that was
\* turned away.
LEMMA ShownIsEnd ==
  ASSUME TypeInv, PlaceInv, UniqueInv, AnswerInv, ReactInv, Good, NEW m \in Messages,
         \A i \in Here(m) : Settled(i), NEW r \in reactions[m]
  PROVE  \/ \E i \in Here(m) : r \in EndShown(i)
         \/ r = "eyes" /\ \E i \in Here(m) : TurnedAway(i, {"dropped"})
<1> USE ServiceAssumption
<1>1. r \in Reactions
  BY DEF TypeInv, TypeOK
<1>2. PICK j \in Items : Message[j] = m /\ Owes(j, r)
  BY DEF ReactInv
<1>3. \A w \in Workers : \A i \in Items : job[w] = i => sub[i] = "accepted"
  BY DEF PlaceInv
<1>4. ASSUME NEW i \in Items, Message[i] = m, sub[i] = "accepted"
      PROVE  i \in Here(m) /\ i \in finished /\ \A w \in Workers : job[w] # i
  <2>1. i \in Here(m) /\ Settled(i)
    BY <1>4 DEF Here
  <2>2. i \in finished
    BY <1>4, <2>1 DEF Settled
  <2> QED BY <2>1, <2>2 DEF UniqueInv
<1>5. CASE r = "eyes"
  <2>1. EyesOwed(j)
    BY <1>2, <1>5 DEF Owes
  <2>2. j \in Here(m) /\ j \notin Scheduled
    BY <1>2, <2>1 DEF EyesOwed, Here, SlackItems
  <2>3. Settled(j) /\ ~Will(todo[j], "remove", "eyes")
    BY <2>2 DEF Settled, Will
  <2>4. TurnedAway(j, {"dropped"})
    BY <2>1, <2>3 DEF EyesOwed, Settled, TurnedAway
  <2> QED BY <1>5, <2>2, <2>4
<1>6. CASE r = "hourglass"
  <2>1. PICK w \in Workers : job[w] = j
    BY <1>2, <1>6 DEF Owes, GlassOwed
  <2> QED BY <1>2, <1>3, <1>4, <2>1
<1>7. CASE r = "x"
  <2>1. CASE sub[j] \in Refused
    BY <1>2, <1>7, <2>1 DEF EndShown, Here, Refused
  <2>2. CASE sub[j] = "accepted" /\ Kind[j] # "resolved" /\ Failing(j)
    <3>1. FailedVisibly(j) /\ j \in Here(m)
      BY <1>2, <1>4, <2>2 DEF Failing
    <3> QED BY <1>7, <2>2, <3>1 DEF EndShown
  <2> QED BY <1>2, <1>7, <2>1, <2>2 DEF Owes
<1>8. CASE r = "green"
  <2>1. sub[j] = "accepted" /\ Kind[j] = "resolved"
    BY <1>2, <1>8 DEF Owes
  <2> QED BY <1>2, <1>4, <1>8, <2>1 DEF EndShown
<1>9. CASE r = "check"
  <2>1. PICK i \in Items : Message[i] = m /\ Answered(i)
    BY <1>9 DEF AnswerInv
  <2>2. sub[i] = "accepted"
    BY <1>3, <2>1 DEF Answered, PlaceInv
  <2>3. ~FailedVisibly(i) /\ Kind[i] # "resolved"
    BY <2>1 DEF Answered, FailedVisibly, FailureReplies, ReactInv
  <2> QED BY <1>4, <1>9, <2>1, <2>2, <2>3 DEF EndShown
<1> QED BY <1>1, <1>5, <1>6, <1>7, <1>8, <1>9 DEF Reactions

\* An end is shown, unless it is that of an event that was turned away.
LEMMA EndIsShown ==
  ASSUME IntakeInv, ReactInv, Good, NEW i \in Items, Settled(i), NEW r \in EndShown(i)
  PROVE  r \in reactions[Message[i]] \/ (r = "x" /\ TurnedAway(i, {"dropped", "rejected"}))
<1>1. \A op, arg : ~Will(<<>>, op, arg)
  BY SingleWill
<1>2. CASE sub[i] \in {"ignored", "failed"}
  BY <1>2 DEF EndShown
<1>3. CASE sub[i] \in Refused
  <2>1. r = "x"
    BY <1>3 DEF EndShown, Refused
  <2>2. CASE ConsumerLives \/ i \in Scheduled
    <3>1. Marks(i, "x", todo[i])
      BY <1>3, <2>2 DEF ReactInv, Submits
    <3> QED BY <1>1, <2>1, <3>1 DEF Marks, Settled
  <2>3. CASE ~ConsumerLives /\ i \notin Scheduled
    <3>1. sub[i] \in {"dropped", "rejected"}
      BY <1>3 DEF Refused, IntakeInv, CronNeverRefused
    <3> QED BY <2>1, <2>3, <3>1 DEF TurnedAway, SlackItems
  <2> QED BY <2>2, <2>3
<1>4. CASE sub[i] = "accepted"
  <2>1. Ends(i, <<>>) /\ ~WillFail(<<>>)
    BY <1>1, <1>4 DEF Settled, ReactInv, WillFail
  <2>2. r = IF Kind[i] = "resolved" THEN "green" ELSE IF FailedVisibly(i) THEN "x" ELSE "check"
    BY <1>4 DEF EndShown
  <2> QED BY <1>1, <2>1, <2>2 DEF Ends, Marks
<1> QED BY <1>2, <1>3, <1>4 DEF Settled, Refused

\* When Slack answers and the shutdown is graceful, a message whose items have all
\* ended shows exactly how they ended: every reaction that is shown has an item that
\* still owes its removal or ended that way, and every end has left its mark.  Of
\* events turned away after the end of the consumer's context the x may be missing,
\* and of those that were dropped the eyes may stay.
THEOREM ReactionsTellTheEnd == Spec => []ReactionsSettle
<1>1. Spec => [](TypeInv /\ IntakeInv /\ ShutdownInv)
  BY InitTypes, NextTypes, InitIntake, NextIntake, InitShutdown, NextShutdown, PTL DEF Spec
<1>2. TypeInv /\ IntakeInv /\ ShutdownInv /\ PlaceInv /\ [Next]_vars => PlaceInv'
  BY NextPlace
<1>3. TypeInv /\ PlaceInv /\ UniqueInv /\ [Next]_vars => UniqueInv'
  BY NextUnique
<1>4. TypeInv /\ TypeInv' /\ PlaceInv /\ UniqueInv /\ AnswerInv /\ [Next]_vars => AnswerInv'
  BY NextAnswer
<1>5. TypeInv /\ TypeInv' /\ IntakeInv /\ ShutdownInv /\ ContextInv /\ PlaceInv /\ UniqueInv
        /\ AnswerInv /\ ReactInv /\ [Next]_vars => ReactInv'
  BY NextReact
<1>6. ASSUME TypeInv, IntakeInv, PlaceInv, UniqueInv, AnswerInv, ReactInv PROVE ReactionsSettle
  <2> DEFINE due(m) == UNION {EndShown(i) : i \in Here(m)}
             missing(m) ==
               IF \E i \in Here(m) : TurnedAway(i, {"dropped", "rejected"}) THEN {"x"} ELSE {}
             left(m) == IF \E i \in Here(m) : TurnedAway(i, {"dropped"}) THEN {"eyes"} ELSE {}
  <2> SUFFICES ASSUME Good, NEW m \in Messages, \A i \in Here(m) : Settled(i)
               PROVE  /\ reactions[m] \subseteq due(m) \cup left(m)
                      /\ due(m) \subseteq reactions[m] \cup missing(m)
    BY DEF ReactionsSettle, Good, Here
  <2>1. \A r \in reactions[m] : r \in due(m) \/ r \in left(m)
    <3> SUFFICES ASSUME NEW r \in reactions[m] PROVE r \in due(m) \/ r \in left(m)
      OBVIOUS
    <3>1. \/ \E i \in Here(m) : r \in EndShown(i)
          \/ r = "eyes" /\ \E i \in Here(m) : TurnedAway(i, {"dropped"})
      BY <1>6, ShownIsEnd
    <3> QED BY <3>1
  <2>2. \A i \in Here(m) : \A r \in EndShown(i) : r \in reactions[m] \/ r \in missing(m)
    <3> SUFFICES ASSUME NEW i \in Here(m), NEW r \in EndShown(i)
                 PROVE  r \in reactions[m] \/ r \in missing(m)
      OBVIOUS
    <3>1. i \in Items /\ Message[i] = m
      BY DEF Here
    <3>2. r \in reactions[m] \/ (r = "x" /\ TurnedAway(i, {"dropped", "rejected"}))
      BY <1>6, <3>1, EndIsShown
    <3> QED BY <3>2
  <2> QED BY <2>1, <2>2
<1>7. TypeInv /\ ShutdownInv /\ ContextInv /\ [Next]_vars => ContextInv'
  BY NextContext
<1> QED
  BY <1>1, <1>2, <1>3, <1>4, <1>5, <1>6, <1>7, InitContext, InitPlace, InitUnique, InitAnswer,
    InitReact, PTL DEF Spec

==============================================================================
