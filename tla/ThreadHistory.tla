--------------------------- MODULE ThreadHistory ---------------------------
(***************************************************************************)
(* The history of one thread as asks see it: Conversation in               *)
(* src/internal/slack/client.go, which reads it from Slack page by page,   *)
(* and handleAsk, which does so under the thread's lock while the thread   *)
(* grows: users ask, talk and delete, and earlier requests are answered.   *)
(*                                                                         *)
(* A message's timestamp is its place in the thread; 1 is the root, an     *)
(* alert, a scheduled run's post or a question of its own, which is        *)
(* answered without a history.                                             *)
(***************************************************************************)
EXTENDS Conversation

CONSTANTS
  Contents,     \* the texts of messages
  PageLimit,    \* messages in a page of conversations.replies (200)
  MaxBytes,     \* ConversationMaxBytes
  MaxMessages,  \* bound: messages in the thread
  MaxParts      \* bound: parts of an answer

ASSUME HistoryAssumption ==
  /\ PageLimit \in Nat \ {0} /\ MaxMessages \in Nat \ {0} /\ MaxParts \in Nat \ {0}
  /\ MaxBytes \in Nat \ {0}
  /\ \A text \in Contents : text \in Seq(1 .. 4)  \* the widths of UTF-8
  /\ \E text \in Contents : text # <<>>

VARIABLES
  thread,    \* [kind, text, of]: "of" is what a message of AlertLens answers
  pending,   \* requests whose handler waits for the thread's lock
  current,   \* the request that is handled; 0: none
  pc,        \* "idle", "reading", "holmes"
  cursor,    \* of the next page
  all,       \* the timestamps read so far
  messages,  \* what Conversation returned
  sent       \* parts of the answer that were delivered

vars == <<thread, pending, current, pc, cursor, all, messages, sent>>

Message(kind, text, of) == [kind |-> kind, text |-> text, of |-> of]

Init ==
  /\ \E text \in Contents : thread = <<Message("root", text, 0)>>
  /\ pending = {1} /\ current = 0 /\ pc = "idle"
  /\ cursor = 0 /\ all = <<>> /\ messages = <<>> /\ sent = 0

---------------------------------------------------------------------------
(* Users *)

Say(kind, of) ==
  /\ Len(thread) < MaxMessages
  /\ \E text \in Contents : thread' = Append(thread, Message(kind, text, of))

\* A message that mentions AlertLens reaches a worker.
Ask ==
  /\ Say("ask", 0)
  /\ pending' = pending \cup {Len(thread) + 1}
  /\ UNCHANGED <<current, pc, cursor, all, messages, sent>>

Talk ==
  /\ Say("talk", 0)
  /\ UNCHANGED <<pending, current, pc, cursor, all, messages, sent>>

\* The content of a deleted root stays as a tombstone, which is one more text.
Delete ==
  /\ \E ts \in 2 .. Len(thread) :
       /\ thread[ts].kind # "deleted"
       /\ thread' = [thread EXCEPT ![ts] = Message("deleted", <<>>, 0)]
  /\ UNCHANGED <<pending, current, pc, cursor, all, messages, sent>>

---------------------------------------------------------------------------
(* Conversation *)

\* The positions up to n that are in P, in order.
Positions(n, P) == FlattenSeq([i \in 1 .. n |-> IF i \in P THEN <<i>> ELSE <<>>])

\* The timestamps that Slack still has between the cursor and latest, which is
\* not included.
Replies(after, latest) ==
  Positions(Len(thread),
            {ts \in DOMAIN thread : after < ts /\ ts < latest /\ thread[ts].kind # "deleted"})

\* A message as it is when its page is read.
Read(ts) == [ts |-> ts, kind |-> thread[ts].kind, text |-> thread[ts].text]

\* Mutant: no latest is sent.
WholeThread == Len(thread) + 1
Latest == current

Assistant(message) == message.kind = "answer"

\* Who said what, for Holmes; other people's talk is left out.
Eligible(message) ==
  message.ts # current /\ (message.kind \in {"root", "ask"} \/ Assistant(message))

Entry(message) ==
  [ts |-> message.ts, role |-> IF Assistant(message) THEN "assistant" ELSE "user",
   text |-> message.text]

\* Mutant: the first page is the last.
OnePage(replies) == FALSE
HasMore(replies) == Len(replies) > PageLimit

Translate(read) ==
  LET eligible == Positions(Len(read), {i \in DOMAIN read : Eligible(read[i])})
  IN  [i \in DOMAIN eligible |-> Entry(read[eligible[i]])]

ReadPage ==
  /\ pc = "reading"
  /\ LET replies == Replies(cursor, Latest)
         page == SubSeq(replies, 1, Min({PageLimit, Len(replies)}))
         read == all \o [i \in DOMAIN page |-> Read(page[i])]
     IN  IF HasMore(replies)
         THEN /\ cursor' = Last(page) /\ all' = read
              /\ UNCHANGED <<pc, messages>>
         ELSE /\ pc' = "holmes"
              /\ messages' = Translate(read)
              /\ cursor' = 0 /\ all' = <<>>
  /\ UNCHANGED <<thread, pending, current, sent>>

---------------------------------------------------------------------------
(* handleAsk, and the answer *)

Unqueued(ts) == pending \ {ts}

\* The lock is granted to any of those who wait.  A root has no history.
Begin ==
  /\ pc = "idle"
  /\ \E ts \in pending :
       /\ current' = ts
       /\ pending' = Unqueued(ts)
       /\ pc' = IF ts = 1 THEN "holmes" ELSE "reading"
  /\ UNCHANGED <<thread, cursor, all, messages, sent>>

End == pc' = "idle" /\ current' = 0 /\ messages' = <<>> /\ sent' = 0 /\ cursor' = 0 /\ all' = <<>>

\* Any page that cannot be read ends the ask before Holmes is called.
ReadFails ==
  /\ pc = "reading"
  /\ End
  /\ UNCHANGED <<thread, pending>>

DeliverPart ==
  /\ pc = "holmes"
  /\ sent < MaxParts
  /\ Say("answer", current)
  /\ sent' = sent + 1
  /\ UNCHANGED <<pending, current, pc, cursor, all, messages>>

Succeed ==
  /\ pc = "holmes"
  /\ sent > 0
  /\ End
  /\ UNCHANGED <<thread, pending>>

\* Holmes or the delivery fails, before or after some parts were delivered; the
\* failure reply may fail too.
Fail ==
  /\ pc = "holmes"
  /\ End
  /\ UNCHANGED pending
  /\ Say("failure", current) \/ UNCHANGED thread

Next ==
  \/ Ask \/ Talk \/ Delete
  \/ Begin \/ ReadPage \/ ReadFails \/ DeliverPart \/ Succeed \/ Fail

Spec == Init /\ [][Next]_vars

---------------------------------------------------------------------------
(* Properties *)

\* What Holmes gets.
History == BoundConversation(messages, MaxBytes)
WithHistory == pc = "holmes" /\ current # 1
Held(ts) == \E i \in DOMAIN messages : messages[i].ts = ts

Size(history) == Bytes([i \in DOMAIN history |-> Bytes(history[i].text)])
Widest == Max(UNION {Range(text) : text \in Contents})

\* The conversation begins with the root, goes forward in time and ends before
\* the question: neither the question nor anything later is in it.
EndsBeforeTheAsk ==
  WithHistory =>
    /\ messages # <<>> /\ messages[1].ts = 1
    /\ \A i, j \in DOMAIN messages : i < j => messages[i].ts < messages[j].ts
    /\ Last(messages).ts < current

\* Every page is read: a question or an answer from before the ask that is
\* still there was not overlooked, whatever was deleted between two pages.
NothingOverlooked ==
  WithHistory =>
    \A ts \in 1 .. current - 1 : thread[ts].kind \in {"root", "ask", "answer"} => Held(ts)

\* The budget is kept, and it is used: text is left out only where the next rune
\* would not have fitted.
BudgetKeptAndUsed ==
  WithHistory =>
    /\ Size(History) <= MaxBytes
    /\ Size(History) <= MaxBytes - Widest => History = messages

\* integration_test.go, TestAskWaitsForScheduledInvestigationAndUsesSlackHistory:
\* a question that waited for an answer in its thread finds it in its history
\* (CONTEXT.md: "AlertLens answers currently available in a thread").
AnswersAvailable ==
  WithHistory => \A ts \in DOMAIN thread : thread[ts].kind = "answer" /\ thread[ts].of # current => Held(ts)

=============================================================================
