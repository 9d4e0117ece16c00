------------------------- MODULE ThreadHistoryProofs ------------------------
(***************************************************************************)
(* Theorems about ThreadHistory, for every page size, every number of      *)
(* messages and whatever is written and deleted between two pages: the     *)
(* history ends before the ask, nothing in it is overlooked and nothing    *)
(* else is in it.                                                          *)
(***************************************************************************)
EXTENDS ThreadHistory, SequenceFacts

---------------------------------------------------------------------------
(* Positions *)

\* A sequence of numbers goes up.
Ascends(s) == \A i, j \in DOMAIN s : i < j => s[i] < s[j]

\* The first n of the joined sequences give the elements of P up to n, in order.
Gives(s, n, P) ==
  /\ s \in Seq(P)
  /\ Ascends(s)
  /\ \A i \in DOMAIN s : s[i] <= n
  /\ \A x \in P : x <= n => \E i \in DOMAIN s : s[i] = x

\* One number more at the end.
LEMMA GivesMore ==
  ASSUME NEW P \in SUBSET Nat, NEW n \in Nat, NEW s, Gives(s, n, P)
  PROVE  /\ n + 1 \notin P => Gives(s, n + 1, P) /\ Gives(s \o <<>>, n + 1, P)
         /\ n + 1 \in P => Gives(s \o <<n + 1>>, n + 1, P)
<1>1. /\ s \in Seq(P) /\ Len(s) \in Nat /\ DOMAIN s = 1 .. Len(s)
      /\ \A i \in 1 .. Len(s) : s[i] \in P /\ s[i] \in Nat /\ s[i] <= n
  <2>1. s \in Seq(P) /\ \A i \in DOMAIN s : s[i] <= n
    BY DEF Gives
  <2>2. Len(s) \in Nat /\ DOMAIN s = 1 .. Len(s) /\ \A i \in 1 .. Len(s) : s[i] \in P
    BY <2>1
  <2> QED BY <2>1, <2>2
<1>2. CASE n + 1 \notin P
  <2>1. \A x \in P : x <= n + 1 => x <= n
    BY <1>2
  <2>2. Gives(s, n + 1, P)
    BY <1>1, <2>1 DEF Gives
  <2>3. s \o <<>> = s
    BY <1>1
  <2> QED BY <1>2, <2>2, <2>3
<1>3. CASE n + 1 \in P
  <2>1. PICK t : t = s \o <<n + 1>>
    OBVIOUS
  <2>2. /\ t \in Seq(P) /\ Len(t) = Len(s) + 1 /\ DOMAIN t = 1 .. Len(s) + 1
        /\ \A i \in 1 .. Len(s) : t[i] = s[i]
        /\ t[Len(s) + 1] = n + 1
    BY <1>1, <1>3, <2>1
  <2>3. Ascends(t)
    <3> SUFFICES ASSUME NEW i \in DOMAIN t, NEW j \in DOMAIN t, i < j PROVE t[i] < t[j]
      BY DEF Ascends
    <3>1. CASE j \in 1 .. Len(s)
      <4>1. i \in 1 .. Len(s)
        BY <1>1, <2>2, <3>1
      <4> QED BY <1>1, <2>2, <3>1, <4>1 DEF Gives, Ascends
    <3>2. CASE j = Len(s) + 1
      <4>1. i \in 1 .. Len(s)
        BY <1>1, <2>2, <3>2
      <4> QED BY <1>1, <2>2, <3>2, <4>1
    <3> QED BY <1>1, <2>2, <3>1, <3>2
  <2>4. \A i \in DOMAIN t : t[i] <= n + 1
    BY <1>1, <2>2
  <2>5. ASSUME NEW x \in P, x <= n + 1 PROVE \E i \in DOMAIN t : t[i] = x
    <3>1. CASE x <= n
      BY <1>1, <2>2, <3>1 DEF Gives
    <3>2. CASE x = n + 1
      BY <1>1, <2>2, <3>2
    <3> QED BY <2>5, <3>1, <3>2
  <2> QED BY <1>3, <2>1, <2>2, <2>3, <2>4, <2>5 DEF Gives
<1> QED BY <1>2, <1>3

\* Positions gives the positions in P, in order.
LEMMA PositionsGive ==
  ASSUME NEW n \in Nat, NEW P \in SUBSET (1 .. n)
  PROVE  Gives(Positions(n, P), n, P)
<1> DEFINE seqs == [i \in 1 .. n |-> IF i \in P THEN <<i>> ELSE <<>>]
<1>1. /\ Positions(n, P) = FlattenSeq(seqs) /\ Len(seqs) = n
      /\ \A i \in 1 .. n : seqs[i] = IF i \in P THEN <<i>> ELSE <<>>
      /\ P \subseteq Nat
  BY DEF Positions
<1> HIDE DEF seqs
<1>2. Gives(<<>>, 0, P)
  BY DEF Gives, Ascends
<1>3. CASE n = 0
  <2>1. FlattenSeq(seqs) = <<>>
    <3>1. seqs = <<>>
      BY <1>3 DEF seqs
    <3> QED BY <3>1, FlattenEmpty
  <2> QED BY <1>1, <1>2, <1>3, <2>1
<1>4. CASE n # 0
  <2>1. PICK f : Joins(f, seqs, n) /\ FlattenSeq(seqs) = f[n]
    BY <1>1, <1>4, FlattenIsJoin
  <2> DEFINE T == {m \in Nat : m + 1 \in 1 .. n => Gives(f[m + 1], m + 1, P)}
  <2>2. 0 \in T
    <3>1. f[1] = seqs[1]
      BY <1>4, <2>1, JoinsValue
    <3>2. /\ 0 + 1 \notin P => Gives(<<>>, 0 + 1, P)
          /\ 0 + 1 \in P => Gives(<<>> \o <<0 + 1>>, 0 + 1, P)
      BY <1>1, <1>2, GivesMore
    <3>3. 0 + 1 = 1 /\ <<>> \o <<1>> = <<1>>
      OBVIOUS
    <3> QED BY <1>1, <1>4, <3>1, <3>2, <3>3
  <2>3. ASSUME NEW m \in T PROVE m + 1 \in T
    <3> SUFFICES ASSUME (m + 1) + 1 \in 1 .. n PROVE Gives(f[(m + 1) + 1], (m + 1) + 1, P)
      OBVIOUS
    <3>1. PICK k \in Nat : k = m + 1
      OBVIOUS
    <3>2. k \in 1 .. n /\ k + 1 \in 1 .. n /\ k + 1 # 1 /\ (k + 1) - 1 = k
      BY <3>1
    <3>3. Gives(f[k], k, P)
      BY <3>1, <3>2
    <3>4. f[k + 1] = f[k] \o seqs[k + 1]
      <4>1. PICK l \in 1 .. n : l = k + 1
        BY <3>2
      <4>2. f[l] = IF l = 1 THEN seqs[l] ELSE f[l - 1] \o seqs[l]
        BY <2>1, JoinsValue
      <4> QED BY <3>2, <4>1, <4>2
    <3> HIDE DEF T
    <3>5. Gives(f[k + 1], k + 1, P)
      BY <1>1, <3>2, <3>3, <3>4, GivesMore
    <3> QED BY <3>1, <3>5
  <2>4. T = Nat
    <3>1. T \subseteq Nat
      OBVIOUS
    <3> HIDE DEF T
    <3> QED BY <2>2, <2>3, <3>1, Induct
  <2>5. n - 1 \in T /\ (n - 1) + 1 = n
    <3> HIDE DEF T
    <3> QED BY <1>4, <2>4
  <2> QED BY <1>1, <1>4, <2>1, <2>5
<1> QED BY <1>3, <1>4

---------------------------------------------------------------------------
(* The invariant *)

Kinds == {"root", "ask", "talk", "answer", "failure", "deleted"}
MessageType == [kind : Kinds, text : Contents \cup {<<>>}, of : Nat]
ReadType == [ts : Nat, kind : Kinds, text : Contents \cup {<<>>}]
EntryType == [ts : Nat, role : {"assistant", "user"}, text : Contents \cup {<<>>}]

\* The root, and only the root, is at 1 for good; the request that is handled
\* is in the thread, and its history is read only if it is not the root.
HistoryType ==
  /\ thread \in Seq(MessageType) /\ thread # <<>>
  /\ \A ts \in DOMAIN thread : thread[ts].kind = "root" <=> ts = 1
  /\ pending \subseteq DOMAIN thread
  /\ current \in 0 .. Len(thread)
  /\ pc \in {"idle", "reading", "holmes"}
  /\ pc = "reading" => current > 1
  /\ pc # "reading" => cursor = 0 /\ all = <<>>
  /\ pc = "holmes" => current > 0
  /\ cursor \in Nat /\ sent \in Nat
  /\ all \in Seq(ReadType)
  /\ messages \in Seq(EntryType)

\* The list goes forward in time.
Forward(list) == \A i, j \in DOMAIN list : i < j => list[i].ts < list[j].ts

\* The list has, of what was written up to end, all that is still there, and
\* what has been deleted since it was read.
HasAll(list, end, written) ==
  /\ Forward(list)
  /\ \A i \in DOMAIN list :
       list[i].ts \in 1 .. end /\ written[list[i].ts].kind \in {list[i].kind, "deleted"}
  /\ \A ts \in 1 .. end : written[ts].kind = "deleted" \/ \E i \in DOMAIN list : list[i].ts = ts

\* The list has nothing but the conversation up to end, and of that all that is
\* still there.
Tells(list, end, written) ==
  /\ Forward(list)
  /\ \A i \in DOMAIN list :
       list[i].ts \in 1 .. end /\ written[list[i].ts].kind \in {"root", "ask", "answer", "deleted"}
  /\ \A ts \in 1 .. end : written[ts].kind \in {"root", "ask", "answer"} =>
       \E i \in DOMAIN list : list[i].ts = ts

\* The pages read so far have all up to the cursor, what Conversation returned
\* tells all before the ask.
HistoryInv ==
  /\ HistoryType
  /\ pc = "reading" => cursor < current /\ HasAll(all, cursor, thread)
  /\ pc = "holmes" /\ current # 1 => Tells(messages, current - 1, thread)

\* A thread is appended to, and its messages are deleted.
Grows(written, later) ==
  /\ Len(written) <= Len(later)
  /\ \A ts \in 1 .. Len(written) : later[ts].kind \in {written[ts].kind, "deleted"}

\* Neither takes anything from what was read.
LEMMA GrownHasAll ==
  ASSUME NEW list, NEW end \in Nat, NEW written, NEW later, Len(written) \in Nat,
         Grows(written, later), end <= Len(written)
  PROVE  /\ HasAll(list, end, written) => HasAll(list, end, later)
         /\ Tells(list, end, written) => Tells(list, end, later)
<1>1. \A ts \in 1 .. end : later[ts].kind \in {written[ts].kind, "deleted"}
  BY DEF Grows
<1>2. ASSUME HasAll(list, end, written) PROVE HasAll(list, end, later)
  BY <1>1, <1>2 DEF HasAll
<1>3. ASSUME Tells(list, end, written) PROVE Tells(list, end, later)
  BY <1>1, <1>3 DEF Tells
<1> QED BY <1>2, <1>3

\* What is said is appended.
LEMMA SayGrows ==
  ASSUME HistoryType, NEW kind \in Kinds \ {"root"}, NEW of \in Nat, Say(kind, of)
  PROVE  /\ thread' \in Seq(MessageType) /\ thread' # <<>> /\ Len(thread') = Len(thread) + 1
         /\ \A ts \in DOMAIN thread' : thread'[ts].kind = "root" <=> ts = 1
         /\ Grows(thread, thread')
<1>1. PICK text \in Contents : thread' = Append(thread, Message(kind, text, of))
  BY DEF Say
<1>2. Message(kind, text, of) \in MessageType /\ Message(kind, text, of).kind = kind
  BY DEF Message, MessageType
<1>3. PICK m \in MessageType : m = Message(kind, text, of)
  BY <1>2
<1>4. /\ thread \in Seq(MessageType) /\ Len(thread) \in Nat \ {0} /\ DOMAIN thread = 1 .. Len(thread)
  BY DEF HistoryType
<1>5. /\ thread' \in Seq(MessageType) /\ thread' # <<>> /\ Len(thread') = Len(thread) + 1
      /\ DOMAIN thread' = 1 .. Len(thread) + 1
      /\ \A ts \in 1 .. Len(thread) : thread'[ts] = thread[ts]
      /\ thread'[Len(thread) + 1] = m
  BY <1>1, <1>3, <1>4
<1>6. m.kind # "root"
  BY <1>2, <1>3
<1>7. ASSUME NEW ts \in 1 .. Len(thread) + 1 PROVE thread'[ts].kind = "root" <=> ts = 1
  <2>1. CASE ts \in 1 .. Len(thread)
    BY <1>4, <1>5, <2>1 DEF HistoryType
  <2>2. CASE ts = Len(thread) + 1
    BY <1>4, <1>5, <1>6, <2>2
  <2> QED BY <1>4, <2>1, <2>2
<1>8. Grows(thread, thread')
  BY <1>4, <1>5 DEF Grows
<1> QED BY <1>5, <1>7, <1>8

\* What is deleted keeps its place.
LEMMA DeleteGrows ==
  ASSUME HistoryType, Delete
  PROVE  /\ thread' \in Seq(MessageType) /\ thread' # <<>> /\ Len(thread') = Len(thread)
         /\ \A ts \in DOMAIN thread' : thread'[ts].kind = "root" <=> ts = 1
         /\ Grows(thread, thread')
<1>1. PICK at \in 2 .. Len(thread) : thread' = [thread EXCEPT ![at] = Message("deleted", <<>>, 0)]
  BY DEF Delete
<1>2. Message("deleted", <<>>, 0) \in MessageType /\ Message("deleted", <<>>, 0).kind = "deleted"
  BY DEF Message, MessageType, Kinds
<1>3. PICK m \in MessageType : m = Message("deleted", <<>>, 0) /\ m.kind = "deleted"
  BY <1>2
<1>4. /\ thread \in Seq(MessageType) /\ Len(thread) \in Nat \ {0} /\ DOMAIN thread = 1 .. Len(thread)
  BY DEF HistoryType
<1>5. /\ thread' \in Seq(MessageType) /\ thread' # <<>> /\ Len(thread') = Len(thread)
      /\ DOMAIN thread' = 1 .. Len(thread)
      /\ \A ts \in 1 .. Len(thread) : thread'[ts] = IF ts = at THEN m ELSE thread[ts]
  BY <1>1, <1>3, <1>4
<1>6. ASSUME NEW ts \in 1 .. Len(thread) PROVE thread'[ts].kind = "root" <=> ts = 1
  <2>1. CASE ts = at
    BY <1>1, <1>3, <1>5, <2>1
  <2>2. CASE ts # at
    BY <1>4, <1>5, <2>2 DEF HistoryType
  <2> QED BY <2>1, <2>2
<1>7. Grows(thread, thread')
  <2>1. ASSUME NEW ts \in 1 .. Len(thread) PROVE thread'[ts].kind \in {thread[ts].kind, "deleted"}
    BY <1>3, <1>5
  <2> QED BY <1>4, <1>5, <2>1 DEF Grows
<1> QED BY <1>5, <1>6, <1>7

\* The invariant outlives whatever is written and deleted.
LEMMA GrowthKeeps ==
  ASSUME HistoryInv, UNCHANGED <<current, pc, cursor, all, messages>>,
         thread' \in Seq(MessageType), thread' # <<>>,
         \A ts \in DOMAIN thread' : thread'[ts].kind = "root" <=> ts = 1,
         Grows(thread, thread'), pending' \subseteq DOMAIN thread', sent' \in Nat
  PROVE  HistoryInv'
<1>1. /\ Len(thread) \in Nat /\ current \in 0 .. Len(thread) /\ Len(thread) <= Len(thread')
      /\ Len(thread') \in Nat /\ cursor \in Nat
  BY DEF HistoryInv, HistoryType, Grows
<1>2. HistoryType'
  BY <1>1 DEF HistoryInv, HistoryType
<1>3. ASSUME pc = "reading" PROVE cursor < current /\ HasAll(all, cursor, thread')
  <2>1. cursor < current /\ HasAll(all, cursor, thread) /\ cursor <= Len(thread)
    BY <1>1, <1>3 DEF HistoryInv
  <2> QED BY <1>1, <2>1, GrownHasAll
<1>4. ASSUME pc = "holmes", current # 1 PROVE Tells(messages, current - 1, thread')
  <2>1. PICK end \in Nat : end = current - 1 /\ end <= Len(thread)
    BY <1>1, <1>4 DEF HistoryInv, HistoryType
  <2>2. Tells(messages, end, thread)
    BY <1>4, <2>1 DEF HistoryInv
  <2> QED BY <1>1, <2>1, <2>2, GrownHasAll
<1> QED BY <1>2, <1>3, <1>4 DEF HistoryInv

---------------------------------------------------------------------------
(* Reading a page *)

\* What Slack still has between the cursor and the ask.
Waiting == {ts \in DOMAIN thread : cursor < ts /\ ts < current /\ thread[ts].kind # "deleted"}

\* Slack's replies are the messages that wait, in order.
LEMMA RepliesWaiting ==
  ASSUME HistoryType
  PROVE  /\ Replies(cursor, Latest) \in Seq(Waiting)
         /\ Ascends(Replies(cursor, Latest))
         /\ \A ts \in Waiting : \E i \in DOMAIN Replies(cursor, Latest) : Replies(cursor, Latest)[i] = ts
<1>1. Len(thread) \in Nat /\ DOMAIN thread = 1 .. Len(thread)
  BY DEF HistoryType
<1>2. Replies(cursor, Latest) = Positions(Len(thread), Waiting)
  BY DEF Replies, Latest, Waiting
<1>3. Waiting \in SUBSET (1 .. Len(thread)) /\ \A ts \in Waiting : ts <= Len(thread)
  BY <1>1 DEF Waiting
<1>4. Gives(Positions(Len(thread), Waiting), Len(thread), Waiting)
  BY <1>1, <1>3, PositionsGive
<1> QED BY <1>2, <1>3, <1>4 DEF Gives

\* A page's messages as they are when it is read.
Shown(page) == [i \in DOMAIN page |-> Read(page[i])]

\* A page's messages after those already read: all up to the last of the page.
LEMMA PageRead ==
  ASSUME HistoryType, cursor < current, HasAll(all, cursor, thread),
         NEW page, NEW m \in Nat, Len(page) = m, DOMAIN page = 1 .. m,
         \A i \in 1 .. m : page[i] \in Waiting, Ascends(page),
         NEW end \in Nat, cursor <= end, end < current,
         \A i \in 1 .. m : page[i] <= end,
         \A ts \in Waiting : ts <= end => \E i \in 1 .. m : page[i] = ts
  PROVE  all \o Shown(page) \in Seq(ReadType) /\ HasAll(all \o Shown(page), end, thread)
<1>1. /\ Len(thread) \in Nat /\ DOMAIN thread = 1 .. Len(thread) /\ thread \in Seq(MessageType)
      /\ all \in Seq(ReadType) /\ Len(all) \in Nat /\ DOMAIN all = 1 .. Len(all)
      /\ cursor \in Nat /\ current \in Nat /\ current <= Len(thread)
      /\ \A ts \in 1 .. Len(thread) : thread[ts] \in MessageType
  BY DEF HistoryType
<1>2. PICK here : here = Shown(page) /\ here = [i \in 1 .. m |-> Read(page[i])]
  BY DEF Shown
<1>3. \A i \in 1 .. m : /\ page[i] \in 1 .. Len(thread) /\ cursor < page[i] /\ page[i] <= end
                        /\ thread[page[i]].kind # "deleted"
  BY <1>1 DEF Waiting
<1>4. \A i \in 1 .. m : /\ here[i] \in ReadType
                        /\ here[i].ts = page[i] /\ here[i].kind = thread[page[i]].kind
  <2> SUFFICES ASSUME NEW i \in 1 .. m
               PROVE  here[i] \in ReadType /\ here[i].ts = page[i] /\ here[i].kind = thread[page[i]].kind
    OBVIOUS
  <2>1. PICK ts \in 1 .. Len(thread) : ts = page[i]
    BY <1>3
  <2>2. thread[ts] \in MessageType
    BY <1>1
  <2>3. here[i] = Read(ts)
    BY <1>2, <2>1
  <2>4. Read(ts) \in ReadType /\ Read(ts).ts = ts /\ Read(ts).kind = thread[ts].kind
    BY <2>2 DEF Read, ReadType, MessageType
  <2> QED BY <2>1, <2>3, <2>4
<1>5. here \in Seq(ReadType) /\ Len(here) = m /\ DOMAIN here = 1 .. m
  BY <1>2, <1>4
<1>6. PICK read : read = all \o here
  OBVIOUS
<1>7. /\ read \in Seq(ReadType) /\ Len(read) = Len(all) + m /\ DOMAIN read = 1 .. Len(all) + m
      /\ \A i \in 1 .. Len(all) : i \in DOMAIN read /\ read[i] = all[i]
      /\ \A i \in 1 .. m : Len(all) + i \in DOMAIN read /\ read[Len(all) + i] = here[i]
  <2>0. /\ all \o here \in Seq(ReadType) /\ Len(all \o here) = Len(all) + Len(here)
        /\ \A i \in 1 .. Len(all) + Len(here) :
             (all \o here)[i] = IF i <= Len(all) THEN all[i] ELSE here[i - Len(all)]
    <3>1. all \in Seq(ReadType) /\ here \in Seq(ReadType)
      BY <1>1, <1>5
    <3> QED BY ONLY <3>1, ConcatProperties
  <2>1. /\ read \in Seq(ReadType) /\ Len(read) = Len(all) + m
        /\ \A i \in 1 .. Len(all) + m : read[i] = IF i <= Len(all) THEN all[i] ELSE here[i - Len(all)]
    BY <1>5, <1>6, <2>0
  <2>2. DOMAIN read = 1 .. Len(all) + m
    BY <2>1, LenProperties
  <2>3. \A i \in 1 .. Len(all) : i \in 1 .. Len(all) + m /\ i <= Len(all)
    BY <1>1
  <2>4. ASSUME NEW i \in 1 .. m PROVE Len(all) + i \in DOMAIN read /\ read[Len(all) + i] = here[i]
    <3>1. PICK j \in 1 .. Len(all) + m : j = Len(all) + i /\ ~(j <= Len(all)) /\ j - Len(all) = i
      BY <1>1, SMTT(30)
    <3> QED BY <2>1, <2>2, <3>1
  <2> QED BY <2>1, <2>2, <2>3, <2>4
<1>8. \A i \in DOMAIN read : \/ i \in 1 .. Len(all) /\ read[i] = all[i]
                             \/ \E k \in 1 .. m : i = Len(all) + k /\ read[i] = here[k]
  <2> SUFFICES ASSUME NEW i \in DOMAIN read, ~(i \in 1 .. Len(all))
               PROVE  \E k \in 1 .. m : i = Len(all) + k /\ read[i] = here[k]
    BY <1>7
  <2>1. i - Len(all) \in 1 .. m /\ i = Len(all) + (i - Len(all))
    BY <1>1, <1>7
  <2> QED BY <1>7, <2>1, ZenonT(60)
<1>9. \A i \in 1 .. Len(all) : all[i].ts \in 1 .. cursor /\ thread[all[i].ts].kind \in {all[i].kind, "deleted"}
  BY <1>1 DEF HasAll
<1>10. Forward(read)
  <2> SUFFICES ASSUME NEW i \in DOMAIN read, NEW j \in DOMAIN read, i < j
               PROVE  read[i].ts < read[j].ts
    BY DEF Forward
  <2>1. CASE j \in 1 .. Len(all)
    <3>1. i \in 1 .. Len(all)
      BY <1>1, <1>7, <2>1
    <3> QED BY <1>1, <1>7, <2>1, <3>1 DEF HasAll, Forward
  <2>2. ASSUME NEW k \in 1 .. m, j = Len(all) + k, read[j] = here[k] PROVE read[i].ts < read[j].ts
    <3>1. read[j].ts = page[k] /\ cursor < page[k] /\ page[k] \in Nat
      BY <1>3, <1>4, <2>2
    <3>2. CASE i \in 1 .. Len(all)
      <4>1. read[i].ts \in 1 .. cursor
        BY <1>7, <1>9, <3>2
      <4> QED BY <1>1, <3>1, <4>1
    <3>3. ASSUME NEW l \in 1 .. m, i = Len(all) + l, read[i] = here[l] PROVE read[i].ts < read[j].ts
      <4>1. l < k
        BY <1>1, <2>2, <3>3
      <4>2. page[l] < page[k]
        BY <4>1 DEF Ascends
      <4> QED BY <1>4, <3>1, <3>3, <4>2
    <3> QED BY <1>8, <3>2, <3>3
  <2> QED BY <1>8, <2>1, <2>2
<1>11. ASSUME NEW i \in DOMAIN read
       PROVE  read[i].ts \in 1 .. end /\ thread[read[i].ts].kind \in {read[i].kind, "deleted"}
  <2>1. CASE i \in 1 .. Len(all)
    <3>1. read[i] = all[i]
      BY <1>7, <2>1
    <3> QED BY <1>1, <1>9, <2>1, <3>1
  <2>2. ASSUME NEW k \in 1 .. m, read[i] = here[k]
        PROVE  read[i].ts \in 1 .. end /\ thread[read[i].ts].kind \in {read[i].kind, "deleted"}
    <3>1. read[i].ts = page[k] /\ read[i].kind = thread[page[k]].kind
      BY <1>4, <2>2
    <3>2. page[k] \in 1 .. end
      BY <1>1, <1>3
    <3> QED BY <3>1, <3>2
  <2> QED BY <1>8, <2>1, <2>2
<1>12. ASSUME NEW ts \in 1 .. end, thread[ts].kind # "deleted" PROVE \E i \in DOMAIN read : read[i].ts = ts
  <2>1. CASE ts <= cursor
    <3>1. PICK i \in DOMAIN all : all[i].ts = ts
      BY <1>1, <1>12, <2>1 DEF HasAll
    <3> QED BY <1>1, <1>7, <3>1
  <2>2. CASE cursor < ts
    <3>1. ts \in Waiting /\ ts <= end
      BY <1>1, <1>12, <2>2 DEF Waiting
    <3>2. PICK k \in 1 .. m : page[k] = ts
      BY <3>1
    <3>3. Len(all) + k \in DOMAIN read /\ read[Len(all) + k].ts = ts
      BY <1>4, <1>7, <3>2
    <3> QED BY <3>3
  <2> QED BY <1>1, <2>1, <2>2
<1>13. HasAll(read, end, thread)
  BY <1>10, <1>11, <1>12 DEF HasAll
<1> QED BY <1>2, <1>6, <1>7, <1>13

\* Conversation leaves out talk and failures, and nothing else.
LEMMA TranslateTells ==
  ASSUME HistoryType, current > 1, NEW read \in Seq(ReadType), HasAll(read, current - 1, thread)
  PROVE  Translate(read) \in Seq(EntryType) /\ Tells(Translate(read), current - 1, thread)
<1>1. /\ Len(read) \in Nat /\ DOMAIN read = 1 .. Len(read) /\ current \in Nat
      /\ \A i \in 1 .. Len(read) : read[i] \in ReadType
  BY DEF HistoryType
<1> DEFINE E == {i \in DOMAIN read : Eligible(read[i])}
<1>2. E \in SUBSET (1 .. Len(read)) /\ \A i \in E : i <= Len(read)
  BY <1>1
<1>3. PICK keep : keep = Positions(Len(read), E)
  OBVIOUS
<1>4. PICK list : list = Translate(read)
  OBVIOUS
<1>5. list = [k \in DOMAIN keep |-> Entry(read[keep[k]])]
  BY <1>3, <1>4 DEF Translate
<1>6. \A i \in E : i \in 1 .. Len(read) /\ Eligible(read[i])
  BY <1>1
<1>7. \A i \in 1 .. Len(read) : Eligible(read[i]) => i \in E
  BY <1>1
<1> HIDE DEF E
<1>8. Gives(keep, Len(read), E)
  BY <1>1, <1>2, <1>3, PositionsGive
<1>9. /\ keep \in Seq(E) /\ Len(keep) \in Nat /\ DOMAIN keep = 1 .. Len(keep)
      /\ \A k \in DOMAIN keep : keep[k] \in E
  <2>1. keep \in Seq(E)
    BY <1>8 DEF Gives
  <2> QED BY <2>1
<1>10. ASSUME NEW r \in ReadType
       PROVE  Entry(r) \in EntryType /\ Entry(r).ts = r.ts
  BY DEF Entry, EntryType, ReadType
<1>11. ASSUME NEW k \in DOMAIN keep
       PROVE  /\ list[k] \in EntryType /\ list[k].ts = read[keep[k]].ts
              /\ keep[k] \in 1 .. Len(read) /\ Eligible(read[keep[k]])
  <2>1. keep[k] \in 1 .. Len(read) /\ Eligible(read[keep[k]])
    BY <1>6, <1>9
  <2>2. PICK r \in ReadType : r = read[keep[k]]
    BY <1>1, <2>1
  <2>3. list[k] = Entry(r)
    BY <1>5, <2>2
  <2> QED BY <1>10, <2>1, <2>2, <2>3
<1>12. list \in Seq(EntryType) /\ DOMAIN list = DOMAIN keep
  BY <1>5, <1>9, <1>11
<1>13. Forward(list)
  <2> SUFFICES ASSUME NEW k \in DOMAIN keep, NEW l \in DOMAIN keep, k < l PROVE list[k].ts < list[l].ts
    BY <1>12 DEF Forward
  <2>1. keep[k] < keep[l]
    BY <1>8 DEF Gives, Ascends
  <2>2. read[keep[k]].ts < read[keep[l]].ts
    BY <1>1, <1>11, <2>1 DEF HasAll, Forward
  <2> QED BY <1>11, <2>2
<1>14. ASSUME NEW k \in DOMAIN list
       PROVE  /\ list[k].ts \in 1 .. current - 1
              /\ thread[list[k].ts].kind \in {"root", "ask", "answer", "deleted"}
  <2>1. PICK i \in 1 .. Len(read) : i = keep[k]
    BY <1>11, <1>12
  <2>2. list[k].ts = read[i].ts /\ Eligible(read[i])
    BY <1>11, <1>12, <2>1
  <2>3. read[i].ts \in 1 .. current - 1 /\ thread[read[i].ts].kind \in {read[i].kind, "deleted"}
    BY <1>1 DEF HasAll
  <2>4. read[i].kind \in {"root", "ask", "answer"}
    BY <2>2 DEF Eligible, Assistant
  <2> QED BY <2>2, <2>3, <2>4
<1>15. ASSUME NEW ts \in 1 .. current - 1, thread[ts].kind \in {"root", "ask", "answer"}
       PROVE  \E k \in DOMAIN list : list[k].ts = ts
  <2>1. PICK i \in 1 .. Len(read) : read[i].ts = ts
    BY <1>1, <1>15 DEF HasAll
  <2>2. read[i].kind = thread[ts].kind
    <3>1. thread[read[i].ts].kind \in {read[i].kind, "deleted"}
      BY <1>1 DEF HasAll
    <3> QED BY <1>15, <2>1, <3>1
  <2>3. Eligible(read[i])
    BY <1>1, <1>15, <2>1, <2>2 DEF Eligible, Assistant
  <2>4. i \in E /\ i <= Len(read)
    BY <1>1, <1>7, <2>3
  <2>5. PICK k \in DOMAIN keep : keep[k] = i
    BY <1>8, <2>4 DEF Gives
  <2> QED BY <1>11, <1>12, <2>1, <2>5
<1> QED BY <1>4, <1>12, <1>13, <1>14, <1>15 DEF Tells

\* A page leaves the invariant as it was: it reads on from its last message, or
\* it was the last page and the history is told.
LEMMA ReadPageKeeps ==
  ASSUME HistoryInv, ReadPage
  PROVE  HistoryInv'
<1>1. /\ Len(thread) \in Nat /\ DOMAIN thread = 1 .. Len(thread)
      /\ cursor \in Nat /\ current \in Nat /\ current <= Len(thread) /\ current > 1
      /\ cursor < current /\ HasAll(all, cursor, thread) /\ HistoryType
      /\ PageLimit \in Nat \ {0} /\ Waiting \subseteq Nat
  BY HistoryAssumption DEF HistoryInv, HistoryType, ReadPage, Waiting
<1>2. PICK replies : replies = Replies(cursor, Latest)
  OBVIOUS
<1>3. /\ replies \in Seq(Waiting) /\ Ascends(replies)
      /\ \A ts \in Waiting : \E i \in DOMAIN replies : replies[i] = ts
  BY <1>1, <1>2, RepliesWaiting
<1>4. PICK n \in Nat : n = Len(replies) /\ DOMAIN replies = 1 .. n
  BY <1>3, LenProperties
<1>5. PICK m \in Nat : m = IF PageLimit <= n THEN PageLimit ELSE n
  BY <1>1
<1>6. m = Min({PageLimit, n}) /\ m \in 0 .. n
  BY <1>1, <1>5, MinOfTwo
<1>7. PICK page : page = SubSeq(replies, 1, m)
  OBVIOUS
<1>8. /\ page \in Seq(Waiting) /\ Len(page) = m
      /\ \A i \in 1 .. m : page[i] = replies[i]
  BY <1>3, <1>4, <1>6, <1>7, CutInTwo, ZenonT(60)
<1>9. /\ DOMAIN page = 1 .. m
      /\ \A i \in 1 .. m : page[i] \in Waiting /\ page[i] \in Nat /\ cursor < page[i] /\ page[i] < current
  <2>1. DOMAIN page = 1 .. m /\ \A i \in 1 .. m : page[i] \in Waiting
    BY <1>8, LenProperties, ElementOfSeq
  <2> QED BY <1>1, <2>1 DEF Waiting
<1>10. Ascends(page)
  <2>1. \A i \in 1 .. m : i \in DOMAIN replies
    BY <1>4, <1>6
  <2> QED BY <1>3, <1>8, <1>9, <2>1 DEF Ascends
<1>11. PICK read : read = all \o Shown(page)
  OBVIOUS
<1>12. /\ IF HasMore(replies)
          THEN cursor' = Last(page) /\ all' = read /\ pc' = pc /\ messages' = messages
          ELSE pc' = "holmes" /\ messages' = Translate(read) /\ cursor' = 0 /\ all' = <<>>
       /\ pc = "reading"
       /\ UNCHANGED <<thread, pending, current, sent>>
  BY <1>2, <1>4, <1>6, <1>7, <1>11 DEF ReadPage, Shown
<1>13. CASE HasMore(replies)
  <2>1. m = PageLimit /\ m \in 1 .. m /\ m < n
    BY <1>1, <1>4, <1>5, <1>13 DEF HasMore
  <2>2. PICK end \in Nat : end = page[m]
    BY <1>9, <2>1
  <2>3. cursor' = end
    BY <1>8, <1>12, <1>13, <2>2, <2>1 DEF Last
  <2>4. cursor <= end /\ end < current
    BY <1>1, <1>9, <2>1, <2>2
  <2>5. ASSUME NEW i \in 1 .. m PROVE page[i] <= end
    <3>1. i = m \/ i < m
      BY <2>1
    <3> QED BY <1>9, <1>10, <2>1, <2>2, <3>1 DEF Ascends
  <2>6. ASSUME NEW ts \in Waiting, ts <= end PROVE \E i \in 1 .. m : page[i] = ts
    <3>1. PICK i \in 1 .. n : replies[i] = ts
      BY <1>3, <1>4
    <3>2. i <= m
      <4>1. ASSUME m < i PROVE FALSE
        <5>1. m \in DOMAIN replies /\ i \in DOMAIN replies
          BY <1>4, <2>1
        <5>3. replies[m] = end
          BY <1>8, <2>1, <2>2
        <5>2. end < ts
          BY <1>3, <3>1, <4>1, <5>1, <5>3 DEF Ascends
        <5> QED BY <1>1, <2>2, <2>6, <5>2
      <4> QED BY <2>1, <4>1
    <3>3. i \in 1 .. m
      BY <3>1, <3>2
    <3> QED BY <1>8, <3>1, <3>3
  <2>7. read \in Seq(ReadType) /\ HasAll(read, end, thread)
    BY <1>1, <1>8, <1>9, <1>10, <1>11, <2>4, <2>5, <2>6, PageRead
  <2>8. HistoryType'
    BY <1>1, <1>12, <1>13, <2>2, <2>3, <2>7 DEF HistoryType
  <2> QED BY <1>12, <1>13, <2>3, <2>4, <2>7, <2>8 DEF HistoryInv
<1>14. CASE ~ HasMore(replies)
  <2>1. m = n
    BY <1>1, <1>4, <1>5, <1>14 DEF HasMore
  <2>2. PICK end \in Nat : end = current - 1
    BY <1>1
  <2>3. cursor <= end /\ end < current /\ \A i \in 1 .. m : page[i] <= end
    BY <1>1, <1>9, <2>2
  <2>4. \A ts \in Waiting : ts <= end => \E i \in 1 .. m : page[i] = ts
    BY <1>3, <1>4, <1>8, <2>1
  <2>5. read \in Seq(ReadType) /\ HasAll(read, end, thread)
    BY <1>1, <1>8, <1>9, <1>10, <1>11, <2>3, <2>4, PageRead
  <2>6. messages' \in Seq(EntryType) /\ Tells(messages', current - 1, thread)
    BY <1>1, <1>12, <1>14, <2>2, <2>5, TranslateTells
  <2>7. HistoryType'
    BY <1>1, <1>12, <1>14, <2>6 DEF HistoryType
  <2> QED BY <1>12, <1>14, <2>6, <2>7 DEF HistoryInv
<1> QED BY <1>13, <1>14

---------------------------------------------------------------------------
(* Every step *)

\* Nothing read is all there is up to nothing.
LEMMA NothingRead == ASSUME NEW written PROVE HasAll(<<>>, 0, written)
BY DEF HasAll, Forward

\* The end of an ask, which may leave a failure reply.
LEMMA EndKeeps ==
  ASSUME HistoryInv, End, UNCHANGED pending,
         UNCHANGED thread \/ Say("failure", current)
  PROVE  HistoryInv'
<1>1. current \in Nat /\ Len(thread) \in Nat /\ HistoryType /\ pending \subseteq 1 .. Len(thread)
  BY DEF HistoryInv, HistoryType
<1>2. /\ thread' \in Seq(MessageType) /\ thread' # <<>>
      /\ \A ts \in DOMAIN thread' : thread'[ts].kind = "root" <=> ts = 1
      /\ Len(thread) <= Len(thread')
  <2>1. CASE UNCHANGED thread
    BY <1>1, <2>1 DEF HistoryType
  <2>2. CASE Say("failure", current)
    <3>1. "failure" \in Kinds \ {"root"}
      BY DEF Kinds
    <3> QED BY <1>1, <2>2, <3>1, SayGrows
  <2> QED BY <2>1, <2>2
<1>3. pending' \subseteq DOMAIN thread' /\ Len(thread') \in Nat
  BY <1>1, <1>2
<1>4. HistoryType'
  BY <1>2, <1>3, EmptySeq DEF HistoryType, End
<1> QED BY <1>4 DEF HistoryInv, End

\* The invariant holds in every reachable state.
LEMMA HistoryInvariant == Spec => []HistoryInv
<1>1. ASSUME Init PROVE HistoryInv
  <2>1. PICK text \in Contents : thread = <<Message("root", text, 0)>>
    BY <1>1 DEF Init
  <2>2. Message("root", text, 0) \in MessageType /\ Message("root", text, 0).kind = "root"
    BY DEF Message, MessageType, Kinds
  <2>3. /\ thread \in Seq(MessageType) /\ thread # <<>> /\ Len(thread) = 1 /\ DOMAIN thread = {1}
        /\ thread[1].kind = "root"
    BY <2>1, <2>2
  <2>4. HistoryType
    BY <1>1, <2>3, EmptySeq DEF HistoryType, Init
  <2> QED BY <1>1, <2>4 DEF HistoryInv, Init
<1>2. ASSUME HistoryInv, [Next]_vars PROVE HistoryInv'
  <2>1. /\ HistoryType /\ Len(thread) \in Nat /\ current \in Nat /\ sent \in Nat /\ 0 \in Nat
        /\ pending \subseteq 1 .. Len(thread) /\ DOMAIN thread = 1 .. Len(thread)
    BY <1>2 DEF HistoryInv, HistoryType
  <2>2. {"ask", "talk", "answer", "failure"} \subseteq Kinds \ {"root"}
    BY DEF Kinds
  <2>3. CASE Ask
    <3>1. Say("ask", 0) /\ pending' = pending \cup {Len(thread) + 1}
      BY <2>3 DEF Ask
    <3>2. /\ thread' \in Seq(MessageType) /\ thread' # <<>> /\ Len(thread') = Len(thread) + 1
          /\ \A ts \in DOMAIN thread' : thread'[ts].kind = "root" <=> ts = 1
          /\ Grows(thread, thread')
      BY <2>1, <2>2, <3>1, SayGrows
    <3>3. pending' \subseteq DOMAIN thread'
      <4>1. DOMAIN thread' = 1 .. Len(thread')
        BY <3>2
      <4>2. DOMAIN thread' = 1 .. Len(thread) + 1
        BY <3>2, <4>1
      <4>3. PICK new \in 1 .. Len(thread) + 1 : pending' = pending \cup {new}
        BY <2>1, <3>1
      <4>4. pending \subseteq 1 .. Len(thread) + 1
        BY <2>1
      <4> QED BY <4>2, <4>3, <4>4
    <3> QED BY <1>2, <2>1, <2>3, <3>2, <3>3, GrowthKeeps DEF Ask
  <2>4. CASE Talk
    <3>1. /\ thread' \in Seq(MessageType) /\ thread' # <<>> /\ Len(thread') = Len(thread) + 1
          /\ \A ts \in DOMAIN thread' : thread'[ts].kind = "root" <=> ts = 1
          /\ Grows(thread, thread')
      BY <2>1, <2>2, <2>4, SayGrows DEF Talk
    <3>2. pending' \subseteq DOMAIN thread'
      <4>1. DOMAIN thread' = 1 .. Len(thread')
        BY <3>1
      <4>2. DOMAIN thread' = 1 .. Len(thread) + 1
        BY <3>1, <4>1
      <4>3. pending' = pending
        BY <2>4 DEF Talk
      <4> QED BY <2>1, <4>2, <4>3
    <3> QED BY <1>2, <2>1, <2>4, <3>1, <3>2, GrowthKeeps DEF Talk
  <2>5. CASE Delete
    <3>1. /\ thread' \in Seq(MessageType) /\ thread' # <<>> /\ Len(thread') = Len(thread)
          /\ \A ts \in DOMAIN thread' : thread'[ts].kind = "root" <=> ts = 1
          /\ Grows(thread, thread')
      BY <2>1, <2>5, DeleteGrows
    <3>2. pending' \subseteq DOMAIN thread'
      <4>1. DOMAIN thread' = 1 .. Len(thread')
        BY <3>1
      <4>2. DOMAIN thread' = 1 .. Len(thread)
        BY <3>1, <4>1
      <4>3. pending' = pending
        BY <2>5 DEF Delete
      <4> QED BY <2>1, <4>2, <4>3
    <3> QED BY <1>2, <2>1, <2>5, <3>1, <3>2, GrowthKeeps DEF Delete
  <2>6. CASE Begin
    <3>1. PICK ts \in pending : /\ current' = ts /\ pending' = Unqueued(ts)
                               /\ pc' = IF ts = 1 THEN "holmes" ELSE "reading"
      BY <2>6 DEF Begin
    <3>2. /\ UNCHANGED <<thread, cursor, all, messages, sent>> /\ pc = "idle"
          /\ cursor = 0 /\ all = <<>>
      BY <2>1, <2>6 DEF Begin, HistoryType
    <3>3. ts \in 1 .. Len(thread) /\ pending' \subseteq pending
      BY <2>1, <3>1 DEF Unqueued
    <3>4. HistoryType'
      BY <2>1, <3>1, <3>2, <3>3 DEF HistoryType
    <3>5. ASSUME pc' = "reading" PROVE cursor' < current' /\ HasAll(all', cursor', thread')
      BY <2>1, <3>1, <3>2, <3>3, NothingRead
    <3>6. ~(pc' = "holmes" /\ current' # 1)
      BY <3>1
    <3> QED BY <3>4, <3>5, <3>6 DEF HistoryInv
  <2>7. CASE ReadPage
    BY <1>2, <2>7, ReadPageKeeps
  <2>8. CASE ReadFails
    BY <1>2, <2>8, EndKeeps DEF ReadFails
  <2>9. CASE DeliverPart
    <3>1. /\ thread' \in Seq(MessageType) /\ thread' # <<>> /\ Len(thread') = Len(thread) + 1
          /\ \A ts \in DOMAIN thread' : thread'[ts].kind = "root" <=> ts = 1
          /\ Grows(thread, thread')
      BY <2>1, <2>2, <2>9, SayGrows DEF DeliverPart
    <3>2. pending' \subseteq DOMAIN thread' /\ sent' \in Nat
      <4>1. DOMAIN thread' = 1 .. Len(thread')
        BY <3>1
      <4> QED BY <2>1, <2>9, <3>1, <4>1 DEF DeliverPart
    <3> QED BY <1>2, <2>1, <2>9, <3>1, <3>2, GrowthKeeps DEF DeliverPart
  <2>10. CASE Succeed
    BY <1>2, <2>10, EndKeeps DEF Succeed
  <2>11. CASE Fail
    BY <1>2, <2>11, EndKeeps DEF Fail
  <2>12. CASE UNCHANGED vars
    BY <1>2, <2>12 DEF vars, HistoryInv, HistoryType, HasAll, Tells, Forward
  <2> QED BY <1>2, <2>3, <2>4, <2>5, <2>6, <2>7, <2>8, <2>9, <2>10, <2>11, <2>12 DEF Next
<1> QED BY <1>1, <1>2, PTL DEF Spec

---------------------------------------------------------------------------
(* The budget: bytes *)

\* The running sum that Bytes computes.
Summing(s) == CHOOSE f : Sums(f, s, Len(s))

\* Bytes is its last value.
LEMMA BytesIsSum ==
  ASSUME NEW s, Len(s) \in Nat
  PROVE  Sums(Summing(s), s, Len(s)) /\ Bytes(s) = Summing(s)[Len(s)]
<1>1. Sums(Summing(s), s, Len(s))
  <2>1. \E f : Sums(f, s, Len(s))
    BY SumsExist
  <2> QED BY <2>1 DEF Summing
<1>2. Bytes(s) = Summing(s)[Len(s)]
  BY DEF Bytes, Summing, Sums
<1> QED BY <1>1, <1>2

\* What the first runes have is the running sum so far.
LEMMA BytesOfPrefix ==
  ASSUME NEW s \in Seq(Nat), NEW k \in 0 .. Len(s)
  PROVE  Bytes(SubSeq(s, 1, k)) = Summing(s)[k]
<1>1. PICK t : t = SubSeq(s, 1, k)
  OBVIOUS
<1>2. t \in Seq(Nat) /\ Len(t) = k /\ \A i \in 1 .. k : t[i] = s[i]
  BY <1>1, CutInTwo
<1>3. PICK f : f = Summing(t) /\ Sums(f, t, k) /\ Bytes(t) = f[k]
  BY <1>2, BytesIsSum
<1>4. PICK g : g = Summing(s) /\ Sums(g, s, Len(s))
  BY BytesIsSum, LenProperties
<1>5. Len(s) \in Nat /\ k \in Nat /\ k <= Len(s) /\ Len(s) \in 0 .. Len(s) /\ k \in 0 .. Len(t)
  BY <1>2, LenProperties
<1>6. g[0] = 0
  BY <1>4, <1>5, SumsValue
<1>7. PICK d \in {0, 1} : d = 0
  OBVIOUS
<1>8. Exceeds(g, f, d, k, d)
  <2>1. Follows(s, t, d, k)
    <3>1. \A i \in 1 .. k : i + d = i
      BY <1>5, <1>7
    <3> QED BY <1>2, <3>1 DEF Follows
  <2>2. g[d] = d /\ d \in Nat /\ k + d <= Len(s)
    BY <1>5, <1>6, <1>7
  <2> QED BY <1>2, <1>3, <1>4, <1>5, <2>1, <2>2, SumsShifted
<1>9. f[k] \in Nat
  BY <1>2, <1>3, <1>5, SumsValue
<1>10. g[k + d] = d + f[k] /\ k + d = k
  BY <1>5, <1>7, <1>8 DEF Exceeds
<1> QED BY <1>1, <1>3, <1>4, <1>7, <1>9, <1>10

\* A rune more, from the left to the right.
LEMMA BytesStep ==
  ASSUME NEW s \in Seq(Nat)
  PROVE  /\ Bytes(s) \in Nat
         /\ Bytes(SubSeq(s, 1, 0)) = 0
         /\ \A k \in 0 .. Len(s) : Bytes(SubSeq(s, 1, k)) \in Nat
         /\ \A k \in 0 .. Len(s) : k + 1 <= Len(s) =>
              Bytes(SubSeq(s, 1, k + 1)) = Bytes(SubSeq(s, 1, k)) + s[k + 1]
<1>1. Len(s) \in Nat /\ Len(s) \in 0 .. Len(s) /\ 0 \in 0 .. Len(s)
  BY LenProperties
<1>2. PICK g : g = Summing(s) /\ Sums(g, s, Len(s)) /\ Bytes(s) = g[Len(s)]
  BY <1>1, BytesIsSum
<1>3. /\ g[0] = 0
      /\ \A k \in 0 .. Len(s) : g[k] \in Nat
      /\ \A k \in 0 .. Len(s) : k + 1 <= Len(s) => g[k + 1] = g[k] + s[k + 1]
  BY <1>1, <1>2, SumsValue
<1>4. \A k \in 0 .. Len(s) : Bytes(SubSeq(s, 1, k)) = g[k]
  BY <1>2, BytesOfPrefix
<1>5. \A k \in 0 .. Len(s) : k + 1 <= Len(s) => k + 1 \in 0 .. Len(s)
  BY <1>1
<1> QED BY <1>1, <1>2, <1>3, <1>4, <1>5

\* Nothing has no bytes, and one number more at the front adds to the others.
LEMMA BytesPrepend ==
  ASSUME NEW s \in Seq(Nat), NEW x \in Nat
  PROVE  Bytes(<<>>) = 0 /\ Bytes(<<x>> \o s) = x + Bytes(s)
<1>1. Bytes(<<>>) = 0
  <2>1. <<>> \in Seq(Nat) /\ SubSeq(<<>>, 1, 0) = <<>>
    OBVIOUS
  <2> QED BY <2>1, BytesStep
<1>2. PICK t : t = <<x>> \o s
  OBVIOUS
<1>3. PICK n \in Nat : n = Len(s)
  BY LenProperties
<1>4. t \in Seq(Nat) /\ Len(t) = n + 1 /\ t[1] = x /\ \A k \in 1 .. n : t[k + 1] = s[k]
  BY <1>2, <1>3
<1>5. PICK f : Sums(f, s, n) /\ Bytes(s) = f[n]
  BY <1>3, BytesIsSum
<1>6. PICK g : Sums(g, t, n + 1) /\ Bytes(t) = g[n + 1]
  BY <1>3, <1>4, BytesIsSum
<1>7. n \in 0 .. Len(s) /\ n + 1 \in 0 .. Len(t) /\ n + 1 <= n + 1 /\ 1 \in {0, 1}
  BY <1>3, <1>4
<1>8. g[1] = x
  <2>1. g[0] = 0 /\ \A k \in 0 .. n + 1 : k + 1 <= n + 1 => g[k + 1] = g[k] + t[k + 1]
    BY <1>4, <1>6, <1>7, SumsValue, ZenonT(60)
  <2>2. g[0 + 1] = g[0] + t[0 + 1]
    BY <1>3, <2>1
  <2> QED BY <1>4, <2>1, <2>2
<1>9. Exceeds(g, f, 1, n, x)
  <2>1. Follows(t, s, 1, n)
    BY <1>4 DEF Follows
  <2> QED BY <1>4, <1>5, <1>6, <1>7, <1>8, <2>1, SumsShifted
<1>10. g[n + 1] = x + f[n]
  BY <1>3, <1>9 DEF Exceeds
<1> QED BY <1>1, <1>2, <1>3, <1>5, <1>6, <1>10

\* What is kept of a text fits, and the next rune would not have fitted.
LEMMA TruncateFits ==
  ASSUME NEW text \in Seq(1 .. 4), NEW max \in Nat, NEW kept, kept = TruncateBytes(text, max)
  PROVE  /\ kept \in Seq(1 .. 4) /\ Bytes(kept) \in Nat /\ Bytes(kept) <= max
         /\ kept = text \/ \E i \in DOMAIN text : max < Bytes(kept) + text[i]
<1>1. PICK n \in Nat : n = Len(text) /\ DOMAIN text = 1 .. n /\ n \in 0 .. n
  BY LenProperties
<1>2. text \in Seq(Nat)
  OBVIOUS
<1> DEFINE P == {k \in 0 .. n : Bytes(SubSeq(text, 1, k)) <= max}
<1>3. /\ Bytes(SubSeq(text, 1, 0)) = 0
      /\ \A k \in 0 .. n : Bytes(SubSeq(text, 1, k)) \in Nat
      /\ \A k \in 0 .. n : k + 1 <= n =>
              Bytes(SubSeq(text, 1, k + 1)) = Bytes(SubSeq(text, 1, k)) + text[k + 1]
  BY <1>1, <1>2, BytesStep
<1>4. P \in SUBSET (0 .. n) /\ 0 \in P
  BY <1>1, <1>3
<1>5. PICK k : k = Max(P) /\ k \in P /\ \A y \in P : k >= y
  <2> HIDE DEF P
  <2> QED BY <1>4, MaxIsGreatest
<1>6. kept = SubSeq(text, 1, k)
  BY <1>1, <1>5 DEF TruncateBytes
<1>7. k \in 0 .. n /\ Bytes(kept) <= max /\ Bytes(kept) \in Nat
  BY <1>3, <1>5, <1>6
<1>8. kept \in Seq(1 .. 4)
  BY <1>1, <1>6, <1>7, CutInTwo
<1>9. CASE k = n
  <2>1. kept = text
    BY <1>1, <1>6, <1>9, SubSeqFull
  <2> QED BY <1>7, <1>8, <2>1
<1>10. CASE k # n
  <2>1. k + 1 \in 0 .. n /\ k + 1 <= n /\ k + 1 \in 1 .. n /\ ~(k >= k + 1)
    BY <1>7, <1>10
  <2>2. Bytes(SubSeq(text, 1, k + 1)) = Bytes(kept) + text[k + 1]
    BY <1>3, <1>6, <1>7, <2>1
  <2>3. k + 1 \notin P
    <3> HIDE DEF P
    <3> QED BY <1>5, <2>1
  <2>4. Bytes(SubSeq(text, 1, k + 1)) \in Nat /\ ~(Bytes(SubSeq(text, 1, k + 1)) <= max)
    BY <1>3, <2>1, <2>3
  <2>5. max < Bytes(kept) + text[k + 1]
    BY <2>2, <2>4
  <2> QED BY <1>1, <1>7, <1>8, <2>1, <2>5
<1> QED BY <1>9, <1>10

---------------------------------------------------------------------------
(* The budget: messages *)

\* A message as boundConversation takes and gives it.
KeptType == [ts : Nat, role : {"assistant", "user"}, text : Seq(1 .. 4)]

\* The list's runes are at most w wide.
AtMost(w, list) == \A i \in DOMAIN list : \A k \in DOMAIN list[i].text : list[i].text[k] <= w

\* f is what boundConversation has kept after each of the first n turns.
Turns(f, list, n, first) ==
  f = [k \in 0 .. n |-> IF k = 0 THEN first ELSE Keep(list[Len(list) + 1 - k], f[k - 1])]

\* What was kept and what remains are the budget; if w still fits, all of the
\* last k messages were kept.
Kept(v, list, k, w, budget) ==
  /\ v.remaining \in Nat
  /\ v.newest \in Seq(KeptType)
  /\ Size(v.newest) \in Nat
  /\ Size(v.newest) + v.remaining = budget
  /\ v.remaining >= w => /\ Len(v.newest) = k
                         /\ \A j \in 1 .. k : v.newest[j] = list[Len(list) - k + j]

\* There is such a function for every number of turns.
LEMMA TurnsExist == ASSUME NEW list, NEW first PROVE \A n \in Nat : \E f : Turns(f, list, n, first)
<1> DEFINE T == {n \in Nat : \E f : Turns(f, list, n, first)}
<1>1. 0 \in T
  <2> DEFINE z == [k \in 0 .. 0 |-> first]
  <2>1. z = [k \in 0 .. 0 |-> IF k = 0 THEN first ELSE Keep(list[Len(list) + 1 - k], z[k - 1])]
    OBVIOUS
  <2> HIDE DEF z
  <2> QED BY <2>1 DEF Turns
<1>2. ASSUME NEW n \in T PROVE n + 1 \in T
  <2>1. PICK f : Turns(f, list, n, first)
    OBVIOUS
  <2> DEFINE value(h, k) == IF k = 0 THEN first ELSE Keep(list[Len(list) + 1 - k], h[k - 1])
             g == [k \in 0 .. n + 1 |-> value(f, k)]
  <2>2. \A k \in 0 .. n : f[k] = value(f, k)
    BY <2>1 DEF Turns
  <2>3. \A k \in 0 .. n : g[k] = f[k]
    <3> HIDE DEF value
    <3> QED BY <2>2
  <2>4. ASSUME NEW k \in 0 .. n + 1 PROVE value(f, k) = value(g, k)
    <3>1. CASE k = 0
      BY <3>1
    <3>2. CASE k # 0
      <4>1. k - 1 \in 0 .. n
        BY <3>2
      <4>2. f[k - 1] = g[k - 1]
        BY <2>3, <4>1
      <4> HIDE DEF g
      <4> QED BY <4>2
    <3> QED BY <3>1, <3>2
  <2>5. g = [k \in 0 .. n + 1 |-> value(g, k)]
    <3>1. g = [k \in 0 .. n + 1 |-> value(f, k)]
      OBVIOUS
    <3> HIDE DEF g, value
    <3> QED BY <2>4, <3>1
  <2>6. Turns(g, list, n + 1, first)
    <3> HIDE DEF g
    <3> QED BY <2>5 DEF Turns
  <2> QED BY <2>6
<1>3. T = Nat
  <2> HIDE DEF T
  <2>1. T \subseteq Nat
    BY DEF T
  <2> QED BY <1>1, <1>2, <2>1, Induct
<1> QED BY <1>3

\* One message more at the front.
LEMMA SizePrepend ==
  ASSUME NEW h \in Seq(KeptType), NEW e \in KeptType
  PROVE  /\ Size(h) \in Nat /\ Bytes(e.text) \in Nat
         /\ Size(<<e>> \o h) = Bytes(e.text) + Size(h)
<1>1. PICK n \in Nat : n = Len(h) /\ DOMAIN h = 1 .. n
  BY LenProperties
<1>2. \A i \in 1 .. n : h[i] \in KeptType
  BY <1>1, ElementOfSeq
<1>3. ASSUME NEW m \in KeptType PROVE Bytes(m.text) \in Nat
  <2>1. m.text \in Seq(1 .. 4)
    BY DEF KeptType
  <2>2. m.text \in Seq(Nat)
    BY <2>1
  <2> QED BY <2>2, BytesStep
<1>4. PICK s : s = [i \in 1 .. n |-> Bytes(h[i].text)]
  OBVIOUS
<1>5. s \in Seq(Nat) /\ Len(s) = n /\ Size(h) = Bytes(s)
  BY <1>1, <1>2, <1>3, <1>4 DEF Size
<1>6. PICK x \in Nat : x = Bytes(e.text)
  BY <1>3
<1>7. PICK t : t = <<e>> \o h
  OBVIOUS
<1>8. /\ Len(t) = n + 1 /\ DOMAIN t = 1 .. n + 1 /\ t[1] = e
      /\ \A i \in 1 .. n + 1 : i # 1 => t[i] = h[i - 1]
  BY <1>1, <1>7
<1>9. PICK u : u = <<x>> \o s
  OBVIOUS
<1>10. /\ u \in Seq(Nat) /\ Len(u) = n + 1 /\ DOMAIN u = 1 .. n + 1 /\ u[1] = x
       /\ \A i \in 1 .. n + 1 : i # 1 => u[i] = s[i - 1]
  BY <1>5, <1>9
<1>11. PICK z : z = [i \in 1 .. n + 1 |-> Bytes(t[i].text)]
  OBVIOUS
<1>12. Size(t) = Bytes(z)
  BY <1>8, <1>11 DEF Size
<1>13. z = u
  <2>1. \A i \in 1 .. n + 1 : z[i] = Bytes(t[i].text)
    BY <1>11
  <2>2. ASSUME NEW i \in 1 .. n + 1 PROVE z[i] = u[i]
    <3>1. CASE i = 1
      BY <1>6, <1>8, <1>10, <2>1, <3>1
    <3>2. CASE i # 1
      <4>1. i - 1 \in 1 .. n
        BY <3>2
      <4>2. s[i - 1] = Bytes(h[i - 1].text)
        BY <1>4, <4>1
      <4> QED BY <1>8, <1>10, <2>1, <3>2, <4>2
    <3> QED BY <3>1, <3>2
  <2>3. z = [i \in 1 .. n + 1 |-> z[i]] /\ u = [i \in 1 .. n + 1 |-> u[i]]
    BY <1>10, <1>11
  <2> QED BY <2>2, <2>3
<1>14. Bytes(u) = x + Bytes(s)
  BY <1>5, <1>9, BytesPrepend
<1>15. Bytes(s) \in Nat
  BY <1>5, BytesStep
<1> QED BY <1>5, <1>6, <1>7, <1>12, <1>13, <1>14, <1>15

\* A message with what fits of its text.
Cut(m, max) == [m EXCEPT !.text = TruncateBytes(m.text, max)]

\* A message that is cut: the message is kept as it is, or less than w is left.
LEMMA CutMessage ==
  ASSUME NEW m \in KeptType, NEW w \in Nat \ {0}, \A k \in DOMAIN m.text : m.text[k] <= w,
         NEW max \in Nat, NEW e, e = Cut(m, max)
  PROVE  /\ e \in KeptType /\ Bytes(e.text) \in Nat /\ Bytes(e.text) <= max
         /\ max - Bytes(e.text) >= w => e = m
<1>1. PICK text \in Seq(1 .. 4) : text = m.text
  BY DEF KeptType
<1>2. PICK cut : cut = TruncateBytes(text, max)
  OBVIOUS
<1>3. /\ cut \in Seq(1 .. 4) /\ Bytes(cut) \in Nat /\ Bytes(cut) <= max
      /\ cut = text \/ \E i \in DOMAIN text : max < Bytes(cut) + text[i]
  BY <1>2, TruncateFits
<1>4. e = [m EXCEPT !.text = cut]
  BY <1>1, <1>2 DEF Cut
<1>5. e \in KeptType /\ e.text = cut /\ (cut = text => e = m)
  BY <1>1, <1>3, <1>4 DEF KeptType
<1>6. ASSUME max - Bytes(cut) >= w PROVE cut = text
  <2>1. ASSUME NEW i \in DOMAIN text PROVE ~(max < Bytes(cut) + text[i])
    <3>1. text[i] <= w
      BY <1>1
    <3>2. text[i] \in Nat
      BY <1>1
    <3> QED BY <1>3, <1>6, <3>1, <3>2
  <2> QED BY <1>3, <2>1
<1> QED BY <1>3, <1>5, <1>6

\* One turn of the loop.
LEMMA KeepTurn ==
  ASSUME NEW list \in Seq(KeptType), NEW n \in Nat, n = Len(list), NEW k \in Nat, k < n,
         NEW w \in Nat \ {0}, AtMost(w, list), NEW budget \in Nat,
         NEW v, Kept(v, list, k, w, budget)
  PROVE  Kept(Keep(list[n - k], v), list, k + 1, w, budget)
<1>1. /\ v.remaining \in Nat /\ v.newest \in Seq(KeptType) /\ Size(v.newest) \in Nat
      /\ Size(v.newest) + v.remaining = budget
      /\ v.remaining >= w => /\ Len(v.newest) = k
                             /\ \A j \in 1 .. k : v.newest[j] = list[n - k + j]
  BY DEF Kept
<1>2. PICK m \in KeptType : m = list[n - k] /\ \A i \in DOMAIN m.text : m.text[i] <= w
  <2>1. n - k \in 1 .. n /\ n - k \in DOMAIN list
    BY LenProperties
  <2>2. list[n - k] \in KeptType
    BY <2>1, ElementOfSeq
  <2> QED BY <2>1, <2>2 DEF AtMost
<1>3. CASE v.remaining = 0
  <2>1. Keep(m, v) = v /\ ~(v.remaining >= w)
    BY <1>3 DEF Keep
  <2> QED BY <1>1, <1>2, <2>1 DEF Kept
<1>4. CASE v.remaining # 0
  <2>1. PICK e : e = Cut(m, v.remaining)
    OBVIOUS
  <2>2. /\ e \in KeptType /\ Bytes(e.text) \in Nat /\ Bytes(e.text) <= v.remaining
        /\ v.remaining - Bytes(e.text) >= w => e = m
    BY <1>1, <1>2, <2>1, CutMessage
  <2>3. PICK newest : newest = <<e>> \o v.newest
    OBVIOUS
  <2>4. e.text = TruncateBytes(m.text, v.remaining)
    BY <2>1 DEF KeptType, Cut
  <2>5. PICK later : /\ later = Keep(m, v)
                     /\ later.newest = newest /\ later.remaining = v.remaining - Bytes(e.text)
    <3>1. Keep(m, v) = [newest |-> newest, remaining |-> v.remaining - Bytes(e.text)]
      BY <1>4, <2>1, <2>3, <2>4 DEF Keep, Cut
    <3>2. PICK later : later = [newest |-> newest, remaining |-> v.remaining - Bytes(e.text)]
      OBVIOUS
    <3>3. later.newest = newest /\ later.remaining = v.remaining - Bytes(e.text)
      BY <3>2
    <3> QED BY <3>1, <3>2, <3>3
  <2>6. /\ newest \in Seq(KeptType) /\ Len(newest) = Len(v.newest) + 1
        /\ newest[1] = e /\ \A j \in 1 .. Len(newest) : j # 1 => newest[j] = v.newest[j - 1]
    BY <1>1, <2>2, <2>3
  <2>7. Size(newest) = Bytes(e.text) + Size(v.newest)
    BY <1>1, <2>2, <2>3, SizePrepend
  <2>8. ASSUME later.remaining >= w
        PROVE  /\ Len(newest) = k + 1
               /\ \A j \in 1 .. k + 1 : newest[j] = list[n - (k + 1) + j]
    <3>1. e = m /\ v.remaining >= w
      BY <1>1, <2>2, <2>5, <2>8
    <3>2. Len(v.newest) = k /\ \A j \in 1 .. k : v.newest[j] = list[n - k + j]
      BY <1>1, <3>1
    <3>3. ASSUME NEW j \in 1 .. k + 1 PROVE newest[j] = list[n - (k + 1) + j]
      <4>1. CASE j = 1
        <5>1. n - (k + 1) + j = n - k
          BY <4>1
        <5> QED BY <1>2, <2>6, <3>1, <4>1, <5>1
      <4>2. CASE j # 1
        <5>1. j - 1 \in 1 .. k /\ n - k + (j - 1) = n - (k + 1) + j /\ j \in 1 .. k + 1
          BY <4>2
        <5>2. j \in 1 .. Len(newest)
          BY <2>6, <3>2, <5>1
        <5> QED BY <2>6, <3>2, <4>2, <5>1, <5>2
      <4> QED BY <4>1, <4>2
    <3> QED BY <2>6, <3>2, <3>3
  <2>9. Kept(later, list, k + 1, w, budget)
    BY <1>1, <2>2, <2>5, <2>6, <2>7, <2>8, SMTT(30) DEF Kept
  <2> QED BY <1>2, <2>5, <2>9
<1> QED BY <1>3, <1>4

\* After every turn.
LEMMA KeptAlways ==
  ASSUME NEW list \in Seq(KeptType), NEW n \in Nat, n < Len(list),
         NEW w \in Nat \ {0}, AtMost(w, list), NEW budget \in Nat,
         NEW first, Kept(first, list, 0, w, budget), NEW f, Turns(f, list, n, first)
  PROVE  Kept(f[n], list, n, w, budget)
<1>1. PICK len \in Nat : len = Len(list)
  BY LenProperties
<1>2. /\ f[0] = first
      /\ \A k \in 0 .. n : k # 0 => f[k] = Keep(list[len + 1 - k], f[k - 1])
  BY <1>1, SMTT(30) DEF Turns
<1> DEFINE T == {k \in Nat : k <= n => Kept(f[k], list, k, w, budget)}
<1>3. 0 \in T
  BY <1>2
<1>4. ASSUME NEW k \in T PROVE k + 1 \in T
  <2> SUFFICES ASSUME k + 1 <= n PROVE Kept(f[k + 1], list, k + 1, w, budget)
    OBVIOUS
  <2>1. /\ k \in Nat /\ k < len /\ k + 1 \in 0 .. n /\ k + 1 # 0 /\ (k + 1) - 1 = k
        /\ len + 1 - (k + 1) = len - k
    BY <1>1
  <2>2. Kept(f[k], list, k, w, budget)
    BY <2>1
  <2> HIDE DEF T
  <2>3. f[k + 1] = Keep(list[len - k], f[k])
    BY <1>2, <2>1
  <2>4. Kept(Keep(list[len - k], f[k]), list, k + 1, w, budget)
    BY <1>1, <2>1, <2>2, KeepTurn
  <2> QED BY <2>3, <2>4
<1>5. T = Nat
  <2> HIDE DEF T
  <2>1. T \subseteq Nat
    BY DEF T
  <2> QED BY <1>3, <1>4, <2>1, Induct
<1>6. n \in T /\ n <= n
  <2> HIDE DEF T
  <2> QED BY <1>5
<1> QED BY <1>6

\* boundConversation keeps the budget, and leaves something out only if less
\* than w is left of it.
LEMMA BudgetOf ==
  ASSUME NEW list \in Seq(KeptType), list # <<>>, NEW max \in Nat \ {0},
         NEW w \in Nat \ {0}, AtMost(w, list), NEW history, history = BoundConversation(list, max)
  PROVE  Size(history) <= max /\ (Size(history) <= max - w => history = list)
<1>1. PICK n \in Nat : n + 1 = Len(list) /\ n = Len(list) - 1
  <2>1. Len(list) \in Nat /\ Len(list) # 0
    BY LenProperties, EmptySeq
  <2> QED BY <2>1
<1>2. PICK m \in KeptType : m = list[1] /\ \A k \in DOMAIN m.text : m.text[k] <= w
  <2>1. 1 \in 1 .. Len(list) /\ 1 \in DOMAIN list
    BY <1>1, LenProperties
  <2> QED BY <2>1, ElementOfSeq DEF AtMost
<1>3. PICK root : root = Cut(m, max)
  OBVIOUS
<1>4. /\ root \in KeptType /\ Bytes(root.text) \in Nat /\ Bytes(root.text) <= max
      /\ max - Bytes(root.text) >= w => root = m
  <2>1. max \in Nat /\ \A k \in DOMAIN m.text : m.text[k] <= w
    BY <1>2
  <2> QED BY <1>3, <2>1, CutMessage
<1>5. PICK budget \in Nat : budget = max - Bytes(root.text)
  BY <1>4
<1>6. PICK first : first = [newest |-> <<>>, remaining |-> budget]
  OBVIOUS
<1>7. Kept(first, list, 0, w, budget)
  <2>1. Size(<<>>) = 0
    <3>1. Size(<<>>) = Bytes(<<>>)
      BY DEF Size
    <3>2. <<>> \in Seq(Nat) /\ 0 \in Nat
      BY EmptySeq
    <3> QED BY <3>1, <3>2, BytesPrepend
  <2>2. <<>> \in Seq(KeptType) /\ Len(<<>>) = 0
    BY EmptySeq
  <2> QED BY <1>6, <2>1, <2>2 DEF Kept
<1> DEFINE f == CHOOSE g : Turns(g, list, n, first)
<1>8. Turns(f, list, n, first)
  <2>1. \E g : Turns(g, list, n, first)
    BY TurnsExist
  <2> QED BY <2>1
<1>9. history = <<root>> \o f[n].newest
  <2>1. ~(list = <<>> \/ max <= 0)
    OBVIOUS
  <2>2. root = [list[1] EXCEPT !.text = TruncateBytes(list[1].text, max)]
    BY <1>2, <1>3 DEF Cut
  <2> QED BY <1>1, <1>5, <1>6, <2>1, <2>2 DEF BoundConversation, Turns
<1> HIDE DEF f
<1>10. Kept(f[n], list, n, w, budget)
  <2>1. n < Len(list)
    BY <1>1
  <2> QED BY <1>7, <1>8, <2>1, KeptAlways
<1>11. PICK v : v = f[n]
  OBVIOUS
<1>12. /\ v.remaining \in Nat /\ v.newest \in Seq(KeptType) /\ Size(v.newest) \in Nat
       /\ Size(v.newest) + v.remaining = budget
       /\ v.remaining >= w => /\ Len(v.newest) = n
                              /\ \A j \in 1 .. n : v.newest[j] = list[Len(list) - n + j]
  BY <1>10, <1>11 DEF Kept
<1>13. Size(history) = Bytes(root.text) + Size(v.newest)
  BY <1>4, <1>9, <1>11, <1>12, SizePrepend
<1>14. Size(history) = max - v.remaining
  <2>1. PICK size \in Nat, left \in Nat, top \in Nat :
          size = Size(v.newest) /\ left = v.remaining /\ top = Bytes(root.text)
    BY <1>4, <1>12
  <2>2. size + left = max - top /\ Size(history) = top + size
    BY <1>5, <1>12, <1>13, <2>1
  <2>3. top + size = max - left
    BY <2>2
  <2> QED BY <2>1, <2>2, <2>3
<1>15. Size(history) <= max
  BY <1>12, <1>14
<1>16. ASSUME Size(history) <= max - w PROVE history = list
  <2>1. v.remaining >= w
    BY <1>12, <1>14, <1>16
  <2>2. Len(v.newest) = n /\ \A j \in 1 .. n : v.newest[j] = list[1 + j]
    <3>1. Len(list) - n = 1
      BY <1>1
    <3> QED BY <1>12, <2>1, <3>1
  <2>3. root = m
    BY <1>4, <1>5, <1>12, <2>1
  <2>4. /\ history \in Seq(KeptType) /\ Len(history) = n + 1
        /\ history[1] = root
        /\ \A i \in 1 .. n + 1 : i # 1 => history[i] = v.newest[i - 1]
    <3>1. PICK rest \in Seq(KeptType) : rest = v.newest /\ Len(rest) = n
      BY <1>12, <2>2
    <3>2. history = <<root>> \o rest
      BY <1>9, <1>11, <3>1
    <3>3. /\ history \in Seq(KeptType) /\ Len(history) = n + 1
          /\ history[1] = root
          /\ \A i \in 1 .. n + 1 : i # 1 => history[i] = rest[i - 1]
      <4>1. /\ Len(<<root>> \o rest) = 1 + Len(rest)
            /\ \A i \in 1 .. 1 + Len(rest) :
                 (<<root>> \o rest)[i] = IF i <= 1 THEN <<root>>[i] ELSE rest[i - 1]
        OBVIOUS
      <4>2. /\ Len(history) = n + 1
            /\ \A i \in 1 .. n + 1 : history[i] = IF i <= 1 THEN root ELSE rest[i - 1]
        BY <3>1, <3>2, <4>1
      <4>3. history \in Seq(KeptType)
        BY <1>4, <3>1, <3>2
      <4> QED BY <4>2, <4>3
    <3> QED BY <3>1, <3>3
  <2>5. ASSUME NEW i \in 1 .. n + 1 PROVE history[i] = list[i]
    <3>1. CASE i = 1
      BY <1>2, <2>3, <2>4, <3>1
    <3>2. CASE i # 1
      <4>1. i - 1 \in 1 .. n /\ 1 + (i - 1) = i
        BY <3>2
      <4> QED BY <2>2, <2>4, <3>2, <4>1
    <3> QED BY <3>1, <3>2
  <2> QED BY <1>1, <2>4, <2>5, SeqEqual
<1> QED BY <1>15, <1>16

---------------------------------------------------------------------------
(* The properties *)

\* What the history of an ask is, in every state of the invariant.
LEMMA HistoryTold ==
  ASSUME HistoryInv, WithHistory
  PROVE  /\ Tells(messages, current - 1, thread)
         /\ current \in Nat /\ current > 1
         /\ thread[1].kind = "root"
         /\ Len(messages) \in Nat /\ DOMAIN messages = 1 .. Len(messages)
         /\ \A i \in DOMAIN messages : messages[i].ts \in Nat
<1>1. /\ pc = "holmes" /\ current # 1 /\ current \in 0 .. Len(thread) /\ current > 0
      /\ thread \in Seq(MessageType) /\ thread # <<>>
      /\ messages \in Seq(EntryType)
      /\ \A ts \in DOMAIN thread : thread[ts].kind = "root" <=> ts = 1
  BY DEF HistoryInv, HistoryType, WithHistory
<1>2. 1 \in DOMAIN thread /\ current \in Nat
  BY <1>1
<1>3. /\ Len(messages) \in Nat /\ DOMAIN messages = 1 .. Len(messages)
      /\ \A i \in DOMAIN messages : messages[i] \in EntryType
  BY <1>1
<1>4. \A e \in EntryType : e.ts \in Nat
  BY DEF EntryType
<1> QED BY <1>1, <1>2, <1>3, <1>4 DEF HistoryInv

\* The history of an ask begins with the root of its thread, goes forward in
\* time and ends before the ask (Conversation sends the ask as latest).
THEOREM HistoryEndsBeforeTheAsk == Spec => []EndsBeforeTheAsk
<1>1. ASSUME HistoryInv PROVE EndsBeforeTheAsk
  <2> SUFFICES ASSUME WithHistory
               PROVE  /\ messages # <<>> /\ messages[1].ts = 1
                      /\ \A i, j \in DOMAIN messages : i < j => messages[i].ts < messages[j].ts
                      /\ Last(messages).ts < current
    BY DEF EndsBeforeTheAsk
  <2>1. /\ Tells(messages, current - 1, thread)
        /\ current \in Nat /\ current > 1
        /\ thread[1].kind = "root"
        /\ Len(messages) \in Nat /\ DOMAIN messages = 1 .. Len(messages)
        /\ \A i \in DOMAIN messages : messages[i].ts \in Nat
    BY <1>1, HistoryTold
  <2>2. \A i, j \in DOMAIN messages : i < j => messages[i].ts < messages[j].ts
    BY <2>1 DEF Tells, Forward
  <2>3. \A i \in DOMAIN messages : messages[i].ts \in 1 .. current - 1
    BY <2>1 DEF Tells
  <2>4. 1 \in 1 .. current - 1
    BY <2>1
  <2>5. PICK i \in DOMAIN messages : messages[i].ts = 1
    BY <2>1, <2>4 DEF Tells
  <2>6. Len(messages) \in DOMAIN messages /\ 1 \in DOMAIN messages
    BY <2>1, <2>5
  <2>7. messages[1].ts = 1
    <3>1. CASE i = 1
      BY <2>5, <3>1
    <3>2. CASE i # 1
      <4>1. 1 < i
        BY <2>1, <3>2
      <4> QED BY <2>1, <2>2, <2>3, <2>5, <2>6, <4>1
    <3> QED BY <3>1, <3>2
  <2>8. messages # <<>>
    BY <2>6
  <2>9. Last(messages).ts < current
    <3>1. messages[Len(messages)].ts \in 1 .. current - 1
      BY <2>3, <2>6
    <3> QED BY <2>1, <3>1 DEF Last
  <2> QED BY <2>2, <2>7, <2>8, <2>9
<1> QED BY <1>1, HistoryInvariant, PTL

\* Whatever page a question or an answer from before the ask was on, and
\* whatever was deleted between two pages: if it is still there it is in the
\* history (Conversation's loop over the pages).
THEOREM NothingIsOverlooked == Spec => []NothingOverlooked
<1>1. ASSUME HistoryInv PROVE NothingOverlooked
  <2> SUFFICES ASSUME WithHistory, NEW ts \in 1 .. current - 1,
                      thread[ts].kind \in {"root", "ask", "answer"}
               PROVE  Held(ts)
    BY DEF NothingOverlooked
  <2>1. Tells(messages, current - 1, thread)
    BY <1>1, HistoryTold
  <2> QED BY <2>1 DEF Tells, Held
<1> QED BY <1>1, HistoryInvariant, PTL

\* The widest rune that is written is one, and the widest.
LEMMA WidestRune ==
  /\ Widest \in Nat \ {0}
  /\ \A text \in Contents : \A k \in DOMAIN text : text[k] <= Widest
<1> DEFINE U == UNION {Range(text) : text \in Contents}
<1>1. \A text \in Contents : text \in Seq(1 .. 4) /\ \A k \in DOMAIN text : text[k] \in 1 .. 4
  BY HistoryAssumption
<1>2. \A x \in U : x \in 1 .. 4
  BY <1>1 DEF Range
<1>3. \A text \in Contents : \A k \in DOMAIN text : text[k] \in U
  BY DEF Range
<1>4. U # {}
  <2>1. PICK text \in Contents : text # <<>>
    BY HistoryAssumption
  <2>2. 1 \in DOMAIN text
    BY <1>1, <2>1
  <2> QED BY <1>3, <2>2
<1>5. Widest = Max(U)
  BY DEF Widest
<1> HIDE DEF U
<1>6. U \in SUBSET (0 .. 4)
  BY <1>2
<1>7. Max(U) \in U /\ \A y \in U : Max(U) >= y
  BY <1>4, <1>6, MaxIsGreatest
<1>8. ASSUME NEW text \in Contents, NEW k \in DOMAIN text PROVE text[k] <= Widest
  BY <1>1, <1>2, <1>3, <1>5, <1>7
<1> QED BY <1>2, <1>5, <1>7, <1>8

\* What Holmes gets is within the budget, and if the widest rune would still have
\* fitted nothing was left out (boundConversation, truncateBytes).
THEOREM TheBudgetIsKeptAndUsed == Spec => []BudgetKeptAndUsed
<1>1. ASSUME HistoryInv PROVE BudgetKeptAndUsed
  <2> SUFFICES ASSUME WithHistory
               PROVE  /\ Size(History) <= MaxBytes
                      /\ Size(History) <= MaxBytes - Widest => History = messages
    BY DEF BudgetKeptAndUsed
  <2>1. Tells(messages, current - 1, thread) /\ current \in Nat /\ current > 1 /\ thread[1].kind = "root"
    BY <1>1, HistoryTold
  <2>2. messages # <<>>
    <3>1. 1 \in 1 .. current - 1
      BY <2>1
    <3>2. PICK i \in DOMAIN messages : messages[i].ts = 1
      BY <2>1, <3>1 DEF Tells
    <3> QED BY <3>2
  <2>3. messages \in Seq(EntryType)
    BY <1>1 DEF HistoryInv, HistoryType
  <2>4. ASSUME NEW e \in EntryType
        PROVE  e \in KeptType /\ \A k \in DOMAIN e.text : e.text[k] <= Widest
    <3>1. e.text \in Seq(1 .. 4) /\ \A k \in DOMAIN e.text : e.text[k] <= Widest
      <4>1. CASE e.text \in Contents
        BY <4>1, WidestRune, HistoryAssumption
      <4>2. CASE e.text = <<>>
        BY <4>2
      <4> QED BY <4>1, <4>2 DEF EntryType
    <3> QED BY <3>1 DEF EntryType, KeptType
  <2>5. messages \in Seq(KeptType) /\ AtMost(Widest, messages)
    <3>1. PICK n \in Nat : n = Len(messages) /\ DOMAIN messages = 1 .. n
      BY <2>3, LenProperties
    <3>2. \A i \in 1 .. n : messages[i] \in EntryType
      BY <2>3, <3>1, ElementOfSeq
    <3>3. \A i \in 1 .. n : messages[i] \in KeptType
      BY <2>4, <3>2
    <3>4. messages = [i \in 1 .. n |-> messages[i]]
      BY <2>3, <3>1
    <3>5. messages \in Seq(KeptType)
      BY <3>3, <3>4
    <3>6. AtMost(Widest, messages)
      BY <2>4, <3>1, <3>2 DEF AtMost
    <3> QED BY <3>5, <3>6
  <2>6. PICK list \in Seq(KeptType), w \in Nat \ {0}, max \in Nat \ {0} :
          list = messages /\ w = Widest /\ max = MaxBytes
    BY <2>5, WidestRune, HistoryAssumption
  <2>7. PICK history : history = BoundConversation(list, max)
    OBVIOUS
  <2>8. Size(history) <= max /\ (Size(history) <= max - w => history = list)
    BY <2>2, <2>5, <2>6, <2>7, BudgetOf
  <2> QED BY <2>6, <2>7, <2>8 DEF History
<1> QED BY <1>1, HistoryInvariant, PTL

=============================================================================
