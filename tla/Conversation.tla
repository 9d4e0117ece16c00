---------------------------- MODULE Conversation ----------------------------
(***************************************************************************)
(* What is kept of a thread for Holmes: boundConversation in               *)
(* src/internal/service/conversation.go and truncateBytes in prompt.go.    *)
(*                                                                         *)
(* A text is the sequence of the widths of its runes in bytes, after       *)
(* sanitize; a message is a record with a field text.                      *)
(***************************************************************************)
EXTENDS Integers, Sequences, SequencesExt, FiniteSetsExt

Bytes(text) ==
  LET sum[k \in 0 .. Len(text)] == IF k = 0 THEN 0 ELSE sum[k - 1] + text[k]
  IN  sum[Len(text)]

\* As many whole runes as fit.
TruncateBytes(text, max) ==
  SubSeq(text, 1, Max({k \in 0 .. Len(text) : Bytes(SubSeq(text, 1, k)) <= max}))

\* Mutant: a message that does not fit ends the conversation.
KeepWhole(message, kept) ==
  IF kept.remaining = 0 \/ Bytes(message.text) > kept.remaining THEN [kept EXCEPT !.remaining = 0]
  ELSE [newest |-> <<message>> \o kept.newest, remaining |-> kept.remaining - Bytes(message.text)]

\* One turn of the loop over the messages, from the newest to the oldest.
Keep(message, kept) ==
  IF kept.remaining = 0 THEN kept
  ELSE LET text == TruncateBytes(message.text, kept.remaining)
       IN  [newest |-> <<[message EXCEPT !.text = text]>> \o kept.newest,
            remaining |-> kept.remaining - Bytes(text)]

BoundConversation(messages, maxBytes) ==
  IF messages = <<>> \/ maxBytes <= 0 THEN <<>>
  ELSE LET root == [messages[1] EXCEPT !.text = TruncateBytes(@, maxBytes)]
           kept[turn \in 0 .. Len(messages) - 1] ==
             IF turn = 0 THEN [newest |-> <<>>, remaining |-> maxBytes - Bytes(root.text)]
             ELSE Keep(messages[Len(messages) + 1 - turn], kept[turn - 1])
       IN  <<root>> \o kept[Len(messages) - 1].newest

=============================================================================
