----------------------------- MODULE SplitSlack -----------------------------
(***************************************************************************)
(* How an answer becomes Slack messages: splitSlack, splitSlackOverflow    *)
(* and splitSlackContent in src/internal/service/prompt.go, and the choice *)
(* between them in runHolmesFrom.  Each part carries the prefix "(i/n) ",  *)
(* whose width depends on how many parts there are, which depends on the   *)
(* width: splitSlack splits again until the two agree.                     *)
(*                                                                         *)
(* A rune is "n" (line feed), "r" (carriage return) or "x", any other.     *)
(***************************************************************************)
EXTENDS Naturals, Sequences, SequencesExt, FiniteSetsExt

CONSTANTS
  Texts,     \* the answers
  Limit,     \* slackMessageMaxChars: 4000
  MaxParts,  \* slackAnswerMaxParts: 10
  Base,      \* of the numerals: 10
  Frame      \* the runes of a prefix that are no digits: 4

Runes == {"n", "r", "x"}

digits[n \in Nat] == IF n < Base THEN 1 ELSE 1 + digits[n \div Base]
Digits(n) == digits[n]
\* "(n/n) " and "(10/10+) "
PrefixChars(n) == Frame + 2 * Digits(n)
OverflowPrefixChars == PrefixChars(MaxParts) + 1

ASSUME SplitAssumption ==
  /\ Limit \in Nat \ {0} /\ MaxParts \in Nat \ {0} /\ Base \in Nat \ {0, 1} /\ Frame \in Nat
  /\ Texts \subseteq Seq(Runes)
  \* Room for text beside the widest prefix that occurs.
  /\ \A text \in Texts : Len(text) > Limit => PrefixChars(Len(text)) < Limit
  /\ OverflowPrefixChars < Limit

VARIABLES
  text,      \* the sanitized answer
  tooLarge,  \* analysisTooLarge
  pc,        \* "split" (in splitSlackContent), "counted", "done"
  prefix,    \* prefixChars
  rest,      \* runes of splitSlackContent
  parts      \* without their prefixes

vars == <<text, tooLarge, pc, prefix, rest, parts>>

\* Mutant: bytes are counted, not runes.
FirstBytes(s, max) == SubSeq(s, 1, Min({max \div 2, Len(s)}))
FirstRunes(s, max) == SubSeq(s, 1, Min({max, Len(s)}))

Width == Limit - prefix

\* The answer that fits is sent as it is.
Init ==
  /\ text \in Texts
  /\ tooLarge \in BOOLEAN
  /\ IF tooLarge
     THEN /\ prefix = OverflowPrefixChars
          /\ rest = FirstRunes(text, MaxParts * (Limit - OverflowPrefixChars))
          /\ pc = "split" /\ parts = <<>>
     ELSE /\ prefix = 0 /\ rest = text
          /\ IF Len(text) <= Limit THEN pc = "done" /\ parts = <<text>>
             ELSE pc = "split" /\ parts = <<>>

---------------------------------------------------------------------------

EndsBlankLine(s, index) ==
  /\ s[index] = "n"
  /\ LET previous == IF s[index - 1] = "r" THEN index - 2 ELSE index - 1
     IN  previous >= 1 /\ s[previous] = "n"

\* After the last blank line, else after the last line, else anywhere.
SplitPoint(s, max) ==
  LET blank == {index \in 2 .. max : EndsBlankLine(s, index)}
      lines == {index \in 1 .. max : s[index] = "n"}
  IN  IF blank # {} THEN Max(blank) ELSE IF lines # {} THEN Max(lines) ELSE max

\* Mutants: a rune stands in two parts; text that just fits is cut.
RuneTwice(cut) == SubSeq(rest, Max({cut, 2}), Len(rest))
After(cut) == SubSeq(rest, cut + 1, Len(rest))
TooLongOrFull == Len(rest) >= Width
TooLong == Len(rest) > Width

Cut ==
  /\ pc = "split"
  /\ TooLong
  /\ LET cut == SplitPoint(rest, Width)
     IN  /\ parts' = Append(parts, SubSeq(rest, 1, cut))
         /\ rest' = After(cut)
  /\ UNCHANGED <<text, tooLarge, pc, prefix>>

LastPart ==
  /\ pc = "split"
  /\ ~TooLong
  /\ parts' = Append(parts, rest)
  /\ pc' = "counted"
  /\ UNCHANGED <<text, tooLarge, prefix, rest>>

NextPrefix == PrefixChars(Len(parts))

\* Mutants: two passes are enough; another pass until the prefix shrinks.
TwoPasses == prefix # 0
PrefixShrinks == NextPrefix < prefix
PrefixFits == NextPrefix = prefix

SplitAgain ==
  /\ pc = "counted" /\ ~tooLarge
  /\ ~PrefixFits
  /\ prefix' = NextPrefix
  /\ rest' = text /\ parts' = <<>>
  /\ pc' = "split"
  /\ UNCHANGED <<text, tooLarge>>

Settle ==
  /\ pc = "counted"
  /\ \/ tooLarge /\ parts' = FirstRunes(parts, MaxParts)
     \/ ~tooLarge /\ PrefixFits /\ UNCHANGED parts
  /\ pc' = "done"
  /\ UNCHANGED <<text, tooLarge, prefix, rest>>

Terminated == pc = "done" /\ UNCHANGED vars

Next == Cut \/ LastPart \/ SplitAgain \/ Settle \/ Terminated

Spec == Init /\ [][Next]_vars
FairSpec == Spec /\ WF_vars(Next)

---------------------------------------------------------------------------
(* Properties *)

Done == pc = "done"

\* The length of message i, with its prefix.
MessageChars(i) ==
  Len(parts[i]) + (IF prefix = 0 THEN 0
                   ELSE Frame + Digits(i)
                        + (IF tooLarge THEN Digits(MaxParts) + 1 ELSE Digits(Len(parts))))

\* Nothing is lost, doubled or reordered: the parts are the answer, or where it
\* was cut short, its beginning.
ContentPreserved ==
  Done => /\ IsPrefix(FlattenSeq(parts), text)
          /\ ~tooLarge => FlattenSeq(parts) = text

\* Every message fits Slack's limit with its prefix, for every number of parts.
MessagesFit == Done => \A i \in DOMAIN parts : MessageChars(i) <= Limit

\* No part is empty, unless the answer is.
NoEmptyPart == Done /\ text # <<>> => \A i \in DOMAIN parts : parts[i] # <<>>

\* An answer that is too large fills the parts that the notice speaks of: "only
\* the first 10 parts were delivered" (service.go:411).
OverflowFillsParts ==
  Done /\ tooLarge /\ Len(text) >= MaxParts * Width => Len(parts) = MaxParts

\* Splitting again and again comes to an end: narrower messages never make so
\* few parts that the prefix goes back and forth.
SplittingEnds == <>Done

=============================================================================
