--------------------------- MODULE HolmesResponse ---------------------------
(***************************************************************************)
(* The streaming decoder of Holmes' answers                                *)
(* (src/internal/holmes/response.go) and what Chat makes of its result     *)
(* (src/internal/holmes/client.go).                                        *)
(*                                                                         *)
(* The body comes token by token and is chosen as it is read.  A token is  *)
(* a punctuation mark, a string, a number, a word, or the end of the body: *)
(* "EOF", or "broken" when the connection or the context ends first.       *)
(* Space between tokens is left out.  A string is a sequence of pieces, a  *)
(* number the characters up to the next delimiter.  The calls of           *)
(* skipObject and skipArray that are open are a stack.                     *)
(***************************************************************************)
EXTENDS Integers, SequencesExt

CONSTANTS
  Inputs,       \* bound: which literals a body is made of, and its tokens
  MaxDepth,     \* maxJSONDepth
  MaxAnalysis   \* maxAnalysisBytes

Marks == {"{", "}", "[", "]", ",", ":"}
Ends == {"EOF", "broken"}
Mark(c) == [kind |-> c, text |-> <<>>, closed |-> TRUE]
String(pieces, closed) == [kind |-> "string", text |-> pieces, closed |-> closed]
Number(chars) == [kind |-> "number", text |-> chars, closed |-> TRUE]
Word(w) == [kind |-> "word", text |-> <<w>>, closed |-> TRUE]
Literals ==
  [kind : {"string"}, text : Seq(STRING), closed : BOOLEAN]
    \cup [kind : {"number"}, text : Seq(STRING), closed : {TRUE}]
    \cup [kind : {"word"}, text : Seq(STRING) \ {<<>>}, closed : {TRUE}]

ASSUME HolmesAssumption ==
  /\ MaxDepth \in Nat \ {0} /\ MaxAnalysis \in Nat
  /\ \A i \in Inputs : i.tokens \in Nat /\ i.literals \subseteq Literals
  \* There is a longest body.
  /\ \E longest \in Inputs : \A i \in Inputs : i.tokens <= longest.tokens

\* The pieces of strings, and their bytes when decoded: two parts of the name
\* analysis, narrow and wide runes, a space, the halves of a surrogate pair as
\* escapes ("hi", "lo"), and "bad": a control character or an invalid escape.
Bytes(rune) ==
  CASE rune = "analys" -> 6 [] rune = "is" -> 2 [] rune \in {"wide", "replacement"} -> 3
    [] rune = "pair" -> 4 [] OTHER -> 1
Analysis == <<"analys", "is">>
NameLimit == 8

VARIABLES
  input,     \* the literals and the bound of this body
  read,      \* the tokens read so far
  place,     \* what is expected next
  stack,     \* the brackets that are open
  wanted,    \* the name just read is that of the top-level analysis
  analysis,  \* the decoder's analysis
  tooLarge   \* analysisTooLarge

vars == <<input, read, place, stack, wanted, analysis, tooLarge>>

Init ==
  /\ input \in Inputs
  /\ read = <<>> /\ place = "start" /\ stack = <<>> /\ wanted = FALSE
  /\ analysis = <<>> /\ tooLarge = FALSE

---------------------------------------------------------------------------
(* Literals *)

\* Mutant: the second half of a pair is looked at but not taken.
PeekOnly == 1
PairLength == 2

\* readEscape: a high half takes the low half that follows it at once.
Decode(pieces) ==
  LET from[i \in 1 .. Len(pieces) + 2] ==
        IF i > Len(pieces) THEN <<>>
        ELSE IF pieces[i] = "hi" /\ i < Len(pieces) /\ pieces[i + 1] = "lo"
        THEN <<"pair">> \o from[i + PairLength]
        ELSE <<IF pieces[i] \in {"hi", "lo"} THEN "replacement" ELSE pieces[i]>> \o from[i + 1]
  IN from[1]

\* Every rune that still fits is kept, also after one that did not.
Keep(kept, rune, limit) ==
  IF kept.bytes + Bytes(rune) <= limit
  THEN [kept EXCEPT !.value = Append(@, rune), !.bytes = @ + Bytes(rune)]
  ELSE [kept EXCEPT !.tooLarge = TRUE]

ReadString(token, limit) ==
  LET runes == Decode(token.text)
      kept[n \in 0 .. Len(runes)] ==
        IF n = 0 THEN [value |-> <<>>, bytes |-> 0, tooLarge |-> FALSE]
        ELSE Keep(kept[n - 1], runes[n], limit)
  IN  kept[Len(runes)]

StringEnds(token) == token.kind = "string" /\ token.closed /\ "bad" \notin Range(token.text)

Digit == {"0", "1"}

\* The place in `chars` after the digits at i.
AfterDigits(chars, i) ==
  CHOOSE j \in i .. Len(chars) + 1 :
    /\ \A k \in i .. j - 1 : chars[k] \in Digit
    /\ j <= Len(chars) => chars[j] \notin Digit

\* A zero stands alone.
AfterInteger(chars, i) ==
  IF i <= Len(chars) /\ chars[i] = "0" THEN i + 1 ELSE AfterDigits(chars, i)

NumberEnds(chars) ==
  LET Is(i, set) == i <= Len(chars) /\ chars[i] \in set
      integer == IF Is(1, {"-"}) THEN 2 ELSE 1
      point == AfterInteger(chars, integer)
      exponent == IF Is(point, {"."}) THEN AfterDigits(chars, point + 1) ELSE point
      digits == IF Is(exponent + 1, {"+", "-"}) THEN exponent + 2 ELSE exponent + 1
  IN /\ Is(integer, Digit)
     /\ Is(point, {"."}) => Is(point + 1, Digit)
     /\ IF Is(exponent, {"e"})
        THEN Is(digits, Digit) /\ AfterDigits(chars, digits) > Len(chars)
        ELSE exponent > Len(chars)

ScalarEnds(token) ==
  \/ StringEnds(token)
  \/ token.kind = "number" /\ NumberEnds(token.text)
  \/ token.kind = "word" /\ Head(token.text) \in {"true", "false", "null"}

---------------------------------------------------------------------------
(* decode, skipValue, skipObject, skipArray *)

Expect(next) ==
  /\ place' = next
  /\ UNCHANGED <<stack, wanted, analysis, tooLarge>>

Fail == Expect("error")

Open(token) ==
  /\ stack' = Append(stack, token.kind)
  /\ place' = IF token.kind = "{" THEN "members" ELSE "elements"
  /\ UNCHANGED <<wanted, analysis, tooLarge>>

Close ==
  /\ stack' = Front(stack)
  /\ place' = IF Len(stack) = 1 THEN "end" ELSE "delimiter"
  /\ UNCHANGED <<wanted, analysis, tooLarge>>

Start(token) ==
  /\ place = "start"
  /\ IF token.kind = "{" THEN Open(token) ELSE Fail

\* A longer name may be cut to analysis.
IsAnalysis(name) == name.value = Analysis /\ ~name.tooLarge

\* Only an object that has just been opened may end here.
Name(token) ==
  /\ place \in {"members", "name"}
  /\ IF place = "members" /\ token.kind = "}" THEN Close
     ELSE IF ~StringEnds(token) THEN Fail
     ELSE /\ place' = "colon"
          /\ wanted' = (Len(stack) = 1 /\ IsAnalysis(ReadString(token, NameLimit)))
          /\ UNCHANGED <<stack, analysis, tooLarge>>

Colon(token) ==
  /\ place = "colon"
  /\ IF token.kind # ":" THEN Fail ELSE Expect(IF wanted THEN "analysis" ELSE "value")

\* Mutant: once cut, the analysis stays cut.
Sticky(cut) == tooLarge \/ cut
Flag(cut) == cut

\* The analysis is a string; a later one replaces it, flag included.
ReadAnalysis(token) ==
  /\ place = "analysis"
  /\ IF ~StringEnds(token) THEN Fail
     ELSE LET content == ReadString(token, MaxAnalysis) IN
          /\ analysis' = content.value
          /\ tooLarge' = Flag(content.tooLarge)
          /\ wanted' = FALSE
          /\ place' = "delimiter"
          /\ UNCHANGED stack

\* Mutant: one level less.
TooDeepByOne == Len(stack) >= MaxDepth
TooDeep == Len(stack) > MaxDepth

SkipValue(token) ==
  /\ place \in {"value", "elements"}
  /\ IF place = "elements" /\ token.kind = "]" THEN Close
     ELSE IF TooDeep THEN Fail
     ELSE IF token.kind \in {"{", "["} THEN Open(token)
     ELSE Expect(IF ScalarEnds(token) THEN "delimiter" ELSE "error")

Closes(token) == token.kind = IF Last(stack) = "{" THEN "}" ELSE "]"

Delimiter(token) ==
  /\ place = "delimiter"
  /\ IF Closes(token) THEN Close
     ELSE IF token.kind # "," THEN Fail
     ELSE Expect(IF Last(stack) = "{" THEN "name" ELSE "value")

ExpectEOF(token) ==
  /\ place = "end"
  /\ Expect(IF token.kind = "EOF" THEN "ok" ELSE "error")

Done == place \in {"ok", "error"}

Terminated == (Done \/ Len(read) = input.tokens) /\ UNCHANGED vars

Decoding(token) ==
  \/ Start(token) \/ Name(token) \/ Colon(token) \/ ReadAnalysis(token)
  \/ SkipValue(token) \/ Delimiter(token) \/ ExpectEOF(token)

Next ==
  \/ /\ Len(read) < input.tokens
     /\ \E token \in input.literals \cup {Mark(c) : c \in Marks \cup Ends} :
          Decoding(token) /\ read' = Append(read, token)
     /\ UNCHANGED input
  \/ Terminated

Spec == Init /\ [][Next]_vars

---------------------------------------------------------------------------
(* Chat: the answer, and the two errors that runHolmesFrom tells apart *)

Answer == IF Range(analysis) \subseteq {"space"} THEN <<>> ELSE analysis
RequestFailed == place = "error" \/ (~tooLarge /\ Answer = <<>>)
AnalysisTooLarge == tooLarge

---------------------------------------------------------------------------
(* Properties.  The documents are generated, not parsed: from the grammar of *)
(* RFC 8259 with one more rule, that a top-level analysis is a string.       *)

\* A minus, an integer from `first` to `last`, which does not begin with a zero
\* unless it is one, a fraction up to `point`, and an exponent.
IsNumber(chars) ==
  LET Digits(a, b) == a <= b /\ \A i \in a .. b : chars[i] \in Digit
      all == Len(chars)
  IN \E first \in {1, 2}, last, point \in 1 .. all :
       /\ Digits(first, last) /\ (chars[first] = "0" => last = first)
       /\ first = 2 => chars[1] = "-"
       /\ point = last \/ (Digits(last + 2, point) /\ chars[last + 1] = ".")
       /\ \/ point = all
          \/ \E sign \in {point + 1, point + 2} :
               /\ Digits(sign + 1, all) /\ chars[point + 1] = "e"
               /\ sign = point + 2 => chars[sign] \in {"+", "-"}

\* The longest document that is generated.
Longest == CHOOSE n \in {i.tokens : i \in Inputs} : \A i \in Inputs : i.tokens <= n

Enclosed(open, inner, close) == {<<open>> \o x \o <<close>> : x \in inner}
Label(name) == <<name, ":">>
Named(values) == {Label(name) \o v : name \in {"string", "analysis"}, v \in values}
Comma == <<",">>
Listed(lists, ones) == {l \o Comma \o x : l \in lists, x \in ones}

\* The values, members and their lists of n tokens, from those of fewer.
Derive(phrase, n) ==
  LET Inner(kind) == IF n = 2 THEN {<<>>} ELSE phrase[n - 2][kind]
      value == IF n = 0 THEN {}
               ELSE IF n = 1 THEN {<<"string">>, <<"analysis">>, <<"scalar">>}
               ELSE Enclosed("[", Inner("elements"), "]") \cup Enclosed("{", Inner("members"), "}")
      member == IF n < 3 THEN {} ELSE Named(phrase[n - 2].value)
      Longer(list, one) == UNION {Listed(phrase[k][list], phrase[n - k - 1][one]) : k \in 1 .. n - 2}
  IN [value |-> value, member |-> member,
      elements |-> value \cup Longer("elements", "value"),
      members |-> member \cup Longer("members", "member")]

Phrases ==
  LET phrase[n \in 0 .. Longest] == Derive(phrase, n) IN phrase

\* How many brackets are open before token i of a class sequence.
OpenBefore(s, i) ==
  Cardinality({j \in 1 .. i - 1 : s[j] \in {"{", "["}})
    - Cardinality({j \in 1 .. i - 1 : s[j] \in {"}", "]"}})

\* The top-level member that begins at i has the name analysis.
AnalysisAt(s, i) ==
  s[i] = "analysis" /\ OpenBefore(s, i) = 1 /\ i < Len(s) /\ s[i + 1] = ":"

Documents ==
  {d \in UNION {Phrases[n].value : n \in 1 .. Longest} :
     /\ d[1] = "{"
     /\ \A i \in DOMAIN d : AnalysisAt(d, i) => d[i + 2] \in {"string", "analysis"}
     /\ \A i \in DOMAIN d : d[i] \notin {"}", "]"} => OpenBefore(d, i) <= MaxDepth}

Beginnings == UNION {{SubSeq(d, 1, n) : n \in DOMAIN d} : d \in Documents}

\* The runes of a legal string, place by place.
Runes(pieces) ==
  LET Paired(i) == i \in DOMAIN pieces /\ pieces[i] = "lo" /\ i > 1 /\ pieces[i - 1] = "hi"
      Rune(i) == IF Paired(i + 1) THEN "pair"
                 ELSE IF pieces[i] \in {"hi", "lo"} THEN "replacement" ELSE pieces[i]
  IN FlattenSeq([i \in DOMAIN pieces |-> IF Paired(i) THEN <<>> ELSE <<Rune(i)>>])

Size(runes) ==
  LET sum[n \in 0 .. Len(runes)] == IF n = 0 THEN 0 ELSE sum[n - 1] + Bytes(runes[n])
  IN  sum[Len(runes)]

Class(token) ==
  CASE token.kind \in Marks \cup Ends -> token.kind
    [] token.kind = "string" ->
         IF ~token.closed \/ "bad" \in Range(token.text) THEN "illegal"
         ELSE IF Runes(token.text) = Analysis THEN "analysis" ELSE "string"
    [] token.kind = "number" -> IF IsNumber(token.text) THEN "scalar" ELSE "illegal"
    [] token.kind = "word" -> IF token.text[1] \in {"true", "false", "null"} THEN "scalar" ELSE "illegal"

Classes == [i \in DOMAIN read |-> Class(read[i])]

\* The decoder, which never looks back, accepts the documents within its depth
\* limit that end where the body ends, and refuses none of them.
AcceptsExactlyTheDocuments ==
  /\ place = "ok" => Last(Classes) = "EOF" /\ Front(Classes) \in Documents
  /\ place = "error" =>
       IF Last(Classes) = "EOF" THEN Front(Classes) \notin Documents
       ELSE Last(Classes) = "broken" \/ Classes \notin Beginnings

\* The texts of the top-level members named analysis that were read as a whole.
Analyses ==
  LET Whole(i) == i > 2 /\ AnalysisAt(Classes, i - 2) /\ Classes[i] \in {"string", "analysis"}
  IN FlattenSeq([i \in DOMAIN read |-> IF Whole(i) THEN <<Runes(read[i].text)>> ELSE <<>>])

\* Whatever follows it, breaks off or repeats it: the analysis is the last one
\* that was read as a whole.  One over the limit begins as it should, has no
\* room for one of its runes, and is the only one that is flagged.
LastWholeAnalysis ==
  IF Analyses = <<>> THEN analysis = <<>> /\ ~tooLarge
  ELSE LET text == Last(Analyses) IN
       IF Size(text) <= MaxAnalysis THEN analysis = text /\ ~tooLarge
       ELSE /\ tooLarge
            /\ Size(analysis) <= MaxAnalysis
            /\ \E rune \in Range(text) : Size(analysis) + Bytes(rune) > MaxAnalysis
            /\ \A n \in DOMAIN text :
                 Size(SubSeq(text, 1, n)) <= MaxAnalysis => IsPrefix(SubSeq(text, 1, n), analysis)

\* What Service assumes of Chat: no error if and only if a legal document brought
\* a whole analysis that is not blank; the limit is reported if and only if the
\* analysis was cut, whatever else failed; and a whole analysis that is not blank
\* is delivered although the rest of the response is not legal.
SuccessMeansWhole ==
  Done =>
    LET legal == Last(Classes) = "EOF" /\ Front(Classes) \in Documents
        text == IF Analyses = <<>> THEN <<>> ELSE Last(Analyses)
        blank == Range(text) \subseteq {"space"}
    IN /\ (~RequestFailed /\ ~AnalysisTooLarge) <=> (legal /\ ~blank /\ Size(text) <= MaxAnalysis)
       /\ AnalysisTooLarge <=> Size(text) > MaxAnalysis
       /\ ~blank /\ Size(text) <= MaxAnalysis => Answer = text

=============================================================================
