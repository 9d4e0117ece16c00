-------------------------- MODULE SplitSlackProofs --------------------------
(***************************************************************************)
(* Theorems about SplitSlack: whatever the answer, the limit, the number   *)
(* of parts and the base of the numerals, nothing is lost, every message   *)
(* fits, no part is empty, and an answer that is too large fills its parts.*)
(***************************************************************************)
EXTENDS SplitSlack, SequenceFacts

---------------------------------------------------------------------------
(* The width of a number *)

\* f is what digits should be, up to n.
Counts(f, n) == \A k \in 0 .. n : f[k] = IF k < Base THEN 1 ELSE 1 + f[k \div Base]

\* A number has fewer digits to the left of its last one.
LEMMA Quotient ==
  ASSUME NEW n \in Nat
  PROVE  /\ n >= Base => n \div Base \in 0 .. n - 1
         /\ \A m \in Nat : m <= n => m \div Base <= n \div Base
<1>1. Base \in Nat /\ Base >= 2
  BY SplitAssumption
<1>2. \A m \in Nat : /\ m \div Base \in Int
                     /\ Base * (m \div Base) <= m /\ m < Base * (m \div Base) + Base
  BY <1>1
<1>3. \A m \in Nat : m \div Base >= 0
  <2> SUFFICES ASSUME NEW m \in Nat, m \div Base <= -1 PROVE FALSE
    BY <1>2
  <2>1. \A b \in Nat, q \in Int : q <= -1 => b * q <= -b
    OBVIOUS
  <2>2. Base * (m \div Base) <= -Base
    BY <1>1, <1>2, <2>1
  <2> QED BY <1>1, <1>2, <2>2
<1>4. ASSUME n >= Base PROVE n \div Base <= n - 1
  <2>1. \A b \in Nat, q \in Nat : b >= 2 => b * q >= 2 * q
    OBVIOUS
  <2>2. Base * (n \div Base) >= 2 * (n \div Base)
    BY <1>1, <1>2, <1>3, <2>1
  <2> QED BY <1>1, <1>2, <1>3, <1>4, <2>2
<1>5. ASSUME NEW m \in Nat, m <= n PROVE m \div Base <= n \div Base
  <2> SUFFICES ASSUME m \div Base >= n \div Base + 1 PROVE FALSE
    BY <1>2
  <2>1. \A b \in Nat, p, q \in Int : p >= q + 1 => b * p >= b * q + b
    OBVIOUS
  <2>2. Base * (m \div Base) >= Base * (n \div Base) + Base
    BY <1>1, <1>2, <2>1
  <2> QED BY <1>1, <1>2, <1>5, <2>2
<1> QED BY <1>2, <1>3, <1>4, <1>5

\* Two that count alike give the same widths.
LEMMA CountsUnique ==
  ASSUME NEW f, NEW g, NEW n \in Nat, Counts(f, n), Counts(g, n)
  PROVE  \A k \in 0 .. n : f[k] = g[k]
<1> DEFINE Bad == {k \in 0 .. n : f[k] # g[k]}
<1> SUFFICES ASSUME Bad # {} PROVE FALSE
  OBVIOUS
<1>1. PICK k \in Bad : \A j \in Bad : k <= j
  <2>1. Bad \subseteq Nat
    OBVIOUS
  <2> HIDE DEF Bad
  <2> QED BY <2>1, Least
<1>2. k >= Base /\ k \in Nat /\ Base \in Nat
  BY <1>1, SplitAssumption DEF Counts
<1>3. k \div Base \in 0 .. k - 1
  BY <1>2, Quotient
<1>4. f[k \div Base] = g[k \div Base]
  BY <1>1, <1>3
<1> QED BY <1>1, <1>2, <1>4 DEF Counts

\* There is one up to every number.
LEMMA CountsExist == \A n \in Nat : \E f : Counts(f, n)
<1> DEFINE T == {n \in Nat : \E f : Counts(f, n)}
<1>1. 0 \in T
  <2>1. Counts([k \in {0} |-> 1], 0)
    BY SplitAssumption DEF Counts
  <2> QED BY <2>1
<1>2. ASSUME NEW n \in T PROVE n + 1 \in T
  <2>1. PICK f : Counts(f, n)
    OBVIOUS
  <2> DEFINE g == [k \in 0 .. n + 1 |-> IF k <= n THEN f[k]
                                       ELSE IF k < Base THEN 1 ELSE 1 + f[k \div Base]]
  <2>2. Counts(g, n + 1)
    <3> SUFFICES ASSUME NEW k \in 0 .. n + 1
                 PROVE  g[k] = IF k < Base THEN 1 ELSE 1 + g[k \div Base]
      BY DEF Counts
    <3>1. k >= Base => k \div Base \in 0 .. k - 1
      BY Quotient
    <3>2. k >= Base => g[k \div Base] = f[k \div Base]
      BY <3>1
    <3>3. Base \in Nat
      BY SplitAssumption
    <3>4. CASE k <= n
      <4>1. f[k] = IF k < Base THEN 1 ELSE 1 + f[k \div Base]
        BY <2>1, <3>4 DEF Counts
      <4> QED BY <3>2, <3>3, <3>4, <4>1
    <3>5. CASE ~(k <= n)
      BY <3>2, <3>3, <3>5
    <3> QED BY <3>4, <3>5
  <2> QED BY <2>2
<1>3. T = Nat
  <2> HIDE DEF T
  <2>1. T \subseteq Nat
    BY DEF T
  <2> QED BY <1>1, <1>2, <2>1, Induct
<1> QED BY <1>3

\* The recursion of digits is one.
LEMMA DigitsUnfold == \A n \in Nat : digits[n] = IF n < Base THEN 1 ELSE 1 + digits[n \div Base]
<1> DEFINE one(n) == (CHOOSE f : Counts(f, n))[n]
           F == [n \in Nat |-> one(n)]
<1>1. \A n \in Nat : Counts(CHOOSE f : Counts(f, n), n)
  BY CountsExist
<1>2. ASSUME NEW n \in Nat PROVE F[n] = IF n < Base THEN 1 ELSE 1 + F[n \div Base]
  <2>1. PICK f : f = CHOOSE h : Counts(h, n)
    OBVIOUS
  <2>2. Counts(f, n)
    BY <1>1, <2>1
  <2>3. F[n] = f[n]
    BY <2>1
  <2> HIDE DEF F
  <2>4. CASE n < Base
    BY <2>2, <2>3, <2>4 DEF Counts
  <2>5. CASE ~(n < Base)
    <3>0. n >= Base
      BY <2>5, SplitAssumption
    <3>1. n \div Base \in 0 .. n - 1
      BY <3>0, Quotient
    <3>2. PICK m \in Nat : m = n \div Base /\ m <= n
      BY <3>1
    <3>3. PICK g : g = CHOOSE h : Counts(h, m)
      OBVIOUS
    <3>4. Counts(g, m) /\ Counts(f, m)
      <4>1. Counts(g, m)
        BY <1>1, <3>2, <3>3
      <4>2. 0 .. m \subseteq 0 .. n
        BY <3>2
      <4>3. Counts(f, m)
        BY <2>2, <4>2 DEF Counts
      <4> QED BY <4>1, <4>3
    <3>5. g[m] = f[m]
      BY <3>4, CountsUnique
    <3>6. F[m] = g[m]
      BY <3>3 DEF F
    <3> QED BY <2>2, <2>3, <2>5, <3>2, <3>5, <3>6 DEF Counts
  <2> QED BY <2>4, <2>5
<1>3. F = [n \in Nat |-> IF n < Base THEN 1 ELSE 1 + F[n \div Base]]
  <2> HIDE DEF one
  <2>1. F = [n \in Nat |-> F[n]]
    OBVIOUS
  <2> HIDE DEF F
  <2> QED BY <1>2, <2>1
<1> HIDE DEF F
<1>4. digits = [n \in Nat |-> IF n < Base THEN 1 ELSE 1 + digits[n \div Base]]
  BY <1>3 DEF digits
<1> QED BY <1>4

\* A number is at least one digit wide.
LEMMA DigitsType == \A n \in Nat : Digits(n) \in Nat \ {0}
<1> DEFINE Bad == {n \in Nat : digits[n] \notin Nat \ {0}}
<1> SUFFICES ASSUME Bad # {} PROVE FALSE
  BY DEF Digits
<1>1. PICK n \in Bad : \A m \in Bad : n <= m
  <2>1. Bad \subseteq Nat
    OBVIOUS
  <2> HIDE DEF Bad
  <2> QED BY <2>1, Least
<1>2. n >= Base
  BY <1>1, DigitsUnfold, SplitAssumption
<1>3. n \div Base \in 0 .. n - 1
  BY <1>2, Quotient
<1>4. digits[n \div Base] \in Nat \ {0}
  BY <1>1, <1>3
<1>5. n \in Nat /\ ~ (n < Base) /\ digits[n] \notin Nat \ {0}
  BY <1>1, <1>2, SplitAssumption
<1>6. digits[n] = 1 + digits[n \div Base]
  BY <1>5, DigitsUnfold
<1> QED BY <1>4, <1>5, <1>6

\* A greater number is at least as wide.
LEMMA DigitsMonotonic == \A m, n \in Nat : m <= n => Digits(m) <= Digits(n)
<1> DEFINE Bad == {n \in Nat : \E m \in Nat : m <= n /\ digits[m] > digits[n]}
<1>0. \A n \in Nat : digits[n] \in Nat \ {0}
  BY DigitsType DEF Digits
<1> SUFFICES ASSUME Bad # {} PROVE FALSE
  BY <1>0 DEF Digits
<1>1. PICK n \in Bad : \A k \in Bad : n <= k
  <2>1. Bad \subseteq Nat
    OBVIOUS
  <2> HIDE DEF Bad
  <2> QED BY <2>1, Least
<1>2. PICK m \in Nat : m <= n /\ digits[m] > digits[n]
  BY <1>1
<1>3. Base \in Nat /\ Base >= 2
  BY SplitAssumption
<1>4. CASE m < Base
  BY <1>0, <1>1, <1>2, <1>4, DigitsUnfold
<1>5. CASE m >= Base
  <2>1. /\ n \div Base \in 0 .. n - 1 /\ m \div Base \in Nat
        /\ m \div Base <= n \div Base
    BY <1>1, <1>2, <1>3, <1>5, Quotient
  <2>2. digits[m \div Base] <= digits[n \div Base]
    BY <1>0, <1>1, <2>1
  <2>3. /\ digits[m] = 1 + digits[m \div Base]
        /\ digits[n] = 1 + digits[n \div Base]
    BY <1>1, <1>2, <1>3, <1>5, DigitsUnfold
  <2> QED BY <1>0, <1>2, <2>1, <2>2, <2>3
<1> QED BY <1>3, <1>4, <1>5

---------------------------------------------------------------------------
(* Cutting a text *)

\* FirstRunes is a beginning of what it is taken from.
LEMMA FirstRunesIsPrefix ==
  ASSUME NEW S, NEW s \in Seq(S), NEW max \in Nat
  PROVE  /\ FirstRunes(s, max) \in Seq(S)
         /\ Len(FirstRunes(s, max)) = IF max <= Len(s) THEN max ELSE Len(s)
         /\ \E d \in Nat : d <= Len(s) /\ FirstRunes(s, max) = SubSeq(s, 1, Len(s) - d)
         /\ \E w \in Seq(S) : s = FirstRunes(s, max) \o w
<1>1. PICK n \in Nat : n = Len(s)
  BY LenProperties
<1>2. PICK c \in Nat : c = (IF max <= n THEN max ELSE n) /\ c \in 0 .. n
  OBVIOUS
<1>3. FirstRunes(s, max) = SubSeq(s, 1, c)
  BY <1>1, <1>2, MinOfTwo DEF FirstRunes
<1>4. n - c \in Nat /\ n - c <= n /\ n - (n - c) = c
  BY <1>2
<1>5. \E d \in Nat : d <= Len(s) /\ FirstRunes(s, max) = SubSeq(s, 1, Len(s) - d)
  BY <1>1, <1>3, <1>4
<1>6. /\ SubSeq(s, 1, c) \in Seq(S) /\ Len(SubSeq(s, 1, c)) = c
      /\ \A i \in 1 .. c : SubSeq(s, 1, c)[i] = s[i]
      /\ SubSeq(s, c + 1, Len(s)) \in Seq(S)
      /\ s = SubSeq(s, 1, c) \o SubSeq(s, c + 1, Len(s))
  <2>1. c \in 0 .. Len(s)
    BY <1>1, <1>2
  <2> QED BY <2>1, CutInTwo
<1>7. PICK t, w : t = SubSeq(s, 1, c) /\ w = SubSeq(s, c + 1, Len(s))
  OBVIOUS
<1> QED BY <1>1, <1>2, <1>3, <1>5, <1>6, <1>7

\* The cut is inside the text, and takes a rune at least.
LEMMA SplitPointInside ==
  ASSUME NEW s, NEW max \in Nat \ {0}
  PROVE  SplitPoint(s, max) \in 1 .. max
<1> DEFINE blank == {index \in 2 .. max : EndsBlankLine(s, index)}
           lines == {index \in 1 .. max : s[index] = "n"}
<1>1. blank \in SUBSET (1 .. max) /\ lines \in SUBSET (1 .. max)
  OBVIOUS
<1>2. SplitPoint(s, max) =
        IF blank # {} THEN Max(blank) ELSE IF lines # {} THEN Max(lines) ELSE max
  BY DEF SplitPoint
<1> HIDE DEF blank, lines
<1>3. CASE blank # {}
  BY <1>1, <1>2, <1>3, MaxIsPosition
<1>4. CASE blank = {} /\ lines # {}
  BY <1>1, <1>2, <1>4, MaxIsPosition
<1>5. CASE blank = {} /\ lines = {}
  BY <1>2, <1>5
<1> QED BY <1>3, <1>4, <1>5

---------------------------------------------------------------------------
(* The invariant *)

\* What is split: the answer, or as much of one too large as the parts can hold.
Whole ==
  IF tooLarge THEN FirstRunes(text, MaxParts * (Limit - OverflowPrefixChars)) ELSE text

\* The prefix leaves room in every message; that of an answer too large is fixed.
SplitType ==
  /\ text \in Texts /\ tooLarge \in BOOLEAN /\ pc \in {"split", "counted", "done"}
  /\ prefix \in Nat /\ prefix < Limit
  /\ tooLarge => prefix = OverflowPrefixChars
  /\ rest \in Seq(Runes) /\ parts \in Seq(Seq(Runes))

\* Every part fits the width, and has a rune.
PartsFit ==
  \A i \in 1 .. Len(parts) : Len(parts[i]) <= Width /\ (text # <<>> => parts[i] # <<>>)

\* While it is split: the parts and the rest make up the whole, one rune of which
\* at least went into each part, and no more than the width of each.
WhileSplitting ==
  /\ ~tooLarge => Len(text) > Limit
  /\ FlattenSeq(parts) \o rest = Whole
  /\ text # <<>> => rest # <<>>
  /\ Len(parts) + Len(rest) <= Len(Whole)
  /\ Len(Whole) <= Len(parts) * Width + Len(rest)

\* Once it is split: the same without a rest.
WhenCounted ==
  /\ ~tooLarge => Len(text) > Limit /\ Len(parts) <= Len(text)
  /\ FlattenSeq(parts) = Whole
  /\ Len(Whole) <= Len(parts) * Width

\* At the end the prefix is the one the number of parts calls for.
WhenDone ==
  /\ IsPrefix(FlattenSeq(parts), text)
  /\ ~tooLarge => FlattenSeq(parts) = text /\ (prefix = 0 \/ PrefixFits)
  /\ tooLarge => Len(parts) <= MaxParts
  /\ tooLarge /\ Len(text) >= MaxParts * Width => Len(parts) = MaxParts

SplitInv ==
  /\ SplitType
  /\ PartsFit
  /\ pc = "split" => WhileSplitting
  /\ pc = "counted" => WhenCounted
  /\ pc = "done" => WhenDone

---------------------------------------------------------------------------
(* It holds from the first state on *)

\* A prefix has its frame and two numbers.
LEMMA PrefixType ==
  /\ \A n \in Nat : PrefixChars(n) \in Nat \ {0}
  /\ \A m, n \in Nat : m <= n => PrefixChars(m) <= PrefixChars(n)
  /\ OverflowPrefixChars \in Nat \ {0}
<1>1. Frame \in Nat /\ MaxParts \in Nat
  BY SplitAssumption
<1>2. \A n \in Nat : PrefixChars(n) \in Nat \ {0}
  BY <1>1, DigitsType DEF PrefixChars
<1>3. \A m, n \in Nat : m <= n => PrefixChars(m) <= PrefixChars(n)
  BY <1>1, DigitsType, DigitsMonotonic DEF PrefixChars
<1>4. OverflowPrefixChars \in Nat \ {0}
  BY <1>1, <1>2 DEF OverflowPrefixChars
<1> QED BY <1>2, <1>3, <1>4

\* What is split is text, none only if the answer is, and no more than the parts hold.
LEMMA WholeFacts ==
  ASSUME SplitType
  PROVE  /\ text \in Seq(Runes) /\ Whole \in Seq(Runes)
         /\ text # <<>> => Whole # <<>>
         /\ \E v \in Seq(Runes) : text = Whole \o v
         /\ tooLarge /\ Len(text) >= MaxParts * Width => Len(Whole) = MaxParts * Width
<1>1. text \in Seq(Runes)
  BY SplitAssumption DEF SplitType
<1>2. CASE ~tooLarge
  <2>1. Whole = text
    BY <1>2 DEF Whole
  <2> QED BY <1>1, <1>2, <2>1, EmptySeq, ConcatEmptySeq
<1>3. CASE tooLarge
  <2>1. PICK w \in Nat \ {0} : w = Limit - OverflowPrefixChars /\ w = Width
    BY <1>3, SplitAssumption, PrefixType DEF SplitType, Width
  <2>2. MaxParts * w \in Nat \ {0}
    <3>1. \A a, b \in Nat \ {0} : a * b \in Nat \ {0}
      OBVIOUS
    <3> QED BY <2>1, <3>1, SplitAssumption
  <2>3. PICK m \in Nat \ {0} : m = MaxParts * w
    BY <2>2
  <2>4. Whole = FirstRunes(text, m)
    BY <1>3, <2>1, <2>3 DEF Whole
  <2>5. /\ Whole \in Seq(Runes)
        /\ Len(Whole) = IF m <= Len(text) THEN m ELSE Len(text)
        /\ \E v \in Seq(Runes) : text = Whole \o v
    <3>1. m \in Nat
      OBVIOUS
    <3>2. /\ FirstRunes(text, m) \in Seq(Runes)
          /\ Len(FirstRunes(text, m)) = IF m <= Len(text) THEN m ELSE Len(text)
      BY <1>1, <3>1, FirstRunesIsPrefix
    <3>3. \E v \in Seq(Runes) : text = FirstRunes(text, m) \o v
      BY <1>1, <3>1, FirstRunesIsPrefix
    <3> QED BY <2>4, <3>2, <3>3
  <2>6. text # <<>> => Len(Whole) # 0
    BY <1>1, <2>5, EmptySeq
  <2>7. text # <<>> => Whole # <<>>
    BY <2>6, EmptySeq
  <2> QED BY <1>1, <2>1, <2>3, <2>5, <2>7
<1> QED BY <1>2, <1>3

\* The first state.
LEMMA InitSplit == Init => SplitInv
<1> SUFFICES ASSUME Init PROVE SplitInv
  OBVIOUS
<1>0. text \in Seq(Runes) /\ Len(text) \in Nat /\ Limit \in Nat \ {0}
  BY SplitAssumption, LenProperties DEF Init
<1>1. CASE tooLarge
  <2>1. /\ prefix = OverflowPrefixChars /\ rest = Whole /\ pc = "split" /\ parts = <<>>
    BY <1>1 DEF Init, Whole
  <2>2. Limit - OverflowPrefixChars \in Nat /\ MaxParts * (Limit - OverflowPrefixChars) \in Nat
    BY SplitAssumption, PrefixType
  <2>3. rest \in Seq(Runes)
    BY <1>0, <1>1, <2>1, <2>2, FirstRunesIsPrefix DEF Whole
  <2>4. SplitType
    BY <1>1, <2>1, <2>3, SplitAssumption, PrefixType, EmptySeq DEF SplitType, Init
  <2>5. text # <<>> => rest # <<>>
    BY <2>1, <2>4, WholeFacts
  <2>6. FlattenSeq(parts) \o rest = Whole
    BY <2>1, <2>3, FlattenEmpty, ConcatEmptySeq
  <2>7. Len(parts) = 0 /\ Len(rest) \in Nat /\ Width \in Nat
    <3>1. Width \in Nat
      BY <2>4, SplitAssumption DEF Width, SplitType
    <3> QED BY <2>1, <2>3, <3>1, LenProperties
  <2>8. WhileSplitting
    <3>1. Len(parts) * Width = 0
      BY <2>7
    <3> QED BY <1>1, <2>1, <2>5, <2>6, <2>7, <3>1 DEF WhileSplitting
  <2>9. PartsFit
    BY <2>7 DEF PartsFit
  <2> QED BY <2>1, <2>4, <2>8, <2>9 DEF SplitInv
<1>2. CASE ~tooLarge /\ Len(text) <= Limit
  <2>1. prefix = 0 /\ rest = text /\ pc = "done" /\ parts = <<text>>
    BY <1>2 DEF Init
  <2>2. SplitType
    BY <1>0, <1>2, <2>1 DEF SplitType, Init
  <2>3. PartsFit
    BY <1>0, <1>2, <2>1 DEF PartsFit, Width
  <2>4. FlattenSeq(parts) = text
    BY <1>0, <2>1, FlattenOne
  <2>5. IsPrefix(text, text)
    <3>1. IsPrefix(text, text \o <<>>)
      BY <1>0, EmptySeq, PrefixOfConcat
    <3> QED BY <1>0, <3>1, ConcatEmptySeq
  <2>6. WhenDone
    BY <1>2, <2>1, <2>4, <2>5 DEF WhenDone
  <2> QED BY <2>1, <2>2, <2>3, <2>6 DEF SplitInv
<1>3. CASE ~tooLarge /\ ~(Len(text) <= Limit)
  <2>1. prefix = 0 /\ rest = text /\ pc = "split" /\ parts = <<>>
    BY <1>3 DEF Init
  <2>2. SplitType
    BY <1>0, <1>3, <2>1, EmptySeq DEF SplitType, Init
  <2>3. PartsFit
    BY <2>1 DEF PartsFit
  <2>4. FlattenSeq(parts) \o rest = Whole /\ Whole = text
    BY <1>0, <1>3, <2>1, FlattenEmpty, ConcatEmptySeq DEF Whole
  <2>5. WhileSplitting
    <3>1. Len(parts) = 0 /\ Width \in Nat /\ Len(parts) * Width = 0
      BY <1>0, <2>1 DEF Width
    <3> QED BY <1>0, <1>3, <2>1, <2>4, <3>1 DEF WhileSplitting
  <2> QED BY <2>1, <2>2, <2>3, <2>5 DEF SplitInv
<1> QED BY <1>1, <1>2, <1>3 DEF Init

---------------------------------------------------------------------------
(* Every step keeps it *)

\* The width is room for a rune at least.
LEMMA WidthType == ASSUME SplitType PROVE Width \in Nat \ {0}
BY SplitAssumption DEF SplitType, Width

\* A part cut off: with what is left it is what was left before.
LEMMA CutKeeps == ASSUME SplitInv, Cut PROVE SplitInv'
<1>1. SplitType /\ PartsFit /\ WhileSplitting /\ pc = "split" /\ Len(rest) > Width
  BY DEF SplitInv, Cut, TooLong
<1>2. PICK w \in Nat \ {0} : w = Width
  BY <1>1, WidthType
<1>3. PICK c : c = SplitPoint(rest, w)
  OBVIOUS
<1>4. c \in 1 .. w /\ c \in 0 .. Len(rest) /\ Len(rest) \in Nat /\ rest \in Seq(Runes)
  <2>1. rest \in Seq(Runes) /\ Len(rest) \in Nat
    BY <1>1, LenProperties DEF SplitType
  <2>2. c \in 1 .. w
    BY <1>3, SplitPointInside
  <2> QED BY <1>1, <1>2, <2>1, <2>2
<1>5. PICK x, r : x = SubSeq(rest, 1, c) /\ r = SubSeq(rest, c + 1, Len(rest))
  OBVIOUS
<1>6. parts' = Append(parts, x) /\ rest' = r
  BY <1>2, <1>3, <1>5 DEF Cut, After
<1>7. /\ x \in Seq(Runes) /\ r \in Seq(Runes) /\ x \o r = rest
      /\ Len(x) = c /\ Len(r) = Len(rest) - c
  BY <1>4, <1>5, CutInTwo, ZenonT(60)
<1>8. UNCHANGED <<text, tooLarge, pc, prefix>>
  BY DEF Cut
<1>9. Width' = Width /\ Whole' = Whole
  BY <1>8 DEF Width, Whole
<1>10. PICK n \in Nat : n = Len(parts) /\ parts \in Seq(Seq(Runes))
  BY <1>1, LenProperties DEF SplitType
<1>11. /\ parts' \in Seq(Seq(Runes)) /\ Len(parts') = n + 1
       /\ \A i \in 1 .. n : parts'[i] = parts[i]
       /\ parts'[n + 1] = x
  BY <1>6, <1>7, <1>10, AppendProperties
<1>12. SplitType'
  BY <1>1, <1>6, <1>7, <1>8, <1>11 DEF SplitType
<1>13. PartsFit'
  <2> SUFFICES ASSUME NEW i \in 1 .. n + 1
               PROVE  Len(parts'[i]) <= w /\ (text # <<>> => parts'[i] # <<>>)
    BY <1>2, <1>8, <1>9, <1>11 DEF PartsFit
  <2>1. CASE i = n + 1
    <3>1. x # <<>>
      BY <1>4, <1>7, EmptySeq
    <3> QED BY <1>4, <1>7, <1>11, <2>1, <3>1
  <2>2. CASE i # n + 1
    <3>1. i \in 1 .. n /\ parts'[i] = parts[i]
      BY <1>11, <2>2
    <3>2. Len(parts[i]) <= w /\ (text # <<>> => parts[i] # <<>>)
      BY <1>1, <1>2, <1>10, <3>1 DEF PartsFit
    <3> QED BY <3>1, <3>2
  <2> QED BY <2>1, <2>2
<1>14. WhileSplitting'
  <2>1. ~tooLarge' => Len(text') > Limit
    BY <1>1, <1>8 DEF WhileSplitting
  <2>2. FlattenSeq(parts') \o rest' = Whole
    <3>1. PICK f \in Seq(Runes) : f = FlattenSeq(parts)
      BY <1>10, FlattenType
    <3>2. FlattenSeq(parts') = f \o x
      BY <1>6, <1>7, <1>10, <3>1, FlattenAppend
    <3>3. (f \o x) \o r = f \o (x \o r)
      <4>1. f \in Seq(Runes) /\ x \in Seq(Runes) /\ r \in Seq(Runes)
        BY <1>7
      <4> QED BY <4>1, ConcatAssociative
    <3> QED BY <1>1, <1>6, <1>7, <3>1, <3>2, <3>3 DEF WhileSplitting
  <2>3. rest' # <<>>
    <3>1. Len(r) # 0
      BY <1>1, <1>2, <1>4, <1>7
    <3> QED BY <1>6, <3>1, EmptySeq
  <2>4. PICK l \in Nat : l = Len(Whole)
    BY <1>1, WholeFacts, LenProperties
  <2>5. n + Len(rest) <= l /\ l <= n * w + Len(rest)
    BY <1>1, <1>2, <1>10, <2>4 DEF WhileSplitting
  <2>6. (n + 1) * w = n * w + w /\ n * w \in Nat
    OBVIOUS
  <2>7. Len(parts') + Len(rest') <= l
    BY <1>4, <1>6, <1>7, <1>11, <2>5
  <2>8. l <= Len(parts') * w + Len(rest')
    BY <1>4, <1>6, <1>7, <1>11, <2>5, <2>6
  <2> QED BY <1>2, <1>9, <2>1, <2>2, <2>3, <2>4, <2>7, <2>8 DEF WhileSplitting
<1> QED BY <1>1, <1>8, <1>12, <1>13, <1>14 DEF SplitInv

\* What is left goes into the last part.
LEMMA LastPartKeeps == ASSUME SplitInv, LastPart PROVE SplitInv'
<1>1. /\ SplitType /\ PartsFit /\ WhileSplitting /\ pc = "split" /\ ~(Len(rest) > Width)
      /\ pc' = "counted" /\ parts' = Append(parts, rest)
      /\ UNCHANGED <<text, tooLarge, prefix, rest>>
  BY DEF SplitInv, LastPart, TooLong
<1>2. PICK w \in Nat \ {0} : w = Width
  BY <1>1, WidthType
<1>3. rest \in Seq(Runes) /\ Len(rest) \in Nat /\ Len(rest) <= w
  <2>1. rest \in Seq(Runes) /\ Len(rest) \in Nat
    BY <1>1, LenProperties DEF SplitType
  <2> QED BY <1>1, <1>2, <2>1
<1>4. Width' = Width /\ Whole' = Whole
  BY <1>1 DEF Width, Whole
<1>5. PICK n \in Nat : n = Len(parts) /\ parts \in Seq(Seq(Runes))
  BY <1>1, LenProperties DEF SplitType
<1>6. /\ parts' \in Seq(Seq(Runes)) /\ Len(parts') = n + 1
      /\ \A i \in 1 .. n : parts'[i] = parts[i]
      /\ parts'[n + 1] = rest
  BY <1>1, <1>3, <1>5, AppendProperties
<1>7. SplitType'
  BY <1>1, <1>6 DEF SplitType
<1>8. PartsFit'
  <2> SUFFICES ASSUME NEW i \in 1 .. n + 1
               PROVE  Len(parts'[i]) <= w /\ (text # <<>> => parts'[i] # <<>>)
    BY <1>1, <1>2, <1>4, <1>6 DEF PartsFit
  <2>1. CASE i = n + 1
    BY <1>1, <1>3, <1>6, <2>1 DEF WhileSplitting
  <2>2. CASE i # n + 1
    BY <1>1, <1>2, <1>5, <1>6, <2>2 DEF PartsFit
  <2> QED BY <2>1, <2>2
<1>9. WhenCounted'
  <2>1. FlattenSeq(parts') = Whole
    <3>1. FlattenSeq(parts') = FlattenSeq(parts) \o rest
      BY <1>1, <1>3, <1>5, FlattenAppend
    <3> QED BY <1>1, <3>1 DEF WhileSplitting
  <2>2. PICK l \in Nat : l = Len(Whole)
    BY <1>1, WholeFacts, LenProperties
  <2>3. n + Len(rest) <= l /\ l <= n * w + Len(rest)
    BY <1>1, <1>2, <1>5, <2>2 DEF WhileSplitting
  <2>4. (n + 1) * w = n * w + w /\ n * w \in Nat
    OBVIOUS
  <2>5. l <= Len(parts') * w
    BY <1>3, <1>6, <2>3, <2>4
  <2>6. ASSUME ~tooLarge PROVE Len(text) > Limit /\ Len(parts') <= Len(text)
    <3>1. Whole = text /\ Len(text) > Limit /\ Limit \in Nat
      BY <1>1, <2>6, SplitAssumption DEF WhileSplitting, Whole
    <3>2. text # <<>>
      BY <2>2, <3>1
    <3>3. Len(rest) # 0
      BY <1>1, <1>3, <3>2, EmptySeq DEF WhileSplitting
    <3> QED BY <1>3, <1>6, <2>2, <2>3, <3>1, <3>3
  <2> QED BY <1>1, <1>2, <1>4, <2>1, <2>2, <2>5, <2>6 DEF WhenCounted
<1> QED BY <1>1, <1>7, <1>8, <1>9 DEF SplitInv

\* Another pass, with a prefix as wide as the parts of the last one call for.
LEMMA SplitAgainKeeps == ASSUME SplitInv, SplitAgain PROVE SplitInv'
<1>1. /\ SplitType /\ WhenCounted /\ ~tooLarge
      /\ prefix' = NextPrefix /\ rest' = text /\ parts' = <<>> /\ pc' = "split"
      /\ UNCHANGED <<text, tooLarge>>
  BY DEF SplitInv, SplitAgain
<1>2. text \in Texts /\ text \in Seq(Runes) /\ Len(text) \in Nat /\ Len(text) > Limit
  BY <1>1, SplitAssumption, LenProperties DEF SplitType, WhenCounted
<1>3. prefix' \in Nat /\ prefix' < Limit
  <2>1. PICK n \in Nat : n = Len(parts) /\ n <= Len(text)
    BY <1>1, LenProperties DEF SplitType, WhenCounted
  <2>2. PICK l \in Nat : l = Len(text)
    BY <1>2
  <2>3. /\ PrefixChars(n) \in Nat /\ PrefixChars(l) \in Nat
        /\ PrefixChars(n) <= PrefixChars(l)
    BY <2>1, <2>2, PrefixType
  <2>4. PrefixChars(l) < Limit /\ Limit \in Nat
    BY <1>2, <2>2, SplitAssumption
  <2> QED BY <1>1, <2>1, <2>3, <2>4 DEF NextPrefix
<1>4. SplitType'
  BY <1>1, <1>2, <1>3, EmptySeq DEF SplitType
<1>5. PartsFit'
  BY <1>1 DEF PartsFit
<1>6. Whole' = text
  BY <1>1 DEF Whole
<1>7. WhileSplitting'
  <2>1. FlattenSeq(parts') \o rest' = text
    BY <1>1, <1>2, FlattenEmpty, ConcatEmptySeq
  <2>2. Len(parts') = 0 /\ Len(parts') * Width' = 0
    <3>0. Width' \in Int
      <4>1. PICK l \in Nat : l = Limit
        BY SplitAssumption
      <4>2. PICK p \in Nat : p = prefix'
        BY <1>3
      <4>3. l - p \in Int
        OBVIOUS
      <4> QED BY <4>1, <4>2, <4>3 DEF Width
    <3>1. PICK w \in Int : w = Width'
      BY <3>0
    <3>2. 0 * w = 0
      OBVIOUS
    <3> QED BY <1>1, <3>1, <3>2
  <2> QED BY <1>1, <1>2, <1>6, <2>1, <2>2 DEF WhileSplitting
<1> QED BY <1>1, <1>4, <1>5, <1>7 DEF SplitInv

\* The answer is split: the prefix is right, or the parts beyond the last are left out.
LEMMA SettleKeeps == ASSUME SplitInv, Settle PROVE SplitInv'
<1>1. /\ SplitType /\ PartsFit /\ WhenCounted /\ pc' = "done"
      /\ UNCHANGED <<text, tooLarge, prefix, rest>>
  BY DEF SplitInv, Settle
<1>2. Width' = Width /\ Whole' = Whole
  BY <1>1 DEF Width, Whole
<1>3. PICK v \in Seq(Runes) : text = Whole \o v /\ Whole \in Seq(Runes) /\ text \in Seq(Runes)
  BY <1>1, WholeFacts
<1>4. PICK n \in Nat : n = Len(parts) /\ parts \in Seq(Seq(Runes))
  BY <1>1, LenProperties DEF SplitType
<1>5. CASE ~tooLarge
  <2>1. PrefixFits /\ parts' = parts
    BY <1>5 DEF Settle
  <2>2. SplitType' /\ PartsFit'
    BY <1>1, <1>2, <2>1 DEF SplitType, PartsFit
  <2>3. FlattenSeq(parts) = text
    BY <1>1, <1>5 DEF WhenCounted, Whole
  <2>4. IsPrefix(text, text)
    <3>1. IsPrefix(text, text \o <<>>)
      BY <1>3, EmptySeq, PrefixOfConcat
    <3> QED BY <1>3, <3>1, ConcatEmptySeq
  <2>5. WhenDone'
    BY <1>1, <1>5, <2>1, <2>3, <2>4 DEF WhenDone, PrefixFits, NextPrefix
  <2> QED BY <1>1, <2>2, <2>5 DEF SplitInv
<1>6. CASE tooLarge
  <2>1. parts' = FirstRunes(parts, MaxParts) /\ MaxParts \in Nat
    BY <1>6, SplitAssumption DEF Settle
  <2>2. PICK p : p = FirstRunes(parts, MaxParts)
    OBVIOUS
  <2>3. /\ p \in Seq(Seq(Runes))
        /\ Len(p) = IF MaxParts <= Len(parts) THEN MaxParts ELSE Len(parts)
        /\ \E d \in Nat : d <= Len(parts) /\ p = SubSeq(parts, 1, Len(parts) - d)
        /\ \A i \in 1 .. Len(p) : p[i] = parts[i]
    <3>1. /\ FirstRunes(parts, MaxParts) \in Seq(Seq(Runes))
          /\ Len(FirstRunes(parts, MaxParts)) = IF MaxParts <= Len(parts) THEN MaxParts ELSE Len(parts)
      BY <1>4, <2>1, FirstRunesIsPrefix
    <3>2. \E d \in Nat : d <= Len(parts) /\ FirstRunes(parts, MaxParts) = SubSeq(parts, 1, Len(parts) - d)
      BY <1>4, <2>1, FirstRunesIsPrefix, ZenonT(60)
    <3>3. \A i \in 1 .. Len(p) : p[i] = parts[i]
      <4>1. PICK d \in Nat : d <= Len(parts) /\ p = SubSeq(parts, 1, Len(parts) - d)
        BY <2>2, <3>2
      <4>2. PICK c \in 0 .. Len(parts) : c = Len(parts) - d
        BY <1>4, <4>1
      <4> QED BY <1>4, <4>1, <4>2, CutInTwo
    <3> QED BY <2>2, <3>1, <3>2, <3>3
  <2>4. SplitType'
    BY <1>1, <2>1, <2>2, <2>3 DEF SplitType
  <2>5. PartsFit'
    <3> SUFFICES ASSUME NEW i \in 1 .. Len(p)
                 PROVE  Len(p[i]) <= Width /\ (text # <<>> => p[i] # <<>>)
      BY <1>1, <1>2, <2>1, <2>2 DEF PartsFit
    <3>1. p[i] = parts[i] /\ i \in 1 .. n
      BY <1>4, <2>1, <2>3, SMTT(30)
    <3> QED BY <1>1, <1>4, <3>1 DEF PartsFit
  <2>6. IsPrefix(FlattenSeq(p), text)
    <3>1. PICK d \in Nat : d <= Len(parts) /\ p = SubSeq(parts, 1, Len(parts) - d)
      BY <2>3
    <3>2. PICK w \in Seq(Runes) : FlattenSeq(parts) = FlattenSeq(p) \o w
      BY <1>4, <3>1, FlattenPrefix
    <3>3. PICK f \in Seq(Runes) : f = FlattenSeq(p)
      BY <2>3, FlattenType
    <3>4. text = (f \o w) \o v
      BY <1>1, <1>3, <3>2, <3>3 DEF WhenCounted
    <3>5. (f \o w) \o v = f \o (w \o v) /\ w \o v \in Seq(Runes)
      BY ConcatAssociative, ConcatProperties, SMTT(30)
    <3>6. IsPrefix(f, f \o (w \o v))
      BY <3>5, PrefixOfConcat
    <3> QED BY <3>3, <3>4, <3>5, <3>6
  <2>7. ASSUME Len(text) >= MaxParts * Width PROVE Len(p) = MaxParts
    <3>1. PICK w \in Nat \ {0} : w = Width
      BY <1>1, WidthType
    <3>2. Len(Whole) = MaxParts * w
      BY <1>1, <1>6, <2>7, <3>1, WholeFacts
    <3>3. MaxParts * w <= n * w
      BY <1>1, <1>4, <3>1, <3>2 DEF WhenCounted
    <3>4. \A a, b \in Nat, c \in Nat \ {0} : a * c <= b * c => a <= b
      <4> SUFFICES ASSUME NEW a \in Nat, NEW b \in Nat, NEW c \in Nat \ {0}, a >= b + 1
                   PROVE  a * c > b * c
        OBVIOUS
      <4>1. PICK d \in Nat : a = b + 1 + d
        <5>1. a - b - 1 \in Nat /\ a = b + 1 + (a - b - 1)
          OBVIOUS
        <5> QED BY <5>1
      <4>2. a * c = b * c + c + d * c /\ d * c \in Nat /\ b * c \in Nat
        BY <4>1
      <4> QED BY <4>2
    <3>5. MaxParts <= n
      BY <2>1, <3>3, <3>4
    <3> QED BY <1>4, <2>1, <2>3, <3>5
  <2>8. Len(p) <= MaxParts
    BY <1>4, <2>1, <2>3, SMTT(30)
  <2>9. WhenDone'
    BY <1>1, <1>2, <1>6, <2>1, <2>2, <2>6, <2>7, <2>8 DEF WhenDone
  <2> QED BY <1>1, <2>4, <2>5, <2>9 DEF SplitInv
<1> QED BY <1>5, <1>6

\* The end stays.
LEMMA TerminatedKeeps == ASSUME SplitInv, UNCHANGED vars PROVE SplitInv'
BY DEF SplitInv, vars, SplitType, PartsFit, WhileSplitting, WhenCounted, WhenDone, Whole, Width,
       PrefixFits, NextPrefix

\* Whatever is split, at whatever width, the invariant holds at every step.
THEOREM SplitInvariant == Spec => []SplitInv
<1>1. SplitInv /\ [Next]_vars => SplitInv'
  <2> SUFFICES ASSUME SplitInv, [Next]_vars PROVE SplitInv'
    OBVIOUS
  <2>1. CASE Cut
    BY <2>1, CutKeeps
  <2>2. CASE LastPart
    BY <2>2, LastPartKeeps
  <2>3. CASE SplitAgain
    BY <2>3, SplitAgainKeeps
  <2>4. CASE Settle
    BY <2>4, SettleKeeps
  <2>5. CASE UNCHANGED vars
    BY <2>5, TerminatedKeeps
  <2> QED BY <2>1, <2>2, <2>3, <2>4, <2>5 DEF Next, Terminated
<1> QED BY <1>1, InitSplit, PTL DEF Spec

---------------------------------------------------------------------------
(* What it gives *)

\* Nothing is lost, doubled or reordered, whatever the answer (prompt.go:149).
THEOREM ContentKept == Spec => []ContentPreserved
<1>1. SplitInv => ContentPreserved
  BY DEF SplitInv, WhenDone, ContentPreserved, Done
<1> QED BY <1>1, SplitInvariant, PTL

\* Every message fits with its prefix, however many there are (prompt.go:176).
THEOREM AllFit == Spec => []MessagesFit
<1>1. SplitInv => MessagesFit
  <2> SUFFICES ASSUME SplitInv, Done, NEW i \in DOMAIN parts PROVE MessageChars(i) <= Limit
    BY DEF MessagesFit
  <2>1. SplitType /\ PartsFit /\ WhenDone
    BY SMTT(30) DEF SplitInv, Done
  <2>2. PICK n \in Nat : n = Len(parts) /\ i \in 1 .. n /\ i \in Nat
    <3>1. parts \in Seq(Seq(Runes))
      BY <2>1 DEF SplitType
    <3>2. Len(parts) \in Nat /\ DOMAIN parts = 1 .. Len(parts)
      BY <3>1, LenProperties
    <3>3. i \in 1 .. Len(parts) /\ i \in Nat
      BY <3>2
    <3> QED BY <3>2, <3>3
  <2>3. PICK l \in Nat : l = Len(parts[i]) /\ l <= Limit - prefix
    <3>1. parts[i] \in Seq(Runes)
      BY <2>1, <2>2, ElementOfSeq DEF SplitType
    <3>2. Len(parts[i]) \in Nat
      BY <3>1, LenProperties
    <3> QED BY <2>1, <2>2, <3>2 DEF PartsFit, Width
  <2>4. Frame \in Nat /\ Limit \in Nat /\ prefix \in Nat /\ MaxParts \in Nat
    BY <2>1, SplitAssumption DEF SplitType
  <2>5. CASE prefix = 0
    BY <2>3, <2>4, <2>5 DEF MessageChars
  <2>6. CASE prefix # 0 /\ tooLarge
    <3>1. i <= MaxParts
      BY <2>1, <2>2, <2>4, <2>6 DEF WhenDone
    <3>2. /\ Digits(i) \in Nat /\ Digits(MaxParts) \in Nat
          /\ Digits(i) <= Digits(MaxParts)
      BY <2>2, <2>4, <3>1, DigitsType, DigitsMonotonic
    <3>3. prefix = Frame + 2 * Digits(MaxParts) + 1
      BY <2>1, <2>6 DEF SplitType, OverflowPrefixChars, PrefixChars
    <3>4. MessageChars(i) = l + (Frame + Digits(i) + (Digits(MaxParts) + 1))
      BY <2>3, <2>6 DEF MessageChars
    <3> QED BY <2>3, <2>4, <3>2, <3>3, <3>4, SMTT(30)
  <2>7. CASE prefix # 0 /\ ~tooLarge
    <3>1. prefix = Frame + 2 * Digits(n)
      BY <2>1, <2>2, <2>7 DEF WhenDone, PrefixFits, NextPrefix, PrefixChars
    <3>2. /\ Digits(i) \in Nat /\ Digits(n) \in Nat /\ Digits(i) <= Digits(n)
      BY <2>2, DigitsType, DigitsMonotonic
    <3>3. MessageChars(i) = l + (Frame + Digits(i) + Digits(n))
      BY <2>2, <2>3, <2>7 DEF MessageChars
    <3> QED BY <2>3, <2>4, <3>1, <3>2, <3>3, SMTT(30)
  <2> QED BY <2>5, <2>6, <2>7
<1> QED BY <1>1, SplitInvariant, PTL

\* No empty message is sent for an answer with text (prompt.go:192).
THEOREM NoneEmpty == Spec => []NoEmptyPart
<1>1. SplitInv => NoEmptyPart
  <2> SUFFICES ASSUME SplitInv, text # <<>>, NEW i \in DOMAIN parts PROVE parts[i] # <<>>
    BY DEF NoEmptyPart
  <2>1. i \in 1 .. Len(parts)
    BY LenProperties DEF SplitInv, SplitType
  <2> QED BY <2>1 DEF SplitInv, PartsFit
<1> QED BY <1>1, SplitInvariant, PTL

\* The parts the notice counts are all there (service.go:411).
THEOREM OverflowFull == Spec => []OverflowFillsParts
<1>1. SplitInv => OverflowFillsParts
  BY DEF SplitInv, WhenDone, OverflowFillsParts, Done
<1> QED BY <1>1, SplitInvariant, PTL

=============================================================================
