--------------------------- MODULE SequenceFacts ----------------------------
(***************************************************************************)
(* Lemmas about numbers and sequences that the proofs of SplitSlack, of    *)
(* ThreadHistory and of HolmesResponse rest on: induction as facts about   *)
(* sets of numbers, what FlattenSeq computes, and where a sequence may be  *)
(* cut.                                                                    *)
(***************************************************************************)
EXTENDS Integers, Sequences, SequencesExt, FiniteSetsExt, SequenceTheorems,
        WellFoundedInduction, TLAPS

---------------------------------------------------------------------------
(* Induction *)

\* A set of numbers that is not empty has a least one.
LEMMA Least ==
  ASSUME NEW T \in SUBSET Nat, T # {}
  PROVE  \E x \in T : \A y \in T : x <= y
<1> DEFINE R == {ss \in Nat \X Nat : ss[1] < ss[2]}
<1>1. IsWellFoundedOn(R, Nat)
  BY NatLessThanWellFounded DEF OpToRel
<1>2. ASSUME NEW x \in Nat, NEW y \in Nat, ~ (<<y, x>> \in R)
      PROVE  x <= y
  <2>1. ~ (<<y, x>>[1] < <<y, x>>[2])
    BY <1>2
  <2> QED BY <2>1
<1> HIDE DEF R
<1>3. PICK x \in T : \A y \in T : ~ (<<y, x>> \in R)
  BY <1>1, WFMin
<1> QED BY <1>2, <1>3

\* A set with 0, and with the successor of each of its numbers, has them all.
LEMMA Induct ==
  ASSUME NEW T \in SUBSET Nat, 0 \in T, \A n \in T : n + 1 \in T
  PROVE  T = Nat
<1> SUFFICES ASSUME Nat \ T # {} PROVE FALSE
  OBVIOUS
<1>1. PICK x \in Nat \ T : \A y \in Nat \ T : x <= y
  BY Least
<1>2. x - 1 \in T
  BY <1>1
<1>3. (x - 1) + 1 \in T
  BY <1>2
<1> QED BY <1>1, <1>3

\* The lesser of two numbers.
LEMMA MinOfTwo ==
  ASSUME NEW m \in Nat, NEW n \in Nat
  PROVE  Min({m, n}) = IF m <= n THEN m ELSE n
<1> DEFINE x == IF m <= n THEN m ELSE n
<1>1. x \in {m, n} /\ \A y \in {m, n} : x <= y
  OBVIOUS
<1>2. \A z \in {m, n} : (\A y \in {m, n} : z <= y) => z = x
  OBVIOUS
<1> HIDE DEF x
<1>3. Min({m, n}) = x
  BY <1>1, <1>2 DEF Min
<1> QED BY <1>3 DEF x

\* Max of a bounded set of numbers is the greatest of them.
LEMMA MaxIsGreatest ==
  ASSUME NEW m \in Nat, NEW P \in SUBSET (0 .. m), P # {}
  PROVE  Max(P) \in P /\ \A y \in P : Max(P) >= y
<1> DEFINE T == {m - x : x \in P}
<1>0. \A x \in P : x \in Nat /\ m - x \in Nat
  OBVIOUS
<1>1. T \in SUBSET Nat /\ T # {}
  BY <1>0
<1>2. PICK t \in T : \A u \in T : t <= u
  <2> HIDE DEF T
  <2> QED BY <1>1, Least
<1>3. PICK x \in P : t = m - x
  OBVIOUS
<1>4. ASSUME NEW y \in P PROVE x >= y
  <2>1. t <= m - y
    BY <1>2
  <2> QED BY <1>0, <1>3, <2>1
<1> QED BY <1>4 DEF Max

\* Max of a set of positions is one of them.
LEMMA MaxIsPosition ==
  ASSUME NEW m \in Nat, NEW P \in SUBSET (1 .. m), P # {}
  PROVE  Max(P) \in P
<1>1. P \in SUBSET (0 .. m)
  OBVIOUS
<1> QED BY <1>1, MaxIsGreatest

---------------------------------------------------------------------------
(* Running sums *)

\* f is the running sum of the first n numbers of s.
Sums(f, s, n) == f = [k \in 0 .. n |-> IF k = 0 THEN 0 ELSE f[k - 1] + s[k]]

\* There is one for every number of numbers.
LEMMA SumsExist == ASSUME NEW s PROVE \A n \in Nat : \E f : Sums(f, s, n)
<1> DEFINE T == {n \in Nat : \E f : Sums(f, s, n)}
<1>1. 0 \in T
  <2> DEFINE z == [k \in 0 .. 0 |-> 0]
  <2>1. z = [k \in 0 .. 0 |-> IF k = 0 THEN 0 ELSE z[k - 1] + s[k]]
    OBVIOUS
  <2> HIDE DEF z
  <2> QED BY <2>1 DEF Sums
<1>2. ASSUME NEW n \in T PROVE n + 1 \in T
  <2>1. PICK f : Sums(f, s, n)
    OBVIOUS
  <2> DEFINE value(h, k) == IF k = 0 THEN 0 ELSE h[k - 1] + s[k]
             g == [k \in 0 .. n + 1 |-> value(f, k)]
  <2>2. \A k \in 0 .. n : f[k] = value(f, k)
    BY <2>1 DEF Sums
  <2>3. \A k \in 0 .. n : g[k] = f[k]
    BY <2>2
  <2>4. ASSUME NEW k \in 0 .. n + 1 PROVE value(f, k) = value(g, k)
    <3>1. CASE k = 0
      BY <3>1
    <3>2. CASE k # 0
      <4>1. k - 1 \in 0 .. n
        BY <3>2
      <4>2. f[k - 1] = g[k - 1]
        BY <2>3, <4>1
      <4> HIDE DEF g
      <4> QED BY <4>2
    <3> QED BY <3>1, <3>2
  <2>5. g = [k \in 0 .. n + 1 |-> value(g, k)]
    <3>1. g = [k \in 0 .. n + 1 |-> value(f, k)]
      OBVIOUS
    <3> HIDE DEF g, value
    <3> QED BY <2>4, <3>1
  <2>6. Sums(g, s, n + 1)
    <3> HIDE DEF g
    <3> QED BY <2>5 DEF Sums
  <2> QED BY <2>6
<1>3. T = Nat
  <2> HIDE DEF T
  <2>1. T \subseteq Nat
    BY DEF T
  <2> QED BY <1>1, <1>2, <2>1, Induct
<1> QED BY <1>3

\* Its values.
LEMMA SumsValue ==
  ASSUME NEW s \in Seq(Nat), NEW n \in 0 .. Len(s), NEW f, Sums(f, s, n)
  PROVE  /\ f[0] = 0
         /\ \A k \in 0 .. n : f[k] \in Nat
         /\ \A k \in 0 .. n : k + 1 <= n => f[k + 1] = f[k] + s[k + 1]
<1>1. n \in Nat /\ \A k \in 1 .. n : s[k] \in Nat
  BY LenProperties, ElementOfSeq
<1>2. f[0] = 0 /\ \A k \in 0 .. n : k # 0 => f[k] = f[k - 1] + s[k]
  BY <1>1 DEF Sums
<1> DEFINE T == {k \in Nat : k <= n => f[k] \in Nat}
<1>3. 0 \in T
  BY <1>2
<1>4. ASSUME NEW k \in T PROVE k + 1 \in T
  <2> SUFFICES ASSUME k + 1 <= n PROVE f[k + 1] \in Nat
    OBVIOUS
  <2>1. k + 1 \in 0 .. n /\ k + 1 # 0 /\ (k + 1) - 1 = k /\ k + 1 \in 1 .. n
    BY <1>1
  <2>2. f[k] \in Nat
    BY <1>1
  <2>3. f[k + 1] = f[k] + s[k + 1]
    BY <1>2, <2>1
  <2>4. s[k + 1] \in Nat
    BY <1>1, <2>1
  <2> QED BY <2>2, <2>3, <2>4
<1>5. T = Nat
  <2> HIDE DEF T
  <2>1. T \subseteq Nat
    BY DEF T
  <2> QED BY <1>3, <1>4, <2>1, Induct
<1>6. ASSUME NEW k \in 0 .. n, k + 1 <= n PROVE f[k + 1] = f[k] + s[k + 1]
  <2>1. k + 1 \in 0 .. n /\ k + 1 # 0 /\ (k + 1) - 1 = k
    BY <1>1, <1>6
  <2> QED BY <1>2, <2>1
<1>7. ASSUME NEW k \in 0 .. n PROVE f[k] \in Nat
  <2>1. k \in T /\ k <= n
    <3> HIDE DEF T
    <3> QED BY <1>1, <1>5
  <2> QED BY <2>1
<1> QED BY <1>2, <1>6, <1>7

\* From d on, t has the first m numbers of s; and g has those of f and x more.
Follows(t, s, d, m) == \A k \in 1 .. m : t[k + d] = s[k]
Exceeds(g, f, d, m, x) == \A k \in 0 .. m : g[k + d] = x + f[k]

\* If t has x before it goes on as s, its running sum is that of s and x.
LEMMA SumsShifted ==
  ASSUME NEW s \in Seq(Nat), NEW t \in Seq(Nat), NEW d \in {0, 1}, NEW x \in Nat,
         NEW m \in 0 .. Len(s), NEW n \in 0 .. Len(t), m + d <= n,
         NEW f, NEW g, Sums(f, s, m), Sums(g, t, n),
         g[d] = x, Follows(t, s, d, m)
  PROVE  Exceeds(g, f, d, m, x)
<1>1. m \in Nat /\ n \in Nat /\ \A k \in 1 .. m : s[k] \in Nat
  <2>1. Len(s) \in Nat /\ Len(t) \in Nat
    BY LenProperties
  <2>2. \A k \in 1 .. Len(s) : s[k] \in Nat
    BY ElementOfSeq
  <2> QED BY <2>1, <2>2
<1>2. /\ f[0] = 0 /\ \A k \in 0 .. m : f[k] \in Nat
      /\ \A k \in 0 .. m : k + 1 <= m => f[k + 1] = f[k] + s[k + 1]
  BY SumsValue
<1>3. \A k \in 0 .. n : k + 1 <= n => g[k + 1] = g[k] + t[k + 1]
  BY SumsValue
<1> DEFINE T == {k \in Nat : k <= m => g[k + d] = x + f[k]}
<1>4. 0 \in T
  BY <1>2
<1>5. ASSUME NEW k \in T PROVE k + 1 \in T
  <2> SUFFICES ASSUME k + 1 <= m PROVE g[(k + 1) + d] = x + f[k + 1]
    OBVIOUS
  <2>1. k \in 0 .. m /\ k + 1 \in 1 .. m /\ (k + 1) + d = (k + d) + 1
    BY <1>1
  <2>2. k + d \in 0 .. n /\ (k + d) + 1 <= n
    BY <1>1, <2>1
  <2>3. g[k + d] = x + f[k]
    BY <2>1
  <2>4. g[(k + d) + 1] = g[k + d] + t[(k + d) + 1]
    BY <1>3, <2>2
  <2>5. t[(k + 1) + d] = s[k + 1] /\ s[k + 1] \in Nat
    BY <1>1, <2>1 DEF Follows
  <2>6. f[k + 1] = f[k] + s[k + 1] /\ f[k] \in Nat
    BY <1>2, <2>1
  <2> HIDE DEF T
  <2>7. t[(k + d) + 1] = s[k + 1]
    BY <2>1, <2>5
  <2>8. g[(k + 1) + d] = g[(k + d) + 1]
    BY <2>1
  <2> QED BY <2>3, <2>4, <2>5, <2>6, <2>7, <2>8, SMTT(30)
<1>6. T = Nat
  <2> HIDE DEF T
  <2>1. T \subseteq Nat
    BY DEF T
  <2> QED BY <1>4, <1>5, <2>1, Induct
<1>7. ASSUME NEW k \in 0 .. m PROVE g[k + d] = x + f[k]
  <2>1. k \in T /\ k <= m
    <3> HIDE DEF T
    <3> QED BY <1>1, <1>6
  <2> QED BY <2>1
<1> QED BY <1>7 DEF Exceeds

---------------------------------------------------------------------------
(* What FlattenSeq computes *)

\* f is what FlattenSeq computes of the first n sequences.
Joins(f, seqs, n) == f = [i \in 1 .. n |-> IF i = 1 THEN seqs[i] ELSE f[i - 1] \o seqs[i]]

\* There is one for every number of sequences.
LEMMA JoinsExist == ASSUME NEW seqs PROVE \A n \in Nat : \E f : Joins(f, seqs, n)
<1> DEFINE T == {n \in Nat : \E f : Joins(f, seqs, n)}
<1>1. 0 \in T
  <2>1. Joins([i \in 1 .. 0 |-> 0], seqs, 0)
    BY DEF Joins
  <2> QED BY <2>1
<1>2. ASSUME NEW n \in T PROVE n + 1 \in T
  <2>1. PICK f : Joins(f, seqs, n)
    OBVIOUS
  <2> DEFINE value(h, i) == IF i = 1 THEN seqs[i] ELSE h[i - 1] \o seqs[i]
             g == [i \in 1 .. n + 1 |-> value(f, i)]
  <2>2. \A i \in 1 .. n : f[i] = value(f, i)
    BY <2>1 DEF Joins
  <2>3. \A i \in 1 .. n : g[i] = f[i]
    BY <2>2
  <2>4. \A i \in 1 .. n + 1 : g[i] = value(f, i)
    OBVIOUS
  <2>5. ASSUME NEW i \in 1 .. n + 1 PROVE value(f, i) = value(g, i)
    <3>1. CASE i = 1
      BY <3>1
    <3>2. CASE i # 1
      <4>1. i - 1 \in 1 .. n
        BY <3>2
      <4>2. f[i - 1] = g[i - 1]
        BY <2>3, <4>1
      <4> HIDE DEF g
      <4> QED BY <4>2
    <3> QED BY <3>1, <3>2
  <2>6. g = [i \in 1 .. n + 1 |-> value(g, i)]
    <3>1. g = [i \in 1 .. n + 1 |-> value(f, i)]
      OBVIOUS
    <3> HIDE DEF g, value
    <3> QED BY <2>5, <3>1
  <2>7. Joins(g, seqs, n + 1)
    <3> HIDE DEF g
    <3> QED BY <2>6 DEF Joins
  <2> QED BY <2>7
<1>3. T = Nat
  <2> HIDE DEF T
  <2>1. T \subseteq Nat
    BY DEF T
  <2> QED BY <1>1, <1>2, <2>1, Induct
<1> QED BY <1>3

\* What such a function gives for each of the sequences.
LEMMA JoinsValue ==
  ASSUME NEW f, NEW seqs, NEW n \in Nat, Joins(f, seqs, n), NEW i \in 1 .. n
  PROVE  f[i] = IF i = 1 THEN seqs[i] ELSE f[i - 1] \o seqs[i]
BY DEF Joins

\* Joined alike, sequences that begin alike give the same up to there.
LEMMA JoinsUnique ==
  ASSUME NEW s, NEW t, NEW f, NEW g, NEW m \in Nat, NEW n \in Nat,
         Joins(f, s, m), Joins(g, t, n), m <= n, \A i \in 1 .. m : s[i] = t[i]
  PROVE  \A i \in 1 .. m : f[i] = g[i]
<1> DEFINE Bad == {i \in 1 .. m : f[i] # g[i]}
<1> SUFFICES ASSUME Bad # {} PROVE FALSE
  OBVIOUS
<1>1. PICK i \in Bad : \A j \in Bad : i <= j
  <2>1. Bad \subseteq Nat
    OBVIOUS
  <2> HIDE DEF Bad
  <2> QED BY <2>1, Least
<1>2. i \in 1 .. m /\ i \in 1 .. n /\ s[i] = t[i]
  OBVIOUS
<1>3. f[i] = IF i = 1 THEN s[i] ELSE f[i - 1] \o s[i]
  BY <1>2 DEF Joins
<1>4. g[i] = IF i = 1 THEN t[i] ELSE g[i - 1] \o t[i]
  BY <1>2 DEF Joins
<1>5. i # 1 => f[i - 1] = g[i - 1]
  BY <1>1
<1> QED BY <1>2, <1>3, <1>4, <1>5

\* FlattenSeq is the last value of such a function.
LEMMA FlattenIsJoin ==
  ASSUME NEW seqs, Len(seqs) \in Nat \ {0}
  PROVE  \E f : Joins(f, seqs, Len(seqs)) /\ FlattenSeq(seqs) = f[Len(seqs)]
<1> DEFINE f == CHOOSE h : Joins(h, seqs, Len(seqs))
<1>1. Joins(f, seqs, Len(seqs))
  <2>1. \E h : Joins(h, seqs, Len(seqs))
    BY JoinsExist
  <2> QED BY <2>1
<1>2. FlattenSeq(seqs) = f[Len(seqs)]
  BY DEF FlattenSeq, Joins
<1> QED BY <1>1, <1>2

\* Nothing joined is nothing.
LEMMA FlattenEmpty == FlattenSeq(<<>>) = <<>>
BY DEF FlattenSeq

\* Sequences over a set join to one over it.
LEMMA FlattenType ==
  ASSUME NEW S, NEW seqs \in Seq(Seq(S))
  PROVE  FlattenSeq(seqs) \in Seq(S)
<1>1. CASE seqs = <<>>
  BY <1>1, FlattenEmpty, EmptySeq
<1>2. CASE seqs # <<>>
  <2>1. Len(seqs) \in Nat \ {0}
    BY <1>2, EmptySeq
  <2>2. PICK f : Joins(f, seqs, Len(seqs)) /\ FlattenSeq(seqs) = f[Len(seqs)]
    BY <2>1, FlattenIsJoin
  <2> DEFINE Bad == {i \in 1 .. Len(seqs) : f[i] \notin Seq(S)}
  <2>3. Bad = {}
    <3> SUFFICES ASSUME Bad # {} PROVE FALSE
      OBVIOUS
    <3>1. PICK i \in Bad : \A j \in Bad : i <= j
      <4>1. Bad \subseteq Nat
        OBVIOUS
      <4> HIDE DEF Bad
      <4> QED BY <4>1, Least
    <3>2. f[i] = IF i = 1 THEN seqs[i] ELSE f[i - 1] \o seqs[i]
      BY <2>2 DEF Joins
    <3>3. seqs[i] \in Seq(S)
      BY ElementOfSeq
    <3>4. i # 1 => f[i - 1] \in Seq(S)
      BY <3>1
    <3> QED BY <3>2, <3>3, <3>4, ConcatProperties
  <2> QED BY <2>1, <2>2, <2>3
<1> QED BY <1>1, <1>2

\* One sequence more: the join grows by it.
LEMMA FlattenAppend ==
  ASSUME NEW S, NEW seqs \in Seq(Seq(S)), NEW x \in Seq(S)
  PROVE  FlattenSeq(Append(seqs, x)) = FlattenSeq(seqs) \o x
<1>a. PICK n \in Nat : n = Len(seqs)
  BY LenProperties
<1>b. PICK m \in Nat \ {0} : m = n + 1
  OBVIOUS
<1>c. PICK all : all = Append(seqs, x)
  OBVIOUS
<1>1. n = Len(seqs) /\ m = n + 1 /\ all = Append(seqs, x)
  BY <1>a, <1>b, <1>c
<1>2. /\ Len(all) = m /\ all[m] = x
      /\ \A i \in 1 .. n : seqs[i] = all[i]
  BY <1>1, AppendProperties
<1>3. PICK g : Joins(g, all, m) /\ FlattenSeq(all) = g[m]
  <2>1. Len(all) \in Nat \ {0}
    BY <1>2
  <2>2. \E g : Joins(g, all, Len(all)) /\ FlattenSeq(all) = g[Len(all)]
    BY <2>1, FlattenIsJoin
  <2> QED BY <1>2, <2>2
<1>4. m \in 1 .. m
  BY <1>1
<1>5. g[m] = IF m = 1 THEN all[m] ELSE g[m - 1] \o all[m]
  BY <1>3, <1>4, JoinsValue
<1>6. CASE seqs = <<>>
  <2>1. FlattenSeq(seqs) = <<>> /\ m = 1
    BY <1>1, <1>6, FlattenEmpty
  <2> QED BY <1>1, <1>2, <1>3, <1>5, <2>1, ConcatEmptySeq
<1>7. CASE seqs # <<>>
  <2>1. n \in Nat \ {0}
    BY <1>1, <1>7, EmptySeq
  <2>2. PICK f : Joins(f, seqs, n) /\ FlattenSeq(seqs) = f[n]
    BY <1>1, <2>1, FlattenIsJoin
  <2>3. f[n] = g[n]
    <3>1. n <= m
      BY <1>1
    <3>2. Joins(f, seqs, n) /\ Joins(g, all, m)
      BY <1>3, <2>2
    <3>3. \A i \in 1 .. n : f[i] = g[i]
      BY <1>2, <3>1, <3>2, JoinsUnique
    <3> QED BY <2>1, <3>3
  <2>4. m # 1 /\ m - 1 = n
    BY <1>1, <2>1
  <2>5. FlattenSeq(all) = f[n] \o x
    BY <1>2, <1>3, <1>5, <2>3, <2>4
  <2> QED BY <1>1, <2>2, <2>5
<1> QED BY <1>6, <1>7

\* One sequence joined is that sequence.
LEMMA FlattenOne == ASSUME NEW S, NEW x \in Seq(S) PROVE FlattenSeq(<<x>>) = x
<1>1. Append(<<>>, x) = <<x>>
  OBVIOUS
<1>2. <<>> \in Seq(Seq(S))
  BY EmptySeq
<1>3. FlattenSeq(Append(<<>>, x)) = FlattenSeq(<<>>) \o x
  BY <1>2, FlattenAppend
<1> QED BY <1>1, <1>3, FlattenEmpty, ConcatEmptySeq

---------------------------------------------------------------------------
(* Cutting a sequence *)

\* A sequence is all of it but the last element, and the last.
LEMMA AllButLast ==
  ASSUME NEW S, NEW s \in Seq(S), NEW n \in Nat, Len(s) = n + 1
  PROVE  /\ SubSeq(s, 1, n) \in Seq(S) /\ Len(SubSeq(s, 1, n)) = n
         /\ s[n + 1] \in S
         /\ s = Append(SubSeq(s, 1, n), s[n + 1])
<1>1. /\ SubSeq(s, 1, n) \in Seq(S) /\ Len(SubSeq(s, 1, n)) = n
      /\ \A i \in 1 .. n : SubSeq(s, 1, n)[i] = s[i]
  <2>1. \A i \in 1 .. n : s[i] \in S
    BY ElementOfSeq
  <2> QED BY <2>1, SubSeqProperties
<1>2. s[n + 1] \in S
  BY ElementOfSeq
<1>3. PICK t : t = SubSeq(s, 1, n)
  OBVIOUS
<1>4. /\ Append(t, s[n + 1]) \in Seq(S) /\ Len(Append(t, s[n + 1])) = n + 1
      /\ \A i \in 1 .. n : Append(t, s[n + 1])[i] = t[i]
      /\ Append(t, s[n + 1])[n + 1] = s[n + 1]
  BY <1>1, <1>2, <1>3, AppendProperties
<1>5. \A i \in 1 .. n + 1 : Append(t, s[n + 1])[i] = s[i]
  BY <1>1, <1>3, <1>4
<1>6. Append(t, s[n + 1]) = s
  BY <1>4, <1>5, SeqEqual
<1> QED BY <1>1, <1>2, <1>3, <1>6

\* The first sequences joined are the beginning of all joined.
LEMMA FlattenPrefix ==
  ASSUME NEW S
  PROVE  \A d \in Nat : \A s \in Seq(Seq(S)) : d <= Len(s) =>
           \E w \in Seq(S) : FlattenSeq(s) = FlattenSeq(SubSeq(s, 1, Len(s) - d)) \o w
<1> DEFINE Holds(s, d) ==
             \E w \in Seq(S) : FlattenSeq(s) = FlattenSeq(SubSeq(s, 1, Len(s) - d)) \o w
           T == {d \in Nat : \A s \in Seq(Seq(S)) : d <= Len(s) => Holds(s, d)}
<1>1. 0 \in T
  <2> SUFFICES ASSUME NEW s \in Seq(Seq(S)) PROVE Holds(s, 0)
    OBVIOUS
  <2>1. SubSeq(s, 1, Len(s) - 0) = s
    BY SubSeqFull, LenProperties
  <2>2. FlattenSeq(s) = FlattenSeq(s) \o <<>>
    BY FlattenType, ConcatEmptySeq
  <2> QED BY <2>1, <2>2, EmptySeq
<1>2. ASSUME NEW d \in T PROVE d + 1 \in T
  <2>0. d \in Nat /\ \A s \in Seq(Seq(S)) : d <= Len(s) => Holds(s, d)
    OBVIOUS
  <2> SUFFICES ASSUME NEW s \in Seq(Seq(S)), d + 1 <= Len(s) PROVE Holds(s, d + 1)
    <3> HIDE DEF Holds
    <3> QED BY <2>0
  <2>1. PICK n \in Nat : Len(s) = n + 1 /\ d <= n
    <3>1. PICK l \in Nat : l = Len(s) /\ d + 1 <= l
      BY LenProperties
    <3>2. l - 1 \in Nat /\ l = (l - 1) + 1 /\ d <= l - 1
      BY <2>0, <3>1
    <3> QED BY <3>1, <3>2
  <2>2. PICK t, x : t = SubSeq(s, 1, n) /\ x = s[n + 1]
    OBVIOUS
  <2>3. t \in Seq(Seq(S)) /\ Len(t) = n /\ x \in Seq(S) /\ s = Append(t, x)
    BY <2>1, <2>2, AllButLast
  <2>4. PICK w \in Seq(S) : FlattenSeq(t) = FlattenSeq(SubSeq(t, 1, n - d)) \o w
    BY <2>0, <2>1, <2>3
  <2>5. SubSeq(t, 1, n - d) = SubSeq(s, 1, Len(s) - (d + 1))
    <3>1. PICK k \in Nat : k = n - d /\ k = Len(s) - (d + 1) /\ k <= n
      BY <2>0, <2>1
    <3>2. \A i \in 1 .. k : t[i] = s[i]
      BY <2>3, <3>1, AppendProperties
    <3>3. \A i \in 1 .. k : t[i] \in Seq(S) /\ s[i] \in Seq(S)
      BY <2>3, <3>1, <3>2, ElementOfSeq, SMTT(30)
    <3>4. /\ SubSeq(t, 1, k) \in Seq(Seq(S)) /\ Len(SubSeq(t, 1, k)) = k
          /\ \A i \in 1 .. k : SubSeq(t, 1, k)[i] = t[i]
      BY <3>3, SubSeqProperties
    <3>5. /\ SubSeq(s, 1, k) \in Seq(Seq(S)) /\ Len(SubSeq(s, 1, k)) = k
          /\ \A i \in 1 .. k : SubSeq(s, 1, k)[i] = s[i]
      BY <3>3, SubSeqProperties
    <3>6. SubSeq(t, 1, k) = SubSeq(s, 1, k)
      BY <3>2, <3>4, <3>5, SeqEqual
    <3> QED BY <3>1, <3>6
  <2>6. PICK u : u = FlattenSeq(SubSeq(s, 1, Len(s) - (d + 1)))
    OBVIOUS
  <2>7. u \in Seq(S)
    <3>1. SubSeq(t, 1, n - d) \in Seq(Seq(S))
      <4>1. \A i \in 1 .. n - d : t[i] \in Seq(S)
        BY <2>0, <2>1, <2>3, ElementOfSeq
      <4> QED BY <2>0, <2>1, <4>1, SubSeqProperties
    <3> QED BY <2>5, <2>6, <3>1, FlattenType
  <2>8. FlattenSeq(s) = (u \o w) \o x
    <3>1. FlattenSeq(Append(t, x)) = FlattenSeq(t) \o x
      BY <2>3, FlattenAppend
    <3>2. FlattenSeq(t) = u \o w
      BY <2>4, <2>5, <2>6
    <3> QED BY <2>3, <3>1, <3>2
  <2>9. FlattenSeq(s) = u \o (w \o x) /\ w \o x \in Seq(S)
    <3>0. u \in Seq(S) /\ w \in Seq(S) /\ x \in Seq(S)
      BY <2>3, <2>7
    <3> HIDE DEF T, Holds
    <3>1. (u \o w) \o x = u \o (w \o x)
      BY <3>0, ConcatAssociative, SMTT(30)
    <3>2. w \o x \in Seq(S)
      BY <3>0, ConcatProperties
    <3> QED BY <2>8, <3>1, <3>2
  <2> QED BY <2>6, <2>9
<1>3. T = Nat
  <2> HIDE DEF T
  <2>1. T \subseteq Nat
    BY DEF T
  <2> QED BY <1>1, <1>2, <2>1, Induct
<1> QED BY <1>3

\* Two sequences that make a whole: the first is a prefix of it.
LEMMA PrefixOfConcat ==
  ASSUME NEW S, NEW s \in Seq(S), NEW w \in Seq(S)
  PROVE  IsPrefix(s, s \o w)
<1>1. PICK t : t = s \o w
  OBVIOUS
<1>2. /\ t \in Seq(S) /\ Len(t) = Len(s) + Len(w)
      /\ \A i \in 1 .. Len(s) : t[i] = s[i]
  BY <1>1, ConcatProperties, LenProperties
<1>3. PICK n \in Nat : n = Len(s) /\ n <= Len(t)
  BY <1>2, LenProperties
<1>4. \A i \in 1 .. n : s[i] \in S /\ t[i] \in S
  BY <1>2, <1>3, ElementOfSeq
<1>5. /\ SubSeq(s, 1, n) \in Seq(S) /\ Len(SubSeq(s, 1, n)) = n
      /\ \A i \in 1 .. n : SubSeq(s, 1, n)[i] = s[i]
  BY <1>4, SubSeqProperties
<1>6. /\ SubSeq(t, 1, n) \in Seq(S) /\ Len(SubSeq(t, 1, n)) = n
      /\ \A i \in 1 .. n : SubSeq(t, 1, n)[i] = t[i]
  BY <1>4, SubSeqProperties
<1>7. SubSeq(s, 1, n) = SubSeq(t, 1, n)
  BY <1>2, <1>3, <1>5, <1>6, SeqEqual
<1> QED BY <1>1, <1>3, <1>7 DEF IsPrefix

\* A sequence cut in two, anywhere: the two make it up again.
LEMMA CutInTwo ==
  ASSUME NEW S, NEW s \in Seq(S), NEW c \in 0 .. Len(s)
  PROVE  /\ SubSeq(s, 1, c) \in Seq(S) /\ Len(SubSeq(s, 1, c)) = c
         /\ \A i \in 1 .. c : SubSeq(s, 1, c)[i] = s[i]
         /\ SubSeq(s, c + 1, Len(s)) \in Seq(S)
         /\ Len(SubSeq(s, c + 1, Len(s))) = Len(s) - c
         /\ SubSeq(s, 1, c) \o SubSeq(s, c + 1, Len(s)) = s
<1>1. PICK n \in Nat : n = Len(s) /\ c \in Nat /\ c <= n
  BY LenProperties
<1>2. \A i \in 1 .. n : s[i] \in S
  BY <1>1, ElementOfSeq
<1>3. /\ SubSeq(s, 1, c) \in Seq(S) /\ Len(SubSeq(s, 1, c)) = c
      /\ \A i \in 1 .. c : SubSeq(s, 1, c)[i] = s[i]
  <2>1. \A i \in 1 .. c : s[i] \in S
    BY <1>1, <1>2
  <2> QED BY <1>1, <2>1, SubSeqProperties
<1>4. /\ SubSeq(s, c + 1, n) \in Seq(S)
      /\ Len(SubSeq(s, c + 1, n)) = n - c
  <2>1. \A i \in c + 1 .. n : s[i] \in S
    BY <1>1, <1>2
  <2> QED BY <1>1, <2>1, SubSeqProperties
<1>5. SubSeq(s, 1, c) \o SubSeq(s, c + 1, n) = SubSeq(s, 1, n)
  <2>1. /\ 1 \in 1 .. Len(s) + 1 /\ c \in 1 - 1 .. Len(s) /\ n \in c .. Len(s)
    BY <1>1
  <2> QED BY <2>1, ConcatAdjacentSubSeq
<1>6. SubSeq(s, 1, n) = s
  BY <1>1, SubSeqFull
<1> QED BY <1>1, <1>3, <1>4, <1>5, <1>6

\* Sequences before others: the joins come one after the other.
LEMMA FlattenConcat ==
  ASSUME NEW S, NEW a \in Seq(Seq(S))
  PROVE  \A b \in Seq(Seq(S)) : FlattenSeq(a \o b) = FlattenSeq(a) \o FlattenSeq(b)
<1> DEFINE Holds(b) == FlattenSeq(a \o b) = FlattenSeq(a) \o FlattenSeq(b)
           T == {n \in Nat : \A b \in Seq(Seq(S)) : Len(b) = n => Holds(b)}
<1>1. FlattenSeq(a) \in Seq(S)
  BY FlattenType
<1> HIDE DEF Holds
<1>2. 0 \in T
  <2> SUFFICES ASSUME NEW b \in Seq(Seq(S)), Len(b) = 0 PROVE Holds(b)
    OBVIOUS
  <2>1. b = <<>>
    BY EmptySeq
  <2>2. a \o b = a
    BY <2>1, ConcatEmptySeq
  <2>3. FlattenSeq(a) \o FlattenSeq(b) = FlattenSeq(a)
    BY <1>1, <2>1, FlattenEmpty, ConcatEmptySeq
  <2> QED BY <2>2, <2>3 DEF Holds
<1>3. ASSUME NEW n \in T PROVE n + 1 \in T
  <2> SUFFICES ASSUME NEW b \in Seq(Seq(S)), Len(b) = n + 1 PROVE Holds(b)
    OBVIOUS
  <2>0. n \in Nat /\ \A c \in Seq(Seq(S)) : Len(c) = n => Holds(c)
    OBVIOUS
  <2>1. PICK c \in Seq(Seq(S)), e \in Seq(S) : b = Append(c, e) /\ Len(c) = n
    <3>1. /\ SubSeq(b, 1, n) \in Seq(Seq(S)) /\ Len(SubSeq(b, 1, n)) = n
          /\ b[n + 1] \in Seq(S)
          /\ b = Append(SubSeq(b, 1, n), b[n + 1])
      BY <2>0, AllButLast
    <3> QED BY <3>1
  <2>2. Holds(c)
    BY <2>0, <2>1
  <2>3. FlattenSeq(b) = FlattenSeq(c) \o e /\ FlattenSeq(c) \in Seq(S)
    BY <2>1, FlattenAppend, FlattenType
  <2>4. a \o b = Append(a \o c, e) /\ a \o c \in Seq(Seq(S))
    <3>1. PICK x : x = <<e>>
      OBVIOUS
    <3>2. x \in Seq(Seq(S)) /\ b = c \o x
      BY <2>1, <3>1, AppendIsConcat
    <3>3. a \o c \in Seq(Seq(S))
      BY ConcatProperties
    <3>4. a \o (c \o x) = (a \o c) \o x
      <4>1. PICK W : W = Seq(S)
        OBVIOUS
      <4>2. a \in Seq(W) /\ c \in Seq(W) /\ x \in Seq(W)
        BY <3>2, <4>1
      <4> HIDE DEF T, Holds
      <4> QED BY <4>2, ConcatAssociative, SMTT(30)
    <3>5. Append(a \o c, e) = (a \o c) \o x
      BY <3>1, <3>3, AppendIsConcat
    <3> QED BY <3>2, <3>3, <3>4, <3>5
  <2>5. FlattenSeq(a \o b) = FlattenSeq(a \o c) \o e
    BY <2>4, FlattenAppend
  <2>6. FlattenSeq(a \o c) = FlattenSeq(a) \o FlattenSeq(c)
    BY <2>2 DEF Holds
  <2>7. (FlattenSeq(a) \o FlattenSeq(c)) \o e = FlattenSeq(a) \o (FlattenSeq(c) \o e)
    <3>1. PICK u \in Seq(S), v \in Seq(S) : u = FlattenSeq(a) /\ v = FlattenSeq(c)
      BY <1>1, <2>3
    <3>2. (u \o v) \o e = u \o (v \o e)
      <4> HIDE DEF T, Holds
      <4> QED BY ConcatAssociative, SMTT(30)
    <3> QED BY <3>1, <3>2
  <2> QED BY <2>3, <2>5, <2>6, <2>7 DEF Holds
<1>4. T = Nat
  <2> HIDE DEF T
  <2>1. T \subseteq Nat
    BY DEF T
  <2> QED BY <1>2, <1>3, <2>1, Induct
<1>5. ASSUME NEW b \in Seq(Seq(S)) PROVE Holds(b)
  <2>1. Len(b) \in T
    <3>1. Len(b) \in Nat
      BY LenProperties
    <3> HIDE DEF T
    <3> QED BY <1>4, <3>1
  <2> QED BY <2>1
<1> QED BY <1>5 DEF Holds

=============================================================================
