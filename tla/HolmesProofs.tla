---------------------------- MODULE HolmesProofs ----------------------------
(***************************************************************************)
(* Theorems about HolmesResponse: the decoder, which reads token by token, *)
(* accepts exactly the documents of the grammar, and its analysis is the   *)
(* last one that was read as a whole.                                      *)
(***************************************************************************)
EXTENDS HolmesResponse, SequenceFacts, FiniteSetTheorems

---------------------------------------------------------------------------
(* The phrases of the grammar *)

\* No body has more tokens than the longest document.
LEMMA LongestIs == Inputs # {} /\ Longest \in Nat /\ \A i \in Inputs : i.tokens <= Longest
<1>1. PICK x \in Inputs : \A i \in Inputs : i.tokens <= x.tokens
  BY HolmesAssumption
<1>2. x.tokens \in {i.tokens : i \in Inputs} /\ \A i \in Inputs : i.tokens <= x.tokens
  BY <1>1
<1>3. Longest \in {i.tokens : i \in Inputs} /\ \A i \in Inputs : i.tokens <= Longest
  BY <1>2 DEF Longest
<1> QED BY <1>1, <1>3, HolmesAssumption

\* The phrases of n tokens depend on shorter ones only.
LEMMA DeriveAgrees ==
  ASSUME NEW f, NEW g, NEW n \in Nat, \A k \in 0 .. n - 1 : f[k] = g[k]
  PROVE  Derive(f, n) = Derive(g, n)
<1> DEFINE W(p, kind) == IF n = 2 THEN {<<>>} ELSE p[n - 2][kind]
           V(p) == IF n = 0 THEN {}
                   ELSE IF n = 1 THEN {<<"string">>, <<"analysis">>, <<"scalar">>}
                   ELSE Enclosed("[", W(p, "elements"), "]") \cup Enclosed("{", W(p, "members"), "}")
           M(p) == IF n < 3 THEN {} ELSE Named(p[n - 2].value)
           J(p, list, one) == UNION {Listed(p[k][list], p[n - k - 1][one]) : k \in 1 .. n - 2}
           D(p) == [value |-> V(p), member |-> M(p),
                    elements |-> V(p) \cup J(p, "elements", "value"),
                    members |-> M(p) \cup J(p, "members", "member")]
<1>1. \A p : Derive(p, n) = D(p)
  BY DEF Derive
<1>2. ASSUME NEW list, NEW one PROVE J(f, list, one) = J(g, list, one)
  <2>1. ASSUME NEW k \in 1 .. n - 2
        PROVE  Listed(f[k][list], f[n - k - 1][one]) = Listed(g[k][list], g[n - k - 1][one])
    <3>1. f[k] = g[k] /\ f[n - k - 1] = g[n - k - 1]
      OBVIOUS
    <3> QED BY <3>1
  <2> QED BY <2>1
<1>3. n >= 2 => f[n - 2] = g[n - 2]
  OBVIOUS
<1>4. n >= 2 => \A kind : W(f, kind) = W(g, kind)
  BY <1>3
<1> HIDE DEF W
<1>5. V(f) = V(g)
  <2>1. n = 0 \/ n = 1 \/ n >= 2
    OBVIOUS
  <2>2. n >= 2 => W(f, "elements") = W(g, "elements") /\ W(f, "members") = W(g, "members")
    BY <1>4
  <2> QED BY <2>1, <2>2, Zenon
<1>6. M(f) = M(g)
  BY <1>3
<1> HIDE DEF V, M, J
<1>7. D(f) = D(g)
  BY <1>2, <1>5, <1>6
<1> QED BY <1>1, <1>7

PhrasesUpTo(f, n) == \A k \in 0 .. n : f[k] = Derive(f, k)

\* Functions that derive alike are alike.
LEMMA PhrasesUnique ==
  ASSUME NEW f, NEW g, NEW m \in Nat, NEW n \in Nat, m <= n,
         PhrasesUpTo(f, m), PhrasesUpTo(g, n)
  PROVE  \A k \in 0 .. m : f[k] = g[k]
<1> DEFINE Bad == {k \in 0 .. m : f[k] # g[k]}
<1> SUFFICES ASSUME Bad # {} PROVE FALSE
  OBVIOUS
<1>1. PICK k \in Bad : \A j \in Bad : k <= j
  <2>1. Bad \subseteq Nat
    OBVIOUS
  <2> HIDE DEF Bad
  <2> QED BY <2>1, Least
<1>2. \A j \in 0 .. k - 1 : f[j] = g[j]
  BY <1>1
<1>3. Derive(f, k) = Derive(g, k)
  BY <1>1, <1>2, DeriveAgrees
<1> QED BY <1>1, <1>3 DEF PhrasesUpTo

\* There is one up to every number.
LEMMA PhrasesExist == \A n \in Nat : \E f : PhrasesUpTo(f, n)
<1> DEFINE T == {n \in Nat : \E f : PhrasesUpTo(f, n)}
<1>1. 0 \in T
  <2>1. PICK e : e = [k \in {} |-> 0]
    OBVIOUS
  <2>2. PICK f : f = [k \in {0} |-> Derive(e, 0)]
    OBVIOUS
  <2>3. Derive(f, 0) = Derive(e, 0)
    <3>1. \A k \in 0 .. 0 - 1 : f[k] = e[k]
      OBVIOUS
    <3> QED BY <3>1, DeriveAgrees
  <2>4. PhrasesUpTo(f, 0)
    BY <2>2, <2>3 DEF PhrasesUpTo
  <2> QED BY <2>4
<1>2. ASSUME NEW n \in T PROVE n + 1 \in T
  <2>1. PICK f : PhrasesUpTo(f, n)
    OBVIOUS
  <2>2. PICK g : g = [k \in 0 .. n + 1 |-> IF k <= n THEN f[k] ELSE Derive(f, k)]
    OBVIOUS
  <2>3. \A k \in 0 .. n : g[k] = f[k]
    BY <2>2
  <2>4. \A k \in 0 .. n + 1 : Derive(g, k) = Derive(f, k)
    BY <2>3, DeriveAgrees
  <2>5. \A k \in 0 .. n : g[k] = Derive(g, k)
    BY <2>1, <2>3, <2>4 DEF PhrasesUpTo
  <2>6. g[n + 1] = Derive(g, n + 1)
    BY <2>2, <2>4
  <2>7. PhrasesUpTo(g, n + 1)
    BY <2>5, <2>6 DEF PhrasesUpTo
  <2> QED BY <2>7
<1>3. T = Nat
  <2> HIDE DEF T
  <2>1. T \subseteq Nat
    BY DEF T
  <2> QED BY <1>1, <1>2, <2>1, Induct
<1> QED BY <1>3

\* The grammar is what it derives from itself.
LEMMA PhrasesUnfold == \A n \in 0 .. Longest : Phrases[n] = Derive(Phrases, n)
<1>0. Longest \in Nat
  BY LongestIs
<1>1. PICK f : PhrasesUpTo(f, Longest)
  BY <1>0, PhrasesExist
<1> DEFINE F == [n \in 0 .. Longest |-> f[n]]
<1>2. \A n \in 0 .. Longest : F[n] = Derive(F, n)
  <2> SUFFICES ASSUME NEW n \in 0 .. Longest PROVE F[n] = Derive(F, n)
    OBVIOUS
  <2>1. F[n] = Derive(f, n)
    BY <1>1 DEF PhrasesUpTo
  <2>2. n \in Nat /\ \A k \in 0 .. n - 1 : F[k] = f[k]
    BY <1>0
  <2> HIDE DEF F
  <2> QED BY <2>1, <2>2, DeriveAgrees
<1>3. F = [n \in 0 .. Longest |-> Derive(F, n)]
  <2>1. F = [n \in 0 .. Longest |-> F[n]]
    OBVIOUS
  <2> HIDE DEF F
  <2> QED BY <1>2, <2>1
<1> HIDE DEF F
<1>4. Phrases = [n \in 0 .. Longest |-> Derive(Phrases, n)]
  BY <1>3 DEF Phrases
<1> QED BY <1>4

\* What the brackets of a value of n tokens may hold.
Inner(n, kind) == IF n = 2 THEN {<<>>} ELSE Phrases[n - 2][kind]

Longer(n, list, one) == UNION {Listed(Phrases[k][list], Phrases[n - k - 1][one]) : k \in 1 .. n - 2}

\* The phrases of n tokens, kind by kind.
LEMMA PhrasesAre ==
  ASSUME NEW n \in 0 .. Longest
  PROVE  /\ n = 0 => Phrases[n].value = {}
         /\ n = 1 => Phrases[n].value = {<<"string">>, <<"analysis">>, <<"scalar">>}
         /\ n >= 2 => Phrases[n].value = Enclosed("[", Inner(n, "elements"), "]")
                                          \cup Enclosed("{", Inner(n, "members"), "}")
         /\ n < 3 => Phrases[n].member = {}
         /\ n >= 3 => Phrases[n].member = Named(Phrases[n - 2].value)
         /\ Phrases[n].elements = Phrases[n].value \cup Longer(n, "elements", "value")
         /\ Phrases[n].members = Phrases[n].member \cup Longer(n, "members", "member")
<1>0. n \in Int
  BY LongestIs
<1> DEFINE V == IF n = 0 THEN {}
                ELSE IF n = 1 THEN {<<"string">>, <<"analysis">>, <<"scalar">>}
                ELSE Enclosed("[", Inner(n, "elements"), "]") \cup Enclosed("{", Inner(n, "members"), "}")
           M == IF n < 3 THEN {} ELSE Named(Phrases[n - 2].value)
<1>1. Derive(Phrases, n) = [value |-> V, member |-> M,
                            elements |-> V \cup Longer(n, "elements", "value"),
                            members |-> M \cup Longer(n, "members", "member")]
  BY DEF Derive, Inner, Longer
<1>2. n = 0 => V = {}
  OBVIOUS
<1>3. n = 1 => V = {<<"string">>, <<"analysis">>, <<"scalar">>}
  OBVIOUS
<1>4. n >= 2 => V = Enclosed("[", Inner(n, "elements"), "]") \cup Enclosed("{", Inner(n, "members"), "}")
  <2>1. n >= 2 => n # 0 /\ n # 1
    BY <1>0
  <2> QED BY <2>1, Zenon
<1>5. n < 3 => M = {}
  OBVIOUS
<1>6. n >= 3 => M = Named(Phrases[n - 2].value)
  BY <1>0
<1> HIDE DEF V, M
<1>7. /\ Phrases[n].value = V /\ Phrases[n].member = M
      /\ Phrases[n].elements = V \cup Longer(n, "elements", "value")
      /\ Phrases[n].members = M \cup Longer(n, "members", "member")
  BY <1>1, PhrasesUnfold
<1> QED BY <1>2, <1>3, <1>4, <1>5, <1>6, <1>7

---------------------------------------------------------------------------
(* Class sequences *)

Strings == {"string", "analysis"}
Openers == {"{", "["}
Closers == {"}", "]"}
Scalars == {"string", "analysis", "scalar"}
Classified == Marks \cup Ends \cup Scalars \cup {"illegal"}
Text == Seq(Classified)

\* Nothing between two brackets.
LEMMA EmptyBrackets == ASSUME NEW a, NEW b PROVE <<a>> \o <<>> \o <<b>> = <<a, b>>
<1>1. PICK x : x = <<a>>
  OBVIOUS
<1>2. PICK y : y = <<b>>
  OBVIOUS
<1>3. PICK z : z = <<a, b>>
  OBVIOUS
<1>4. /\ x \in Seq({a, b}) /\ y \in Seq({a, b}) /\ z \in Seq({a, b})
      /\ Len(x) = 1 /\ Len(y) = 1 /\ Len(z) = 2 /\ x[1] = a /\ y[1] = b /\ z[1] = a /\ z[2] = b
  BY <1>1, <1>2, <1>3
<1>5. x \o <<>> = x
  BY <1>4, ConcatEmptySeq
<1>6. /\ x \o y \in Seq({a, b}) /\ Len(x \o y) = 2
      /\ (x \o y)[1] = a /\ (x \o y)[2] = b
  BY <1>4, ConcatProperties
<1>7. \A i \in 1 .. 2 : (x \o y)[i] = z[i]
  BY <1>4, <1>6
<1>8. x \o y = z
  BY <1>4, <1>6, <1>7, SeqEqual
<1> QED BY <1>1, <1>2, <1>3, <1>5, <1>8

\* What a list or a member is made of.
LEMMA ListedMeans ==
  ASSUME NEW A, NEW B, NEW v
  PROVE  v \in Listed(A, B) => \E l \in A, x \in B : v = l \o Comma \o x
BY DEF Listed

\* The same for members.
LEMMA NamedMeans ==
  ASSUME NEW A, NEW v
  PROVE  v \in Named(A) => \E name \in {"string", "analysis"}, x \in A : v = Label(name) \o x
BY DEF Named

\* A set that holds all combinations holds the lists.
LEMMA ListedIn ==
  ASSUME NEW A, NEW B, NEW X, \A x \in A, y \in B : x \o Comma \o y \in X
  PROVE  Listed(A, B) \subseteq X
<1> SUFFICES ASSUME NEW v \in Listed(A, B) PROVE v \in X
  OBVIOUS
<1>1. \E l \in A, x \in B : v = l \o Comma \o x
  BY ListedMeans
<1> QED BY <1>1

\* The same for members.
LEMMA NamedIn ==
  ASSUME NEW A, NEW X, \A name \in Strings, x \in A : Label(name) \o x \in X
  PROVE  Named(A) \subseteq X
<1> SUFFICES ASSUME NEW v \in Named(A) PROVE v \in X
  OBVIOUS
<1>1. PICK name \in {"string", "analysis"}, x \in A : v = Label(name) \o x
  BY NamedMeans
<1>2. name \in Strings
  BY DEF Strings
<1> QED BY <1>1, <1>2, ZenonT(30)

\* Four sets of sequences that the rules of the grammar do not leave.
ClosedSets(V, M, E, L) ==
  /\ \A c \in Scalars : <<c>> \in V
  /\ <<"[", "]">> \in V /\ <<"{", "}">> \in V
  /\ \A x \in E : <<"[">> \o x \o <<"]">> \in V
  /\ \A x \in L : <<"{">> \o x \o <<"}">> \in V
  /\ \A name \in Strings, x \in V : Label(name) \o x \in M
  /\ V \subseteq E /\ M \subseteq L
  /\ \A x \in E, y \in V : x \o Comma \o y \in E
  /\ \A x \in L, y \in M : x \o Comma \o y \in L

\* Phrases of n tokens that are in the four sets.
PhrasesIn(n, V, M, E, L) ==
  /\ Phrases[n].value \subseteq V /\ Phrases[n].member \subseteq M
  /\ Phrases[n].elements \subseteq E /\ Phrases[n].members \subseteq L

\* Four sets of sequences that the rules of the grammar do not leave hold all
\* of its phrases.
LEMMA PhraseInduction ==
  ASSUME NEW V, NEW M, NEW E, NEW L, ClosedSets(V, M, E, L)
  PROVE  \A n \in 0 .. Longest : Phrases[n].value \subseteq V
<1> DEFINE In(n) == PhrasesIn(n, V, M, E, L)
           T == {n \in Nat : \A k \in 0 .. n : k <= Longest => In(k)}
<1>0. Longest \in Nat
  BY LongestIs
<1> HIDE DEF T, In
<1>a. ASSUME NEW n, In(n)
      PROVE  /\ Phrases[n].value \subseteq V /\ Phrases[n].member \subseteq M
             /\ Phrases[n].elements \subseteq E /\ Phrases[n].members \subseteq L
  BY <1>a DEF In, PhrasesIn
<1>1. ASSUME NEW n \in 0 .. Longest, \A k \in 0 .. n - 1 : In(k) PROVE In(n)
  <2>0. n \in Nat
    BY <1>0
  <2>1. n >= 2 => Inner(n, "elements") \subseteq E \cup {<<>>} /\ (n > 2 => Inner(n, "elements") \subseteq E)
    <3>1. CASE n = 2
      BY <3>1 DEF Inner
    <3>2. CASE n > 2
      <4>1. Inner(n, "elements") = Phrases[n - 2].elements
        BY <3>2 DEF Inner
      <4>2. In(n - 2)
        BY <1>1, <2>0, <3>2
      <4> QED BY <1>a, <4>1, <4>2
    <3> QED BY <2>0, <3>1, <3>2
  <2>2. n >= 2 => Inner(n, "members") \subseteq L \cup {<<>>} /\ (n > 2 => Inner(n, "members") \subseteq L)
    <3>1. CASE n = 2
      BY <3>1 DEF Inner
    <3>2. CASE n > 2
      <4>1. Inner(n, "members") = Phrases[n - 2].members
        BY <3>2 DEF Inner
      <4>2. In(n - 2)
        BY <1>1, <2>0, <3>2
      <4> QED BY <1>a, <4>1, <4>2
    <3> QED BY <2>0, <3>1, <3>2
  <2>3. <<"[">> \o <<>> \o <<"]">> \in V /\ <<"{">> \o <<>> \o <<"}">> \in V
    <3>1. <<"[", "]">> \in V /\ <<"{", "}">> \in V
      BY DEF ClosedSets
    <3> QED BY <3>1, EmptyBrackets
  <2>4. Phrases[n].value \subseteq V
    <3>1. CASE n = 0
      BY <3>1, PhrasesAre
    <3>2. CASE n = 1
      <4>1. \A c \in Scalars : <<c>> \in V
        BY DEF ClosedSets
      <4>2. <<"string">> \in V /\ <<"analysis">> \in V /\ <<"scalar">> \in V
        BY <4>1 DEF Scalars
      <4>3. Phrases[n].value = {<<"string">>, <<"analysis">>, <<"scalar">>}
        BY <3>2, PhrasesAre
      <4> QED BY <4>2, <4>3, Zenon
    <3>3. CASE n >= 2
      <4>1. Phrases[n].value = Enclosed("[", Inner(n, "elements"), "]")
                               \cup Enclosed("{", Inner(n, "members"), "}")
        BY <3>3, PhrasesAre
      <4>2. Enclosed("[", Inner(n, "elements"), "]") \subseteq V
        <5>1. \A x \in E : <<"[">> \o x \o <<"]">> \in V
          BY DEF ClosedSets
        <5> QED BY <2>1, <2>3, <3>3, <5>1 DEF Enclosed
      <4>3. Enclosed("{", Inner(n, "members"), "}") \subseteq V
        <5>1. \A x \in L : <<"{">> \o x \o <<"}">> \in V
          BY DEF ClosedSets
        <5> QED BY <2>2, <2>3, <3>3, <5>1 DEF Enclosed
      <4> QED BY <4>1, <4>2, <4>3
    <3> QED BY <2>0, <3>1, <3>2, <3>3
  <2>5. Phrases[n].member \subseteq M
    <3>1. CASE n < 3
      BY <3>1, PhrasesAre
    <3>2. CASE n >= 3
      <4>1. Phrases[n].member = Named(Phrases[n - 2].value)
        BY <3>2, PhrasesAre
      <4>2. In(n - 2)
        BY <1>1, <2>0, <3>2
      <4>3. Phrases[n - 2].value \subseteq V
        BY <1>a, <4>2
      <4>4. \A name \in Strings, x \in V : Label(name) \o x \in M
        BY DEF ClosedSets
      <4> QED BY <4>1, <4>3, <4>4, NamedIn
    <3> QED BY <2>0, <3>1, <3>2
  <2>6. Longer(n, "elements", "value") \subseteq E
    <3>1. ASSUME NEW k \in 1 .. n - 2
          PROVE  Listed(Phrases[k]["elements"], Phrases[n - k - 1]["value"]) \subseteq E
      <4>1. In(k) /\ In(n - k - 1)
        BY <1>1, <2>0
      <4>2. Phrases[k]["elements"] \subseteq E /\ Phrases[n - k - 1]["value"] \subseteq V
        BY <1>a, <4>1
      <4>3. \A x \in E, y \in V : x \o Comma \o y \in E
        BY DEF ClosedSets
      <4> QED BY <4>2, <4>3, ListedIn
    <3> QED BY <3>1 DEF Longer
  <2>7. Longer(n, "members", "member") \subseteq L
    <3>1. ASSUME NEW k \in 1 .. n - 2
          PROVE  Listed(Phrases[k]["members"], Phrases[n - k - 1]["member"]) \subseteq L
      <4>1. In(k) /\ In(n - k - 1)
        BY <1>1, <2>0
      <4>2. Phrases[k]["members"] \subseteq L /\ Phrases[n - k - 1]["member"] \subseteq M
        BY <1>a, <4>1
      <4>3. \A x \in L, y \in M : x \o Comma \o y \in L
        BY DEF ClosedSets
      <4> QED BY <4>2, <4>3, ListedIn
    <3> QED BY <3>1 DEF Longer
  <2>8. /\ Phrases[n].elements = Phrases[n].value \cup Longer(n, "elements", "value")
        /\ Phrases[n].members = Phrases[n].member \cup Longer(n, "members", "member")
    BY PhrasesAre
  <2>9. V \subseteq E /\ M \subseteq L
    BY DEF ClosedSets
  <2> QED BY <2>4, <2>5, <2>6, <2>7, <2>8, <2>9 DEF In, PhrasesIn
<1>2. 0 \in T
  <2>1. In(0)
    BY <1>0, <1>1
  <2> QED BY <2>1 DEF T
<1>3. ASSUME NEW n \in T PROVE n + 1 \in T
  <2>0. n \in Nat /\ \A k \in 0 .. n : k <= Longest => In(k)
    BY DEF T
  <2>1. n + 1 <= Longest => In(n + 1)
    <3>1. n + 1 <= Longest => \A k \in 0 .. n : In(k)
      BY <1>0, <2>0
    <3> QED BY <1>0, <1>1, <2>0, <3>1
  <2> QED BY <2>0, <2>1 DEF T
<1>4. T = Nat
  <2>1. T \subseteq Nat
    BY DEF T
  <2> QED BY <1>2, <1>3, <2>1, Induct
<1>5. \A n \in 0 .. Longest : In(n)
  BY <1>0, <1>4 DEF T
<1> QED BY <1>5, <1>a

---------------------------------------------------------------------------
(* Brackets *)

Weight(c) == IF c \in Openers THEN 1 ELSE IF c \in Closers THEN -1 ELSE 0
Net(s) == OpenBefore(s, Len(s) + 1)

\* Two sequences joined, place by place.
LEMMA ConcatPlaces ==
  ASSUME NEW S, NEW s \in Seq(S), NEW t \in Seq(S)
  PROVE  /\ s \o t \in Seq(S) /\ Len(s \o t) = Len(s) + Len(t)
         /\ \A i \in 1 .. Len(s) : (s \o t)[i] = s[i]
         /\ \A i \in 1 .. Len(t) : (s \o t)[Len(s) + i] = t[i]
<1>1. Len(s) \in Nat /\ Len(t) \in Nat
  BY LenProperties
<1> QED BY <1>1, ConcatProperties

\* Token by token.
LEMMA OpenBeforeStep ==
  ASSUME NEW s, NEW i \in Nat \ {0}
  PROVE  /\ OpenBefore(s, 1) = 0 /\ OpenBefore(s, i) \in Int
         /\ OpenBefore(s, i + 1) = OpenBefore(s, i) + Weight(s[i])
<1> DEFINE A(n) == {j \in 1 .. n - 1 : s[j] \in Openers}
           B(n) == {j \in 1 .. n - 1 : s[j] \in Closers}
<1>1. \A n : OpenBefore(s, n) = Cardinality(A(n)) - Cardinality(B(n))
  BY DEF OpenBefore, Openers, Closers
<1>2. A(1) = {} /\ B(1) = {}
  OBVIOUS
<1>3. OpenBefore(s, 1) = 0
  <2>1. Cardinality(A(1)) = 0 /\ Cardinality(B(1)) = 0
    BY <1>2, FS_EmptySet
  <2> HIDE DEF A, B
  <2> QED BY <1>1, <2>1
<1>4. \A n \in Nat \ {0} : IsFiniteSet(A(n)) /\ IsFiniteSet(B(n))
  <2> SUFFICES ASSUME NEW n \in Nat \ {0} PROVE IsFiniteSet(A(n)) /\ IsFiniteSet(B(n))
    OBVIOUS
  <2>1. IsFiniteSet(1 .. n - 1)
    BY FS_Interval
  <2>2. A(n) \in SUBSET (1 .. n - 1) /\ B(n) \in SUBSET (1 .. n - 1)
    OBVIOUS
  <2> QED BY <2>1, <2>2, FS_Subset
<1>5. A(i + 1) = IF s[i] \in Openers THEN A(i) \cup {i} ELSE A(i)
  OBVIOUS
<1>6. B(i + 1) = IF s[i] \in Closers THEN B(i) \cup {i} ELSE B(i)
  OBVIOUS
<1>7. i \notin A(i) /\ i \notin B(i)
  OBVIOUS
<1> HIDE DEF A, B
<1>8. Cardinality(A(i)) \in Nat /\ Cardinality(B(i)) \in Nat
  BY <1>4, FS_CardinalityType
<1>9. /\ Cardinality(A(i) \cup {i}) = Cardinality(A(i)) + 1
      /\ Cardinality(B(i) \cup {i}) = Cardinality(B(i)) + 1
  BY <1>4, <1>7, FS_AddElement
<1>10. ~(s[i] \in Openers /\ s[i] \in Closers)
  BY DEF Openers, Closers
<1>11. OpenBefore(s, i + 1) = OpenBefore(s, i) + Weight(s[i])
  <2>1. /\ OpenBefore(s, i + 1) = Cardinality(A(i + 1)) - Cardinality(B(i + 1))
        /\ OpenBefore(s, i) = Cardinality(A(i)) - Cardinality(B(i))
    BY <1>1
  <2>2. CASE s[i] \in Openers
    <3>1. A(i + 1) = A(i) \cup {i} /\ B(i + 1) = B(i) /\ Weight(s[i]) = 1
      BY <1>5, <1>6, <1>10, <2>2 DEF Weight
    <3>2. Cardinality(A(i + 1)) = Cardinality(A(i)) + 1 /\ Cardinality(B(i + 1)) = Cardinality(B(i))
      BY <1>9, <3>1
    <3>3. Weight(s[i]) = 1
      BY <3>1
    <3> QED BY <1>8, <2>1, <3>2, <3>3
  <2>3. CASE s[i] \in Closers
    <3>1. A(i + 1) = A(i) /\ B(i + 1) = B(i) \cup {i} /\ Weight(s[i]) = -1
      BY <1>5, <1>6, <1>10, <2>3 DEF Weight
    <3>2. Cardinality(A(i + 1)) = Cardinality(A(i)) /\ Cardinality(B(i + 1)) = Cardinality(B(i)) + 1
      BY <1>9, <3>1
    <3>3. Weight(s[i]) = -1
      BY <3>1
    <3> QED BY <1>8, <2>1, <3>2, <3>3
  <2>4. CASE s[i] \notin Openers /\ s[i] \notin Closers
    BY <1>5, <1>6, <1>8, <2>1, <2>4 DEF Weight
  <2> QED BY <2>2, <2>3, <2>4
<1> QED BY <1>1, <1>3, <1>8, <1>11

\* The same tokens open the same brackets, wherever they stand.
LEMMA OpenBeforeShift ==
  ASSUME NEW s, NEW t, NEW a \in Nat, NEW n \in Nat, \A j \in 1 .. n : t[a + j] = s[j]
  PROVE  \A i \in 1 .. n + 1 : OpenBefore(t, a + i) = OpenBefore(t, a + 1) + OpenBefore(s, i)
<1> DEFINE T == {k \in Nat : k <= n => OpenBefore(t, a + (k + 1)) = OpenBefore(t, a + 1) + OpenBefore(s, k + 1)}
<1>1. 0 \in T
  <2>1. OpenBefore(t, a + 1) \in Int /\ OpenBefore(s, 1) = 0
    BY OpenBeforeStep
  <2> QED BY <2>1
<1>2. ASSUME NEW k \in T PROVE k + 1 \in T
  <2> SUFFICES ASSUME k + 1 <= n
               PROVE  OpenBefore(t, a + (k + 1 + 1)) = OpenBefore(t, a + 1) + OpenBefore(s, k + 1 + 1)
    OBVIOUS
  <2>1. PICK j \in Nat \ {0} : j = k + 1 /\ j \in 1 .. n
    OBVIOUS
  <2>2. OpenBefore(t, a + j) = OpenBefore(t, a + 1) + OpenBefore(s, j)
    BY <2>1
  <2>3. t[a + j] = s[j]
    BY <2>1
  <2>4. OpenBefore(s, j) \in Int /\ OpenBefore(s, j + 1) = OpenBefore(s, j) + Weight(s[j])
    BY OpenBeforeStep
  <2>5. PICK m \in Nat \ {0} : m = a + j
    OBVIOUS
  <2>6. OpenBefore(t, m + 1) = OpenBefore(t, m) + Weight(t[m])
    BY OpenBeforeStep
  <2>7. OpenBefore(t, a + 1) \in Int
    BY OpenBeforeStep
  <2>8. Weight(s[j]) \in Int
    BY DEF Weight
  <2>9. OpenBefore(t, m + 1) = OpenBefore(t, a + 1) + OpenBefore(s, j + 1)
    BY <2>2, <2>3, <2>4, <2>5, <2>6, <2>7, <2>8
  <2>10. a + (k + 1 + 1) = m + 1 /\ k + 1 + 1 = j + 1
    BY <2>1, <2>5
  <2> QED BY <2>9, <2>10
<1>3. T = Nat
  <2>1. T \subseteq Nat
    OBVIOUS
  <2> HIDE DEF T
  <2> QED BY <1>1, <1>2, <2>1, Induct
<1>4. ASSUME NEW i \in 1 .. n + 1
      PROVE  OpenBefore(t, a + i) = OpenBefore(t, a + 1) + OpenBefore(s, i)
  <2>1. PICK k \in Nat : k = i - 1 /\ k <= n
    OBVIOUS
  <2>2. k \in T
    BY <1>3
  <2>3. OpenBefore(t, a + (k + 1)) = OpenBefore(t, a + 1) + OpenBefore(s, k + 1)
    BY <2>1, <2>2
  <2>4. k + 1 = i
    BY <2>1
  <2> QED BY <2>3, <2>4
<1> QED BY <1>4

\* At the beginning of both.
LEMMA OpenBeforeSame ==
  ASSUME NEW s, NEW t, NEW n \in Nat, \A j \in 1 .. n : t[j] = s[j]
  PROVE  \A i \in 1 .. n + 1 : OpenBefore(t, i) = OpenBefore(s, i)
<1>0. PICK z \in Nat : z = 0
  OBVIOUS
<1>1. \A j \in 1 .. n : t[z + j] = s[j]
  BY <1>0
<1>2. \A i \in 1 .. n + 1 : OpenBefore(t, z + i) = OpenBefore(t, z + 1) + OpenBefore(s, i)
  BY <1>1, OpenBeforeShift
<1>3. OpenBefore(t, 1) = 0 /\ \A i \in 1 .. n + 1 : OpenBefore(s, i) \in Int
  BY OpenBeforeStep
<1> QED BY <1>0, <1>2, <1>3

\* In a sequence that is two joined.
LEMMA OpenBeforeConcat ==
  ASSUME NEW S, NEW x \in Seq(S), NEW y \in Seq(S)
  PROVE  /\ \A i \in 1 .. Len(x) + 1 : OpenBefore(x \o y, i) = OpenBefore(x, i)
         /\ \A i \in 1 .. Len(y) + 1 : OpenBefore(x \o y, Len(x) + i) = Net(x) + OpenBefore(y, i)
         /\ Net(x \o y) = Net(x) + Net(y)
<1>1. PICK z : z = x \o y
  OBVIOUS
<1>2. PICK m \in Nat, n \in Nat : m = Len(x) /\ n = Len(y)
  BY LenProperties
<1>3. /\ Len(z) = m + n /\ \A i \in 1 .. m : z[i] = x[i]
      /\ \A i \in 1 .. n : z[m + i] = y[i]
  BY <1>1, <1>2, ConcatPlaces
<1>4. \A i \in 1 .. m + 1 : OpenBefore(z, i) = OpenBefore(x, i)
  BY <1>3, OpenBeforeSame
<1>5. \A i \in 1 .. n + 1 : OpenBefore(z, m + i) = OpenBefore(z, m + 1) + OpenBefore(y, i)
  <2>1. \A i \in 1 .. n : z[m + i] = y[i]
    BY <1>3
  <2> QED BY <2>1, OpenBeforeShift, SMTT(30)
<1>6. OpenBefore(z, m + 1) = Net(x)
  BY <1>2, <1>4 DEF Net
<1>7. Net(z) = Net(x) + Net(y)
  <2>1. n + 1 \in 1 .. n + 1 /\ m + (n + 1) = Len(z) + 1
    BY <1>3
  <2>2. OpenBefore(z, m + (n + 1)) = OpenBefore(z, m + 1) + OpenBefore(y, n + 1)
    BY <1>5, <2>1
  <2> QED BY <1>2, <1>6, <2>1, <2>2 DEF Net
<1> QED BY <1>1, <1>2, <1>4, <1>5, <1>6, <1>7

\* One token.
LEMMA NetOne ==
  ASSUME NEW c
  PROVE  Net(<<c>>) = Weight(c) /\ Weight(c) \in {-1, 0, 1} /\ OpenBefore(<<c>>, 1) = 0
<1>1. PICK x : x = <<c>>
  OBVIOUS
<1>2. Len(x) = 1 /\ x[1] = c
  BY <1>1
<1>3. OpenBefore(x, 1) = 0 /\ OpenBefore(x, 1 + 1) = OpenBefore(x, 1) + Weight(x[1])
  BY OpenBeforeStep
<1>4. Weight(c) \in {-1, 0, 1}
  BY DEF Weight
<1> QED BY <1>1, <1>2, <1>3, <1>4 DEF Net

\* One token more.
LEMMA NetAppend ==
  ASSUME NEW S, NEW x \in Seq(S), NEW c \in S
  PROVE  /\ Net(Append(x, c)) = Net(x) + Weight(c) /\ Net(x) \in Int
         /\ \A i \in 1 .. Len(x) + 1 : OpenBefore(Append(x, c), i) = OpenBefore(x, i)
<1>1. PICK y : y = <<c>>
  OBVIOUS
<1>2. y \in Seq(S) /\ Append(x, c) = x \o y
  BY <1>1, AppendIsConcat
<1>3. Net(x \o y) = Net(x) + Net(y) /\ \A i \in 1 .. Len(x) + 1 : OpenBefore(x \o y, i) = OpenBefore(x, i)
  BY <1>2, OpenBeforeConcat
<1>4. Net(x) \in Int
  <2>1. Len(x) + 1 \in Nat \ {0}
    BY LenProperties
  <2> QED BY <2>1, OpenBeforeStep DEF Net
<1> QED BY <1>1, <1>2, <1>3, <1>4, NetOne

---------------------------------------------------------------------------
(* What the limits of Documents say of a part of a document: it begins where *)
(* b brackets are open.                                                      *)

Fits(x, b) == \A i \in 1 .. Len(x) : x[i] \notin Closers => b + OpenBefore(x, i) <= MaxDepth

Chosen(x, b) ==
  \A i \in 1 .. Len(x) - 2 :
    x[i] = "analysis" /\ b + OpenBefore(x, i) = 1 /\ x[i + 1] = ":" => x[i + 2] \in Strings

\* Both parts of what keeps the limits keep them.
LEMMA PartsKeepLimits ==
  ASSUME NEW x \in Text, NEW y \in Text, NEW b \in Int,
         Fits(x \o y, b), Chosen(x \o y, b)
  PROVE  /\ Fits(x, b) /\ Chosen(x, b)
         /\ Fits(y, b + Net(x)) /\ Chosen(y, b + Net(x))
<1>1. PICK z : z = x \o y
  OBVIOUS
<1>2. PICK m \in Nat, n \in Nat : m = Len(x) /\ n = Len(y)
  BY LenProperties DEF Text
<1>3. /\ Len(z) = m + n /\ \A i \in 1 .. m : z[i] = x[i]
      /\ \A i \in 1 .. n : z[m + i] = y[i]
  BY <1>1, <1>2, ConcatPlaces DEF Text
<1>4. /\ \A i \in 1 .. m + 1 : OpenBefore(z, i) = OpenBefore(x, i)
      /\ \A i \in 1 .. n + 1 : OpenBefore(z, m + i) = Net(x) + OpenBefore(y, i)
  BY <1>1, <1>2, OpenBeforeConcat DEF Text
<1>5. /\ \A i \in 1 .. m + n : z[i] \notin Closers => b + OpenBefore(z, i) <= MaxDepth
      /\ \A i \in 1 .. m + n - 2 :
           z[i] = "analysis" /\ b + OpenBefore(z, i) = 1 /\ z[i + 1] = ":" => z[i + 2] \in Strings
  BY <1>1, <1>3 DEF Fits, Chosen
<1>6. Net(x) \in Int /\ \A i \in 1 .. n : OpenBefore(y, i) \in Int
  BY <1>2, OpenBeforeStep DEF Net
<1>7. Fits(x, b)
  BY <1>2, <1>3, <1>4, <1>5 DEF Fits
<1>8. Chosen(x, b)
  <2> SUFFICES ASSUME NEW i \in 1 .. m - 2, x[i] = "analysis", b + OpenBefore(x, i) = 1, x[i + 1] = ":"
               PROVE  x[i + 2] \in Strings
    BY <1>2 DEF Chosen
  <2>1. z[i] = x[i] /\ z[i + 1] = x[i + 1] /\ z[i + 2] = x[i + 2] /\ i \in 1 .. m + n - 2
    BY <1>3
  <2>2. OpenBefore(z, i) = OpenBefore(x, i)
    BY <1>4
  <2> QED BY <1>5, <2>1, <2>2
<1>9. Fits(y, b + Net(x))
  <2> SUFFICES ASSUME NEW i \in 1 .. n, y[i] \notin Closers
               PROVE  b + Net(x) + OpenBefore(y, i) <= MaxDepth
    BY <1>2 DEF Fits
  <2>1. z[m + i] = y[i] /\ m + i \in 1 .. m + n
    BY <1>3
  <2>2. OpenBefore(z, m + i) = Net(x) + OpenBefore(y, i)
    BY <1>4
  <2>3. b + OpenBefore(z, m + i) <= MaxDepth
    BY <1>5, <2>1
  <2> QED BY <1>6, <2>2, <2>3
<1>10. Chosen(y, b + Net(x))
  <2> SUFFICES ASSUME NEW i \in 1 .. n - 2, y[i] = "analysis", b + Net(x) + OpenBefore(y, i) = 1, y[i + 1] = ":"
               PROVE  y[i + 2] \in Strings
    BY <1>2 DEF Chosen
  <2>0. PICK j \in Nat : j = m + i
    OBVIOUS
  <2>1. j \in 1 .. m + n - 2 /\ j + 1 = m + (i + 1) /\ j + 2 = m + (i + 2)
    BY <2>0
  <2>2. z[j] = y[i] /\ z[j + 1] = y[i + 1] /\ z[j + 2] = y[i + 2]
    BY <1>3, <2>0, <2>1
  <2>3. OpenBefore(z, j) = Net(x) + OpenBefore(y, i)
    BY <1>4, <2>0
  <2>4. b + OpenBefore(z, j) = 1
    BY <1>6, <2>3
  <2> QED BY <1>5, <2>1, <2>2, <2>4
<1> QED BY <1>7, <1>8, <1>9, <1>10

---------------------------------------------------------------------------
(* The decoder on classes *)

At(p, s, w) == [place |-> p, stack |-> s, wanted |-> w]
Opened(q, c) == At(IF c = "{" THEN "members" ELSE "elements", Append(q.stack, c), q.wanted)
Closed(q) == At(IF Len(q.stack) = 1 THEN "end" ELSE "delimiter", Front(q.stack), q.wanted)
Moved(q, p) == At(p, q.stack, q.wanted)

Move(q, c) ==
  IF q.place = "start" THEN IF c = "{" THEN Opened(q, c) ELSE Moved(q, "error")
  ELSE IF q.place \in {"members", "name"} THEN
    IF q.place = "members" /\ c = "}" THEN Closed(q)
    ELSE IF c \notin Strings THEN Moved(q, "error")
    ELSE At("colon", q.stack, Len(q.stack) = 1 /\ c = "analysis")
  ELSE IF q.place = "colon" THEN
    Moved(q, IF c # ":" THEN "error" ELSE IF q.wanted THEN "analysis" ELSE "value")
  ELSE IF q.place = "analysis" THEN
    IF c \in Strings THEN At("delimiter", q.stack, FALSE) ELSE Moved(q, "error")
  ELSE IF q.place \in {"value", "elements"} THEN
    IF q.place = "elements" /\ c = "]" THEN Closed(q)
    ELSE IF Len(q.stack) > MaxDepth THEN Moved(q, "error")
    ELSE IF c \in Openers THEN Opened(q, c)
    ELSE Moved(q, IF c \in Scalars THEN "delimiter" ELSE "error")
  ELSE IF q.place = "delimiter" THEN
    IF c = (IF Last(q.stack) = "{" THEN "}" ELSE "]") THEN Closed(q)
    ELSE IF c # "," THEN Moved(q, "error")
    ELSE Moved(q, IF Last(q.stack) = "{" THEN "name" ELSE "value")
  ELSE IF q.place = "end" THEN Moved(q, IF c = "EOF" THEN "ok" ELSE "error")
  ELSE q

\* From p the decoder comes to q by reading x.
ReadsAs(R, p, x, q) ==
  R[0] = p /\ R[Len(x)] = q /\ \A i \in 1 .. Len(x) : R[i] = Move(R[i - 1], x[i])
Reads(p, x, q) == \E R : ReadsAs(R, p, x, q)

\* Nothing, and one token.
LEMMA ReadsOne ==
  ASSUME NEW p, NEW c
  PROVE  Reads(p, <<>>, p) /\ Reads(p, <<c>>, Move(p, c))
<1>1. Reads(p, <<>>, p)
  <2>1. PICK R : R = [i \in {0} |-> p]
    OBVIOUS
  <2>2. ReadsAs(R, p, <<>>, p)
    BY <2>1 DEF ReadsAs
  <2> QED BY <2>2 DEF Reads
<1>2. Reads(p, <<c>>, Move(p, c))
  <2>1. PICK q : q = Move(p, c)
    OBVIOUS
  <2>2. PICK x : x = <<c>>
    OBVIOUS
  <2>3. Len(x) = 1 /\ x[1] = c
    BY <2>2
  <2>4. PICK R : R = [i \in {0, 1} |-> IF i = 0 THEN p ELSE q]
    OBVIOUS
  <2>5. R[0] = p /\ R[1] = q
    BY <2>4
  <2>6. ReadsAs(R, p, x, q)
    BY <2>1, <2>3, <2>5 DEF ReadsAs
  <2> QED BY <2>1, <2>2, <2>6 DEF Reads
<1> QED BY <1>1, <1>2

\* One sequence after the other.
LEMMA ReadsConcat ==
  ASSUME NEW p, NEW q, NEW r, NEW x \in Text, NEW y \in Text, Reads(p, x, q), Reads(q, y, r)
  PROVE  Reads(p, x \o y, r)
<1>1. PICK A : ReadsAs(A, p, x, q)
  BY DEF Reads
<1>2. PICK B : ReadsAs(B, q, y, r)
  BY DEF Reads
<1>3. PICK z : z = x \o y
  OBVIOUS
<1>4. PICK m \in Nat, n \in Nat : m = Len(x) /\ n = Len(y)
  BY LenProperties DEF Text
<1>5. /\ Len(z) = m + n /\ \A i \in 1 .. m : z[i] = x[i]
      /\ \A i \in 1 .. n : z[m + i] = y[i]
  BY <1>3, <1>4, ConcatPlaces DEF Text
<1>6. PICK C : C = [i \in 0 .. m + n |-> IF i <= m THEN A[i] ELSE B[i - m]]
  OBVIOUS
<1>7. /\ A[0] = p /\ A[m] = q /\ \A i \in 1 .. m : A[i] = Move(A[i - 1], x[i])
      /\ B[0] = q /\ B[n] = r /\ \A i \in 1 .. n : B[i] = Move(B[i - 1], y[i])
  BY <1>1, <1>2, <1>4 DEF ReadsAs
<1>8. C[0] = p /\ C[m + n] = r
  <2>1. C[0] = p
    BY <1>6, <1>7
  <2>2. CASE n = 0
    BY <1>6, <1>7, <2>2
  <2>3. CASE n > 0
    <3>1. m + n > m /\ m + n - m = n
      BY <2>3
    <3> QED BY <1>6, <1>7, <3>1
  <2> QED BY <2>1, <2>2, <2>3
<1>9. ASSUME NEW i \in 1 .. m + n PROVE C[i] = Move(C[i - 1], z[i])
  <2>1. CASE i <= m
    <3>1. C[i] = A[i] /\ C[i - 1] = A[i - 1] /\ i \in 1 .. m
      BY <1>6, <2>1
    <3> QED BY <1>5, <1>7, <3>1
  <2>2. CASE i > m
    <3>1. PICK j \in 1 .. n : i = m + j
      <4>1. i - m \in 1 .. n /\ i = m + (i - m)
        BY <2>2
      <4> QED BY <4>1
    <3>2. C[i] = B[j]
      <4>1. ~(i <= m) /\ i - m = j
        BY <2>2, <3>1
      <4> QED BY <1>6, <4>1
    <3>3. C[i - 1] = B[j - 1]
      <4>1. CASE j = 1
        <5>1. i - 1 = m
          BY <3>1, <4>1
        <5> QED BY <1>6, <1>7, <4>1, <5>1
      <4>2. CASE j > 1
        <5>1. ~(i - 1 <= m) /\ i - 1 - m = j - 1 /\ i - 1 \in 0 .. m + n
          BY <3>1, <4>2
        <5> QED BY <1>6, <5>1
      <4> QED BY <4>1, <4>2
    <3>4. z[i] = y[j]
      BY <1>5, <3>1
    <3> QED BY <1>7, <3>2, <3>3, <3>4
  <2> QED BY <2>1, <2>2
<1>10. ReadsAs(C, p, z, r)
  BY <1>5, <1>8, <1>9 DEF ReadsAs
<1> QED BY <1>3, <1>10 DEF Reads

\* The decoder has no choice.
LEMMA ReadsSame ==
  ASSUME NEW p, NEW q, NEW r, NEW x \in Text, Reads(p, x, q), Reads(p, x, r)
  PROVE  q = r
<1>1. PICK A : ReadsAs(A, p, x, q)
  BY DEF Reads
<1>2. PICK B : ReadsAs(B, p, x, r)
  BY DEF Reads
<1>3. PICK n \in Nat : n = Len(x)
  BY LenProperties DEF Text
<1>4. /\ A[0] = p /\ A[n] = q /\ \A i \in 1 .. n : A[i] = Move(A[i - 1], x[i])
      /\ B[0] = p /\ B[n] = r /\ \A i \in 1 .. n : B[i] = Move(B[i - 1], x[i])
  BY <1>1, <1>2, <1>3 DEF ReadsAs
<1> DEFINE T == {k \in Nat : k <= n => A[k] = B[k]}
<1>5. 0 \in T
  BY <1>4
<1>6. ASSUME NEW k \in T PROVE k + 1 \in T
  <2> SUFFICES ASSUME k + 1 <= n PROVE A[k + 1] = B[k + 1]
    OBVIOUS
  <2>1. A[k] = B[k] /\ k + 1 \in 1 .. n /\ k + 1 - 1 = k
    OBVIOUS
  <2>2. A[k + 1] = Move(A[k + 1 - 1], x[k + 1]) /\ B[k + 1] = Move(B[k + 1 - 1], x[k + 1])
    BY <1>4, <2>1
  <2> QED BY <2>1, <2>2
<1>7. T = Nat
  <2>1. T \subseteq Nat
    OBVIOUS
  <2> HIDE DEF T
  <2> QED BY <1>5, <1>6, <2>1, Induct
<1>8. n \in T
  BY <1>7
<1> QED BY <1>4, <1>8

\* What is read has beginnings, and none of them fails unless all of it does.
LEMMA ReadsBeginning ==
  ASSUME NEW p, NEW q, NEW x \in Text, NEW n \in 0 .. Len(x), Reads(p, x, q), q.place # "error"
  PROVE  \E r : Reads(p, SubSeq(x, 1, n), r) /\ r.place # "error"
<1>1. PICK A : ReadsAs(A, p, x, q)
  BY DEF Reads
<1>2. PICK m \in Nat : m = Len(x) /\ n \in Nat /\ n <= m
  BY LenProperties DEF Text
<1>3. A[0] = p /\ A[m] = q /\ \A i \in 1 .. m : A[i] = Move(A[i - 1], x[i])
  BY <1>1, <1>2 DEF ReadsAs
<1>4. PICK y : y = SubSeq(x, 1, n)
  OBVIOUS
<1>5. Len(y) = n /\ \A i \in 1 .. n : y[i] = x[i]
  BY <1>4, CutInTwo DEF Text
<1>6. ReadsAs(A, p, y, A[n])
  BY <1>2, <1>3, <1>5 DEF ReadsAs
<1>7. \A s, c : s.place = "error" => Move(s, c) = s
  BY DEF Move
<1>8. A[n].place # "error"
  <2> SUFFICES ASSUME A[n].place = "error" PROVE FALSE
    OBVIOUS
  <2> DEFINE T == {k \in Nat : n + k <= m => A[n + k].place = "error"}
  <2>1. 0 \in T
    BY <1>2
  <2>2. ASSUME NEW k \in T PROVE k + 1 \in T
    <3> SUFFICES ASSUME n + (k + 1) <= m PROVE A[n + (k + 1)].place = "error"
      OBVIOUS
    <3>1. A[n + k].place = "error" /\ n + (k + 1) \in 1 .. m /\ n + (k + 1) - 1 = n + k
      BY <1>2
    <3>2. A[n + (k + 1)] = Move(A[n + (k + 1) - 1], x[n + (k + 1)])
      BY <1>3, <3>1
    <3>3. A[n + (k + 1)] = Move(A[n + k], x[n + (k + 1)])
      BY <3>1, <3>2
    <3> QED BY <1>7, <3>1, <3>3
  <2>3. T = Nat
    <3>1. T \subseteq Nat
      OBVIOUS
    <3> HIDE DEF T
    <3> QED BY <2>1, <2>2, <3>1, Induct
  <2>4. PICK k \in Nat : n + k = m
    <3>1. m - n \in Nat /\ n + (m - n) = m
      BY <1>2
    <3> QED BY <3>1
  <2>5. k \in T
    BY <2>3
  <2>6. n + k <= m
    BY <1>2, <2>4
  <2>7. A[n + k].place = "error"
    BY <2>5, <2>6
  <2> QED BY <1>3, <2>4, <2>7
<1> QED BY <1>4, <1>6, <1>8 DEF Reads

---------------------------------------------------------------------------
(* Every document is read to its end *)

Stacks == Seq(Openers)
CloserOf(o) == IF o = "{" THEN "}" ELSE "]"
FirstOf(o) == IF o = "{" THEN "members" ELSE "elements"

\* With brackets open, x is read as a whole, unless it breaks a limit.
Passes(x, p, s) ==
  Fits(x, Len(s)) /\ Chosen(x, Len(s)) => Reads(At(p, s, FALSE), x, At("delimiter", s, FALSE))

\* Pushing and popping.
LEMMA PushPop ==
  ASSUME NEW s \in Stacks, NEW o \in Openers
  PROVE  /\ Append(s, o) \in Stacks /\ Append(s, o) # <<>> /\ Len(s) \in Nat
         /\ Len(Append(s, o)) = Len(s) + 1 /\ (s # <<>> => Len(s) >= 1)
         /\ Last(Append(s, o)) = o /\ Front(Append(s, o)) = s
<1>1. PICK t : t = Append(s, o)
  OBVIOUS
<1>2. PICK n \in Nat : n = Len(s)
  BY LenProperties DEF Stacks
<1>3. /\ t \in Seq(Openers) /\ Len(t) = n + 1 /\ t # <<>>
      /\ \A i \in 1 .. n : t[i] = s[i]
      /\ t[n + 1] = o
  BY <1>1, <1>2, AppendProperties DEF Stacks
<1>4. Last(t) = o
  BY <1>3 DEF Last
<1>5. SubSeq(t, 1, n) = s
  <2>1. n \in 0 .. Len(t)
    BY <1>3
  <2>2. /\ SubSeq(t, 1, n) \in Seq(Openers) /\ Len(SubSeq(t, 1, n)) = n
        /\ \A i \in 1 .. n : SubSeq(t, 1, n)[i] = t[i]
    BY <1>3, <2>1, CutInTwo
  <2> QED BY <1>2, <1>3, <2>2, SeqEqual DEF Stacks
<1>6. Front(t) = s
  <2>1. Len(t) - 1 = n
    BY <1>3
  <2> QED BY <1>5, <2>1 DEF Front
<1>7. s # <<>> => Len(s) >= 1
  BY <1>2, EmptySeq DEF Stacks
<1> QED BY <1>1, <1>2, <1>3, <1>4, <1>6, <1>7 DEF Stacks

\* A bracket may open here.
MayOpen(p, s, o) ==
  \/ s = <<>> /\ p = "start" /\ o = "{"
  \/ s # <<>> /\ p \in {"value", "elements"} /\ Len(s) <= MaxDepth

\* The steps of the decoder that documents take.
LEMMA MoveOpen ==
  ASSUME NEW s \in Stacks, NEW o \in Openers, NEW p, MayOpen(p, s, o)
  PROVE  Move(At(p, s, FALSE), o) = At(FirstOf(o), Append(s, o), FALSE)
<1>1. Len(s) \in Nat /\ MaxDepth \in Nat
  BY PushPop, HolmesAssumption
<1>2. CASE s = <<>>
  BY <1>2 DEF Move, Opened, At, FirstOf, MayOpen
<1>3. CASE s # <<>>
  <2>0. p \in {"value", "elements"} /\ Len(s) <= MaxDepth
    BY <1>3 DEF MayOpen
  <2>1. ~(Len(s) > MaxDepth) /\ o # "]"
    <3>1. ~(Len(s) > MaxDepth)
      BY <1>1, <2>0
    <3>2. o # "]"
      BY DEF Openers
    <3> QED BY <3>1, <3>2
  <2>2. CASE p = "value"
    BY <1>3, <2>1, <2>2 DEF Move, Opened, At, FirstOf
  <2>3. CASE p = "elements"
    BY <1>3, <2>1, <2>3 DEF Move, Opened, At, FirstOf
  <2> QED BY <2>0, <2>2, <2>3
<1> QED BY <1>2, <1>3

\* A bracket that closes.
LEMMA MoveClose ==
  ASSUME NEW s \in Stacks, NEW o \in Openers, NEW p \in {"delimiter", FirstOf(o)}
  PROVE  Move(At(p, Append(s, o), FALSE), CloserOf(o))
           = At(IF s = <<>> THEN "end" ELSE "delimiter", s, FALSE)
<1>1. PICK t : t = Append(s, o)
  OBVIOUS
<1>2. Last(t) = o /\ Front(t) = s /\ (Len(t) = 1 <=> s = <<>>)
  <2>1. s = <<>> => Len(s) = 0
    OBVIOUS
  <2> QED BY <1>1, <2>1, PushPop
<1>3. o = "{" \/ o = "["
  BY DEF Openers
<1>4. Move(At(p, t, FALSE), CloserOf(o)) = Closed(At(p, t, FALSE))
  <2>1. CASE o = "{" /\ p = "members"
    BY <2>1 DEF Move, At, CloserOf
  <2>2. CASE o = "[" /\ p = "elements"
    BY <2>2 DEF Move, At, CloserOf
  <2>3. CASE p = "delimiter"
    BY <1>2, <2>3 DEF Move, At, CloserOf
  <2> QED BY <1>3, <2>1, <2>2, <2>3 DEF FirstOf
<1>5. Closed(At(p, t, FALSE)) = At(IF s = <<>> THEN "end" ELSE "delimiter", s, FALSE)
  BY <1>2 DEF Closed, At
<1> QED BY <1>1, <1>4, <1>5

\* A scalar.
LEMMA MoveScalar ==
  ASSUME NEW s \in Stacks, Len(s) <= MaxDepth, NEW p \in {"value", "elements"}, NEW c \in Scalars
  PROVE  Move(At(p, s, FALSE), c) = At("delimiter", s, FALSE)
<1>a. Len(s) \in Nat /\ MaxDepth \in Nat
  BY HolmesAssumption, LenProperties DEF Stacks
<1>1. ~(Len(s) > MaxDepth) /\ c # "]" /\ c \notin Openers
  <2>1. ~(Len(s) > MaxDepth)
    BY <1>a
  <2>2. c # "]" /\ c \notin Openers
    BY DEF Scalars, Openers
  <2> QED BY <2>1, <2>2
<1>2. CASE p = "value"
  BY <1>1, <1>2 DEF Move, Moved, At
<1>3. CASE p = "elements"
  BY <1>1, <1>3 DEF Move, Moved, At
<1> QED BY <1>2, <1>3

\* A name.
LEMMA MoveName ==
  ASSUME NEW s \in Stacks, NEW p \in {"members", "name"}, NEW c \in Strings
  PROVE  /\ Move(At(p, s, FALSE), c) = At("colon", s, Len(s) = 1 /\ c = "analysis")
         /\ \A w \in BOOLEAN : Move(At("colon", s, w), ":") = At(IF w THEN "analysis" ELSE "value", s, w)
         /\ \A w \in BOOLEAN : Move(At("analysis", s, w), c) = At("delimiter", s, FALSE)
<1>1. c # "}"
  BY DEF Strings
<1>2. Move(At(p, s, FALSE), c) = At("colon", s, Len(s) = 1 /\ c = "analysis")
  <2>1. CASE p = "members"
    BY <1>1, <2>1 DEF Move, At
  <2>2. CASE p = "name"
    BY <1>1, <2>2 DEF Move, At
  <2> QED BY <2>1, <2>2
<1>3. \A w \in BOOLEAN : Move(At("colon", s, w), ":") = At(IF w THEN "analysis" ELSE "value", s, w)
  BY DEF Move, Moved, At
<1>4. \A w \in BOOLEAN : Move(At("analysis", s, w), c) = At("delimiter", s, FALSE)
  BY DEF Move, At
<1> QED BY <1>2, <1>3, <1>4

\* A comma.
LEMMA MoveComma ==
  ASSUME NEW s \in Stacks
  PROVE  Move(At("delimiter", s, FALSE), ",") = At(IF Last(s) = "{" THEN "name" ELSE "value", s, FALSE)
BY DEF Move, Moved, At

\* Sequences of classes.
LEMMA TextConcat ==
  ASSUME NEW x \in Text, NEW y \in Text
  PROVE  /\ x \o y \in Text /\ Len(x \o y) = Len(x) + Len(y) /\ Len(x) \in Nat /\ Len(y) \in Nat
         /\ \A i \in 1 .. Len(x) : (x \o y)[i] = x[i]
         /\ \A i \in 1 .. Len(y) : (x \o y)[Len(x) + i] = y[i]
         /\ Net(x \o y) = Net(x) + Net(y) /\ Net(x) \in Int /\ Net(y) \in Int
<1>1. Len(x) \in Nat /\ Len(y) \in Nat
  BY LenProperties DEF Text
<1>2. Net(x) \in Int /\ Net(y) \in Int
  BY <1>1, OpenBeforeStep DEF Net
<1> QED BY <1>1, <1>2, ConcatPlaces, OpenBeforeConcat DEF Text

\* A text of one token.
LEMMA OneToken ==
  ASSUME NEW c \in Classified
  PROVE  <<c>> \in Text /\ Len(<<c>>) = 1 /\ <<c>>[1] = c
BY DEF Text

\* A value that keeps the depth limit begins within it.
LEMMA FirstFits ==
  ASSUME NEW x \in Text, Len(x) >= 1, x[1] \notin Closers, NEW b \in Int, Fits(x, b)
  PROVE  b <= MaxDepth
<1>1. 1 \in 1 .. Len(x)
  BY LenProperties DEF Text
<1>2. b + OpenBefore(x, 1) <= MaxDepth
  BY <1>1 DEF Fits
<1>3. OpenBefore(x, 1) = 0
  BY OpenBeforeStep
<1> QED BY <1>2, <1>3, HolmesAssumption

\* What is between brackets is read with the bracket on the stack.
LEMMA BracketsRead ==
  ASSUME NEW o \in Openers, NEW x \in Text, Net(x) = 0, NEW s \in Stacks, NEW p,
         MayOpen(p, s, o),
         x = <<>> \/ Passes(x, FirstOf(o), Append(s, o)),
         NEW a, a = <<o>>, NEW c, c = <<CloserOf(o)>>,
         Fits(a \o x \o c, Len(s)), Chosen(a \o x \o c, Len(s))
  PROVE  Reads(At(p, s, FALSE), a \o x \o c, At(IF s = <<>> THEN "end" ELSE "delimiter", s, FALSE))
<1> DEFINE P == At(p, s, FALSE)
           Q == At(FirstOf(o), Append(s, o), FALSE)
           D == At("delimiter", Append(s, o), FALSE)
           R == At(IF s = <<>> THEN "end" ELSE "delimiter", s, FALSE)
<1>1. /\ a \in Text /\ c \in Text /\ Net(a) = 1
  <2>1. o \in Classified /\ CloserOf(o) \in Classified
    BY DEF Openers, CloserOf, Classified, Marks
  <2>2. Net(a) = Weight(o)
    BY NetOne
  <2> QED BY <2>1, <2>2, OneToken DEF Weight
<1>2. a \o x \in Text
  BY <1>1, TextConcat
<1>3. Fits(x, Len(s) + 1) /\ Chosen(x, Len(s) + 1)
  <2>1. Len(s) \in Int
    BY PushPop
  <2>2. Fits(a \o x, Len(s)) /\ Chosen(a \o x, Len(s))
    BY <1>1, <1>2, <2>1, PartsKeepLimits
  <2>3. Fits(x, Len(s) + Net(a)) /\ Chosen(x, Len(s) + Net(a))
    BY <1>1, <2>1, <2>2, PartsKeepLimits
  <2> QED BY <1>1, <2>3
<1>4. Reads(P, a, Q)
  <2>1. Move(P, o) = Q
    BY MoveOpen
  <2>2. Reads(P, <<o>>, Move(P, o))
    BY ReadsOne
  <2> QED BY <2>1, <2>2
<1>5. Reads(Q, c, R)
  <2>1. Move(Q, CloserOf(o)) = R
    BY MoveClose
  <2>2. Reads(Q, <<CloserOf(o)>>, Move(Q, CloserOf(o)))
    BY ReadsOne
  <2> QED BY <2>1, <2>2
<1>6. Reads(D, c, R)
  <2>1. Move(D, CloserOf(o)) = R
    BY MoveClose
  <2>2. Reads(D, <<CloserOf(o)>>, Move(D, CloserOf(o)))
    BY ReadsOne
  <2> QED BY <2>1, <2>2
<1>7. CASE x = <<>>
  <2>1. a \o x = a
    BY <1>1, <1>7, ConcatEmptySeq DEF Text
  <2> HIDE DEF P, Q, R
  <2>2. Reads(P, a \o c, R)
    BY <1>1, <1>4, <1>5, ReadsConcat
  <2> QED BY <2>1, <2>2 DEF P, R
<1>8. CASE Passes(x, FirstOf(o), Append(s, o))
  <2>1. Reads(Q, x, D)
    <3>1. Len(Append(s, o)) = Len(s) + 1
      BY PushPop
    <3> QED BY <1>3, <1>8, <3>1 DEF Passes
  <2> HIDE DEF P, Q, D, R
  <2>2. Reads(P, a \o x, D)
    BY <1>1, <1>4, <2>1, ReadsConcat
  <2>3. Reads(P, (a \o x) \o c, R)
    BY <1>1, <1>2, <1>6, <2>2, ReadsConcat
  <2> QED BY <2>3 DEF P, R
<1> QED BY <1>7, <1>8

\* Values that are read to their end wherever one is expected; the same for
\* members and lists.
ValueRuns ==
  {x \in Text :
     /\ Len(x) >= 1 /\ x[1] \notin Closers /\ (x[1] \in Strings => Len(x) = 1) /\ Net(x) = 0
     /\ \A s \in Stacks : s # <<>> => Passes(x, "value", s) /\ Passes(x, "elements", s)
     /\ x[1] = "{" /\ Fits(x, 0) /\ Chosen(x, 0) =>
          Reads(At("start", <<>>, FALSE), x, At("end", <<>>, FALSE))}
MemberRuns ==
  {x \in Text : Net(x) = 0 /\ \A s \in Stacks : s # <<>> => Passes(x, "members", s) /\ Passes(x, "name", s)}
ElementsRuns ==
  {x \in Text : Net(x) = 0 /\ \A s \in Stacks : s # <<>> /\ Last(s) = "[" =>
                                Passes(x, "value", s) /\ Passes(x, "elements", s)}
MembersRuns ==
  {x \in Text : Net(x) = 0 /\ \A s \in Stacks : s # <<>> /\ Last(s) = "{" =>
                                Passes(x, "members", s) /\ Passes(x, "name", s)}

\* A scalar is a value that the decoder reads as a whole.
LEMMA ScalarRuns == ASSUME NEW c \in Scalars PROVE <<c>> \in ValueRuns
<1>1. PICK x : x = <<c>>
  OBVIOUS
<1>2. x \in Text /\ Len(x) = 1 /\ x[1] = c
  <2>1. c \in Classified
    BY DEF Classified
  <2> QED BY <1>1, <2>1, OneToken
<1>3. c \notin Closers /\ c # "{" /\ Weight(c) = 0
  BY DEF Scalars, Closers, Openers, Weight
<1>4. Net(x) = 0
  BY <1>1, <1>3, NetOne
<1>7. Len(x) >= 1 /\ x[1] \notin Closers /\ x[1] # "{"
  <2>1. Len(x) >= 1
    BY <1>2
  <2>2. x[1] = c
    BY <1>2
  <2> QED BY <1>3, <2>1, <2>2, Zenon
<1>5. ASSUME NEW s \in Stacks, NEW p \in {"value", "elements"} PROVE Passes(x, p, s)
  <2> SUFFICES ASSUME Fits(x, Len(s)) PROVE Reads(At(p, s, FALSE), x, At("delimiter", s, FALSE))
    BY DEF Passes
  <2>1. Len(s) <= MaxDepth
    <3>1. PICK b \in Int : b = Len(s)
      BY LenProperties DEF Stacks
    <3>2. Len(x) >= 1 /\ x[1] \notin Closers /\ Fits(x, b)
      BY <1>7, <3>1
    <3>3. b <= MaxDepth
      BY <1>2, <3>2, FirstFits
    <3> QED BY <3>1, <3>3
  <2>2. Move(At(p, s, FALSE), c) = At("delimiter", s, FALSE)
    BY <2>1, MoveScalar
  <2>3. Reads(At(p, s, FALSE), <<c>>, Move(At(p, s, FALSE), c))
    BY ReadsOne
  <2> QED BY <1>1, <2>2, <2>3
<1>6. \A s \in Stacks : s # <<>> => Passes(x, "value", s) /\ Passes(x, "elements", s)
  BY <1>5
<1>8. x \in ValueRuns
  BY <1>2, <1>4, <1>6, <1>7 DEF ValueRuns
<1> QED BY <1>1, <1>8

\* What may stand between the brackets that o opens.
InsideRuns(x, o) ==
  \/ x = <<>>
  \/ \A s \in Stacks : s # <<>> /\ Last(s) = o => Passes(x, FirstOf(o), s)

\* So is what two brackets enclose.
LEMMA EnclosedRuns ==
  ASSUME NEW o \in Openers, NEW x \in Text, Net(x) = 0, InsideRuns(x, o)
  PROVE  <<o>> \o x \o <<CloserOf(o)>> \in ValueRuns
<1>1. PICK a, c : a = <<o>> /\ c = <<CloserOf(o)>>
  OBVIOUS
<1>2. /\ a \in Text /\ c \in Text /\ Len(a) = 1 /\ Len(c) = 1 /\ a[1] = o
      /\ Net(a) = 1 /\ Net(c) = -1
  <2>1. o \in Classified /\ CloserOf(o) \in Classified
    BY DEF Openers, CloserOf, Classified, Marks
  <2>2. Net(a) = Weight(o) /\ Net(c) = Weight(CloserOf(o))
    BY <1>1, NetOne
  <2>3. Weight(o) = 1 /\ Weight(CloserOf(o)) = -1
    BY DEF Weight, Openers, Closers, CloserOf
  <2> QED BY <1>1, <2>1, <2>2, <2>3, OneToken
<1>3. PICK w : w = a \o x \o c
  OBVIOUS
<1>4. /\ a \o x \in Text /\ Len(a \o x) = 1 + Len(x) /\ Len(x) \in Nat
      /\ (a \o x)[1] = o /\ Net(a \o x) = 1
  <2>1. 1 \in 1 .. Len(a)
    BY <1>2
  <2>2. (a \o x)[1] = a[1]
    BY <1>2, <2>1, TextConcat
  <2>3. /\ a \o x \in Text /\ Len(a \o x) = Len(a) + Len(x) /\ Len(x) \in Nat
        /\ Net(a \o x) = Net(a) + Net(x)
    BY <1>2, TextConcat
  <2> QED BY <1>2, <2>2, <2>3
<1>5. w \in Text /\ Len(w) = Len(x) + 2 /\ w[1] = o /\ Net(w) = 0
  <2>1. PICK y \in Text : y = a \o x
    BY <1>4
  <2>2. 1 \in 1 .. Len(y)
    BY <1>4, <2>1
  <2>3. (y \o c)[1] = y[1]
    BY <1>2, <2>2, TextConcat
  <2>4. y \o c \in Text /\ Len(y \o c) = Len(y) + Len(c) /\ Net(y \o c) = Net(y) + Net(c)
    BY <1>2, TextConcat
  <2> QED BY <1>2, <1>3, <1>4, <2>1, <2>3, <2>4
<1>6. Len(w) >= 1 /\ w[1] \notin Closers /\ w[1] \notin Strings
  <2>1. o \notin Closers /\ o \notin Strings
    BY DEF Openers, Closers, Strings
  <2>2. Len(w) >= 1
    BY <1>4, <1>5
  <2> QED BY <1>5, <2>1, <2>2, Zenon
<1>7. ASSUME NEW s \in Stacks, NEW p, MayOpen(p, s, o), Fits(w, Len(s)), Chosen(w, Len(s))
      PROVE  Reads(At(p, s, FALSE), w, At(IF s = <<>> THEN "end" ELSE "delimiter", s, FALSE))
  <2>1. PICK t \in Stacks : t = Append(s, o) /\ t # <<>> /\ Last(t) = o
    BY PushPop
  <2>2. x = <<>> \/ Passes(x, FirstOf(o), Append(s, o))
    BY <2>1 DEF InsideRuns
  <2>3. Fits(a \o x \o c, Len(s)) /\ Chosen(a \o x \o c, Len(s))
    BY <1>3, <1>7
  <2>4. MayOpen(p, s, o)
    BY <1>7
  <2>5. Reads(At(p, s, FALSE), a \o x \o c, At(IF s = <<>> THEN "end" ELSE "delimiter", s, FALSE))
    BY <1>1, <2>2, <2>3, <2>4, BracketsRead
  <2> QED BY <1>3, <2>5
<1>8. ASSUME NEW s \in Stacks, s # <<>>, NEW p \in {"value", "elements"} PROVE Passes(w, p, s)
  <2> SUFFICES ASSUME Fits(w, Len(s)), Chosen(w, Len(s))
               PROVE  Reads(At(p, s, FALSE), w, At("delimiter", s, FALSE))
    BY DEF Passes
  <2>1. PICK b \in Int : b = Len(s)
    BY LenProperties DEF Stacks
  <2>2. b <= MaxDepth
    <3>1. Fits(w, b)
      BY <2>1
    <3> QED BY <1>5, <1>6, <3>1, FirstFits
  <2>3. MayOpen(p, s, o)
    BY <1>8, <2>1, <2>2 DEF MayOpen
  <2> QED BY <1>7, <1>8, <2>3
<1>9. w[1] = "{" /\ Fits(w, 0) /\ Chosen(w, 0) =>
        Reads(At("start", <<>>, FALSE), w, At("end", <<>>, FALSE))
  <2> SUFFICES ASSUME w[1] = "{", Fits(w, 0), Chosen(w, 0)
               PROVE  Reads(At("start", <<>>, FALSE), w, At("end", <<>>, FALSE))
    OBVIOUS
  <2>1. PICK s : s = <<>>
    OBVIOUS
  <2>2. s \in Stacks /\ Len(s) = 0
    BY <2>1, EmptySeq DEF Stacks
  <2>3. MayOpen("start", s, o)
    BY <1>5, <2>1 DEF MayOpen
  <2>4. Fits(w, Len(s)) /\ Chosen(w, Len(s))
    BY <2>2
  <2>5. Reads(At("start", s, FALSE), w, At(IF s = <<>> THEN "end" ELSE "delimiter", s, FALSE))
    BY <1>7, <2>2, <2>3, <2>4
  <2> QED BY <2>1, <2>5
<1>10. \A s \in Stacks : s # <<>> => Passes(w, "value", s) /\ Passes(w, "elements", s)
  BY <1>8
<1>11. w \in ValueRuns
  BY <1>5, <1>6, <1>9, <1>10 DEF ValueRuns
<1> QED BY <1>1, <1>3, <1>11

\* A name and a value.
LEMMA LabelRuns ==
  ASSUME NEW name \in Strings, NEW x \in ValueRuns
  PROVE  Label(name) \o x \in MemberRuns
<1>1. PICK a, c : a = <<name>> /\ c = <<":">>
  OBVIOUS
<1>2. /\ a \in Text /\ c \in Text /\ Len(a) = 1 /\ Len(c) = 1 /\ a[1] = name /\ c[1] = ":"
      /\ Net(a) = 0 /\ Net(c) = 0
  <2>1. name \in Classified /\ ":" \in Classified
    BY DEF Strings, Classified, Marks, Scalars
  <2>2. Net(a) = Weight(name) /\ Net(c) = Weight(":")
    BY <1>1, NetOne
  <2>3. Weight(name) = 0 /\ Weight(":") = 0
    BY DEF Weight, Openers, Closers, Strings
  <2> QED BY <1>1, <2>1, <2>2, <2>3, OneToken
<1>3. PICK l : l = Label(name)
  OBVIOUS
<1>4. /\ l \in Text /\ l = a \o c /\ Len(l) = 2 /\ l[1] = name /\ l[2] = ":" /\ Net(l) = 0
  <2>1. /\ a \o c \in Text /\ Len(a \o c) = 2 /\ Net(a \o c) = 0
    <3>1. /\ a \o c \in Text /\ Len(a \o c) = Len(a) + Len(c) /\ Net(a \o c) = Net(a) + Net(c)
      BY <1>2, TextConcat
    <3> QED BY <1>2, <3>1
  <2>2. (a \o c)[1] = name /\ (a \o c)[2] = ":"
    <3>1. 1 \in 1 .. Len(a) /\ 1 \in 1 .. Len(c) /\ Len(a) + 1 = 2
      BY <1>2
    <3>2. (a \o c)[1] = a[1] /\ (a \o c)[Len(a) + 1] = c[1]
      BY <1>2, <3>1, TextConcat
    <3> QED BY <1>2, <3>1, <3>2
  <2>3. Len(l) = 2 /\ l[1] = name /\ l[2] = ":"
    BY <1>3 DEF Label
  <2>4. l \in Text
    <3>1. name \in Classified /\ ":" \in Classified
      BY DEF Strings, Classified, Marks, Scalars
    <3> QED BY <1>3, <3>1 DEF Label, Text
  <2>5. \A i \in 1 .. 2 : l[i] = (a \o c)[i]
    <3>1. PICK y : y = a \o c
      OBVIOUS
    <3>2. y[1] = l[1] /\ y[2] = l[2]
      BY <2>2, <2>3, <3>1
    <3>3. \A i \in 1 .. 2 : l[i] = y[i]
      BY <3>2
    <3> QED BY <3>1, <3>3
  <2>6. l = a \o c
    BY <2>1, <2>3, <2>4, <2>5, SeqEqual DEF Text
  <2> QED BY <2>1, <2>3, <2>4, <2>6
<1>5. x \in Text /\ Len(x) >= 1 /\ (x[1] \in Strings => Len(x) = 1) /\ Net(x) = 0
  BY DEF ValueRuns
<1>6. PICK w : w = l \o x
  OBVIOUS
<1>7. /\ w \in Text /\ Net(w) = 0 /\ Len(w) = 2 + Len(x) /\ Len(x) \in Nat
      /\ w[1] = name /\ w[2] = ":" /\ w[3] = x[1]
  <2>1. /\ w \in Text /\ Net(w) = Net(l) + Net(x) /\ Len(w) = Len(l) + Len(x) /\ Len(x) \in Nat
        /\ \A i \in 1 .. Len(l) : w[i] = l[i]
        /\ \A i \in 1 .. Len(x) : w[Len(l) + i] = x[i]
    BY <1>4, <1>5, <1>6, TextConcat
  <2>2. 1 \in 1 .. Len(l) /\ 2 \in 1 .. Len(l) /\ 1 \in 1 .. Len(x) /\ Len(l) + 1 = 3
    BY <1>4, <1>5, <2>1
  <2>3. w[1] = l[1] /\ w[2] = l[2] /\ w[Len(l) + 1] = x[1]
    BY <2>1, <2>2
  <2> QED BY <1>4, <1>5, <2>1, <2>2, <2>3
<1>8. ASSUME NEW s \in Stacks, s # <<>>, NEW p \in {"members", "name"} PROVE Passes(w, p, s)
  <2> DEFINE P == At(p, s, FALSE)
             D == At("delimiter", s, FALSE)
             want == Len(s) = 1 /\ name = "analysis"
             C == At("colon", s, want)
             V == At(IF want THEN "analysis" ELSE "value", s, want)
  <2> SUFFICES ASSUME Fits(w, Len(s)), Chosen(w, Len(s)) PROVE Reads(P, w, D)
    BY DEF Passes
  <2>1. PICK b \in Int : b = Len(s)
    BY LenProperties DEF Stacks
  <2>2. Fits(w, b) /\ Chosen(w, b)
    BY <2>1
  <2>3. Fits(x, b) /\ Chosen(x, b)
    <3>1. Fits(l \o x, b) /\ Chosen(l \o x, b)
      BY <1>6, <2>2
    <3>2. Fits(x, b + Net(l)) /\ Chosen(x, b + Net(l))
      BY <1>4, <1>5, <3>1, PartsKeepLimits
    <3> QED BY <1>4, <3>2
  <2>4. Reads(P, a, C)
    <3>1. Move(P, name) = C
      BY MoveName
    <3>2. Reads(P, <<name>>, Move(P, name))
      BY ReadsOne
    <3> QED BY <1>1, <3>1, <3>2
  <2>5. Reads(C, c, V)
    <3>1. Move(C, ":") = V
      BY MoveName
    <3>2. Reads(C, <<":">>, Move(C, ":"))
      BY ReadsOne
    <3> QED BY <1>1, <3>1, <3>2
  <2>6. Reads(V, x, D)
    <3>1. CASE want
      <4>1. w[1] = "analysis" /\ b + OpenBefore(w, 1) = 1 /\ w[2] = ":" /\ 1 \in 1 .. Len(w) - 2
        <5>1. OpenBefore(w, 1) = 0
          BY OpenBeforeStep
        <5> QED BY <1>5, <1>7, <2>1, <3>1, <5>1
      <4>2. w[1 + 2] \in Strings
        BY <2>2, <4>1 DEF Chosen
      <4>3. x[1] \in Strings /\ Len(x) = 1
        BY <1>5, <1>7, <4>2
      <4>4. x = <<x[1]>>
        BY <1>5, <4>3 DEF Text
      <4>5. V = At("analysis", s, TRUE)
        BY <3>1
      <4>6. Move(V, x[1]) = D
        BY <4>3, <4>5, MoveName
      <4>7. Reads(V, <<x[1]>>, Move(V, x[1]))
        BY ReadsOne
      <4> QED BY <4>4, <4>6, <4>7
    <3>2. CASE ~want
      <4>1. V = At("value", s, FALSE)
        BY <3>2
      <4>2. Passes(x, "value", s)
        BY <1>8 DEF ValueRuns
      <4>3. Reads(At("value", s, FALSE), x, D)
        BY <2>1, <2>3, <4>2 DEF Passes
      <4> QED BY <4>1, <4>3
    <3> QED BY <3>1, <3>2
  <2> HIDE DEF P, D, C, V
  <2>7. Reads(P, a \o c, V)
    BY <1>2, <2>4, <2>5, ReadsConcat
  <2>8. Reads(P, l, V)
    BY <1>4, <2>7
  <2>9. Reads(P, l \o x, D)
    BY <1>4, <1>5, <2>6, <2>8, ReadsConcat
  <2> QED BY <1>6, <2>9
<1>9. \A s \in Stacks : s # <<>> => Passes(w, "members", s) /\ Passes(w, "name", s)
  BY <1>8
<1>10. w \in MemberRuns
  BY <1>7, <1>9 DEF MemberRuns
<1> QED BY <1>3, <1>6, <1>10

\* What follows a comma.
NextOf(o) == IF o = "{" THEN "name" ELSE "value"

\* One more in a list.
LEMMA ListRuns ==
  ASSUME NEW x \in Text, NEW y \in Text, Net(x) = 0, Net(y) = 0, NEW s \in Stacks, NEW p,
         Passes(x, p, s), Passes(y, NextOf(Last(s)), s)
  PROVE  x \o Comma \o y \in Text /\ Net(x \o Comma \o y) = 0 /\ Passes(x \o Comma \o y, p, s)
<1> DEFINE P == At(p, s, FALSE)
           D == At("delimiter", s, FALSE)
           N == At(NextOf(Last(s)), s, FALSE)
<1>1. PICK c : c = Comma
  OBVIOUS
<1>a. c = <<",">>
  BY <1>1 DEF Comma
<1>2. c \in Text /\ Net(c) = 0
  <2>1. "," \in Classified /\ Weight(",") = 0
    BY DEF Classified, Marks, Weight, Openers, Closers
  <2> QED BY <1>a, <2>1, OneToken, NetOne
<1>3. PICK z : z = x \o c
  OBVIOUS
<1>4. z \in Text /\ Net(z) = 0
  <2>1. x \o c \in Text /\ Net(x \o c) = Net(x) + Net(c)
    BY <1>2, TextConcat
  <2> QED BY <1>2, <1>3, <2>1
<1>5. z \o y \in Text /\ Net(z \o y) = 0
  <2>1. z \o y \in Text /\ Net(z \o y) = Net(z) + Net(y)
    BY <1>4, TextConcat
  <2> QED BY <1>4, <2>1
<1>6. ASSUME Fits(z \o y, Len(s)), Chosen(z \o y, Len(s)) PROVE Reads(P, z \o y, D)
  <2>1. PICK b \in Int : b = Len(s)
    BY LenProperties DEF Stacks
  <2>2. Fits(z \o y, b) /\ Chosen(z \o y, b)
    BY <1>6, <2>1
  <2>3. Fits(z, b) /\ Chosen(z, b) /\ Fits(y, b) /\ Chosen(y, b)
    <3>1. Fits(z, b) /\ Chosen(z, b) /\ Fits(y, b + Net(z)) /\ Chosen(y, b + Net(z))
      BY <1>4, <2>2, PartsKeepLimits
    <3> QED BY <1>4, <3>1
  <2>4. Fits(x, b) /\ Chosen(x, b)
    <3>1. Fits(x \o c, b) /\ Chosen(x \o c, b)
      BY <1>3, <2>3
    <3> QED BY <1>2, <3>1, PartsKeepLimits
  <2>5. Reads(P, x, D)
    BY <2>1, <2>4 DEF Passes
  <2>6. Reads(D, c, N)
    <3>1. Move(D, ",") = N
      BY MoveComma DEF NextOf
    <3>2. Reads(D, <<",">>, Move(D, ","))
      BY ReadsOne
    <3> QED BY <1>a, <3>1, <3>2
  <2>7. Reads(N, y, D)
    BY <2>1, <2>3 DEF Passes
  <2> HIDE DEF P, D, N
  <2>8. Reads(P, x \o c, N)
    BY <1>2, <2>5, <2>6, ReadsConcat
  <2>9. Reads(P, z, N)
    BY <1>3, <2>8
  <2> QED BY <1>4, <2>7, <2>9, ReadsConcat
<1>7. Passes(z \o y, p, s)
  BY <1>6 DEF Passes
<1> QED BY <1>1, <1>3, <1>5, <1>7

\* The rules of the grammar do not leave what is read.
LEMMA RunsAreClosed == ClosedSets(ValueRuns, MemberRuns, ElementsRuns, MembersRuns)
<1>1. \A c \in Scalars : <<c>> \in ValueRuns
  BY ScalarRuns
<1>2. "{" \in Openers /\ "[" \in Openers /\ CloserOf("{") = "}" /\ CloserOf("[") = "]"
      /\ FirstOf("{") = "members" /\ FirstOf("[") = "elements"
  BY DEF Openers, CloserOf, FirstOf
<1>3. ASSUME NEW o \in Openers
      PROVE  <<o>> \o <<>> \o <<CloserOf(o)>> \in ValueRuns
  <2>1. PICK x : x = <<>>
    OBVIOUS
  <2>2. x \in Text
    BY <2>1, EmptySeq DEF Text
  <2>3. Net(x) = 0
    <3>1. Len(x) + 1 = 1
      BY <2>1
    <3> QED BY <3>1, OpenBeforeStep DEF Net
  <2>4. InsideRuns(x, o)
    BY <2>1 DEF InsideRuns
  <2>5. <<o>> \o x \o <<CloserOf(o)>> \in ValueRuns
    BY <2>2, <2>3, <2>4, EnclosedRuns
  <2> QED BY <2>1, <2>5
<1>4. <<"[", "]">> \in ValueRuns /\ <<"{", "}">> \in ValueRuns
  <2>1. <<"[">> \o <<>> \o <<"]">> \in ValueRuns
    BY <1>2, <1>3
  <2>2. <<"{">> \o <<>> \o <<"}">> \in ValueRuns
    BY <1>2, <1>3
  <2>3. <<"[">> \o <<>> \o <<"]">> = <<"[", "]">>
    BY EmptyBrackets
  <2>4. <<"{">> \o <<>> \o <<"}">> = <<"{", "}">>
    BY EmptyBrackets
  <2> QED BY <2>1, <2>2, <2>3, <2>4
<1>5. ASSUME NEW x \in ElementsRuns PROVE <<"[">> \o x \o <<"]">> \in ValueRuns
  <2>1. x \in Text /\ Net(x) = 0 /\ InsideRuns(x, "[")
    BY <1>2 DEF ElementsRuns, InsideRuns
  <2>2. <<"[">> \o x \o <<CloserOf("[")>> \in ValueRuns
    BY <1>2, <2>1, EnclosedRuns
  <2> QED BY <1>2, <2>2
<1>6. ASSUME NEW x \in MembersRuns PROVE <<"{">> \o x \o <<"}">> \in ValueRuns
  <2>1. x \in Text /\ Net(x) = 0 /\ InsideRuns(x, "{")
    BY <1>2 DEF MembersRuns, InsideRuns
  <2>2. <<"{">> \o x \o <<CloserOf("{")>> \in ValueRuns
    BY <1>2, <2>1, EnclosedRuns
  <2> QED BY <1>2, <2>2
<1>7. \A name \in Strings, x \in ValueRuns : Label(name) \o x \in MemberRuns
  BY LabelRuns
<1>8. ValueRuns \subseteq ElementsRuns /\ MemberRuns \subseteq MembersRuns
  BY DEF ValueRuns, ElementsRuns, MemberRuns, MembersRuns
<1>9. ASSUME NEW x \in ElementsRuns, NEW y \in ValueRuns PROVE x \o Comma \o y \in ElementsRuns
  <2>1. x \in Text /\ y \in Text /\ Net(x) = 0 /\ Net(y) = 0
    BY DEF ElementsRuns, ValueRuns
  <2>2. ASSUME NEW s \in Stacks, s # <<>>, Last(s) = "[", NEW p \in {"value", "elements"}
        PROVE  x \o Comma \o y \in Text /\ Net(x \o Comma \o y) = 0 /\ Passes(x \o Comma \o y, p, s)
    <3>1. Passes(x, p, s)
      BY <2>2 DEF ElementsRuns
    <3>2. Passes(y, "value", s)
      BY <2>2 DEF ValueRuns
    <3>3. NextOf(Last(s)) = "value"
      BY <2>2 DEF NextOf
    <3>4. Passes(y, NextOf(Last(s)), s)
      BY <3>2, <3>3
    <3> QED BY <2>1, <3>1, <3>4, ListRuns
  <2>3. PICK s \in Stacks : s # <<>> /\ Last(s) = "["
    <3>1. PICK e : e = <<>>
      OBVIOUS
    <3>2. e \in Stacks
      BY <3>1, EmptySeq DEF Stacks
    <3> QED BY <1>2, <3>2, PushPop
  <2>4. PICK w : w = x \o Comma \o y
    OBVIOUS
  <2>5. w \in Text /\ Net(w) = 0
    BY <2>2, <2>3, <2>4
  <2>6. \A t \in Stacks : t # <<>> /\ Last(t) = "[" => Passes(w, "value", t) /\ Passes(w, "elements", t)
    BY <2>2, <2>4
  <2>7. w \in ElementsRuns
    BY <2>5, <2>6 DEF ElementsRuns
  <2> QED BY <2>4, <2>7
<1>10. ASSUME NEW x \in MembersRuns, NEW y \in MemberRuns PROVE x \o Comma \o y \in MembersRuns
  <2>1. x \in Text /\ y \in Text /\ Net(x) = 0 /\ Net(y) = 0
    BY DEF MembersRuns, MemberRuns
  <2>2. ASSUME NEW s \in Stacks, s # <<>>, Last(s) = "{", NEW p \in {"members", "name"}
        PROVE  x \o Comma \o y \in Text /\ Net(x \o Comma \o y) = 0 /\ Passes(x \o Comma \o y, p, s)
    <3>1. Passes(x, p, s)
      BY <2>2 DEF MembersRuns
    <3>2. Passes(y, "name", s)
      BY <2>2 DEF MemberRuns
    <3>3. NextOf(Last(s)) = "name"
      BY <2>2 DEF NextOf
    <3>4. Passes(y, NextOf(Last(s)), s)
      BY <3>2, <3>3
    <3> QED BY <2>1, <3>1, <3>4, ListRuns
  <2>3. PICK s \in Stacks : s # <<>> /\ Last(s) = "{"
    <3>1. PICK e : e = <<>>
      OBVIOUS
    <3>2. e \in Stacks
      BY <3>1, EmptySeq DEF Stacks
    <3> QED BY <1>2, <3>2, PushPop
  <2>4. PICK w : w = x \o Comma \o y
    OBVIOUS
  <2>5. w \in Text /\ Net(w) = 0
    BY <2>2, <2>3, <2>4
  <2>6. \A t \in Stacks : t # <<>> /\ Last(t) = "{" => Passes(w, "members", t) /\ Passes(w, "name", t)
    BY <2>2, <2>4
  <2>7. w \in MembersRuns
    BY <2>5, <2>6 DEF MembersRuns
  <2> QED BY <2>4, <2>7
<1>11. /\ \A x \in ElementsRuns : <<"[">> \o x \o <<"]">> \in ValueRuns
       /\ \A x \in MembersRuns : <<"{">> \o x \o <<"}">> \in ValueRuns
  BY <1>5, <1>6
<1>12. /\ \A x \in ElementsRuns, y \in ValueRuns : x \o Comma \o y \in ElementsRuns
       /\ \A x \in MembersRuns, y \in MemberRuns : x \o Comma \o y \in MembersRuns
  BY <1>9, <1>10
<1> QED BY <1>1, <1>4, <1>7, <1>8, <1>11, <1>12 DEF ClosedSets

\* The decoder reads every document to its end.
LEMMA DocumentsRead ==
  ASSUME NEW d \in Documents
  PROVE  d \in Text /\ Len(d) >= 1 /\ Reads(At("start", <<>>, FALSE), d, At("end", <<>>, FALSE))
<1>1. PICK n \in 1 .. Longest : d \in Phrases[n].value
  BY DEF Documents
<1>2. n \in 0 .. Longest
  BY <1>1, LongestIs
<1>3. d \in ValueRuns
  BY <1>1, <1>2, RunsAreClosed, PhraseInduction
<1>4. d \in Text /\ Len(d) >= 1
  BY <1>3 DEF ValueRuns
<1>5. Len(d) \in Nat /\ DOMAIN d = 1 .. Len(d)
  BY <1>4, LenProperties DEF Text
<1>6. /\ d[1] = "{"
      /\ \A i \in DOMAIN d : AnalysisAt(d, i) => d[i + 2] \in {"string", "analysis"}
      /\ \A i \in DOMAIN d : d[i] \notin {"}", "]"} => OpenBefore(d, i) <= MaxDepth
  BY DEF Documents
<1>7. \A i \in 1 .. Len(d) : OpenBefore(d, i) \in Int
  BY OpenBeforeStep
<1>8. Fits(d, 0)
  <2> SUFFICES ASSUME NEW i \in 1 .. Len(d), d[i] \notin Closers
               PROVE  0 + OpenBefore(d, i) <= MaxDepth
    BY DEF Fits
  <2>1. OpenBefore(d, i) <= MaxDepth
    BY <1>5, <1>6 DEF Closers
  <2> QED BY <1>7, <2>1
<1>9. Chosen(d, 0)
  <2> SUFFICES ASSUME NEW i \in 1 .. Len(d) - 2, d[i] = "analysis", 0 + OpenBefore(d, i) = 1, d[i + 1] = ":"
               PROVE  d[i + 2] \in Strings
    BY DEF Chosen
  <2>1. i \in DOMAIN d /\ i < Len(d) /\ OpenBefore(d, i) = 1
    BY <1>5, <1>7
  <2>2. AnalysisAt(d, i)
    BY <2>1 DEF AnalysisAt
  <2> QED BY <1>6, <2>1, <2>2 DEF Strings
<1>10. Reads(At("start", <<>>, FALSE), d, At("end", <<>>, FALSE))
  BY <1>3, <1>6, <1>8, <1>9 DEF ValueRuns
<1> QED BY <1>4, <1>10

---------------------------------------------------------------------------
(* Strings: what readEscape makes of the halves of pairs *)

Alphabet == STRING \cup {"pair", "replacement"}
Pieces == Seq(Alphabet)
SecondHalf(p, i) == i \in DOMAIN p /\ p[i] = "lo" /\ i > 1 /\ p[i - 1] = "hi"
RuneAt(p, i) ==
  IF SecondHalf(p, i + 1) THEN "pair"
  ELSE IF p[i] \in {"hi", "lo"} THEN "replacement" ELSE p[i]
ItemAt(p, i) == IF SecondHalf(p, i) THEN <<>> ELSE <<RuneAt(p, i)>>
Items(p) == [i \in DOMAIN p |-> ItemAt(p, i)]

\* The runes that decoding makes, and the empty string and that of one piece.
LEMMA MadeRunes == "pair" \in Alphabet /\ "replacement" \in Alphabet
BY DEF Alphabet

\* A sequence of one.
LEMMA OnePiece ==
  ASSUME NEW W, NEW r \in W
  PROVE  <<r>> \in Seq(W) /\ Len(<<r>>) = 1 /\ <<r>>[1] = r /\ <<>> \in Seq(W)
BY EmptySeq

\* The runes, item by item.
LEMMA RunesAre ==
  ASSUME NEW p \in Pieces
  PROVE  /\ Runes(p) = FlattenSeq(Items(p)) /\ Items(p) \in Seq(Seq(Alphabet))
         /\ Len(Items(p)) = Len(p) /\ \A i \in 1 .. Len(p) : Items(p)[i] = ItemAt(p, i)
         /\ Runes(p) \in Pieces
<1>1. PICK n \in Nat : n = Len(p) /\ DOMAIN p = 1 .. n /\ \A i \in 1 .. n : p[i] \in Alphabet
  BY LenProperties, ElementOfSeq DEF Pieces
<1>2. Runes(p) = FlattenSeq(Items(p))
  BY Zenon DEF Runes, Items, ItemAt, RuneAt, SecondHalf
<1>3. \A i \in 1 .. n : ItemAt(p, i) \in Seq(Alphabet)
  <2> SUFFICES ASSUME NEW i \in 1 .. n PROVE ItemAt(p, i) \in Seq(Alphabet)
    OBVIOUS
  <2>1. RuneAt(p, i) \in Alphabet
    <3>1. p[i] \in Alphabet
      BY <1>1
    <3> QED BY <3>1, MadeRunes DEF RuneAt
  <2>2. PICK r \in Alphabet : r = RuneAt(p, i)
    BY <2>1
  <2>3. <<r>> \in Seq(Alphabet) /\ <<>> \in Seq(Alphabet)
    BY OnePiece
  <2> QED BY <2>2, <2>3, Zenon DEF ItemAt
<1>4. PICK f : f = Items(p)
  OBVIOUS
<1>5. f = [i \in 1 .. n |-> ItemAt(p, i)]
  BY <1>1, <1>4 DEF Items
<1>6. f \in Seq(Seq(Alphabet)) /\ Len(f) = n /\ \A i \in 1 .. n : f[i] = ItemAt(p, i)
  BY <1>3, <1>5
<1>7. FlattenSeq(f) \in Seq(Alphabet)
  BY <1>6, FlattenType
<1> QED BY <1>1, <1>2, <1>4, <1>6, <1>7 DEF Pieces

\* The rune at the beginning, and what follows it.
LEMMA RunesFrom ==
  ASSUME NEW p \in Pieces, Len(p) >= 1
  PROVE  LET pair == p[1] = "hi" /\ Len(p) >= 2 /\ p[2] = "lo"
         IN Runes(p) = IF pair THEN <<"pair">> \o Runes(SubSeq(p, 3, Len(p)))
                       ELSE <<IF p[1] \in {"hi", "lo"} THEN "replacement" ELSE p[1]>>
                              \o Runes(SubSeq(p, 2, Len(p)))
<1>1. PICK n \in Nat : n = Len(p) /\ DOMAIN p = 1 .. n /\ n >= 1 /\ \A i \in 1 .. n : p[i] \in Alphabet
  BY LenProperties, ElementOfSeq DEF Pieces
<1>2. CASE p[1] = "hi" /\ Len(p) >= 2 /\ p[2] = "lo"
  <2>1. PICK q : q = SubSeq(p, 3, n)
    OBVIOUS
  <2>2. q \in Pieces /\ Len(q) = n - 2 /\ \A i \in 1 .. n - 2 : q[i] = p[i + 2]
    <3>1. \A i \in 3 .. n : p[i] \in Alphabet
      BY <1>1
    <3>2. /\ SubSeq(p, 3, n) \in Seq(Alphabet)
          /\ Len(SubSeq(p, 3, n)) = IF 3 <= n THEN n - 3 + 1 ELSE 0
          /\ \A i \in 1 .. n - 3 + 1 : SubSeq(p, 3, n)[i] = p[3 + i - 1]
      BY <3>1, SubSeqProperties
    <3>3. n >= 2
      BY <1>1, <1>2
    <3>4. \A i \in 1 .. n - 2 : i \in 1 .. n - 3 + 1 /\ 3 + i - 1 = i + 2
      OBVIOUS
    <3>5. Len(SubSeq(p, 3, n)) = n - 2
      BY <3>2, <3>3
    <3>6. \A i \in 1 .. n - 2 : SubSeq(p, 3, n)[i] = p[i + 2]
      BY <3>2, <3>4
    <3> QED BY <2>1, <3>2, <3>5, <3>6 DEF Pieces
  <2>c. PICK x, e : x = <<"pair">> /\ e = <<>>
    OBVIOUS
  <2>d. x \in Seq(Alphabet) /\ e \in Seq(Alphabet)
    <3>1. "pair" \in Alphabet
      BY MadeRunes
    <3> QED BY <2>c, <3>1, OnePiece
  <2>e. PICK W : W = Seq(Alphabet)
    OBVIOUS
  <2>3. PICK a : a = <<x, e>>
    OBVIOUS
  <2>4. a \in Seq(W) /\ Len(a) = 2 /\ a[1] = x /\ a[2] = e
    BY <2>3, <2>d, <2>e
  <2>5. DOMAIN q = 1 .. n - 2
    BY <2>2, LenProperties DEF Pieces
  <2>6. ASSUME NEW i \in 1 .. n - 1 PROVE SecondHalf(p, i + 2) <=> SecondHalf(q, i)
    <3>1. CASE i = 1
      BY <1>1, <1>2, <2>5, <3>1 DEF SecondHalf
    <3>2. CASE i > 1 /\ i <= n - 2
      <4>1. PICK j \in 1 .. n - 2, k \in 1 .. n : k = i + 2 /\ j = i - 1 /\ k - 1 = j + 2
        BY <2>2, <3>2
      <4>2. i \in DOMAIN q /\ k \in DOMAIN p /\ i > 1 /\ k > 1
        BY <1>1, <2>5, <3>2, <4>1
      <4>3. q[i] = p[k]
        BY <2>2, <3>2, <4>1
      <4>4. q[i - 1] = p[k - 1]
        BY <2>2, <4>1
      <4>5. SecondHalf(p, k) <=> SecondHalf(q, i)
        BY <4>2, <4>3, <4>4, Zenon DEF SecondHalf
      <4> QED BY <4>1, <4>5
    <3>3. CASE i = n - 1
      BY <1>1, <2>5, <3>3 DEF SecondHalf
    <3> QED BY <3>1, <3>2, <3>3
  <2>7. ASSUME NEW i \in 1 .. n - 2 PROVE ItemAt(p, i + 2) = ItemAt(q, i)
    <3>1. SecondHalf(p, i + 2) <=> SecondHalf(q, i)
      BY <2>6
    <3>2. SecondHalf(p, (i + 1) + 2) <=> SecondHalf(q, i + 1)
      BY <2>6
    <3>3. (i + 1) + 2 = (i + 2) + 1 /\ q[i] = p[i + 2]
      BY <2>2
    <3>4. SecondHalf(p, (i + 2) + 1) <=> SecondHalf(q, i + 1)
      BY <3>2, <3>3
    <3>5. RuneAt(p, i + 2) = RuneAt(q, i)
      BY <3>3, <3>4 DEF RuneAt
    <3> QED BY <3>1, <3>5 DEF ItemAt
  <2>8. ItemAt(p, 1) = x /\ ItemAt(p, 2) = e
    <3>1. ~SecondHalf(p, 1) /\ SecondHalf(p, 1 + 1) /\ SecondHalf(p, 2)
      BY <1>1, <1>2 DEF SecondHalf
    <3> QED BY <2>c, <3>1, Zenon DEF ItemAt, RuneAt
  <2>9. PICK u, v : u = Items(p) /\ v = Items(q)
    OBVIOUS
  <2>10. /\ u \in Seq(Seq(Alphabet)) /\ Len(u) = n /\ \A i \in 1 .. n : u[i] = ItemAt(p, i)
         /\ v \in Seq(Seq(Alphabet)) /\ Len(v) = n - 2 /\ \A i \in 1 .. n - 2 : v[i] = ItemAt(q, i)
         /\ Runes(p) = FlattenSeq(u) /\ Runes(q) = FlattenSeq(v)
    BY <1>1, <2>2, <2>9, RunesAre
  <2>11. u = a \o v
    <3>0. u \in Seq(W) /\ v \in Seq(W)
      BY <2>10, <2>e
    <3>1. /\ a \o v \in Seq(W) /\ Len(a \o v) = 2 + (n - 2)
          /\ (a \o v)[1] = a[1] /\ (a \o v)[2] = a[2]
          /\ \A i \in 1 .. n - 2 : (a \o v)[2 + i] = v[i]
      <4>1. /\ a \o v \in Seq(W) /\ Len(a \o v) = Len(a) + Len(v)
            /\ \A i \in 1 .. Len(a) : (a \o v)[i] = a[i]
            /\ \A i \in 1 .. Len(v) : (a \o v)[Len(a) + i] = v[i]
        <5>1. PICK A : A = a
          OBVIOUS
        <5>2. A \in Seq(W)
          BY <2>4, <5>1
        <5> QED BY <3>0, <5>1, <5>2, ConcatPlaces
      <4>2. Len(a) = 2 /\ Len(v) = n - 2 /\ 1 \in 1 .. 2 /\ 2 \in 1 .. 2
        BY <2>4, <2>10
      <4> QED BY <4>1, <4>2
    <3>2. ASSUME NEW i \in 1 .. n PROVE u[i] = (a \o v)[i]
      <4>0. u[i] = ItemAt(p, i)
        BY <2>10
      <4>1. CASE i = 1
        BY <2>4, <2>8, <3>1, <4>0, <4>1
      <4>2. CASE i = 2
        BY <2>4, <2>8, <3>1, <4>0, <4>2
      <4>3. CASE i > 2
        <5>1. PICK j \in 1 .. n - 2 : i = j + 2 /\ i = 2 + j
          <6>1. i - 2 \in 1 .. n - 2 /\ i = (i - 2) + 2 /\ i = 2 + (i - 2)
            BY <4>3
          <6> QED BY <6>1
        <5>2. u[i] = ItemAt(p, j + 2) /\ (a \o v)[i] = v[j] /\ v[j] = ItemAt(q, j)
          BY <2>10, <3>1, <5>1
        <5> QED BY <2>7, <5>2
      <4>4. i = 1 \/ i = 2 \/ i > 2
        OBVIOUS
      <4> QED BY <4>1, <4>2, <4>3, <4>4, Zenon
    <3>3. Len(a \o v) = n
      BY <3>1
    <3> QED BY <2>10, <3>0, <3>1, <3>2, <3>3, SeqEqual
  <2>12. FlattenSeq(u) = FlattenSeq(a) \o FlattenSeq(v)
    BY <2>4, <2>e, <2>10, <2>11, FlattenConcat
  <2>13. FlattenSeq(a) = x
    <3>1. PICK b : b = <<x>>
      OBVIOUS
    <3>2. b \in Seq(W) /\ a = Append(b, e)
      BY <2>3, <2>d, <2>e, <3>1
    <3>3. FlattenSeq(a) = FlattenSeq(b) \o e
      BY <2>d, <2>e, <3>2, FlattenAppend
    <3>4. FlattenSeq(b) = x
      BY <2>d, <3>1, FlattenOne
    <3>5. x \o e = x
      BY <2>c, <2>d, ConcatEmptySeq
    <3> QED BY <3>3, <3>4, <3>5
  <2>14. Runes(p) = x \o Runes(q)
    BY <2>10, <2>12, <2>13
  <2> QED BY <1>1, <1>2, <2>1, <2>c, <2>14, Zenon
<1>3. CASE ~(p[1] = "hi" /\ Len(p) >= 2 /\ p[2] = "lo")
  <2>1. PICK q : q = SubSeq(p, 2, n)
    OBVIOUS
  <2>2. q \in Pieces /\ Len(q) = n - 1 /\ \A i \in 1 .. n - 1 : q[i] = p[i + 1]
    <3>1. \A i \in 2 .. n : p[i] \in Alphabet
      BY <1>1
    <3>2. /\ SubSeq(p, 2, n) \in Seq(Alphabet)
          /\ Len(SubSeq(p, 2, n)) = IF 2 <= n THEN n - 2 + 1 ELSE 0
          /\ \A i \in 1 .. n - 2 + 1 : SubSeq(p, 2, n)[i] = p[2 + i - 1]
      BY <3>1, SubSeqProperties
    <3>4. \A i \in 1 .. n - 1 : i \in 1 .. n - 2 + 1 /\ 2 + i - 1 = i + 1
      OBVIOUS
    <3>5. Len(SubSeq(p, 2, n)) = n - 1
      BY <1>1, <3>2
    <3>6. \A i \in 1 .. n - 1 : SubSeq(p, 2, n)[i] = p[i + 1]
      BY <3>2, <3>4
    <3> QED BY <2>1, <3>2, <3>5, <3>6 DEF Pieces
  <2>3. PICK r \in Alphabet : r = IF p[1] \in {"hi", "lo"} THEN "replacement" ELSE p[1]
    <3>1. p[1] \in Alphabet
      BY <1>1
    <3> QED BY <3>1, MadeRunes
  <2>4. PICK x : x = <<r>>
    OBVIOUS
  <2>a. PICK a : a = <<x>>
    OBVIOUS
  <2>e. PICK W : W = Seq(Alphabet)
    OBVIOUS
  <2>b. x \in Seq(Alphabet) /\ a \in Seq(W) /\ Len(a) = 1 /\ a[1] = x
    <3>1. x \in W
      BY <2>4, <2>e, OnePiece
    <3> QED BY <2>a, <2>e, <3>1, OnePiece
  <2>5. DOMAIN q = 1 .. n - 1
    BY <2>2, LenProperties DEF Pieces
  <2>6. ASSUME NEW i \in 1 .. n PROVE SecondHalf(p, i + 1) <=> SecondHalf(q, i)
    <3>1. CASE i = 1
      BY <1>1, <1>3, <2>5, <3>1 DEF SecondHalf
    <3>2. CASE i > 1 /\ i <= n - 1
      <4>1. PICK j \in 1 .. n - 1, k \in 1 .. n : k = i + 1 /\ j = i - 1 /\ k - 1 = j + 1
        BY <2>2, <3>2
      <4>2. i \in DOMAIN q /\ k \in DOMAIN p /\ i > 1 /\ k > 1
        BY <1>1, <2>5, <3>2, <4>1
      <4>3. q[i] = p[k]
        BY <2>2, <3>2, <4>1
      <4>4. q[i - 1] = p[k - 1]
        BY <2>2, <4>1
      <4>5. SecondHalf(p, k) <=> SecondHalf(q, i)
        BY <4>2, <4>3, <4>4, Zenon DEF SecondHalf
      <4> QED BY <4>1, <4>5
    <3>3. CASE i = n
      BY <1>1, <2>5, <3>3 DEF SecondHalf
    <3> QED BY <3>1, <3>2, <3>3
  <2>7. ASSUME NEW i \in 1 .. n - 1 PROVE ItemAt(p, i + 1) = ItemAt(q, i)
    <3>1. SecondHalf(p, i + 1) <=> SecondHalf(q, i)
      BY <2>6
    <3>2. SecondHalf(p, (i + 1) + 1) <=> SecondHalf(q, i + 1)
      BY <2>6
    <3>3. q[i] = p[i + 1]
      BY <2>2
    <3>5. RuneAt(p, i + 1) = RuneAt(q, i)
      BY <3>2, <3>3 DEF RuneAt
    <3> QED BY <3>1, <3>5 DEF ItemAt
  <2>8. ItemAt(p, 1) = x
    <3>1. ~SecondHalf(p, 1) /\ ~SecondHalf(p, 1 + 1)
      BY <1>1, <1>3 DEF SecondHalf
    <3> QED BY <2>3, <2>4, <3>1, Zenon DEF ItemAt, RuneAt
  <2>9. PICK u, v : u = Items(p) /\ v = Items(q)
    OBVIOUS
  <2>10. /\ u \in Seq(Seq(Alphabet)) /\ Len(u) = n /\ \A i \in 1 .. n : u[i] = ItemAt(p, i)
         /\ v \in Seq(Seq(Alphabet)) /\ Len(v) = n - 1 /\ \A i \in 1 .. n - 1 : v[i] = ItemAt(q, i)
         /\ Runes(p) = FlattenSeq(u) /\ Runes(q) = FlattenSeq(v)
    BY <1>1, <2>2, <2>9, RunesAre
  <2>11. u = a \o v
    <3>0. u \in Seq(W) /\ v \in Seq(W)
      BY <2>10, <2>e
    <3>1. /\ a \o v \in Seq(W) /\ Len(a \o v) = 1 + (n - 1)
          /\ (a \o v)[1] = a[1]
          /\ \A i \in 1 .. n - 1 : (a \o v)[1 + i] = v[i]
      <4>1. /\ a \o v \in Seq(W) /\ Len(a \o v) = Len(a) + Len(v)
            /\ \A i \in 1 .. Len(a) : (a \o v)[i] = a[i]
            /\ \A i \in 1 .. Len(v) : (a \o v)[Len(a) + i] = v[i]
        <5>1. PICK A : A = a
          OBVIOUS
        <5>2. A \in Seq(W)
          BY <2>b, <5>1
        <5> QED BY <3>0, <5>1, <5>2, ConcatPlaces
      <4>2. Len(a) = 1 /\ Len(v) = n - 1 /\ 1 \in 1 .. 1
        BY <2>b, <2>10
      <4> QED BY <4>1, <4>2
    <3>2. ASSUME NEW i \in 1 .. n PROVE u[i] = (a \o v)[i]
      <4>0. u[i] = ItemAt(p, i)
        BY <2>10
      <4>1. CASE i = 1
        BY <2>b, <2>8, <3>1, <4>0, <4>1
      <4>2. CASE i > 1
        <5>1. PICK j \in 1 .. n - 1 : i = j + 1 /\ i = 1 + j
          <6>1. i - 1 \in 1 .. n - 1 /\ i = (i - 1) + 1 /\ i = 1 + (i - 1)
            BY <4>2
          <6> QED BY <6>1
        <5>2. u[i] = ItemAt(p, j + 1) /\ (a \o v)[i] = v[j] /\ v[j] = ItemAt(q, j)
          BY <2>10, <3>1, <5>1
        <5> QED BY <2>7, <5>2
      <4>3. i = 1 \/ i > 1
        OBVIOUS
      <4> QED BY <4>1, <4>2, <4>3, Zenon
    <3>3. Len(a \o v) = n
      BY <3>1
    <3> QED BY <2>10, <3>0, <3>1, <3>2, <3>3, SeqEqual
  <2>12. FlattenSeq(u) = FlattenSeq(a) \o FlattenSeq(v)
    BY <2>b, <2>e, <2>10, <2>11, FlattenConcat
  <2>13. FlattenSeq(a) = x
    BY <2>a, <2>b, FlattenOne
  <2>14. Runes(p) = <<r>> \o Runes(q)
    BY <2>4, <2>10, <2>12, <2>13
  <2> QED BY <1>1, <1>3, <2>1, <2>3, <2>14, Zenon
<1> QED BY <1>2, <1>3

\* What is left of a sequence from i on, and of that.
LEMMA Suffix ==
  ASSUME NEW S, NEW p \in Seq(S), NEW i \in 1 .. Len(p) + 1
  PROVE  LET q == SubSeq(p, i, Len(p))
         IN q \in Seq(S) /\ Len(q) = Len(p) - i + 1 /\ \A j \in 1 .. Len(p) - i + 1 : q[j] = p[j + (i - 1)]
<1>1. PICK n \in Nat : n = Len(p) /\ \A j \in 1 .. n : p[j] \in S
  BY LenProperties, ElementOfSeq
<1>2. \A j \in i .. n : p[j] \in S
  BY <1>1
<1>3. i \in Int /\ n \in Int
  BY <1>1
<1>4. /\ SubSeq(p, i, n) \in Seq(S)
      /\ Len(SubSeq(p, i, n)) = IF i <= n THEN n - i + 1 ELSE 0
      /\ \A j \in 1 .. n - i + 1 : SubSeq(p, i, n)[j] = p[i + j - 1]
  BY <1>2, <1>3, SubSeqProperties
<1>5. Len(SubSeq(p, i, n)) = n - i + 1
  BY <1>1, <1>4
<1>6. \A j \in 1 .. n - i + 1 : i + j - 1 = j + (i - 1)
  BY <1>3
<1>7. \A j \in 1 .. n - i + 1 : SubSeq(p, i, n)[j] = p[j + (i - 1)]
  BY <1>4, <1>6
<1> QED BY <1>1, <1>4, <1>5, <1>7

\* The rest of a rest.
LEMMA SuffixOfSuffix ==
  ASSUME NEW S, NEW p \in Seq(S), NEW i \in 1 .. Len(p), NEW d \in {1, 2}, i + d <= Len(p) + 1,
         NEW q, q = SubSeq(p, i, Len(p))
  PROVE  SubSeq(q, d + 1, Len(q)) = SubSeq(p, i + d, Len(p))
<1>1. PICK n \in Nat : n = Len(p)
  BY LenProperties
<1>2. q \in Seq(S) /\ Len(q) = n - i + 1 /\ \A j \in 1 .. n - i + 1 : q[j] = p[j + (i - 1)]
  BY <1>1, Suffix
<1>3. PICK k \in 1 .. n + 1 : k = i + d
  BY <1>1
<1>4. PICK u, v : u = SubSeq(q, d + 1, Len(q)) /\ v = SubSeq(p, k, n)
  OBVIOUS
<1>5. v \in Seq(S) /\ Len(v) = n - k + 1 /\ \A j \in 1 .. n - k + 1 : v[j] = p[j + (k - 1)]
  BY <1>1, <1>3, <1>4, Suffix
<1>6. PICK m \in Nat, e \in Nat : m = Len(q) /\ m = n - i + 1 /\ e = d + 1 /\ e \in 1 .. m + 1
  BY <1>1, <1>2, <1>3
<1>7. u \in Seq(S) /\ Len(u) = m - e + 1 /\ \A j \in 1 .. m - e + 1 : u[j] = q[j + (e - 1)]
  BY <1>2, <1>4, <1>6, Suffix, SMTT(30)
<1>8. m - e + 1 = n - k + 1
  BY <1>1, <1>3, <1>6
<1>9. ASSUME NEW j \in 1 .. n - k + 1 PROVE u[j] = v[j]
  <2>1. PICK h \in 1 .. n - i + 1 : h = j + (e - 1)
    BY <1>1, <1>3, <1>6
  <2>2. h + (i - 1) = j + (k - 1)
    BY <1>1, <1>3, <1>6, <2>1
  <2>3. u[j] = q[h] /\ q[h] = p[h + (i - 1)] /\ v[j] = p[j + (k - 1)]
    BY <1>2, <1>5, <1>7, <1>8, <2>1
  <2> QED BY <2>2, <2>3
<1>10. Len(u) = Len(v) /\ Len(u) = n - k + 1
  BY <1>5, <1>7, <1>8
<1>11. u = v
  BY <1>5, <1>7, <1>9, <1>10, SeqEqual
<1> QED BY <1>1, <1>3, <1>4, <1>11

\* The empty string has no runes.
LEMMA NoRunes == Runes(<<>>) = <<>>
<1>1. PICK p : p = <<>>
  OBVIOUS
<1>2. p \in Pieces /\ Len(p) = 0
  BY <1>1 DEF Pieces
<1>3. PICK u : u = Items(p)
  OBVIOUS
<1>4. u \in Seq(Seq(Alphabet)) /\ Len(u) = 0 /\ Runes(p) = FlattenSeq(u)
  BY <1>2, <1>3, RunesAre
<1>5. u = <<>>
  BY <1>4, EmptySeq
<1> QED BY <1>1, <1>4, <1>5, FlattenEmpty

---------------------------------------------------------------------------
(* Decode, from the end of the string back *)

DecodeStep(p, f, i) ==
  IF i > Len(p) THEN <<>>
  ELSE IF p[i] = "hi" /\ i < Len(p) /\ p[i + 1] = "lo" THEN <<"pair">> \o f[i + 2]
  ELSE <<IF p[i] \in {"hi", "lo"} THEN "replacement" ELSE p[i]>> \o f[i + 1]
IsDecoded(p, f) == f = [i \in 1 .. Len(p) + 2 |-> DecodeStep(p, f, i)]

\* It is the CHOOSE of the recursion.
LEMMA DecodeIs == ASSUME NEW p PROVE Decode(p) = (CHOOSE f : IsDecoded(p, f))[1]
BY Zenon DEF Decode, IsDecoded, DecodeStep, PairLength

\* There is one such function.
LEMMA DecodedOnce ==
  ASSUME NEW p \in Pieces, NEW f, NEW g, IsDecoded(p, f), IsDecoded(p, g)
  PROVE  f[1] = g[1]
<1>1. PICK n \in Nat : n = Len(p)
  BY LenProperties DEF Pieces
<1> DEFINE Bad == {i \in 1 .. n + 2 : f[i] # g[i]}
           Back == {n + 2 - i : i \in Bad}
<1>2. SUFFICES ASSUME Bad # {} PROVE FALSE
  BY <1>1
<1>3. \A i \in Bad : n + 2 - i \in Nat
  BY <1>1
<1>4. Back \in SUBSET Nat /\ Back # {}
  BY <1>2, <1>3
<1>5. PICK b \in Back : \A c \in Back : b <= c
  BY <1>4, Least
<1>6. PICK i \in Bad : b = n + 2 - i
  BY <1>5
<1>7. \A j \in Bad : n + 2 - i <= n + 2 - j
  BY <1>5, <1>6
<1>8. i \in 1 .. n + 2 /\ f[i] # g[i]
  BY <1>6
<1>9. \A j \in 1 .. n + 2 : j > i => f[j] = g[j]
  <2> SUFFICES ASSUME NEW j \in 1 .. n + 2, j > i, f[j] # g[j] PROVE FALSE
    OBVIOUS
  <2>1. j \in Bad
    OBVIOUS
  <2>2. n + 2 - i <= n + 2 - j
    BY <1>7, <2>1
  <2> QED BY <1>1, <1>8, <2>2
<1>10. f[i] = DecodeStep(p, f, i) /\ g[i] = DecodeStep(p, g, i)
  BY <1>1, <1>8 DEF IsDecoded
<1>11. CASE i > n
  BY <1>1, <1>8, <1>10, <1>11, Zenon DEF DecodeStep
<1>12. CASE i <= n
  <2>1. i + 1 \in 1 .. n + 2 /\ i + 2 \in 1 .. n + 2 /\ i + 1 > i /\ i + 2 > i
    BY <1>1, <1>8, <1>12
  <2>2. f[i + 1] = g[i + 1] /\ f[i + 2] = g[i + 2]
    BY <1>9, <2>1
  <2>3. DecodeStep(p, f, i) = DecodeStep(p, g, i)
    BY <2>2, Zenon DEF DecodeStep
  <2> QED BY <1>8, <1>10, <2>3
<1> QED BY <1>1, <1>8, <1>11, <1>12

\* What readEscape makes of a string, piece by piece from the end, are its runes.
LEMMA DecodeRunes == ASSUME NEW p \in Pieces PROVE Decode(p) = Runes(p)
<1>1. PICK n \in Nat : n = Len(p) /\ p \in Seq(Alphabet)
  BY LenProperties DEF Pieces
<1>a. PICK G : G = [i \in 1 .. n + 2 |-> IF i > n THEN <<>> ELSE Runes(SubSeq(p, i, n))]
  OBVIOUS
<1>2. \A i \in 1 .. n + 1 : G[i] = Runes(SubSeq(p, i, n))
  <2> SUFFICES ASSUME NEW i \in 1 .. n + 1 PROVE G[i] = Runes(SubSeq(p, i, n))
    OBVIOUS
  <2>1. CASE i <= n
    BY <1>1, <1>a, <2>1
  <2>2. CASE i = n + 1
    <3>1. SubSeq(p, i, n) \in Seq(Alphabet) /\ Len(SubSeq(p, i, n)) = 0
      <4>1. Len(SubSeq(p, i, n)) = n - i + 1 /\ SubSeq(p, i, n) \in Seq(Alphabet)
        BY <1>1, Suffix
      <4> QED BY <1>1, <2>2, <4>1
    <3>2. SubSeq(p, i, n) = <<>>
      BY <3>1, EmptySeq
    <3>3. G[i] = <<>>
      BY <1>1, <1>a, <2>2
    <3> QED BY <3>2, <3>3, NoRunes
  <2> QED BY <1>1, <2>1, <2>2
<1>3. ASSUME NEW i \in 1 .. n PROVE G[i] = DecodeStep(p, G, i)
  <2>1. PICK q : q = SubSeq(p, i, n)
    OBVIOUS
  <2>2. q \in Seq(Alphabet) /\ Len(q) = n - i + 1 /\ \A j \in 1 .. n - i + 1 : q[j] = p[j + (i - 1)]
    <3>1. i \in 1 .. n + 1
      BY <1>1
    <3> QED BY <1>1, <2>1, <3>1, Suffix
  <2>3. q[1] = p[i]
    <3>1. 1 \in 1 .. n - i + 1 /\ 1 + (i - 1) = i
      BY <1>1
    <3> QED BY <2>2, <3>1
  <2>4. (Len(q) >= 2 /\ q[2] = "lo") <=> (i < n /\ p[i + 1] = "lo")
    <3>1. Len(q) >= 2 <=> i < n
      BY <1>1, <2>2
    <3>2. i < n => 2 \in 1 .. n - i + 1 /\ 2 + (i - 1) = i + 1
      BY <1>1
    <3>3. i < n => q[2] = p[i + 1]
      BY <2>2, <3>2
    <3> QED BY <3>1, <3>3
  <2>5. PICK u, v : u = SubSeq(q, 3, Len(q)) /\ v = SubSeq(q, 2, Len(q))
    OBVIOUS
  <2>6. v = SubSeq(p, i + 1, n)
    <3>1. i + 1 <= n + 1 /\ 1 + 1 = 2
      BY <1>1
    <3> QED BY <1>1, <2>1, <2>5, <3>1, SuffixOfSuffix
  <2>7. i < n => u = SubSeq(p, i + 2, n)
    <3>1. i < n => i + 2 <= n + 1
      BY <1>1
    <3>2. 2 + 1 = 3
      OBVIOUS
    <3> QED BY <1>1, <2>1, <2>5, <3>1, <3>2, SuffixOfSuffix
  <2>8. Len(q) >= 1 /\ q \in Pieces
    BY <1>1, <2>2 DEF Pieces
  <2>9. Runes(q) = IF q[1] = "hi" /\ Len(q) >= 2 /\ q[2] = "lo" THEN <<"pair">> \o Runes(u)
                   ELSE <<IF q[1] \in {"hi", "lo"} THEN "replacement" ELSE q[1]>> \o Runes(v)
    BY <2>5, <2>8, RunesFrom
  <2>10. G[i] = Runes(q) /\ G[i + 1] = Runes(v) /\ (i < n => G[i + 2] = Runes(u))
    <3>1. i \in 1 .. n + 1 /\ i + 1 \in 1 .. n + 1 /\ (i < n => i + 2 \in 1 .. n + 1)
      BY <1>1
    <3> QED BY <1>2, <2>1, <2>6, <2>7, <3>1
  <2>11. ~(i > n)
    BY <1>1
  <2> QED BY <1>1, <2>3, <2>4, <2>9, <2>10, <2>11, Zenon DEF DecodeStep
<1>4. IsDecoded(p, G)
  <2>1. ASSUME NEW i \in 1 .. n + 2 PROVE G[i] = DecodeStep(p, G, i)
    <3>1. CASE i \in 1 .. n
      BY <1>3, <3>1
    <3>2. CASE i > n
      <4>1. G[i] = <<>>
        BY <1>1, <1>a, <3>2
      <4> QED BY <1>1, <3>2, <4>1, Zenon DEF DecodeStep
    <3> QED BY <1>1, <3>1, <3>2
  <2>2. G = [i \in 1 .. n + 2 |-> G[i]]
    BY <1>a
  <2>3. [i \in 1 .. n + 2 |-> G[i]] = [i \in 1 .. n + 2 |-> DecodeStep(p, G, i)]
    BY <2>1
  <2> QED BY <1>1, <2>2, <2>3, Zenon DEF IsDecoded
<1>5. PICK f : f = (CHOOSE h : IsDecoded(p, h))
  OBVIOUS
<1>6. IsDecoded(p, f)
  BY <1>4, <1>5, Zenon
<1>7. f[1] = G[1]
  BY <1>4, <1>6, DecodedOnce
<1>8. SubSeq(p, 1, n) = p
  <2>1. PICK q : q = SubSeq(p, 1, n)
    OBVIOUS
  <2>2. 1 \in 1 .. n + 1 /\ n - 1 + 1 = n
    BY <1>1
  <2>3. q \in Seq(Alphabet) /\ Len(q) = n - 1 + 1 /\ \A j \in 1 .. n - 1 + 1 : q[j] = p[j + (1 - 1)]
    BY <1>1, <2>1, <2>2, Suffix
  <2>4. \A j \in 1 .. n : q[j] = p[j]
    BY <1>1, <2>2, <2>3
  <2>5. q = p
    BY <1>1, <2>2, <2>3, <2>4, SeqEqual
  <2> QED BY <2>1, <2>5
<1>9. G[1] = Runes(p)
  <2>1. 1 \in 1 .. n + 1
    BY <1>1
  <2>2. G[1] = Runes(SubSeq(p, 1, n))
    BY <1>2, <2>1
  <2> QED BY <1>8, <2>2
<1> QED BY <1>5, <1>7, <1>9, DecodeIs, Zenon

---------------------------------------------------------------------------
(* What a string takes, and what is kept of it *)

SumStep(s, f, k) == IF k = 0 THEN 0 ELSE f[k - 1] + Bytes(s[k])
IsSum(s, f, n) == f = [k \in 0 .. n |-> SumStep(s, f, k)]

\* It is the CHOOSE of the recursion.
LEMMA SizeIs == ASSUME NEW s PROVE Size(s) = (CHOOSE f : IsSum(s, f, Len(s)))[Len(s)]
BY Zenon DEF Size, IsSum, SumStep

\* Every rune takes something.
LEMMA BytesType == ASSUME NEW r PROVE Bytes(r) \in Nat \ {0}
BY DEF Bytes

\* There is a sum up to every place.
LEMMA SumExists == ASSUME NEW s PROVE \A n \in Nat : \E f : IsSum(s, f, n)
<1> DEFINE T == {n \in Nat : \E f : IsSum(s, f, n)}
<1>1. 0 \in T
  <2>1. PICK z : z = [k \in 0 .. 0 |-> 0]
    OBVIOUS
  <2>2. ASSUME NEW k \in 0 .. 0 PROVE SumStep(s, z, k) = 0
    BY DEF SumStep
  <2>3. z = [k \in 0 .. 0 |-> SumStep(s, z, k)]
    BY <2>1, <2>2
  <2> QED BY <2>3 DEF IsSum
<1>2. ASSUME NEW n \in T PROVE n + 1 \in T
  <2>1. PICK f : IsSum(s, f, n)
    OBVIOUS
  <2>2. PICK g : g = [k \in 0 .. n + 1 |-> SumStep(s, f, k)]
    OBVIOUS
  <2>3. \A k \in 0 .. n : f[k] = SumStep(s, f, k)
    BY <2>1 DEF IsSum
  <2>4. \A k \in 0 .. n : g[k] = f[k]
    BY <2>2, <2>3
  <2>5. ASSUME NEW k \in 0 .. n + 1 PROVE SumStep(s, f, k) = SumStep(s, g, k)
    <3>1. CASE k = 0
      BY <3>1 DEF SumStep
    <3>2. CASE k # 0
      <4>1. k - 1 \in 0 .. n
        BY <3>2
      <4>2. f[k - 1] = g[k - 1]
        BY <2>4, <4>1
      <4> QED BY <3>2, <4>2, Zenon DEF SumStep
    <3> QED BY <3>1, <3>2
  <2>6. g = [k \in 0 .. n + 1 |-> SumStep(s, g, k)]
    BY <2>2, <2>5
  <2>7. IsSum(s, g, n + 1)
    BY <2>6 DEF IsSum
  <2> QED BY <2>7
<1>3. T = Nat
  <2> HIDE DEF T
  <2>1. T \subseteq Nat
    BY DEF T
  <2> QED BY <1>1, <1>2, <2>1, Induct
<1> QED BY <1>3

\* Two sequences that agree up to n have the same sums up to n.
LEMMA SumUnique ==
  ASSUME NEW s, NEW t, NEW f, NEW g, NEW m \in Nat, NEW n \in Nat, NEW k \in Nat, k <= m, k <= n,
         IsSum(s, f, m), IsSum(t, g, n), \A i \in 1 .. k : s[i] = t[i]
  PROVE  f[k] = g[k]
<1> DEFINE T == {i \in Nat : i <= k => f[i] = g[i]}
<1>1. 0 \in T
  <2>1. 0 \in 0 .. m /\ 0 \in 0 .. n
    OBVIOUS
  <2>2. f[0] = SumStep(s, f, 0) /\ g[0] = SumStep(t, g, 0)
    BY <2>1 DEF IsSum
  <2> QED BY <2>2 DEF SumStep
<1>2. ASSUME NEW i \in T PROVE i + 1 \in T
  <2> SUFFICES ASSUME i + 1 <= k PROVE f[i + 1] = g[i + 1]
    OBVIOUS
  <2>1. PICK j \in Nat : j = i + 1 /\ j - 1 = i
    OBVIOUS
  <2>2. j \in 0 .. m /\ j \in 0 .. n /\ j # 0 /\ j \in 1 .. k /\ i <= k
    BY <2>1
  <2>3. f[j] = SumStep(s, f, j) /\ g[j] = SumStep(t, g, j)
    BY <2>2 DEF IsSum
  <2>4. f[j - 1] = g[j - 1] /\ s[j] = t[j]
    BY <2>1, <2>2
  <2>5. f[j] = g[j]
    BY <2>2, <2>3, <2>4, Zenon DEF SumStep
  <2> QED BY <2>1, <2>5
<1>3. T = Nat
  <2> HIDE DEF T
  <2>1. T \subseteq Nat
    BY DEF T
  <2> QED BY <1>1, <1>2, <2>1, Induct
<1> QED BY <1>3

\* The empty string takes nothing, and one more rune what it takes.
LEMMA SizeEmpty == Size(<<>>) = 0
<1>1. PICK f : f = (CHOOSE h : IsSum(<<>>, h, 0))
  OBVIOUS
<1>2. \E h : IsSum(<<>>, h, 0)
  BY SumExists
<1>3. IsSum(<<>>, f, 0)
  BY <1>1, <1>2, Zenon
<1>4. f[0] = 0
  BY <1>3 DEF IsSum, SumStep
<1>5. Len(<<>>) = 0
  OBVIOUS
<1> QED BY <1>1, <1>4, <1>5, SizeIs, Zenon

\* One rune more.
LEMMA SizeAppend ==
  ASSUME NEW S, NEW s \in Seq(S), NEW x \in S
  PROVE  Size(Append(s, x)) = Size(s) + Bytes(x)
<1>1. PICK n \in Nat : n = Len(s)
  BY LenProperties
<1>2. PICK t : t = Append(s, x)
  OBVIOUS
<1>3. t \in Seq(S) /\ Len(t) = n + 1 /\ t[n + 1] = x /\ \A i \in 1 .. n : t[i] = s[i]
  BY <1>1, <1>2, AppendProperties
<1>4. PICK f : f = (CHOOSE h : IsSum(s, h, n))
  OBVIOUS
<1>5. PICK g : g = (CHOOSE h : IsSum(t, h, n + 1))
  OBVIOUS
<1>6. IsSum(s, f, n)
  <2>1. \E h : IsSum(s, h, n)
    BY SumExists
  <2> QED BY <1>4, <2>1, Zenon
<1>7. IsSum(t, g, n + 1)
  <2>1. PICK m \in Nat : m = n + 1
    OBVIOUS
  <2>2. \E h : IsSum(t, h, m)
    BY SumExists
  <2> QED BY <1>5, <2>1, <2>2, Zenon
<1>8. Size(s) = f[n]
  BY <1>1, <1>4, SizeIs
<1>9. Size(t) = g[n + 1]
  BY <1>3, <1>5, SizeIs
<1>10. g[n] = f[n]
  <2>1. \A i \in 1 .. n : t[i] = s[i]
    BY <1>3
  <2>2. n + 1 \in Nat /\ n <= n + 1 /\ n <= n
    OBVIOUS
  <2> QED BY <1>6, <1>7, <2>1, <2>2, SumUnique
<1>11. g[n + 1] = g[n] + Bytes(x)
  <2>1. g[n + 1] = SumStep(t, g, n + 1)
    BY <1>7 DEF IsSum
  <2>2. n + 1 # 0 /\ n + 1 - 1 = n
    OBVIOUS
  <2>3. SumStep(t, g, n + 1) = g[n] + Bytes(t[n + 1])
    BY <2>2 DEF SumStep
  <2> QED BY <1>3, <2>1, <2>3
<1> QED BY <1>2, <1>8, <1>9, <1>10, <1>11

\* The beginning up to n + 1 is that up to n and one rune more.
LEMMA PrefixGrows ==
  ASSUME NEW S, NEW s \in Seq(S), NEW n \in Nat, n + 1 <= Len(s)
  PROVE  /\ SubSeq(s, 1, n) \in Seq(S) /\ s[n + 1] \in S
         /\ SubSeq(s, 1, n + 1) = Append(SubSeq(s, 1, n), s[n + 1])
<1>1. PICK m \in Nat : m = Len(s) /\ n + 1 <= m /\ \A i \in 1 .. m : s[i] \in S
  BY LenProperties, ElementOfSeq
<1>2. PICK q : q = SubSeq(s, 1, n + 1)
  OBVIOUS
<1>3. n + 1 \in 0 .. m /\ n \in 0 .. m /\ n + 1 \in 1 .. n + 1
  BY <1>1
<1>4. q \in Seq(S) /\ Len(q) = n + 1 /\ \A i \in 1 .. n + 1 : q[i] = s[i]
  BY <1>1, <1>2, <1>3, CutInTwo
<1>5. q = Append(SubSeq(q, 1, n), q[n + 1]) /\ SubSeq(q, 1, n) \in Seq(S) /\ Len(SubSeq(q, 1, n)) = n
  BY <1>4, AllButLast
<1>6. SubSeq(q, 1, n) = SubSeq(s, 1, n)
  <2>1. PICK u, v : u = SubSeq(q, 1, n) /\ v = SubSeq(s, 1, n)
    OBVIOUS
  <2>2. v \in Seq(S) /\ Len(v) = n /\ \A i \in 1 .. n : v[i] = s[i]
    BY <1>1, <1>3, <2>1, CutInTwo
  <2>3. n \in 0 .. Len(q)
    BY <1>4
  <2>4. u \in Seq(S) /\ Len(u) = n /\ \A i \in 1 .. n : u[i] = q[i]
    BY <1>4, <2>1, <2>3, CutInTwo
  <2>5. \A i \in 1 .. n : i \in 1 .. n + 1
    OBVIOUS
  <2>6. \A i \in 1 .. n : u[i] = v[i]
    BY <1>4, <2>2, <2>4, <2>5
  <2>7. u = v
    BY <2>2, <2>4, <2>6, SeqEqual
  <2> QED BY <2>1, <2>7
<1>7. q[n + 1] = s[n + 1] /\ s[n + 1] \in S
  <2>1. n + 1 \in 1 .. m
    BY <1>1
  <2> QED BY <1>1, <1>3, <1>4, <2>1
<1> QED BY <1>2, <1>5, <1>6, <1>7

\* A beginning of a string takes no more than a longer one.
LEMMA SizePrefix ==
  ASSUME NEW S, NEW s \in Seq(S)
  PROVE  \A n \in 0 .. Len(s) :
           /\ Size(SubSeq(s, 1, n)) \in Nat
           /\ \A k \in 0 .. n : Size(SubSeq(s, 1, k)) <= Size(SubSeq(s, 1, n))
<1>1. PICK m \in Nat : m = Len(s) /\ \A i \in 1 .. m : s[i] \in S
  BY LenProperties, ElementOfSeq
<1> DEFINE Z(n) == Size(SubSeq(s, 1, n))
<1>2. SubSeq(s, 1, 0) = <<>>
  <2>1. SubSeq(s, 1, 0) \in Seq(S) /\ Len(SubSeq(s, 1, 0)) = 0
    BY <1>1, CutInTwo
  <2> QED BY <2>1, EmptySeq
<1>3. Z(0) = 0
  BY <1>2, SizeEmpty
<1>4. ASSUME NEW n \in Nat, n + 1 <= m PROVE Z(n + 1) = Z(n) + Bytes(s[n + 1])
  <2>1. PICK v \in Seq(S) : v = SubSeq(s, 1, n) /\ SubSeq(s, 1, n + 1) = Append(v, s[n + 1]) /\ s[n + 1] \in S
    BY <1>1, <1>4, PrefixGrows
  <2>2. Size(SubSeq(s, 1, n + 1)) = Size(v) + Bytes(s[n + 1])
    BY <2>1, SizeAppend
  <2> QED BY <2>1, <2>2
<1> HIDE DEF Z
<1> DEFINE T == {n \in Nat : n <= m => \A k \in 0 .. n : Z(k) \in Nat /\ Z(k) <= Z(n)}
<1>5. 0 \in T
  BY <1>3
<1>6. ASSUME NEW n \in T PROVE n + 1 \in T
  <2> SUFFICES ASSUME n + 1 <= m, NEW k \in 0 .. n + 1 PROVE Z(k) \in Nat /\ Z(k) <= Z(n + 1)
    OBVIOUS
  <2>1. \A i \in 0 .. n : Z(i) \in Nat /\ Z(i) <= Z(n)
    BY <1>1
  <2>2. PICK b \in Nat \ {0} : b = Bytes(s[n + 1])
    BY BytesType
  <2>3. PICK y \in Nat : y = Z(n)
    BY <2>1
  <2>4. Z(n + 1) = y + b
    BY <1>4, <2>2, <2>3
  <2>5. CASE k \in 0 .. n
    <3>1. Z(k) \in Nat /\ Z(k) <= y
      BY <2>1, <2>3, <2>5
    <3> QED BY <2>4, <3>1
  <2>6. CASE k = n + 1
    BY <2>4, <2>6
  <2> QED BY <2>5, <2>6
<1>7. T = Nat
  <2> HIDE DEF T
  <2>1. T \subseteq Nat
    BY DEF T
  <2> QED BY <1>5, <1>6, <2>1, Induct
<1>8. ASSUME NEW n \in 0 .. m PROVE \A k \in 0 .. n : Z(k) \in Nat /\ Z(k) <= Z(n)
  BY <1>1, <1>7
<1>9. ASSUME NEW n \in 0 .. m PROVE Z(n) \in Nat /\ \A k \in 0 .. n : Z(k) <= Z(n)
  BY <1>8
<1> QED BY <1>1, <1>9 DEF Z

\* All of x, place by place, begins v.
Begins(x, v) == x \in Pieces /\ v \in Pieces /\ Len(x) <= Len(v) /\ \A i \in 1 .. Len(x) : v[i] = x[i]

\* Begins is the prefix order.
LEMMA BeginsIsPrefix == ASSUME NEW x, NEW v, Begins(x, v) PROVE IsPrefix(x, v)
<1>1. PICK n \in Nat : n = Len(x) /\ n \in 0 .. Len(x) /\ n \in 0 .. Len(v) /\ x \in Pieces /\ v \in Pieces
  BY LenProperties DEF Begins, Pieces
<1>2. \A i \in 1 .. n : v[i] = x[i]
  BY <1>1 DEF Begins
<1>3. PICK a, b : a = SubSeq(x, 1, n) /\ b = SubSeq(v, 1, n)
  OBVIOUS
<1>4. a \in Pieces /\ Len(a) = n /\ \A i \in 1 .. n : a[i] = x[i]
  BY <1>1, <1>3, CutInTwo DEF Pieces
<1>5. b \in Pieces /\ Len(b) = n /\ \A i \in 1 .. n : b[i] = v[i]
  BY <1>1, <1>3, CutInTwo DEF Pieces
<1>6. \A i \in 1 .. n : a[i] = b[i]
  BY <1>2, <1>4, <1>5
<1>7. a = b
  BY <1>4, <1>5, <1>6, SeqEqual DEF Pieces
<1>8. Len(x) <= Len(v)
  BY DEF Begins
<1> QED BY <1>1, <1>3, <1>7, <1>8, Zenon DEF IsPrefix

\* A longer one begins with it as well.
LEMMA BeginsLonger ==
  ASSUME NEW x, NEW v, Begins(x, v), NEW r \in Alphabet
  PROVE  Begins(x, Append(v, r))
<1>1. PICK m \in Nat, n \in Nat : m = Len(x) /\ n = Len(v) /\ m <= n /\ x \in Pieces /\ v \in Pieces
  BY LenProperties DEF Begins, Pieces
<1>2. PICK w : w = Append(v, r)
  OBVIOUS
<1>3. w \in Pieces /\ Len(w) = n + 1 /\ \A i \in 1 .. n : w[i] = v[i]
  BY <1>1, <1>2, AppendProperties DEF Pieces
<1>4. \A i \in 1 .. m : i \in 1 .. n /\ v[i] = x[i]
  BY <1>1 DEF Begins
<1>5. \A i \in 1 .. m : w[i] = x[i]
  BY <1>3, <1>4
<1>6. Begins(x, w)
  BY <1>1, <1>3, <1>5 DEF Begins
<1> QED BY <1>2, <1>6

\* Two beginnings of one string.
LEMMA BeginningsBegin ==
  ASSUME NEW s \in Pieces, NEW m \in 0 .. Len(s), NEW n \in 0 .. m
  PROVE  Begins(SubSeq(s, 1, n), SubSeq(s, 1, m))
<1>1. PICK a, b : a = SubSeq(s, 1, n) /\ b = SubSeq(s, 1, m)
  OBVIOUS
<1>2. n \in 0 .. Len(s)
  BY LenProperties DEF Pieces
<1>3. a \in Pieces /\ Len(a) = n /\ \A i \in 1 .. n : a[i] = s[i]
  BY <1>1, <1>2, CutInTwo DEF Pieces
<1>4. b \in Pieces /\ Len(b) = m /\ \A i \in 1 .. m : b[i] = s[i]
  BY <1>1, CutInTwo DEF Pieces
<1>5. \A i \in 1 .. n : i \in 1 .. m
  OBVIOUS
<1>6. \A i \in 1 .. n : b[i] = a[i]
  BY <1>3, <1>4, <1>5
<1>7. Begins(a, b)
  BY <1>3, <1>4, <1>6 DEF Begins
<1> QED BY <1>1, <1>7

Kept == [value : Pieces, bytes : Nat, tooLarge : BOOLEAN]
Cut(s, k) == SubSeq(s, 1, k)

\* What has been kept of the first k runes of s.
NoRoom(s, k, r, limit) == \E j \in 1 .. k : r.bytes + Bytes(s[j]) > limit
AllThatFit(s, k, r, limit) == \A n \in 0 .. k : Size(Cut(s, n)) <= limit => Begins(Cut(s, n), r.value)
KeptOf(s, k, r, limit) ==
  /\ r \in Kept /\ r.bytes = Size(r.value) /\ r.bytes <= limit
  /\ ~r.tooLarge => r.value = Cut(s, k)
  /\ r.tooLarge => Size(Cut(s, k)) > limit /\ NoRoom(s, k, r, limit)
  /\ AllThatFit(s, k, r, limit)

\* And of one rune more.
LEMMA KeepOne ==
  ASSUME NEW s \in Pieces, NEW limit \in Nat, NEW k \in Nat, k + 1 <= Len(s),
         NEW r, KeptOf(s, k, r, limit)
  PROVE  KeptOf(s, k + 1, Keep(r, s[k + 1], limit), limit)
<1>1. PICK x, y, c : x = Cut(s, k) /\ y = Cut(s, k + 1) /\ c = s[k + 1]
  OBVIOUS
<1>2. x \in Pieces /\ c \in Alphabet /\ y = Append(x, c)
  BY <1>1, PrefixGrows DEF Cut, Pieces
<1>3. PICK b \in Nat \ {0} : b = Bytes(c)
  BY BytesType
<1>4. Size(y) = Size(x) + b
  BY <1>2, <1>3, SizeAppend DEF Pieces
<1>5. r \in Kept /\ r.bytes = Size(r.value) /\ r.bytes <= limit
  BY DEF KeptOf
<1>6. r.value \in Pieces /\ r.bytes \in Nat /\ r.tooLarge \in BOOLEAN
  BY <1>5 DEF Kept
<1>7. PICK v, z, t : v = r.value /\ z = r.bytes /\ t = r.tooLarge
  OBVIOUS
<1>8. PICK q : q = Keep(r, c, limit)
  OBVIOUS
<1>9. Size(x) \in Nat
  <2>1. k \in 0 .. Len(s)
    BY LenProperties DEF Pieces
  <2> QED BY <1>1, <2>1, SizePrefix DEF Cut, Pieces
<1>10. \A n \in 0 .. k : Size(Cut(s, n)) <= limit => Begins(Cut(s, n), v)
  BY <1>7 DEF KeptOf, AllThatFit
<1>11. t => Size(x) > limit /\ \E j \in 1 .. k : z + Bytes(s[j]) > limit
  BY <1>1, <1>7 DEF KeptOf, NoRoom
<1>12. ~t => v = x
  BY <1>1, <1>7 DEF KeptOf
<1>13. k + 1 \in 1 .. k + 1
  OBVIOUS
<1>14. CASE z + b <= limit
  <2>1. q = [value |-> Append(v, c), bytes |-> z + b, tooLarge |-> t]
    BY <1>3, <1>5, <1>7, <1>8, <1>14 DEF Keep, Kept
  <2>2. q.value = Append(v, c) /\ q.bytes = z + b /\ q.tooLarge = t
    BY <2>1
  <2>3. Append(v, c) \in Pieces
    BY <1>2, <1>6, <1>7, AppendProperties DEF Pieces
  <2>4. q \in Kept
    BY <1>3, <1>6, <1>7, <2>1, <2>3 DEF Kept
  <2>5. q.bytes = Size(q.value)
    <3>1. Size(Append(v, c)) = Size(v) + b
      BY <1>2, <1>3, <1>6, <1>7, SizeAppend DEF Pieces
    <3> QED BY <1>5, <1>7, <2>2, <3>1
  <2>6. ~q.tooLarge => q.value = y
    BY <1>2, <1>12, <2>2
  <2>7. ASSUME q.tooLarge PROVE Size(y) > limit /\ NoRoom(s, k + 1, q, limit)
    <3>1. Size(x) > limit
      BY <1>11, <2>2, <2>7
    <3>2. PICK j \in 1 .. k : z + Bytes(s[j]) > limit
      BY <1>11, <2>2, <2>7
    <3>3. PICK d \in Nat : d = Bytes(s[j])
      BY BytesType
    <3>4. q.bytes + Bytes(s[j]) > limit
      BY <1>3, <1>6, <1>7, <2>2, <3>2, <3>3
    <3>5. j \in 1 .. k + 1
      OBVIOUS
    <3>6. NoRoom(s, k + 1, q, limit)
      BY <3>4, <3>5 DEF NoRoom
    <3> QED BY <1>3, <1>4, <1>9, <3>1, <3>6
  <2>8. AllThatFit(s, k + 1, q, limit)
    <3> SUFFICES ASSUME NEW n \in 0 .. k + 1, Size(Cut(s, n)) <= limit
                 PROVE  Begins(Cut(s, n), q.value)
      BY DEF AllThatFit
    <3>1. CASE n \in 0 .. k
      <4>1. Begins(Cut(s, n), v)
        BY <1>10, <3>1
      <4> QED BY <1>2, <2>2, <4>1, BeginsLonger
    <3>2. CASE n = k + 1
      <4>1. Size(y) <= limit
        BY <1>1, <3>2
      <4>2. ~t
        BY <1>3, <1>4, <1>9, <1>11, <4>1
      <4>3. q.value = y
        BY <2>2, <2>6, <4>2
      <4>4. y \in Pieces
        BY <1>2, AppendProperties DEF Pieces
      <4>5. Begins(y, y)
        BY <4>4, LenProperties DEF Begins, Pieces
      <4> QED BY <1>1, <3>2, <4>3, <4>5
    <3> QED BY <3>1, <3>2
  <2>9. q.bytes <= limit
    BY <1>14, <2>2
  <2>10. KeptOf(s, k + 1, q, limit)
    BY <1>1, <2>4, <2>5, <2>6, <2>7, <2>8, <2>9 DEF KeptOf
  <2> QED BY <1>1, <1>8, <2>10
<1>15. CASE ~(z + b <= limit)
  <2>1. q = [value |-> v, bytes |-> z, tooLarge |-> TRUE]
    BY <1>3, <1>5, <1>7, <1>8, <1>15 DEF Keep, Kept
  <2>2. q.value = v /\ q.bytes = z /\ q.tooLarge = TRUE
    BY <2>1
  <2>3. q \in Kept
    BY <1>6, <1>7, <2>1 DEF Kept
  <2>4. NoRoom(s, k + 1, q, limit)
    <3>1. q.bytes + Bytes(s[k + 1]) > limit
      BY <1>1, <1>3, <1>6, <1>7, <1>15, <2>2
    <3> QED BY <1>13, <3>1 DEF NoRoom
  <2>5. Size(y) > limit
    <3>1. CASE t
      BY <1>3, <1>4, <1>9, <1>11, <3>1
    <3>2. CASE ~t
      <4>1. z = Size(x)
        BY <1>5, <1>7, <1>12, <3>2
      <4> QED BY <1>3, <1>4, <1>9, <1>15, <4>1
    <3> QED BY <3>1, <3>2
  <2>6. AllThatFit(s, k + 1, q, limit)
    <3> SUFFICES ASSUME NEW n \in 0 .. k + 1, Size(Cut(s, n)) <= limit
                 PROVE  Begins(Cut(s, n), q.value)
      BY DEF AllThatFit
    <3>1. n # k + 1
      <4> SUFFICES ASSUME n = k + 1 PROVE FALSE
        OBVIOUS
      <4>1. Size(y) <= limit
        BY <1>1
      <4>2. Size(y) \in Nat
        BY <1>3, <1>4, <1>9
      <4> QED BY <2>5, <4>1, <4>2
    <3>2. n \in 0 .. k
      BY <3>1
    <3>3. Begins(Cut(s, n), v)
      BY <1>10, <3>2
    <3> QED BY <2>2, <3>3
  <2>7. q.bytes = Size(q.value) /\ q.bytes <= limit
    BY <1>5, <1>7, <2>2
  <2>8. KeptOf(s, k + 1, q, limit)
    BY <1>1, <2>2, <2>3, <2>4, <2>5, <2>6, <2>7 DEF KeptOf
  <2> QED BY <1>1, <1>8, <2>8
<1> QED BY <1>14, <1>15

KeepStep(s, limit, f, k) ==
  IF k = 0 THEN [value |-> <<>>, bytes |-> 0, tooLarge |-> FALSE] ELSE Keep(f[k - 1], s[k], limit)
IsKept(s, limit, f, n) == f = [k \in 0 .. n |-> KeepStep(s, limit, f, k)]

\* It is the CHOOSE of the recursion.
LEMMA ReadStringIs ==
  ASSUME NEW token, NEW limit, NEW s, s = Decode(token.text)
  PROVE  ReadString(token, limit) = (CHOOSE f : IsKept(s, limit, f, Len(s)))[Len(s)]
BY Zenon DEF ReadString, IsKept, KeepStep

\* The recursion of ReadString has a solution.
LEMMA KeptExists ==
  ASSUME NEW s, NEW limit PROVE \A n \in Nat : \E f : IsKept(s, limit, f, n)
<1> DEFINE T == {n \in Nat : \E f : IsKept(s, limit, f, n)}
<1>1. 0 \in T
  <2>1. PICK z : z = [k \in 0 .. 0 |-> [value |-> <<>>, bytes |-> 0, tooLarge |-> FALSE]]
    OBVIOUS
  <2>2. ASSUME NEW k \in 0 .. 0
        PROVE  KeepStep(s, limit, z, k) = [value |-> <<>>, bytes |-> 0, tooLarge |-> FALSE]
    BY DEF KeepStep
  <2>3. z = [k \in 0 .. 0 |-> KeepStep(s, limit, z, k)]
    BY <2>1, <2>2
  <2> QED BY <2>3 DEF IsKept
<1>2. ASSUME NEW n \in T PROVE n + 1 \in T
  <2>1. PICK f : IsKept(s, limit, f, n)
    OBVIOUS
  <2>2. PICK g : g = [k \in 0 .. n + 1 |-> KeepStep(s, limit, f, k)]
    OBVIOUS
  <2>3. \A k \in 0 .. n : f[k] = KeepStep(s, limit, f, k)
    BY <2>1 DEF IsKept
  <2>4. \A k \in 0 .. n : g[k] = f[k]
    BY <2>2, <2>3
  <2>5. ASSUME NEW k \in 0 .. n + 1 PROVE KeepStep(s, limit, f, k) = KeepStep(s, limit, g, k)
    <3>1. CASE k = 0
      BY <3>1, Zenon DEF KeepStep
    <3>2. CASE k # 0
      <4>1. k - 1 \in 0 .. n
        BY <3>2
      <4>2. f[k - 1] = g[k - 1]
        BY <2>4, <4>1
      <4> QED BY <3>2, <4>2, Zenon DEF KeepStep
    <3> QED BY <3>1, <3>2
  <2>6. g = [k \in 0 .. n + 1 |-> KeepStep(s, limit, g, k)]
    BY <2>2, <2>5
  <2>7. IsKept(s, limit, g, n + 1)
    BY <2>6 DEF IsKept
  <2> QED BY <2>7
<1>3. T = Nat
  <2> HIDE DEF T
  <2>1. T \subseteq Nat
    BY DEF T
  <2> QED BY <1>1, <1>2, <2>1, Induct
<1> QED BY <1>3

\* What readString makes of a string.
LEMMA ReadStringKeeps ==
  ASSUME NEW token, token.text \in Pieces, NEW limit \in Nat
  PROVE  KeptOf(Runes(token.text), Len(Runes(token.text)), ReadString(token, limit), limit)
<1>1. PICK s : s = Runes(token.text)
  OBVIOUS
<1>2. s \in Pieces /\ s = Decode(token.text)
  BY <1>1, RunesAre, DecodeRunes
<1>3. PICK m \in Nat : m = Len(s)
  BY <1>2, LenProperties DEF Pieces
<1>4. PICK f : f = (CHOOSE h : IsKept(s, limit, h, m))
  OBVIOUS
<1>5. IsKept(s, limit, f, m)
  <2>1. \E h : IsKept(s, limit, h, m)
    BY KeptExists
  <2> QED BY <1>4, <2>1, Zenon
<1>6. ReadString(token, limit) = f[m]
  BY <1>2, <1>3, <1>4, ReadStringIs
<1>7. ASSUME NEW k \in 0 .. m PROVE f[k] = KeepStep(s, limit, f, k)
  BY <1>5 DEF IsKept
<1> DEFINE T == {k \in Nat : k <= m => KeptOf(s, k, f[k], limit)}
<1>8. 0 \in T
  <2>1. PICK r : r = f[0]
    OBVIOUS
  <2>2. r = [value |-> <<>>, bytes |-> 0, tooLarge |-> FALSE]
    BY <1>7, <2>1 DEF KeepStep
  <2>3. r.value = <<>> /\ r.bytes = 0 /\ r.tooLarge = FALSE
    BY <2>2
  <2>4. Cut(s, 0) = <<>>
    <3>1. Cut(s, 0) \in Pieces /\ Len(Cut(s, 0)) = 0
      BY <1>2, <1>3, CutInTwo DEF Cut, Pieces
    <3> QED BY <3>1, EmptySeq DEF Pieces
  <2>5. r \in Kept
    <3>1. <<>> \in Pieces
      BY DEF Pieces
    <3> QED BY <2>2, <3>1 DEF Kept
  <2>6. AllThatFit(s, 0, r, limit)
    <3>1. PICK e : e = <<>>
      OBVIOUS
    <3>2. e \in Pieces /\ Len(e) = 0
      BY <3>1 DEF Pieces
    <3>3. Begins(e, e)
      BY <3>2 DEF Begins
    <3>4. \A n \in 0 .. 0 : Cut(s, n) = e
      BY <2>4, <3>1
    <3> QED BY <2>3, <3>1, <3>3, <3>4 DEF AllThatFit
  <2>7. KeptOf(s, 0, r, limit)
    BY <2>3, <2>4, <2>5, <2>6, SizeEmpty DEF KeptOf
  <2> QED BY <2>1, <2>7
<1>9. ASSUME NEW k \in T PROVE k + 1 \in T
  <2> SUFFICES ASSUME k + 1 <= m PROVE KeptOf(s, k + 1, f[k + 1], limit)
    OBVIOUS
  <2>1. KeptOf(s, k, f[k], limit)
    OBVIOUS
  <2>2. PICK j \in Nat : j = k + 1 /\ j - 1 = k /\ j # 0 /\ j \in 0 .. m
    OBVIOUS
  <2>3. f[j] = Keep(f[j - 1], s[j], limit)
    BY <1>7, <2>2, Zenon DEF KeepStep
  <2>4. KeptOf(s, k + 1, Keep(f[k], s[k + 1], limit), limit)
    BY <1>2, <1>3, <2>1, KeepOne
  <2> QED BY <2>2, <2>3, <2>4
<1>10. T = Nat
  <2> HIDE DEF T
  <2>1. T \subseteq Nat
    BY DEF T
  <2> QED BY <1>8, <1>9, <2>1, Induct
<1>11. KeptOf(s, m, f[m], limit)
  BY <1>10
<1> QED BY <1>1, <1>3, <1>6, <1>11

\* All of a string.
LEMMA WholeCut == ASSUME NEW s \in Pieces PROVE Cut(s, Len(s)) = s
<1>1. PICK n \in Nat : n = Len(s) /\ n \in 0 .. Len(s)
  BY LenProperties DEF Pieces
<1>2. PICK u : u = Cut(s, n)
  OBVIOUS
<1>3. u \in Pieces /\ Len(u) = n /\ \A i \in 1 .. n : u[i] = s[i]
  BY <1>1, <1>2, CutInTwo DEF Cut, Pieces
<1>4. u = s
  BY <1>1, <1>3, SeqEqual DEF Pieces
<1> QED BY <1>1, <1>2, <1>4

\* The name that the decoder looks for fits its limit.
LEMMA AnalysisFits == Size(Analysis) = NameLimit
<1>1. PICK a, b : a = <<"analys">> /\ b = Analysis
  OBVIOUS
<1>2. PICK S : S = {"analys", "is"}
  OBVIOUS
<1>3. <<>> \in Seq(S) /\ a \in Seq(S) /\ a = Append(<<>>, "analys") /\ b = Append(a, "is")
  BY <1>1, <1>2 DEF Analysis
<1>4. Bytes("analys") = 6 /\ Bytes("is") = 2
  BY DEF Bytes
<1>5. Size(a) = 0 + 6
  <2>1. Size(Append(<<>>, "analys")) = Size(<<>>) + Bytes("analys")
    BY <1>2, <1>3, SizeAppend
  <2> QED BY <1>3, <1>4, <2>1, SizeEmpty
<1>6. Size(b) = 6 + 2
  <2>1. Size(Append(a, "is")) = Size(a) + Bytes("is")
    BY <1>2, <1>3, SizeAppend
  <2> QED BY <1>3, <1>4, <1>5, <2>1
<1> QED BY <1>1, <1>6 DEF NameLimit

\* A name, cut or not, is taken for analysis if and only if it is that.
LEMMA NameIsAnalysis ==
  ASSUME NEW token, token.text \in Pieces
  PROVE  IsAnalysis(ReadString(token, NameLimit)) <=> Runes(token.text) = Analysis
<1>1. PICK s, r : s = Runes(token.text) /\ r = ReadString(token, NameLimit)
  OBVIOUS
<1>2. s \in Pieces
  BY <1>1, RunesAre
<1>3. NameLimit \in Nat
  BY DEF NameLimit
<1>4. KeptOf(s, Len(s), r, NameLimit)
  BY <1>1, <1>3, ReadStringKeeps
<1>5. Cut(s, Len(s)) = s
  BY <1>2, WholeCut
<1>6. ~r.tooLarge => r.value = s
  BY <1>4, <1>5 DEF KeptOf
<1>7. r.tooLarge => Size(s) > NameLimit
  BY <1>4, <1>5 DEF KeptOf
<1>8. s = Analysis => ~r.tooLarge
  <2> SUFFICES ASSUME s = Analysis, r.tooLarge PROVE FALSE
    OBVIOUS
  <2>1. Size(s) = NameLimit
    BY <1>2, AnalysisFits
  <2> QED BY <1>3, <1>7, <2>1
<1>9. IsAnalysis(r) <=> s = Analysis
  BY <1>6, <1>8, Zenon DEF IsAnalysis
<1> QED BY <1>1, <1>9

\* What LastWholeAnalysis says of the last text: what the decoder has made of it.
Delivers(text, value, cut) ==
  IF Size(text) <= MaxAnalysis THEN value = text /\ ~cut
  ELSE /\ cut
       /\ Size(value) <= MaxAnalysis
       /\ \E rune \in Range(text) : Size(value) + Bytes(rune) > MaxAnalysis
       /\ \A n \in DOMAIN text :
            Size(SubSeq(text, 1, n)) <= MaxAnalysis => IsPrefix(SubSeq(text, 1, n), value)

\* It is true of what readString has made of it.
LEMMA ReadStringDelivers ==
  ASSUME NEW token, token.text \in Pieces
  PROVE  LET content == ReadString(token, MaxAnalysis)
         IN Delivers(Runes(token.text), content.value, content.tooLarge)
<1>1. PICK s, r : s = Runes(token.text) /\ r = ReadString(token, MaxAnalysis)
  OBVIOUS
<1>2. s \in Pieces
  BY <1>1, RunesAre
<1>3. MaxAnalysis \in Nat
  BY HolmesAssumption
<1>4. KeptOf(s, Len(s), r, MaxAnalysis)
  BY <1>1, <1>3, ReadStringKeeps
<1>5. Cut(s, Len(s)) = s
  BY <1>2, WholeCut
<1>6. PICK m \in Nat : m = Len(s) /\ m \in 0 .. Len(s) /\ DOMAIN s = 1 .. m
  BY <1>2, LenProperties DEF Pieces
<1>7. Size(s) \in Nat
  BY <1>2, <1>5, <1>6, SizePrefix DEF Cut, Pieces
<1>8. CASE ~r.tooLarge
  <2>1. r.value = s
    BY <1>4, <1>5, <1>8 DEF KeptOf
  <2>2. Size(s) <= MaxAnalysis
    BY <1>4, <2>1 DEF KeptOf
  <2> QED BY <1>1, <1>8, <2>1, <2>2, Zenon DEF Delivers
<1>9. CASE r.tooLarge
  <2>1. ~(Size(s) <= MaxAnalysis)
    BY <1>3, <1>4, <1>5, <1>7, <1>9 DEF KeptOf
  <2>2. Size(r.value) <= MaxAnalysis /\ r.bytes = Size(r.value)
    BY <1>4 DEF KeptOf
  <2>3. \E rune \in Range(s) : Size(r.value) + Bytes(rune) > MaxAnalysis
    <3>1. PICK j \in 1 .. m : r.bytes + Bytes(s[j]) > MaxAnalysis
      BY <1>4, <1>6, <1>9 DEF KeptOf, NoRoom
    <3>2. s[j] \in Range(s)
      BY <1>6 DEF Range
    <3> QED BY <2>2, <3>1, <3>2
  <2>4. ASSUME NEW n \in DOMAIN s, Size(SubSeq(s, 1, n)) <= MaxAnalysis
        PROVE  IsPrefix(SubSeq(s, 1, n), r.value)
    <3>1. n \in 0 .. Len(s) /\ Cut(s, n) = SubSeq(s, 1, n)
      BY <1>6 DEF Cut
    <3>2. AllThatFit(s, Len(s), r, MaxAnalysis)
      BY <1>4 DEF KeptOf
    <3>3. Begins(Cut(s, n), r.value)
      BY <2>4, <3>1, <3>2 DEF AllThatFit
    <3> QED BY <3>1, <3>3, BeginsIsPrefix
  <2>5. Delivers(s, r.value, r.tooLarge)
    BY <1>9, <2>1, <2>2, <2>3, <2>4, Zenon DEF Delivers
  <2> QED BY <1>1, <2>5
<1> QED BY <1>8, <1>9

---------------------------------------------------------------------------
(* Numbers *)

IsAt(chars, i, set) == i <= Len(chars) /\ chars[i] \in set
DigitsFrom(chars, a, b) == a <= b /\ \A i \in a .. b : chars[i] \in Digit
SignEnd(chars) == IF IsAt(chars, 1, {"-"}) THEN 2 ELSE 1
IntegerEnd(chars) == AfterInteger(chars, SignEnd(chars))
FractionEnd(chars) ==
  IF IsAt(chars, IntegerEnd(chars), {"."}) THEN AfterDigits(chars, IntegerEnd(chars) + 1)
  ELSE IntegerEnd(chars)
ExponentFrom(chars) ==
  IF IsAt(chars, FractionEnd(chars) + 1, {"+", "-"}) THEN FractionEnd(chars) + 2
  ELSE FractionEnd(chars) + 1
NumberBy(chars, first, point, exponent, digits) ==
  /\ IsAt(chars, first, Digit)
  /\ IsAt(chars, point, {"."}) => IsAt(chars, point + 1, Digit)
  /\ IF IsAt(chars, exponent, {"e"})
     THEN IsAt(chars, digits, Digit) /\ AfterDigits(chars, digits) > Len(chars)
     ELSE exponent > Len(chars)

\* NumberEnds, part by part.
LEMMA NumberParts ==
  ASSUME NEW chars
  PROVE  NumberEnds(chars) <=> NumberBy(chars, SignEnd(chars), IntegerEnd(chars),
                                        FractionEnd(chars), ExponentFrom(chars))
BY Zenon DEF NumberEnds, NumberBy, SignEnd, IntegerEnd, FractionEnd, ExponentFrom, IsAt

\* IsNumber, part by part.
FractionTo(chars, last, point) ==
  point = last \/ (DigitsFrom(chars, last + 2, point) /\ chars[last + 1] = ".")
ExponentTo(chars, point) ==
  \/ point = Len(chars)
  \/ \E sign \in {point + 1, point + 2} :
       /\ DigitsFrom(chars, sign + 1, Len(chars)) /\ chars[point + 1] = "e"
       /\ sign = point + 2 => chars[sign] \in {"+", "-"}
NumberAt(chars, first, last, point) ==
  /\ DigitsFrom(chars, first, last) /\ (chars[first] = "0" => last = first)
  /\ first = 2 => chars[1] = "-"
  /\ FractionTo(chars, last, point)
  /\ ExponentTo(chars, point)

\* IsNumber, part by part.
LEMMA IsNumberParts ==
  ASSUME NEW chars
  PROVE  IsNumber(chars) <=>
           \E first \in {1, 2}, last, point \in 1 .. Len(chars) : NumberAt(chars, first, last, point)
BY Zenon DEF IsNumber, NumberAt, FractionTo, ExponentTo, DigitsFrom

Ending(chars, i, j) ==
  /\ \A k \in i .. j - 1 : chars[k] \in Digit
  /\ j <= Len(chars) => chars[j] \notin Digit

\* Digits end at one place.
LEMMA DigitsEndOnce ==
  ASSUME NEW chars, Len(chars) \in Nat, NEW i \in 1 .. Len(chars) + 1
  PROVE  /\ AfterDigits(chars, i) \in i .. Len(chars) + 1
         /\ Ending(chars, i, AfterDigits(chars, i))
         /\ \A j \in i .. Len(chars) + 1 : Ending(chars, i, j) => j = AfterDigits(chars, i)
<1>1. PICK n \in Nat : n = Len(chars) /\ i \in 1 .. n + 1
  OBVIOUS
<1>2. PICK a : a = AfterDigits(chars, i)
  OBVIOUS
<1>3. a = CHOOSE j \in i .. n + 1 : Ending(chars, i, j)
  BY <1>1, <1>2, Zenon DEF AfterDigits, Ending
<1>4. \E j \in i .. n + 1 : Ending(chars, i, j)
  <2> DEFINE T == {j \in i .. n + 1 : j <= n => chars[j] \notin Digit}
  <2>1. n + 1 \in T
    BY <1>1
  <2>2. T \in SUBSET Nat /\ T # {}
    <3>1. T \subseteq i .. n + 1 /\ i .. n + 1 \subseteq Nat
      BY <1>1
    <3> QED BY <2>1, <3>1
  <2>3. PICK j \in T : \A k \in T : j <= k
    BY <2>2, Least
  <2>4. j \in i .. n + 1 /\ (j <= n => chars[j] \notin Digit)
    BY <2>3
  <2>5. ASSUME NEW k \in i .. j - 1 PROVE chars[k] \in Digit
    <3> SUFFICES ASSUME chars[k] \notin Digit PROVE FALSE
      OBVIOUS
    <3>1. k \in i .. n + 1
      BY <1>1, <2>4, <2>5
    <3>2. k \in T
      BY <3>1
    <3>3. j <= k
      BY <2>3, <3>2
    <3> QED BY <1>1, <2>4, <3>3
  <2> QED BY <1>1, <2>4, <2>5 DEF Ending
<1>5. a \in i .. n + 1 /\ Ending(chars, i, a)
  BY <1>3, <1>4
<1>6. ASSUME NEW j \in i .. n + 1, Ending(chars, i, j) PROVE j = a
  <2>1. ~(j < a)
    BY <1>1, <1>5, <1>6 DEF Ending
  <2>2. ~(a < j)
    BY <1>1, <1>5, <1>6 DEF Ending
  <2> QED BY <1>1, <1>5, <2>1, <2>2
<1> QED BY <1>1, <1>2, <1>5, <1>6

\* What the decoder passes as a number is one.
LEMMA NumberEndsIsNumber ==
  ASSUME NEW chars, Len(chars) \in Nat, NumberEnds(chars)
  PROVE  IsNumber(chars)
<1>1. PICK n \in Nat : n = Len(chars)
  OBVIOUS
<1>2. PICK first, int, fraction, digits :
        /\ first = SignEnd(chars) /\ int = IntegerEnd(chars)
        /\ fraction = FractionEnd(chars) /\ digits = ExponentFrom(chars)
  OBVIOUS
<1>3. NumberBy(chars, first, int, fraction, digits)
  BY <1>2, NumberParts
<1>4. first \in {1, 2} /\ first <= n /\ chars[first] \in Digit /\ (first = 2 => chars[1] = "-")
  BY <1>1, <1>2, <1>3 DEF SignEnd, NumberBy, IsAt
<1>5. int = IF chars[first] = "0" THEN first + 1 ELSE AfterDigits(chars, first)
  <2>1. int = AfterInteger(chars, first)
    BY <1>2 DEF IntegerEnd
  <2> QED BY <1>1, <1>4, <2>1, Zenon DEF AfterInteger
<1>6. /\ int \in first + 1 .. n + 1 /\ (chars[first] = "0" => int = first + 1)
      /\ \A k \in first .. int - 1 : chars[k] \in Digit
  <2>1. CASE chars[first] = "0"
    BY <1>4, <1>5, <2>1
  <2>2. CASE chars[first] # "0"
    <3>1. first \in 1 .. Len(chars) + 1
      BY <1>1, <1>4
    <3>2. int = AfterDigits(chars, first)
      BY <1>5, <2>2
    <3>3. int \in first .. n + 1 /\ Ending(chars, first, int)
      BY <1>1, <3>1, <3>2, DigitsEndOnce
    <3>4. int # first
      BY <1>1, <1>4, <3>3 DEF Ending
    <3> QED BY <1>4, <2>2, <3>3, <3>4 DEF Ending
  <2> QED BY <2>1, <2>2
<1>7. PICK last \in 1 .. n : last = int - 1 /\ int = last + 1
  BY <1>4, <1>6
<1>8. DigitsFrom(chars, first, last) /\ (chars[first] = "0" => last = first)
  BY <1>4, <1>6, <1>7 DEF DigitsFrom
<1>9. fraction \in last + 1 .. n + 1 /\ FractionTo(chars, last, fraction - 1)
  <2>1. CASE IsAt(chars, int, {"."})
    <3>1. IsAt(chars, int + 1, Digit)
      BY <1>3, <2>1 DEF NumberBy
    <3>2. int + 1 <= n /\ chars[int + 1] \in Digit /\ chars[int] = "."
      BY <1>1, <2>1, <3>1 DEF IsAt
    <3>3. PICK i \in 1 .. n + 1 : i = int + 1
      BY <1>7, <3>2
    <3>4. fraction = AfterDigits(chars, i)
      BY <1>2, <2>1, <3>3, Zenon DEF FractionEnd
    <3>5. fraction \in i .. n + 1 /\ Ending(chars, i, fraction)
      BY <1>1, <3>4, DigitsEndOnce
    <3>6. fraction # i
      BY <1>1, <3>2, <3>3, <3>5 DEF Ending
    <3>7. DigitsFrom(chars, last + 2, fraction - 1)
      BY <1>7, <3>3, <3>5, <3>6 DEF DigitsFrom, Ending
    <3>8. chars[last + 1] = "."
      BY <1>7, <3>2
    <3> QED BY <1>7, <3>3, <3>5, <3>7, <3>8 DEF FractionTo
  <2>2. CASE ~IsAt(chars, int, {"."})
    <3>1. fraction = int
      BY <1>2, <2>2, Zenon DEF FractionEnd
    <3> QED BY <1>6, <1>7, <3>1 DEF FractionTo
  <2> QED BY <2>1, <2>2
<1>10. PICK point \in 1 .. n : point = fraction - 1 /\ fraction = point + 1
  BY <1>7, <1>9
<1>11. ExponentTo(chars, point)
  <2>1. CASE IsAt(chars, fraction, {"e"})
    <3>1. IsAt(chars, digits, Digit) /\ AfterDigits(chars, digits) > n
      BY <1>1, <1>3, <2>1 DEF NumberBy
    <3>2. chars[point + 1] = "e"
      BY <1>10, <2>1 DEF IsAt
    <3>3. PICK sign \in {point + 1, point + 2} :
            digits = sign + 1 /\ (sign = point + 2 => chars[sign] \in {"+", "-"})
      <4>1. CASE IsAt(chars, fraction + 1, {"+", "-"})
        <5>1. digits = fraction + 2
          BY <1>2, <4>1, Zenon DEF ExponentFrom
        <5>2. chars[point + 2] \in {"+", "-"}
          <6>1. fraction + 1 = point + 2
            BY <1>10
          <6> QED BY <4>1, <6>1 DEF IsAt
        <5> QED BY <1>10, <5>1, <5>2
      <4>2. CASE ~IsAt(chars, fraction + 1, {"+", "-"})
        <5>1. digits = fraction + 1
          BY <1>2, <4>2, Zenon DEF ExponentFrom
        <5>2. digits = (point + 1) + 1 /\ point + 1 # point + 2
          BY <1>10, <5>1
        <5> QED BY <5>2
      <4> QED BY <4>1, <4>2
    <3>4. digits \in 1 .. n
      BY <1>1, <3>1, <3>3 DEF IsAt
    <3>5. PICK a : a = AfterDigits(chars, digits)
      OBVIOUS
    <3>6. a \in digits .. n + 1 /\ Ending(chars, digits, a)
      BY <1>1, <3>4, <3>5, DigitsEndOnce
    <3>7. a = n + 1
      BY <3>1, <3>4, <3>5, <3>6
    <3>8. DigitsFrom(chars, sign + 1, n)
      BY <3>3, <3>4, <3>6, <3>7 DEF Ending, DigitsFrom
    <3> QED BY <1>1, <3>2, <3>3, <3>8 DEF ExponentTo
  <2>2. CASE ~IsAt(chars, fraction, {"e"})
    <3>1. fraction > n
      BY <1>1, <1>3, <2>2 DEF NumberBy
    <3> QED BY <1>1, <1>10, <3>1 DEF ExponentTo
  <2> QED BY <2>1, <2>2
<1>12. NumberAt(chars, first, last, point)
  BY <1>4, <1>8, <1>9, <1>10, <1>11 DEF NumberAt
<1> QED BY <1>1, <1>4, <1>12, IsNumberParts

\* The decoder passes every number.
LEMMA IsNumberEnds ==
  ASSUME NEW chars, Len(chars) \in Nat, IsNumber(chars)
  PROVE  NumberEnds(chars)
<1>1. PICK n \in Nat : n = Len(chars)
  OBVIOUS
<1>2. PICK first \in {1, 2}, last \in 1 .. n, point \in 1 .. n : NumberAt(chars, first, last, point)
  BY <1>1, IsNumberParts
<1>3. /\ first <= last /\ (\A i \in first .. last : chars[i] \in Digit)
      /\ (chars[first] = "0" => last = first) /\ (first = 2 => chars[1] = "-")
  BY <1>2 DEF NumberAt, DigitsFrom
<1>4. FractionTo(chars, last, point) /\ ExponentTo(chars, point)
  BY <1>2 DEF NumberAt
<1>5. PICK int, fraction, digits :
        int = IntegerEnd(chars) /\ fraction = FractionEnd(chars) /\ digits = ExponentFrom(chars)
  OBVIOUS
<1>6. chars[first] \in Digit /\ first \in 1 .. n
  BY <1>2, <1>3
<1>7. SignEnd(chars) = first
  <2>1. CASE first = 1
    BY <1>6, <2>1 DEF SignEnd, IsAt, Digit
  <2>2. CASE first = 2
    BY <1>1, <1>3, <1>6, <2>2 DEF SignEnd, IsAt
  <2> QED BY <1>2, <2>1, <2>2
<1>8. point = n \/ (point + 1 <= n /\ chars[point + 1] = "e")
  BY <1>1, <1>4 DEF ExponentTo, DigitsFrom
<1>9. point = last \/ (last + 2 <= point /\ chars[last + 1] = "." /\ \A i \in last + 2 .. point : chars[i] \in Digit)
  BY <1>4 DEF FractionTo, DigitsFrom
<1>10. last + 1 <= n => chars[last + 1] \notin Digit
  BY <1>8, <1>9 DEF Digit
<1>11. int = last + 1
  <2>1. int = IF first <= n /\ chars[first] = "0" THEN first + 1 ELSE AfterDigits(chars, first)
    BY <1>1, <1>5, <1>7, Zenon DEF IntegerEnd, AfterInteger
  <2>2. CASE chars[first] = "0"
    BY <1>3, <1>6, <2>1, <2>2
  <2>3. CASE chars[first] # "0"
    <3>1. int = AfterDigits(chars, first)
      BY <2>1, <2>3
    <3>2. first \in 1 .. Len(chars) + 1 /\ last + 1 \in first .. Len(chars) + 1
      BY <1>1, <1>3, <1>6
    <3>3. Ending(chars, first, last + 1)
      BY <1>1, <1>3, <1>10 DEF Ending
    <3> QED BY <3>1, <3>2, <3>3, DigitsEndOnce
  <2> QED BY <2>2, <2>3
<1>12. point + 1 <= n => chars[point + 1] \notin Digit
  BY <1>8 DEF Digit
<1>13. fraction = point + 1 /\ (IsAt(chars, int, {"."}) => IsAt(chars, int + 1, Digit))
  <2>1. CASE point = last
    <3>1. ~IsAt(chars, int, {"."})
      BY <1>1, <1>8, <1>11, <2>1 DEF IsAt
    <3>2. fraction = int
      BY <1>5, <3>1, Zenon DEF FractionEnd
    <3> QED BY <1>11, <2>1, <3>1, <3>2
  <2>2. CASE point # last
    <3>1. last + 2 <= point /\ chars[last + 1] = "." /\ \A i \in last + 2 .. point : chars[i] \in Digit
      BY <1>9, <2>2
    <3>2. IsAt(chars, int, {"."}) /\ IsAt(chars, int + 1, Digit)
      BY <1>1, <1>11, <3>1 DEF IsAt
    <3>3. PICK i \in 1 .. Len(chars) + 1 : i = int + 1 /\ i = last + 2
      BY <1>1, <1>11, <3>1
    <3>4. fraction = AfterDigits(chars, i)
      BY <1>5, <3>2, <3>3, Zenon DEF FractionEnd
    <3>5. point + 1 \in i .. Len(chars) + 1
      BY <1>1, <3>1, <3>3
    <3>6. Ending(chars, i, point + 1)
      BY <1>1, <1>12, <3>1, <3>3 DEF Ending
    <3>7. fraction = point + 1
      BY <3>4, <3>5, <3>6, DigitsEndOnce
    <3> QED BY <3>2, <3>7
  <2> QED BY <2>1, <2>2
<1>14. IF IsAt(chars, fraction, {"e"})
       THEN IsAt(chars, digits, Digit) /\ AfterDigits(chars, digits) > Len(chars)
       ELSE fraction > Len(chars)
  <2>1. CASE point = n
    <3>1. fraction > n
      BY <1>13, <2>1
    <3>2. ~IsAt(chars, fraction, {"e"})
      BY <1>1, <1>13, <3>1 DEF IsAt
    <3> QED BY <1>1, <3>1, <3>2
  <2>2. CASE point # n
    <3>1. PICK sign \in {point + 1, point + 2} :
            /\ DigitsFrom(chars, sign + 1, n) /\ chars[point + 1] = "e"
            /\ sign = point + 2 => chars[sign] \in {"+", "-"}
      BY <1>1, <1>4, <2>2 DEF ExponentTo
    <3>2. sign + 1 <= n /\ chars[sign + 1] \in Digit /\ \A i \in sign + 1 .. n : chars[i] \in Digit
      BY <3>1 DEF DigitsFrom
    <3>3. IsAt(chars, fraction, {"e"})
      BY <1>1, <1>13, <3>1, <3>2 DEF IsAt
    <3>4. PICK d \in 1 .. Len(chars) + 1 : d = sign + 1 /\ d <= n
      BY <1>1, <3>2
    <3>5. digits = d
      <4>1. CASE sign = point + 1
        <5>1. ~IsAt(chars, fraction + 1, {"+", "-"})
          <6>1. fraction + 1 = sign + 1
            BY <1>13, <4>1
          <6> QED BY <3>2, <6>1 DEF IsAt, Digit
        <5>2. digits = fraction + 1
          BY <1>5, <5>1, Zenon DEF ExponentFrom
        <5> QED BY <1>13, <3>4, <4>1, <5>2
      <4>2. CASE sign = point + 2
        <5>1. IsAt(chars, fraction + 1, {"+", "-"})
          <6>1. fraction + 1 = sign
            BY <1>13, <4>2
          <6> QED BY <1>1, <3>1, <3>2, <4>2, <6>1 DEF IsAt
        <5>2. digits = fraction + 2
          BY <1>5, <5>1, Zenon DEF ExponentFrom
        <5> QED BY <1>13, <3>4, <4>2, <5>2
      <4> QED BY <3>1, <4>1, <4>2
    <3>6. Len(chars) + 1 \in d .. Len(chars) + 1 /\ Ending(chars, d, Len(chars) + 1)
      BY <1>1, <3>2, <3>4 DEF Ending
    <3>7. AfterDigits(chars, d) = Len(chars) + 1
      BY <3>6, DigitsEndOnce
    <3>8. IsAt(chars, d, Digit)
      BY <1>1, <3>2, <3>4 DEF IsAt
    <3>9. AfterDigits(chars, d) > Len(chars)
      BY <1>1, <3>7
    <3> QED BY <3>3, <3>5, <3>8, <3>9
  <2> QED BY <2>1, <2>2
<1>15. IsAt(chars, first, Digit)
  BY <1>1, <1>6 DEF IsAt
<1>16. NumberBy(chars, first, int, fraction, digits)
  BY <1>13, <1>14, <1>15, Zenon DEF NumberBy
<1> QED BY <1>5, <1>7, <1>16, NumberParts

---------------------------------------------------------------------------
(* Tokens and their classes *)

AnyToken == Literals \cup {Mark(c) : c \in Marks \cup Ends}

\* What a token is, kind by kind.
LEMMA TokenKinds ==
  ASSUME NEW token \in AnyToken
  PROVE  /\ token.kind \in Marks \cup Ends \cup {"string", "number", "word"}
         /\ token.text \in Pieces /\ Len(token.text) \in Nat
         /\ token.kind = "word" => Len(token.text) >= 1
<1>1. CASE token \in {Mark(c) : c \in Marks \cup Ends}
  <2>1. PICK c \in Marks \cup Ends : token = Mark(c)
    BY <1>1
  <2>2. token.kind = c /\ token.text = <<>>
    BY <2>1 DEF Mark
  <2>3. <<>> \in Pieces /\ Len(<<>>) = 0
    BY DEF Pieces
  <2>4. c # "word"
    BY DEF Marks, Ends
  <2> QED BY <2>2, <2>3, <2>4
<1>2. CASE token \in Literals
  <2>1. token.kind \in {"string", "number", "word"} /\ token.text \in Seq(STRING)
    BY <1>2 DEF Literals
  <2>2. token.kind = "word" => token.text # <<>>
    BY <1>2 DEF Literals
  <2>3. PICK n \in Nat : n = Len(token.text)
    BY <2>1, LenProperties
  <2>4. token.text \in Seq(Alphabet)
    <3>1. STRING \subseteq Alphabet
      BY DEF Alphabet
    <3>2. PICK t \in Seq(STRING) : t = token.text
      BY <2>1
    <3>3. \A i \in 1 .. Len(t) : t[i] \in Alphabet
      BY <3>1, ElementOfSeq
    <3>4. t \in Seq(Alphabet)
      <4>1. t = [i \in 1 .. Len(t) |-> t[i]]
        BY LenProperties
      <4>2. Len(t) \in Nat
        BY LenProperties
      <4> QED BY <3>3, <4>1, <4>2, IsASeq
    <3> QED BY <3>2, <3>4
  <2>5. token.kind = "word" => n >= 1
    BY <2>1, <2>2, <2>3, EmptySeq
  <2> QED BY <2>1, <2>3, <2>4, <2>5 DEF Pieces
<1> QED BY <1>1, <1>2 DEF AnyToken

\* The class says what the decoder asks of a token.
LEMMA TokenClass ==
  ASSUME NEW token \in AnyToken, NEW c, c = Class(token)
  PROVE  /\ c \in Classified
         /\ \A m \in Marks \cup Ends : token.kind = m <=> c = m
         /\ StringEnds(token) <=> c \in Strings
         /\ StringEnds(token) => (IsAnalysis(ReadString(token, NameLimit)) <=> c = "analysis")
         /\ ScalarEnds(token) <=> c \in Scalars
<1>1. CASE token.kind \in Marks \cup Ends
  <2>1. token.kind \notin {"string", "number", "word", "analysis", "scalar"}
    BY <1>1 DEF Marks, Ends
  <2>2. c = token.kind
    BY <1>1, <2>1 DEF Class
  <2>3. ~StringEnds(token) /\ ~ScalarEnds(token)
    BY <2>1 DEF StringEnds, ScalarEnds
  <2>4. c \notin Strings /\ c \notin Scalars
    BY <2>1, <2>2 DEF Strings, Scalars
  <2> QED BY <1>1, <2>2, <2>3, <2>4 DEF Classified
<1>2. CASE token.kind = "string"
  <2>1. token.kind \notin Marks \cup Ends
    BY <1>2 DEF Marks, Ends
  <2>2. c = IF ~token.closed \/ "bad" \in Range(token.text) THEN "illegal"
            ELSE IF Runes(token.text) = Analysis THEN "analysis" ELSE "string"
    BY <1>2, <2>1 DEF Class
  <2>3. StringEnds(token) <=> ~(~token.closed \/ "bad" \in Range(token.text))
    BY <1>2, Zenon DEF StringEnds
  <2>4. ScalarEnds(token) <=> StringEnds(token)
    BY <1>2 DEF ScalarEnds
  <2>5. CASE StringEnds(token)
    <3>1. c = IF Runes(token.text) = Analysis THEN "analysis" ELSE "string"
      BY <2>2, <2>3, <2>5
    <3>2. token.text \in Pieces
      BY TokenKinds
    <3>3. IsAnalysis(ReadString(token, NameLimit)) <=> Runes(token.text) = Analysis
      BY <3>2, NameIsAnalysis
    <3>4. c = "analysis" <=> Runes(token.text) = Analysis
      BY <3>1
    <3>5. c \in Strings /\ c \in Scalars /\ c \in Classified /\ c \notin Marks \cup Ends
      BY <3>1 DEF Strings, Scalars, Classified, Marks, Ends
    <3> QED BY <2>1, <2>4, <2>5, <3>3, <3>4, <3>5
  <2>6. CASE ~StringEnds(token)
    <3>1. c = "illegal"
      BY <2>2, <2>3, <2>6
    <3>2. c \notin Strings /\ c \notin Scalars /\ c \in Classified /\ c \notin Marks \cup Ends
      BY <3>1 DEF Strings, Scalars, Classified, Marks, Ends
    <3> QED BY <2>1, <2>4, <2>6, <3>2
  <2> QED BY <2>5, <2>6
<1>3. CASE token.kind \in {"number", "word"}
  <2>1. token.kind \notin Marks \cup Ends /\ token.kind # "string"
    BY <1>3 DEF Marks, Ends
  <2>2. ~StringEnds(token)
    BY <2>1 DEF StringEnds
  <2>3. Len(token.text) \in Nat
    BY TokenKinds
  <2>4. c = IF ScalarEnds(token) THEN "scalar" ELSE "illegal"
    <3>1. CASE token.kind = "number"
      <4>1. c = IF IsNumber(token.text) THEN "scalar" ELSE "illegal"
        BY <2>1, <3>1 DEF Class
      <4>2. ScalarEnds(token) <=> NumberEnds(token.text)
        BY <2>2, <3>1 DEF ScalarEnds
      <4>3. NumberEnds(token.text) <=> IsNumber(token.text)
        BY <2>3, NumberEndsIsNumber, IsNumberEnds
      <4> QED BY <4>1, <4>2, <4>3, Zenon
    <3>2. CASE token.kind = "word"
      <4>1. c = IF token.text[1] \in {"true", "false", "null"} THEN "scalar" ELSE "illegal"
        BY <2>1, <3>2 DEF Class
      <4>2. ScalarEnds(token) <=> Head(token.text) \in {"true", "false", "null"}
        BY <2>2, <3>2 DEF ScalarEnds
      <4>3. Head(token.text) = token.text[1]
        <5>1. token.text \in Seq(Alphabet) /\ Len(token.text) >= 1
          BY <3>2, TokenKinds DEF Pieces
        <5> QED BY <5>1, EmptySeq, HeadTailProperties
      <4> QED BY <4>1, <4>2, <4>3, Zenon
    <3> QED BY <1>3, <3>1, <3>2
  <2>5. c \in {"scalar", "illegal"} /\ (c = "scalar" <=> ScalarEnds(token))
    BY <2>4
  <2>6. /\ c \notin Strings /\ c \in Classified /\ c \notin Marks \cup Ends
        /\ c \in Scalars <=> c = "scalar"
    BY <2>5 DEF Strings, Scalars, Classified, Marks, Ends
  <2> QED BY <2>1, <2>2, <2>5, <2>6
<1> QED BY <1>1, <1>2, <1>3, TokenKinds

ClassesOf(r) == [i \in DOMAIN r |-> Class(r[i])]

\* The classes of the tokens read, and of one token more.
LEMMA ClassesType ==
  ASSUME NEW r \in Seq(AnyToken)
  PROVE  ClassesOf(r) \in Text /\ Len(ClassesOf(r)) = Len(r) /\ \A i \in 1 .. Len(r) : ClassesOf(r)[i] = Class(r[i])
<1>1. PICK n \in Nat : n = Len(r) /\ DOMAIN r = 1 .. n /\ \A i \in 1 .. n : r[i] \in AnyToken
  BY LenProperties, ElementOfSeq
<1>2. PICK f : f = ClassesOf(r)
  OBVIOUS
<1>3. f = [i \in 1 .. n |-> Class(r[i])]
  BY <1>1, <1>2 DEF ClassesOf
<1>4. \A i \in 1 .. n : Class(r[i]) \in Classified
  BY <1>1, TokenClass
<1>5. f \in Seq(Classified) /\ Len(f) = n /\ \A i \in 1 .. n : f[i] = Class(r[i])
  BY <1>3, <1>4, IsASeq
<1> QED BY <1>1, <1>2, <1>5 DEF Text

\* One token more is one class more.
LEMMA ClassesGrow ==
  ASSUME NEW r \in Seq(AnyToken), NEW token \in AnyToken
  PROVE  ClassesOf(Append(r, token)) = Append(ClassesOf(r), Class(token))
<1>1. PICK n \in Nat : n = Len(r)
  BY LenProperties
<1>2. PICK q, c : q = Append(r, token) /\ c = Class(token)
  OBVIOUS
<1>3. /\ q \in Seq(AnyToken) /\ Len(q) = n + 1 /\ q[n + 1] = token
      /\ \A i \in 1 .. n : q[i] = r[i]
  BY <1>1, <1>2, AppendProperties
<1>4. c \in Classified
  BY <1>2, TokenClass
<1>5. PICK x, y : x = ClassesOf(r) /\ y = ClassesOf(q)
  OBVIOUS
<1>6. x \in Text /\ Len(x) = n /\ \A i \in 1 .. n : x[i] = Class(r[i])
  BY <1>1, <1>5, ClassesType
<1>7. y \in Text /\ Len(y) = n + 1 /\ \A i \in 1 .. n + 1 : y[i] = Class(q[i])
  BY <1>3, <1>5, ClassesType
<1>8. PICK z : z = Append(x, c)
  OBVIOUS
<1>9. z \in Seq(Classified) /\ Len(z) = n + 1 /\ z[n + 1] = c /\ \A i \in 1 .. n : z[i] = x[i]
  BY <1>4, <1>6, <1>8, AppendProperties DEF Text
<1>10. ASSUME NEW i \in 1 .. n + 1 PROVE y[i] = z[i]
  <2>1. CASE i \in 1 .. n
    BY <1>3, <1>6, <1>7, <1>9, <2>1
  <2>2. CASE i = n + 1
    BY <1>2, <1>3, <1>7, <1>9, <2>2
  <2> QED BY <2>1, <2>2
<1>11. y = z
  BY <1>7, <1>9, <1>10, SeqEqual DEF Text
<1> QED BY <1>2, <1>5, <1>8, <1>11

---------------------------------------------------------------------------
(* The decoder follows the classes *)

\* One step of the decoder is one of that on classes.
LEMMA TokenMoves ==
  ASSUME NEW token \in AnyToken, Decoding(token), NEW c, c = Class(token)
  PROVE  At(place', stack', wanted') = Move(At(place, stack, wanted), c)
<1>0. PICK q : q = At(place, stack, wanted)
  OBVIOUS
<1>1. q = At(place, stack, wanted) /\ q.place = place /\ q.stack = stack /\ q.wanted = wanted
  BY <1>0 DEF At
<1>2. PICK k : k = token.kind /\ \A m \in Marks \cup Ends : k = m <=> c = m
  BY TokenClass
<1>3. \A m \in {"{", "}", "[", "]", ",", ":", "EOF", "broken"} : k = m <=> c = m
  BY <1>2 DEF Marks, Ends
<1>4. /\ StringEnds(token) <=> c \in Strings
      /\ StringEnds(token) => (IsAnalysis(ReadString(token, NameLimit)) <=> c = "analysis")
      /\ ScalarEnds(token) <=> c \in Scalars
  BY TokenClass
<1>5. CASE Start(token)
  BY <1>1, <1>2, <1>3, <1>5 DEF Start, Open, Fail, Expect, Move, Opened, Moved, At
<1>6. CASE Name(token)
  <2>1. place \in {"members", "name"}
    BY <1>6 DEF Name
  <2>2. CASE place = "members" /\ k = "}"
    <3>1. Close
      BY <1>2, <1>6, <2>2 DEF Name
    <3> QED BY <1>1, <1>3, <2>2, <3>1 DEF Close, Move, Closed, At
  <2>3. CASE ~(place = "members" /\ k = "}") /\ ~StringEnds(token)
    <3>1. Fail
      BY <1>2, <1>6, <2>3 DEF Name
    <3> QED BY <1>1, <1>3, <1>4, <2>1, <2>3, <3>1 DEF Fail, Expect, Move, Moved, At
  <2>4. CASE ~(place = "members" /\ k = "}") /\ StringEnds(token)
    <3>1. /\ place' = "colon" /\ stack' = stack
          /\ wanted' = (Len(stack) = 1 /\ IsAnalysis(ReadString(token, NameLimit)))
      BY <1>2, <1>6, <2>4 DEF Name
    <3>2. IsAnalysis(ReadString(token, NameLimit)) <=> c = "analysis"
      BY <1>4, <2>4
    <3>3. wanted' = (Len(stack) = 1 /\ c = "analysis")
      BY <3>1, <3>2, Zenon
    <3>4. Move(q, c) = At("colon", stack, Len(stack) = 1 /\ c = "analysis")
      BY <1>1, <1>3, <1>4, <2>1, <2>4 DEF Move
    <3> QED BY <1>1, <3>1, <3>3, <3>4, Zenon
  <2> QED BY <2>2, <2>3, <2>4
<1>7. CASE Colon(token)
  BY <1>1, <1>2, <1>3, <1>7 DEF Colon, Fail, Expect, Move, Moved, At
<1>8. CASE ReadAnalysis(token)
  BY <1>1, <1>4, <1>8 DEF ReadAnalysis, Fail, Expect, Move, Moved, At
<1>9. CASE SkipValue(token)
  <2>1. place \in {"value", "elements"}
    BY <1>9 DEF SkipValue
  <2>2. CASE place = "elements" /\ k = "]"
    <3>1. Close
      BY <1>2, <1>9, <2>2 DEF SkipValue
    <3> QED BY <1>1, <1>3, <2>2, <3>1 DEF Close, Move, Closed, At
  <2>3. CASE ~(place = "elements" /\ k = "]")
    <3>1. IF TooDeep THEN Fail
          ELSE IF k \in {"{", "["} THEN Open(token)
          ELSE Expect(IF ScalarEnds(token) THEN "delimiter" ELSE "error")
      BY <1>2, <1>9, <2>3 DEF SkipValue
    <3>2. Move(q, c) = IF Len(stack) > MaxDepth THEN Moved(q, "error")
                       ELSE IF c \in Openers THEN Opened(q, c)
                       ELSE Moved(q, IF c \in Scalars THEN "delimiter" ELSE "error")
      BY <1>1, <1>3, <2>1, <2>3 DEF Move
    <3>3. k \in {"{", "["} <=> c \in Openers
      BY <1>3 DEF Openers
    <3>4. CASE TooDeep
      BY <1>1, <3>1, <3>2, <3>4 DEF TooDeep, Fail, Expect, Moved, At
    <3>5. CASE ~TooDeep /\ k \in {"{", "["}
      BY <1>1, <1>2, <1>3, <3>1, <3>2, <3>3, <3>5 DEF TooDeep, Open, Opened, At
    <3>6. CASE ~TooDeep /\ k \notin {"{", "["}
      BY <1>1, <1>4, <3>1, <3>2, <3>3, <3>6 DEF TooDeep, Expect, Moved, At
    <3> QED BY <3>4, <3>5, <3>6
  <2> QED BY <2>2, <2>3
<1>10. CASE Delimiter(token)
  <2>1. place = "delimiter"
    BY <1>10 DEF Delimiter
  <2>2. PICK e : e = (IF Last(stack) = "{" THEN "}" ELSE "]") /\ e \in {"}", "]"}
    OBVIOUS
  <2>3. Closes(token) <=> c = e
    BY <1>2, <1>3, <2>2, Zenon DEF Closes
  <2>4. Move(q, c) = IF c = e THEN Closed(q) ELSE IF c # "," THEN Moved(q, "error")
                     ELSE Moved(q, IF Last(stack) = "{" THEN "name" ELSE "value")
    BY <1>1, <2>1, <2>2 DEF Move
  <2>5. CASE c = e
    BY <1>1, <1>10, <2>3, <2>4, <2>5 DEF Delimiter, Close, Closed, At
  <2>6. CASE c # e
    BY <1>1, <1>2, <1>3, <1>10, <2>3, <2>4, <2>6 DEF Delimiter, Fail, Expect, Moved, At
  <2> QED BY <2>5, <2>6
<1>11. CASE ExpectEOF(token)
  BY <1>1, <1>2, <1>3, <1>11 DEF ExpectEOF, Expect, Move, Moved, At
<1> QED BY <1>1, <1>5, <1>6, <1>7, <1>8, <1>9, <1>10, <1>11 DEF Decoding

---------------------------------------------------------------------------
(* The steps of the decoder, one by one *)

Inside == {"members", "name", "colon", "analysis", "value", "elements", "delimiter"}
Places == Inside \cup {"start", "end", "ok", "error"}

\* A bracket is open inside the document and none outside it.
Located(q) ==
  /\ q.place \in Places /\ q.stack \in Stacks /\ q.wanted \in BOOLEAN
  /\ q.place \in Inside => q.stack # <<>>
  /\ q.place \in {"start", "end", "ok"} => q.stack = <<>>

OpenStep(q, c, r) ==
  /\ c \in Openers /\ r = At(FirstOf(c), Append(q.stack, c), q.wanted)
  /\ \/ q.place = "start" /\ c = "{"
     \/ q.place \in {"value", "elements"} /\ Len(q.stack) <= MaxDepth
CloseStep(q, c, r) ==
  /\ r = At(IF Len(q.stack) = 1 THEN "end" ELSE "delimiter", Front(q.stack), q.wanted)
  /\ \/ q.place = "members" /\ c = "}"
     \/ q.place = "elements" /\ c = "]"
     \/ q.place = "delimiter" /\ c = CloserOf(Last(q.stack))
NameStep(q, c, r) ==
  /\ q.place \in {"members", "name"} /\ c \in Strings
  /\ r = At("colon", q.stack, Len(q.stack) = 1 /\ c = "analysis")
ColonStep(q, c, r) ==
  q.place = "colon" /\ c = ":" /\ r = At(IF q.wanted THEN "analysis" ELSE "value", q.stack, q.wanted)
AnalysisStep(q, c, r) ==
  q.place = "analysis" /\ c \in Strings /\ r = At("delimiter", q.stack, FALSE)
ScalarStep(q, c, r) ==
  /\ q.place \in {"value", "elements"} /\ Len(q.stack) <= MaxDepth /\ c \in Scalars
  /\ r = At("delimiter", q.stack, q.wanted)
CommaStep(q, c, r) ==
  q.place = "delimiter" /\ c = "," /\ r = At(NextOf(Last(q.stack)), q.stack, q.wanted)
LastStep(q, c, r) == q.place = "end" /\ c = "EOF" /\ r = At("ok", q.stack, q.wanted)

Step(q, c, r) ==
  \/ OpenStep(q, c, r) \/ CloseStep(q, c, r) \/ NameStep(q, c, r) \/ ColonStep(q, c, r)
  \/ AnalysisStep(q, c, r) \/ ScalarStep(q, c, r) \/ CommaStep(q, c, r) \/ LastStep(q, c, r)

\* Every step that does not fail is one of these.
LEMMA MoveSteps ==
  ASSUME NEW q, Located(q), q.place \notin {"ok", "error"}, NEW c, NEW r, r = Move(q, c)
  PROVE  Step(q, c, r) \/ r = At("error", q.stack, q.wanted)
<1>1. q.place \in Places /\ Len(q.stack) \in Nat /\ MaxDepth \in Nat
  BY LenProperties, HolmesAssumption DEF Located, Stacks
<1>2. CASE q.place = "start"
  <2>1. r = IF c = "{" THEN Opened(q, c) ELSE Moved(q, "error")
    BY <1>2 DEF Move
  <2>2. c = "{" => OpenStep(q, c, r)
    BY <1>2, <2>1 DEF Opened, OpenStep, FirstOf, Openers
  <2> QED BY <2>1, <2>2 DEF Moved, Step
<1>3. CASE q.place \in {"members", "name"}
  <2>1. r = IF q.place = "members" /\ c = "}" THEN Closed(q)
            ELSE IF c \notin Strings THEN Moved(q, "error")
            ELSE At("colon", q.stack, Len(q.stack) = 1 /\ c = "analysis")
    BY <1>3 DEF Move
  <2>2. CASE q.place = "members" /\ c = "}"
    <3>1. r = Closed(q)
      BY <2>1, <2>2
    <3>2. CloseStep(q, c, r)
      BY <2>2, <3>1, Zenon DEF Closed, CloseStep
    <3> QED BY <3>2, Zenon DEF Step
  <2>3. CASE ~(q.place = "members" /\ c = "}") /\ c \notin Strings
    BY <2>1, <2>3, Zenon DEF Moved
  <2>4. CASE ~(q.place = "members" /\ c = "}") /\ c \in Strings
    BY <1>3, <2>1, <2>4, Zenon DEF NameStep, Step
  <2> QED BY <2>2, <2>3, <2>4
<1>4. CASE q.place = "colon"
  <2>1. r = Moved(q, IF c # ":" THEN "error" ELSE IF q.wanted THEN "analysis" ELSE "value")
    BY <1>4 DEF Move
  <2>2. CASE c = ":"
    <3>1. r = At(IF q.wanted THEN "analysis" ELSE "value", q.stack, q.wanted)
      BY <2>1, <2>2, Zenon DEF Moved
    <3> QED BY <1>4, <2>2, <3>1, Zenon DEF ColonStep, Step
  <2>3. CASE c # ":"
    BY <2>1, <2>3, Zenon DEF Moved
  <2> QED BY <2>2, <2>3
<1>5. CASE q.place = "analysis"
  <2>1. r = IF c \in Strings THEN At("delimiter", q.stack, FALSE) ELSE Moved(q, "error")
    BY <1>5 DEF Move
  <2> QED BY <1>5, <2>1, Zenon DEF AnalysisStep, Step, Moved
<1>6. CASE q.place \in {"value", "elements"}
  <2>1. r = IF q.place = "elements" /\ c = "]" THEN Closed(q)
            ELSE IF Len(q.stack) > MaxDepth THEN Moved(q, "error")
            ELSE IF c \in Openers THEN Opened(q, c)
            ELSE Moved(q, IF c \in Scalars THEN "delimiter" ELSE "error")
    BY <1>6 DEF Move
  <2>2. CASE q.place = "elements" /\ c = "]"
    <3>1. r = Closed(q)
      BY <2>1, <2>2
    <3>2. CloseStep(q, c, r)
      BY <2>2, <3>1, Zenon DEF Closed, CloseStep
    <3> QED BY <3>2, Zenon DEF Step
  <2>3. CASE ~(q.place = "elements" /\ c = "]") /\ Len(q.stack) > MaxDepth
    BY <2>1, <2>3, Zenon DEF Moved
  <2>4. CASE ~(q.place = "elements" /\ c = "]") /\ ~(Len(q.stack) > MaxDepth) /\ c \in Openers
    <3>1. r = Opened(q, c)
      BY <2>1, <2>4, Zenon
    <3>2. Len(q.stack) <= MaxDepth
      BY <1>1, <2>4
    <3>3. OpenStep(q, c, r)
      BY <1>6, <2>4, <3>1, <3>2, Zenon DEF Opened, OpenStep, FirstOf
    <3> QED BY <3>3, Zenon DEF Step
  <2>5. CASE ~(q.place = "elements" /\ c = "]") /\ ~(Len(q.stack) > MaxDepth) /\ c \notin Openers
    <3>1. r = Moved(q, IF c \in Scalars THEN "delimiter" ELSE "error")
      BY <2>1, <2>5, Zenon
    <3>2. Len(q.stack) <= MaxDepth
      BY <1>1, <2>5
    <3>3. CASE c \in Scalars
      BY <1>6, <3>1, <3>2, <3>3, Zenon DEF Moved, ScalarStep, Step
    <3>4. CASE c \notin Scalars
      BY <3>1, <3>4, Zenon DEF Moved
    <3> QED BY <3>3, <3>4
  <2> QED BY <2>2, <2>3, <2>4, <2>5
<1>7. CASE q.place = "delimiter"
  <2>1. r = IF c = CloserOf(Last(q.stack)) THEN Closed(q)
            ELSE IF c # "," THEN Moved(q, "error")
            ELSE Moved(q, NextOf(Last(q.stack)))
    BY <1>7 DEF Move, CloserOf, NextOf
  <2>2. CASE c = CloserOf(Last(q.stack))
    <3>1. r = Closed(q)
      BY <2>1, <2>2
    <3>2. CloseStep(q, c, r)
      BY <1>7, <2>2, <3>1, Zenon DEF Closed, CloseStep
    <3> QED BY <3>2, Zenon DEF Step
  <2>3. CASE c # CloserOf(Last(q.stack))
    BY <1>7, <2>1, <2>3, Zenon DEF Moved, CommaStep, Step
  <2> QED BY <2>2, <2>3
<1>8. CASE q.place = "end"
  <2>1. r = Moved(q, IF c = "EOF" THEN "ok" ELSE "error")
    BY <1>8 DEF Move
  <2> QED BY <1>8, <2>1, Zenon DEF Moved, LastStep, Step
<1> QED BY <1>1, <1>2, <1>3, <1>4, <1>5, <1>6, <1>7, <1>8 DEF Places, Inside

\* The top of a stack and what is below it.
LEMMA TopAndRest ==
  ASSUME NEW s \in Stacks, s # <<>>
  PROVE  /\ Front(s) \in Stacks /\ Last(s) \in Openers /\ s = Append(Front(s), Last(s))
         /\ Len(s) \in Nat \ {0} /\ Len(Front(s)) = Len(s) - 1
         /\ Len(s) = 1 <=> Front(s) = <<>>
<1>0. PICK m \in Nat : m = Len(s) /\ m >= 1
  <2>1. Len(s) \in Nat /\ Len(s) >= 1
    BY EmptySeq, LenProperties DEF Stacks
  <2> QED BY <2>1
<1>1. PICK n \in Nat : Len(s) = n + 1
  <2>1. m - 1 \in Nat /\ m = (m - 1) + 1
    BY <1>0
  <2> QED BY <1>0, <2>1
<1>2. /\ SubSeq(s, 1, n) \in Stacks /\ Len(SubSeq(s, 1, n)) = n
      /\ s[n + 1] \in Openers /\ s = Append(SubSeq(s, 1, n), s[n + 1])
  BY <1>1, AllButLast DEF Stacks
<1>3. Front(s) = SubSeq(s, 1, n) /\ Last(s) = s[n + 1]
  <2>1. Len(s) - 1 = n
    BY <1>1
  <2> QED BY <1>1, <2>1 DEF Front, Last
<1>4. PICK f, l : f = Front(s) /\ l = Last(s)
  OBVIOUS
<1>5. f \in Stacks /\ Len(f) = n /\ l \in Openers /\ s = Append(f, l)
  BY <1>2, <1>3, <1>4
<1>6. Len(f) = 0 <=> f = <<>>
  BY <1>5, EmptySeq DEF Stacks
<1> QED BY <1>1, <1>4, <1>5, <1>6

\* A bracket stays open inside the document, and none outside it.
LEMMA StepLocated ==
  ASSUME NEW q, Located(q), NEW c, NEW r, Step(q, c, r) \/ r = At("error", q.stack, q.wanted)
  PROVE  Located(r)
<1>1. /\ q.stack \in Stacks /\ q.wanted \in BOOLEAN
      /\ q.place \in Inside => q.stack # <<>>
      /\ q.place \in {"start", "end", "ok"} => q.stack = <<>>
  BY DEF Located
<1>a. ASSUME NEW p \in Places, NEW s \in Stacks, NEW b \in BOOLEAN, r = At(p, s, b),
             p \in Inside => s # <<>>, p \in {"start", "end", "ok"} => s = <<>>
      PROVE  Located(r)
  BY <1>a DEF Located, At
<1>2. CASE r = At("error", q.stack, q.wanted)
  BY <1>1, <1>2, <1>a DEF Places, Inside
<1>3. CASE OpenStep(q, c, r)
  <2>1. Append(q.stack, c) \in Stacks /\ Append(q.stack, c) # <<>>
    BY <1>1, <1>3, PushPop DEF OpenStep
  <2>2. FirstOf(c) \in Places /\ FirstOf(c) \notin {"start", "end", "ok"}
    BY DEF FirstOf, Places, Inside
  <2>3. r = At(FirstOf(c), Append(q.stack, c), q.wanted)
    BY <1>3 DEF OpenStep
  <2> QED BY <1>1, <1>a, <2>1, <2>2, <2>3
<1>4. CASE CloseStep(q, c, r)
  <2>1. q.place \in Inside
    BY <1>4 DEF CloseStep, Inside
  <2>2. Front(q.stack) \in Stacks /\ (Len(q.stack) = 1 <=> Front(q.stack) = <<>>)
    BY <1>1, <2>1, TopAndRest
  <2>3. PICK p, f : p = (IF Len(q.stack) = 1 THEN "end" ELSE "delimiter") /\ f = Front(q.stack)
    OBVIOUS
  <2>4. r = At(p, f, q.wanted)
    BY <1>4, <2>3, Zenon DEF CloseStep
  <2>5. /\ p \in Places /\ f \in Stacks
        /\ p \in Inside => f # <<>>
        /\ p \in {"start", "end", "ok"} => f = <<>>
    BY <2>2, <2>3 DEF Places, Inside
  <2> QED BY <1>1, <1>a, <2>4, <2>5
<1>5. CASE NameStep(q, c, r)
  <2>1. q.stack # <<>>
    BY <1>1, <1>5 DEF NameStep, Inside
  <2>2. PICK b \in BOOLEAN : r = At("colon", q.stack, b)
    BY <1>5 DEF NameStep
  <2> QED BY <1>1, <1>a, <2>1, <2>2 DEF Places, Inside
<1>6. CASE ColonStep(q, c, r)
  <2>1. q.stack # <<>>
    BY <1>1, <1>6 DEF ColonStep, Inside
  <2>2. PICK p \in {"analysis", "value"} : r = At(p, q.stack, q.wanted)
    BY <1>6 DEF ColonStep
  <2> QED BY <1>1, <1>a, <2>1, <2>2 DEF Places, Inside
<1>7. CASE AnalysisStep(q, c, r)
  <2>1. q.stack # <<>> /\ r = At("delimiter", q.stack, FALSE)
    BY <1>1, <1>7 DEF AnalysisStep, Inside
  <2> QED BY <1>1, <1>a, <2>1 DEF Places, Inside
<1>8. CASE ScalarStep(q, c, r)
  <2>1. q.stack # <<>> /\ r = At("delimiter", q.stack, q.wanted)
    BY <1>1, <1>8 DEF ScalarStep, Inside
  <2> QED BY <1>1, <1>a, <2>1 DEF Places, Inside
<1>9. CASE CommaStep(q, c, r)
  <2>1. q.stack # <<>>
    BY <1>1, <1>9 DEF CommaStep, Inside
  <2>2. PICK p \in {"name", "value"} : r = At(p, q.stack, q.wanted)
    BY <1>9 DEF CommaStep, NextOf
  <2> QED BY <1>1, <1>a, <2>1, <2>2 DEF Places, Inside
<1>10. CASE LastStep(q, c, r)
  <2>1. q.stack = <<>> /\ r = At("ok", q.stack, q.wanted)
    BY <1>1, <1>10 DEF LastStep
  <2> QED BY <1>1, <1>a, <2>1 DEF Places, Inside
<1> QED BY <1>2, <1>3, <1>4, <1>5, <1>6, <1>7, <1>8, <1>9, <1>10 DEF Step

---------------------------------------------------------------------------
(* What the decoder remembers of the classes read *)

\* One token more.
OneMoreIs(w, c, z, n) ==
  /\ z \in Text /\ Len(z) = n + 1 /\ z[n + 1] = c
  /\ \A i \in 1 .. n : z[i] = w[i]
  /\ Net(z) = Net(w) + Weight(c) /\ Net(w) \in Int /\ Net(w) = OpenBefore(w, n + 1)
  /\ \A i \in 1 .. n + 1 : OpenBefore(z, i) = OpenBefore(w, i) /\ OpenBefore(w, i) \in Int

\* One token more adds its weight and changes nothing before it.
LEMMA OneMore ==
  ASSUME NEW w \in Text, NEW c \in Classified, NEW z, z = Append(w, c)
  PROVE  Len(w) \in Nat /\ OneMoreIs(w, c, z, Len(w))
<1>1. PICK n \in Nat : n = Len(w)
  BY LenProperties DEF Text
<1>2. z \in Text /\ Len(z) = n + 1 /\ z[n + 1] = c /\ \A i \in 1 .. n : z[i] = w[i]
  BY <1>1, AppendProperties DEF Text
<1>3. /\ Net(z) = Net(w) + Weight(c) /\ Net(w) \in Int
      /\ \A i \in 1 .. n + 1 : OpenBefore(z, i) = OpenBefore(w, i)
  BY <1>1, NetAppend DEF Text
<1>4. \A i \in 1 .. n + 1 : OpenBefore(w, i) \in Int
  BY OpenBeforeStep
<1>5. OneMoreIs(w, c, z, n)
  BY <1>1, <1>2, <1>3, <1>4 DEF OneMoreIs, Net
<1> QED BY <1>1, <1>5

\* It keeps the depth limit if it begins within it.
LEMMA FitsOneMore ==
  ASSUME NEW w \in Text, NEW c \in Classified, NEW z, z = Append(w, c),
         Fits(w, 0), c \notin Closers => Net(w) <= MaxDepth
  PROVE  Fits(z, 0)
<1>0. PICK n \in Nat : n = Len(w) /\ OneMoreIs(w, c, z, n)
  BY OneMore
<1>1. n = Len(w) /\ Net(w) = OpenBefore(w, n + 1)
  BY <1>0 DEF OneMoreIs
<1>2. /\ Len(z) = n + 1 /\ z[n + 1] = c /\ \A i \in 1 .. n : z[i] = w[i]
      /\ \A i \in 1 .. n + 1 : OpenBefore(z, i) = OpenBefore(w, i) /\ OpenBefore(w, i) \in Int
  BY <1>0 DEF OneMoreIs
<1> SUFFICES ASSUME NEW i \in 1 .. n + 1, z[i] \notin Closers PROVE 0 + OpenBefore(z, i) <= MaxDepth
  BY <1>2 DEF Fits
<1>3. CASE i \in 1 .. n
  <2>1. 0 + OpenBefore(w, i) <= MaxDepth
    BY <1>1, <1>2, <1>3 DEF Fits
  <2> QED BY <1>2, <2>1
<1>4. CASE i = n + 1
  <2>1. OpenBefore(w, i) <= MaxDepth
    BY <1>1, <1>2, <1>4 DEF Net
  <2> QED BY <1>2, <2>1
<1> QED BY <1>3, <1>4

\* The members named analysis are those there were, and perhaps one that begins.
LEMMA AnalysisOneMore ==
  ASSUME NEW w \in Text, NEW c \in Classified, NEW z, z = Append(w, c)
  PROVE  /\ \A i \in 1 .. Len(w) - 1 : AnalysisAt(z, i) <=> AnalysisAt(w, i)
         /\ Len(w) >= 1 => (AnalysisAt(z, Len(w)) <=> w[Len(w)] = "analysis" /\ Net(w) = 1 /\ c = ":")
<1>0. PICK n \in Nat : n = Len(w) /\ OneMoreIs(w, c, z, n)
  BY OneMore
<1>1. n = Len(w) /\ Net(w) = OpenBefore(w, n + 1)
  BY <1>0 DEF OneMoreIs
<1>2. /\ Len(z) = n + 1 /\ z[n + 1] = c /\ \A i \in 1 .. n : z[i] = w[i]
      /\ \A i \in 1 .. n + 1 : OpenBefore(z, i) = OpenBefore(w, i) /\ OpenBefore(w, i) \in Int
  BY <1>0 DEF OneMoreIs
<1>3. ASSUME NEW i \in 1 .. n - 1 PROVE AnalysisAt(z, i) <=> AnalysisAt(w, i)
  <2>1. i \in 1 .. n /\ i + 1 \in 1 .. n /\ i < n /\ i < n + 1
    OBVIOUS
  <2>2. z[i] = w[i] /\ z[i + 1] = w[i + 1]
    BY <1>2, <2>1
  <2>3. OpenBefore(z, i) = OpenBefore(w, i)
    BY <1>2
  <2> QED BY <1>1, <1>2, <2>1, <2>2, <2>3, Zenon DEF AnalysisAt
<1>4. ASSUME n >= 1 PROVE AnalysisAt(z, n) <=> w[n] = "analysis" /\ Net(w) = 1 /\ c = ":"
  <2>1. n \in 1 .. n /\ n < n + 1 /\ n \in Nat \ {0}
    BY <1>4
  <2>2. z[n] = w[n] /\ z[n + 1] = c /\ OpenBefore(z, n) = OpenBefore(w, n)
    BY <1>2, <2>1
  <2>3. AnalysisAt(z, n) <=> w[n] = "analysis" /\ OpenBefore(w, n) = 1 /\ c = ":"
    BY <1>2, <2>1, <2>2, Zenon DEF AnalysisAt
  <2>4. Net(w) = OpenBefore(w, n) + Weight(w[n]) /\ OpenBefore(w, n) \in Int
    BY <1>1, <2>1, OpenBeforeStep DEF Net
  <2>5. w[n] = "analysis" => Weight(w[n]) = 0
    BY DEF Weight, Openers, Closers
  <2>6. w[n] = "analysis" => (Net(w) = 1 <=> OpenBefore(w, n) = 1)
    BY <2>4, <2>5
  <2> QED BY <2>3, <2>6, Zenon
<1> QED BY <1>1, <1>3, <1>4

\* The value of such a member is a string, if the next one is.
LEMMA ChosenOneMore ==
  ASSUME NEW w \in Text, NEW c \in Classified, NEW z, z = Append(w, c), Chosen(w, 0),
         Len(w) >= 2 /\ AnalysisAt(w, Len(w) - 1) => c \in Strings
  PROVE  Chosen(z, 0)
<1>0. PICK n \in Nat : n = Len(w) /\ OneMoreIs(w, c, z, n)
  BY OneMore
<1>1. n = Len(w) /\ Net(w) = OpenBefore(w, n + 1)
  BY <1>0 DEF OneMoreIs
<1>2. /\ Len(z) = n + 1 /\ z[n + 1] = c /\ \A i \in 1 .. n : z[i] = w[i]
      /\ \A i \in 1 .. n + 1 : OpenBefore(z, i) = OpenBefore(w, i) /\ OpenBefore(w, i) \in Int
  BY <1>0 DEF OneMoreIs
<1> SUFFICES ASSUME NEW i \in 1 .. n - 1, z[i] = "analysis", 0 + OpenBefore(z, i) = 1, z[i + 1] = ":"
             PROVE  z[i + 2] \in Strings
  <2>1. n + 1 - 2 = n - 1
    OBVIOUS
  <2> QED BY <1>2, <2>1 DEF Chosen
<1>3. w[i] = "analysis" /\ OpenBefore(w, i) = 1 /\ w[i + 1] = ":"
  <2>1. i \in 1 .. n /\ i + 1 \in 1 .. n
    OBVIOUS
  <2>2. OpenBefore(z, i) = OpenBefore(w, i) /\ OpenBefore(w, i) \in Int
    BY <1>2
  <2> QED BY <1>2, <2>1, <2>2
<1>4. CASE i \in 1 .. n - 2
  <2>1. i + 2 \in 1 .. n /\ 0 + OpenBefore(w, i) = 1
    BY <1>3, <1>4
  <2>2. w[i + 2] \in Strings
    BY <1>1, <1>3, <1>4, <2>1 DEF Chosen
  <2> QED BY <1>2, <2>1, <2>2
<1>5. CASE i = n - 1
  <2>1. n >= 2 /\ i + 2 = n + 1 /\ i < n
    BY <1>5
  <2>2. AnalysisAt(w, i)
    BY <1>1, <1>3, <2>1 DEF AnalysisAt
  <2>3. c \in Strings
    BY <1>1, <1>5, <2>1, <2>2
  <2>4. z[i + 2] = c
    BY <1>2, <2>1
  <2> QED BY <2>3, <2>4
<1>6. i \in 1 .. n - 2 \/ i = n - 1
  OBVIOUS
<1> QED BY <1>4, <1>5, <1>6, Zenon

\* The brackets and their depth.
Deep(q, w) ==
  /\ Net(w) = Len(q.stack) /\ Len(q.stack) <= MaxDepth + 1
  /\ Len(q.stack) <= MaxDepth \/ q.place \in {"members", "elements"} => Fits(w, 0)
  /\ Len(q.stack) > MaxDepth => q.place \in {"members", "elements", "colon", "value"}
\* The names, and the analysis that is about to be read.
Naming(q, w) ==
  /\ q.place = "colon" =>
       /\ Len(w) >= 1 /\ w[Len(w)] \in Strings
       /\ q.wanted <=> w[Len(w)] = "analysis" /\ Len(q.stack) = 1
  /\ q.place = "analysis" <=> Len(w) >= 2 /\ AnalysisAt(w, Len(w) - 1)
  /\ q.place = "analysis" => Len(q.stack) = 1
  /\ Chosen(w, 0)
\* The first bracket.
Begun(q, w) == (q.place = "start" <=> w = <<>>) /\ (w # <<>> => w[1] = "{")
Tracks(q, w) == Deep(q, w) /\ Naming(q, w) /\ Begun(q, w)

\* The parts of a place of the decoder.
LEMMA AtParts == ASSUME NEW p, NEW s, NEW b PROVE At(p, s, b).place = p /\ At(p, s, b).stack = s /\ At(p, s, b).wanted = b
BY DEF At

\* Where a step comes from, on what class, and where it leads.
StepsFrom(q, c, r, from, classes, to) == q.place \in from /\ c \in classes /\ r.place \in to

\* Where each kind of step comes from and where it leads.
LEMMA StepPlaces ==
  ASSUME NEW q, NEW c, NEW r
  PROVE  /\ OpenStep(q, c, r) =>
              StepsFrom(q, c, r, {"start", "value", "elements"}, Openers, {"members", "elements"})
         /\ CloseStep(q, c, r) =>
              StepsFrom(q, c, r, {"members", "elements", "delimiter"}, Closers, {"end", "delimiter"})
         /\ NameStep(q, c, r) => StepsFrom(q, c, r, {"members", "name"}, Strings, {"colon"})
         /\ ColonStep(q, c, r) => /\ StepsFrom(q, c, r, {"colon"}, {":"}, {"analysis", "value"})
                                  /\ r.place = "analysis" <=> q.wanted
         /\ AnalysisStep(q, c, r) => StepsFrom(q, c, r, {"analysis"}, Strings, {"delimiter"})
         /\ ScalarStep(q, c, r) => StepsFrom(q, c, r, {"value", "elements"}, Scalars, {"delimiter"})
         /\ CommaStep(q, c, r) => StepsFrom(q, c, r, {"delimiter"}, {","}, {"name", "value"})
         /\ LastStep(q, c, r) => StepsFrom(q, c, r, {"end"}, {"EOF"}, {"ok"})
<1>1. ASSUME OpenStep(q, c, r)
      PROVE  StepsFrom(q, c, r, {"start", "value", "elements"}, Openers, {"members", "elements"})
  <2>1. r.place = FirstOf(c)
    <3>1. PICK p, s, b : p = FirstOf(c) /\ s = Append(q.stack, c) /\ b = q.wanted
      OBVIOUS
    <3>2. r = At(p, s, b)
      BY <1>1, <3>1, Zenon DEF OpenStep
    <3> QED BY <3>1, <3>2, AtParts
  <2>2. FirstOf(c) \in {"members", "elements"}
    BY DEF FirstOf
  <2> QED BY <1>1, <2>1, <2>2 DEF OpenStep, StepsFrom
<1>2. ASSUME CloseStep(q, c, r)
      PROVE  StepsFrom(q, c, r, {"members", "elements", "delimiter"}, Closers, {"end", "delimiter"})
  <2>1. r.place = IF Len(q.stack) = 1 THEN "end" ELSE "delimiter"
    <3>1. PICK p, s, b :
            p = (IF Len(q.stack) = 1 THEN "end" ELSE "delimiter") /\ s = Front(q.stack) /\ b = q.wanted
      OBVIOUS
    <3>2. r = At(p, s, b)
      BY <1>2, <3>1, Zenon DEF CloseStep
    <3>3. r.place = p
      BY <3>2, AtParts
    <3> QED BY <3>1, <3>3
  <2>2. CloserOf(Last(q.stack)) \in Closers
    BY DEF CloserOf, Closers
  <2>3. c \in Closers /\ q.place \in {"members", "elements", "delimiter"}
    BY <1>2, <2>2 DEF CloseStep, Closers
  <2> QED BY <2>1, <2>3 DEF StepsFrom
<1>3. ASSUME NameStep(q, c, r) PROVE StepsFrom(q, c, r, {"members", "name"}, Strings, {"colon"})
  <2>1. r.place = "colon"
    BY <1>3, AtParts DEF NameStep
  <2> QED BY <1>3, <2>1 DEF NameStep, StepsFrom
<1>4. ASSUME ColonStep(q, c, r)
      PROVE  /\ StepsFrom(q, c, r, {"colon"}, {":"}, {"analysis", "value"})
             /\ r.place = "analysis" <=> q.wanted
  <2>1. r.place = IF q.wanted THEN "analysis" ELSE "value"
    BY <1>4, AtParts DEF ColonStep
  <2>2. r.place = "analysis" <=> q.wanted
    BY <2>1
  <2> QED BY <1>4, <2>1, <2>2 DEF ColonStep, StepsFrom
<1>5. ASSUME AnalysisStep(q, c, r) PROVE StepsFrom(q, c, r, {"analysis"}, Strings, {"delimiter"})
  <2>1. r.place = "delimiter"
    <3>1. PICK b : b = FALSE
      OBVIOUS
    <3>2. r = At("delimiter", q.stack, b)
      BY <1>5, <3>1, Zenon DEF AnalysisStep
    <3> QED BY <3>2, AtParts
  <2> QED BY <1>5, <2>1 DEF AnalysisStep, StepsFrom
<1>6. ASSUME ScalarStep(q, c, r) PROVE StepsFrom(q, c, r, {"value", "elements"}, Scalars, {"delimiter"})
  <2>1. r.place = "delimiter"
    BY <1>6, AtParts DEF ScalarStep
  <2> QED BY <1>6, <2>1 DEF ScalarStep, StepsFrom
<1>7. ASSUME CommaStep(q, c, r) PROVE StepsFrom(q, c, r, {"delimiter"}, {","}, {"name", "value"})
  <2>1. r.place = NextOf(Last(q.stack))
    <3>1. PICK p : p = NextOf(Last(q.stack))
      OBVIOUS
    <3>2. r = At(p, q.stack, q.wanted)
      BY <1>7, <3>1, Zenon DEF CommaStep
    <3> QED BY <3>1, <3>2, AtParts
  <2>2. NextOf(Last(q.stack)) \in {"name", "value"}
    BY DEF NextOf
  <2> QED BY <1>7, <2>1, <2>2, Zenon DEF CommaStep, StepsFrom
<1>8. ASSUME LastStep(q, c, r) PROVE StepsFrom(q, c, r, {"end"}, {"EOF"}, {"ok"})
  <2>1. r.place = "ok"
    BY <1>8, AtParts DEF LastStep
  <2> QED BY <1>8, <2>1 DEF LastStep, StepsFrom
<1> QED BY <1>1, <1>2, <1>3, <1>4, <1>5, <1>6, <1>7, <1>8, Zenon

\* What a step makes of the stack.
LEMMA StepStack ==
  ASSUME NEW q, Located(q), NEW c \in Classified, NEW r, Step(q, c, r)
  PROVE  /\ Len(q.stack) \in Nat /\ Len(r.stack) = Len(q.stack) + Weight(c)
         /\ c \in Openers /\ q.place # "start" => Len(q.stack) <= MaxDepth
<1>1. /\ q.stack \in Stacks /\ Len(q.stack) \in Nat
      /\ q.place \in Inside => q.stack # <<>>
  BY LenProperties DEF Located, Stacks
<1>2. CASE OpenStep(q, c, r)
  <2>1. c \in Openers /\ r.stack = Append(q.stack, c)
    BY <1>2 DEF OpenStep, At
  <2>2. Len(r.stack) = Len(q.stack) + 1 /\ Weight(c) = 1
    BY <1>1, <2>1, PushPop DEF Weight
  <2> QED BY <1>1, <1>2, <2>2 DEF OpenStep
<1>3. CASE CloseStep(q, c, r)
  <2>0. StepsFrom(q, c, r, {"members", "elements", "delimiter"}, Closers, {"end", "delimiter"})
    BY <1>3, StepPlaces
  <2>a. r.stack = Front(q.stack)
    <3>1. PICK p, s, b :
            p = (IF Len(q.stack) = 1 THEN "end" ELSE "delimiter") /\ s = Front(q.stack) /\ b = q.wanted
      OBVIOUS
    <3>2. r = At(p, s, b)
      BY <1>3, <3>1, Zenon DEF CloseStep
    <3> QED BY <3>1, <3>2, AtParts
  <2>1. q.place \in Inside /\ c \in Closers /\ r.stack = Front(q.stack)
    BY <2>0, <2>a DEF StepsFrom, Inside
  <2>2. Len(r.stack) = Len(q.stack) - 1 /\ Weight(c) = -1 /\ c \notin Openers
    BY <1>1, <2>1, TopAndRest DEF Weight, Openers, Closers
  <2> QED BY <1>1, <2>2
<1>4. CASE r.stack = q.stack /\ c \in Strings \cup Scalars \cup {":", ",", "EOF"}
  <2>1. Weight(c) = 0 /\ c \notin Openers
    BY <1>4 DEF Weight, Strings, Scalars, Openers, Closers
  <2>2. PICK m \in Nat : m = Len(q.stack)
    BY <1>1
  <2>3. Len(r.stack) = m
    BY <1>4, <2>2, Zenon
  <2>4. Len(r.stack) = m + Weight(c)
    BY <2>1, <2>3
  <2> QED BY <1>1, <2>1, <2>2, <2>4, Zenon
<1>5. NameStep(q, c, r) => r.stack = q.stack /\ c \in Strings
  BY AtParts DEF NameStep
<1>6. ColonStep(q, c, r) => r.stack = q.stack /\ c = ":"
  BY AtParts DEF ColonStep
<1>7. AnalysisStep(q, c, r) => r.stack = q.stack /\ c \in Strings
  <2> SUFFICES ASSUME AnalysisStep(q, c, r) PROVE r.stack = q.stack /\ c \in Strings
    OBVIOUS
  <2>1. PICK b : b = FALSE
    OBVIOUS
  <2>2. r = At("delimiter", q.stack, b) /\ c \in Strings
    BY <2>1, Zenon DEF AnalysisStep
  <2> QED BY <2>2, AtParts
<1>8. ScalarStep(q, c, r) => r.stack = q.stack /\ c \in Scalars
  BY AtParts DEF ScalarStep
<1>9. CommaStep(q, c, r) => r.stack = q.stack /\ c = ","
  <2> SUFFICES ASSUME CommaStep(q, c, r) PROVE r.stack = q.stack /\ c = ","
    OBVIOUS
  <2>1. PICK p, s, b : p = NextOf(Last(q.stack)) /\ s = q.stack /\ b = q.wanted
    OBVIOUS
  <2>2. r = At(p, s, b)
    BY <2>1, Zenon DEF CommaStep
  <2>3. r.stack = s
    BY <2>2, AtParts
  <2>4. c = ","
    BY Zenon DEF CommaStep
  <2> QED BY <2>1, <2>3, <2>4, Zenon
<1>10. LastStep(q, c, r) => r.stack = q.stack /\ c = "EOF"
  BY AtParts DEF LastStep
<1>11. (r.stack = q.stack /\ c \in Strings \cup Scalars \cup {":", ",", "EOF"}) \/ OpenStep(q, c, r) \/ CloseStep(q, c, r)
  BY <1>5, <1>6, <1>7, <1>8, <1>9, <1>10 DEF Step
<1> QED BY <1>2, <1>3, <1>4, <1>11

\* The depth limit holds before the last token but while a name and its value
\* are too deep.
LEMMA StepDeep ==
  ASSUME NEW q, Located(q), NEW w \in Text, NEW c \in Classified, NEW r, Step(q, c, r),
         NEW z, z = Append(w, c), Deep(q, w), Naming(q, w)
  PROVE  Deep(r, z)
<1>1. PICK m \in Nat, k \in Int : m = Len(q.stack) /\ k = Weight(c) /\ Len(r.stack) = m + k
  <2>1. Len(q.stack) \in Nat /\ Len(r.stack) = Len(q.stack) + Weight(c)
    BY StepStack
  <2>2. Weight(c) \in Int
    BY DEF Weight
  <2> QED BY <2>1, <2>2
<1>2. PICK D \in Nat : D = MaxDepth /\ D >= 1
  BY HolmesAssumption
<1>3. /\ Net(w) = m /\ m <= D + 1 /\ (m <= D \/ q.place \in {"members", "elements"} => Fits(w, 0))
      /\ m > D => q.place \in {"members", "elements", "colon", "value"}
  BY <1>1, <1>2 DEF Deep
<1>4. Net(z) = Len(r.stack)
  <2>1. Net(z) = Net(w) + Weight(c)
    BY OneMore DEF OneMoreIs
  <2> QED BY <1>1, <1>3, <2>1
<1>a. ASSUME Fits(w, 0), c \notin Closers => m <= D PROVE Fits(z, 0)
  BY <1>2, <1>3, <1>a, FitsOneMore
<1>b. ASSUME Fits(w, 0), c \notin Closers => m <= D, m + k <= D + 1,
             m + k > D => r.place \in {"members", "elements", "colon", "value"}
      PROVE  Deep(r, z)
  <2>1. Fits(z, 0)
    BY <1>a, <1>b
  <2> QED BY <1>1, <1>2, <1>4, <1>b, <2>1 DEF Deep
<1>5. CASE OpenStep(q, c, r)
  <2>1. k = 1 /\ m <= D /\ r.place \in {"members", "elements"}
    <3>1. c \in Openers /\ r.place = FirstOf(c)
      BY <1>5 DEF OpenStep, At
    <3>2. q.place = "start" => m = 0
      BY <1>1 DEF Located
    <3>3. q.place # "start" => m <= D
      BY <1>1, <1>2, <3>1, StepStack
    <3>4. k = 1 /\ r.place \in {"members", "elements"}
      BY <1>1, <3>1 DEF Weight, FirstOf
    <3>5. m <= D
      BY <1>1, <1>2, <3>2, <3>3
    <3> QED BY <3>4, <3>5
  <2> QED BY <1>b, <1>3, <2>1
<1>6. CASE CloseStep(q, c, r)
  <2>1. q.place \in {"members", "elements", "delimiter"} /\ c \in Closers /\ c \notin Openers
    BY <1>6 DEF CloseStep, Closers, Openers, CloserOf
  <2>2. k = -1
    BY <1>1, <2>1 DEF Weight
  <2>3. Fits(w, 0)
    BY <1>3, <2>1
  <2> QED BY <1>b, <1>3, <2>1, <2>2, <2>3
<1>7. CASE NameStep(q, c, r)
  <2>1. c \in Strings /\ r.place = "colon" /\ q.place \in {"members", "name"}
    BY <1>7 DEF NameStep, At
  <2>2. k = 0
    BY <1>1, <2>1 DEF Weight, Strings, Openers, Closers
  <2>3. CASE m <= D
    BY <1>b, <1>3, <2>1, <2>2, <2>3
  <2>4. CASE m > D
    BY <1>1, <1>2, <1>3, <1>4, <2>1, <2>2, <2>4 DEF Deep
  <2> QED BY <2>3, <2>4
<1>8. CASE ColonStep(q, c, r)
  <2>1. c = ":" /\ q.place = "colon" /\ r.place = IF q.wanted THEN "analysis" ELSE "value"
    BY <1>8 DEF ColonStep, At
  <2>2. k = 0
    BY <1>1, <2>1 DEF Weight, Openers, Closers
  <2>3. q.wanted => m = 1
    BY <1>1, <2>1 DEF Naming
  <2>4. CASE m <= D
    BY <1>b, <1>3, <2>1, <2>2, <2>4
  <2>5. CASE m > D
    <3>1. r.place = "value"
      BY <1>2, <2>1, <2>3, <2>5
    <3> QED BY <1>1, <1>2, <1>3, <1>4, <2>2, <2>5, <3>1 DEF Deep
  <2> QED BY <2>4, <2>5
<1>9. CASE AnalysisStep(q, c, r)
  <2>1. c \in Strings /\ q.place = "analysis" /\ r.place = "delimiter"
    BY <1>9 DEF AnalysisStep, At
  <2>2. k = 0 /\ m <= D
    <3>1. k = 0
      BY <1>1, <2>1 DEF Weight, Strings, Openers, Closers
    <3>2. ~(m > D)
      BY <1>3, <2>1
    <3> QED BY <3>1, <3>2
  <2> QED BY <1>b, <1>3, <2>2
<1>10. CASE ScalarStep(q, c, r)
  <2>1. k = 0
    BY <1>1, <1>10 DEF ScalarStep, Weight, Scalars, Openers, Closers
  <2>2. m <= D
    BY <1>1, <1>2, <1>10 DEF ScalarStep
  <2> QED BY <1>b, <1>3, <2>1, <2>2
<1>11. CASE CommaStep(q, c, r)
  <2>1. c = "," /\ q.place = "delimiter"
    BY <1>11 DEF CommaStep
  <2>2. k = 0
    BY <1>1, <2>1 DEF Weight, Openers, Closers
  <2>3. ~(m > D)
    BY <1>3, <2>1
  <2> QED BY <1>b, <1>3, <2>2, <2>3
<1>12. CASE LastStep(q, c, r)
  <2>1. c = "EOF" /\ q.place = "end"
    BY <1>12 DEF LastStep
  <2>2. k = 0
    BY <1>1, <2>1 DEF Weight, Openers, Closers
  <2>3. ~(m > D)
    BY <1>3, <2>1
  <2> QED BY <1>b, <1>3, <2>2, <2>3
<1> QED BY <1>5, <1>6, <1>7, <1>8, <1>9, <1>10, <1>11, <1>12 DEF Step

\* After the name and its colon the analysis is expected, and nowhere else.
LEMMA StepNaming ==
  ASSUME NEW q, Located(q), NEW w \in Text, NEW c \in Classified, NEW r, Step(q, c, r),
         NEW z, z = Append(w, c), Deep(q, w), Naming(q, w)
  PROVE  Naming(r, z)
<1>0. PICK n \in Nat : n = Len(w) /\ OneMoreIs(w, c, z, n)
  BY OneMore
<1>1. n = Len(w) /\ Len(z) = n + 1 /\ z[n + 1] = c
  BY <1>0 DEF OneMoreIs
<1>2. /\ q.place = "colon" => n >= 1 /\ w[n] \in Strings /\ (q.wanted <=> w[n] = "analysis" /\ Len(q.stack) = 1)
      /\ q.place = "analysis" <=> n >= 2 /\ AnalysisAt(w, n - 1)
      /\ Chosen(w, 0) /\ Net(w) = Len(q.stack)
  BY <1>1 DEF Naming, Deep
<1>3. n >= 1 => (AnalysisAt(z, n) <=> w[n] = "analysis" /\ Len(q.stack) = 1 /\ c = ":")
  <2>1. Len(w) >= 1 => (AnalysisAt(z, Len(w)) <=> w[Len(w)] = "analysis" /\ Net(w) = 1 /\ c = ":")
    BY AnalysisOneMore
  <2> QED BY <1>1, <1>2, <2>1
<1>a. /\ OpenStep(q, c, r) =>
           StepsFrom(q, c, r, {"start", "value", "elements"}, Openers, {"members", "elements"})
      /\ CloseStep(q, c, r) =>
           StepsFrom(q, c, r, {"members", "elements", "delimiter"}, Closers, {"end", "delimiter"})
      /\ NameStep(q, c, r) => StepsFrom(q, c, r, {"members", "name"}, Strings, {"colon"})
      /\ ColonStep(q, c, r) => /\ StepsFrom(q, c, r, {"colon"}, {":"}, {"analysis", "value"})
                               /\ r.place = "analysis" <=> q.wanted
      /\ AnalysisStep(q, c, r) => StepsFrom(q, c, r, {"analysis"}, Strings, {"delimiter"})
      /\ ScalarStep(q, c, r) => StepsFrom(q, c, r, {"value", "elements"}, Scalars, {"delimiter"})
      /\ CommaStep(q, c, r) => StepsFrom(q, c, r, {"delimiter"}, {","}, {"name", "value"})
      /\ LastStep(q, c, r) => StepsFrom(q, c, r, {"end"}, {"EOF"}, {"ok"})
  BY StepPlaces
<1>4. c = ":" <=> ColonStep(q, c, r)
  BY <1>a DEF Step, StepsFrom, Openers, Closers, Strings, Scalars
<1>5. q.place = "analysis" <=> AnalysisStep(q, c, r)
  BY <1>a DEF Step, StepsFrom
<1>6. Chosen(z, 0)
  <2>1. AnalysisStep(q, c, r) => c \in Strings
    BY DEF AnalysisStep
  <2> QED BY <1>1, <1>2, <1>5, <2>1, ChosenOneMore
<1>7. r.place = "colon" <=> NameStep(q, c, r)
  BY <1>a DEF Step, StepsFrom
<1>8. r.place = "analysis" <=> ColonStep(q, c, r) /\ q.wanted
  BY <1>a DEF Step, StepsFrom
<1>9. r.place = "colon" =>
        /\ Len(z) >= 1 /\ z[Len(z)] \in Strings
        /\ r.wanted <=> z[Len(z)] = "analysis" /\ Len(r.stack) = 1
  <2> SUFFICES ASSUME NameStep(q, c, r)
               PROVE  /\ Len(z) >= 1 /\ z[Len(z)] \in Strings
                      /\ r.wanted <=> z[Len(z)] = "analysis" /\ Len(r.stack) = 1
    BY <1>7
  <2>1. c \in Strings /\ r.stack = q.stack /\ r.wanted = (Len(q.stack) = 1 /\ c = "analysis")
    BY DEF NameStep, At
  <2>2. Len(z) >= 1 /\ z[Len(z)] = c
    BY <1>1
  <2> QED BY <2>1, <2>2, Zenon
<1>10. r.place = "analysis" <=> Len(z) >= 2 /\ AnalysisAt(z, Len(z) - 1)
  <2>1. Len(z) - 1 = n /\ (Len(z) >= 2 <=> n >= 1)
    BY <1>1
  <2>2. ColonStep(q, c, r) => q.place = "colon"
    BY DEF ColonStep
  <2>3. CASE ColonStep(q, c, r)
    <3>1. n >= 1 /\ (q.wanted <=> w[n] = "analysis" /\ Len(q.stack) = 1)
      BY <1>2, <2>2, <2>3
    <3> QED BY <1>3, <1>4, <1>8, <2>1, <2>3, <3>1, Zenon
  <2>4. CASE ~ColonStep(q, c, r)
    BY <1>3, <1>4, <1>8, <2>1, <2>4, Zenon
  <2> QED BY <2>3, <2>4
<1>11. r.place = "analysis" => Len(r.stack) = 1
  <2> SUFFICES ASSUME ColonStep(q, c, r), q.wanted PROVE Len(r.stack) = 1
    BY <1>8
  <2>1. q.place = "colon" /\ r.stack = q.stack
    BY DEF ColonStep, At
  <2> QED BY <1>2, <2>1
<1> QED BY <1>6, <1>9, <1>10, <1>11 DEF Naming

\* All of it.
LEMMA StepTracks ==
  ASSUME NEW q, Located(q), NEW w \in Text, NEW c \in Classified, NEW r, Step(q, c, r),
         NEW z, z = Append(w, c), Tracks(q, w)
  PROVE  Tracks(r, z)
<1>1. Deep(r, z) /\ Naming(r, z)
  BY StepDeep, StepNaming DEF Tracks
<1>0. PICK n \in Nat : n = Len(w) /\ OneMoreIs(w, c, z, n)
  BY OneMore
<1>2. n = Len(w) /\ Len(z) = n + 1 /\ z[n + 1] = c /\ (\A i \in 1 .. n : z[i] = w[i]) /\ z \in Text
  BY <1>0 DEF OneMoreIs
<1>3. r.place # "start" /\ (q.place = "start" => OpenStep(q, c, r))
  BY StepPlaces DEF Step, StepsFrom
<1>4. z # <<>>
  BY <1>2
<1>5. z[1] = "{"
  <2>1. CASE w = <<>>
    <3>1. q.place = "start" /\ n = 0
      BY <1>2, <2>1 DEF Tracks, Begun
    <3>2. c = "{"
      BY <1>3, <3>1 DEF OpenStep
    <3>3. n + 1 = 1
      BY <3>1
    <3>4. z[n + 1] = "{"
      BY <1>2, <3>2
    <3> QED BY <3>3, <3>4
  <2>2. CASE w # <<>>
    <3>1. w[1] = "{" /\ 1 \in 1 .. n
      <4>1. n # 0
        BY <1>2, <2>2, EmptySeq DEF Text
      <4>2. 1 \in 1 .. n
        BY <4>1
      <4>3. w[1] = "{"
        BY <2>2 DEF Tracks, Begun
      <4> QED BY <4>2, <4>3
    <3> QED BY <1>2, <3>1
  <2> QED BY <2>1, <2>2
<1> QED BY <1>1, <1>3, <1>4, <1>5 DEF Tracks, Begun

\* The decoder begins so.
LEMMA TracksBegin == Tracks(At("start", <<>>, FALSE), <<>>) /\ Located(At("start", <<>>, FALSE)) /\ <<>> \in Text
<1>1. PICK q, w : q = At("start", <<>>, FALSE) /\ w = <<>>
  OBVIOUS
<1>2. q.place = "start" /\ q.stack = <<>> /\ q.wanted = FALSE
  BY <1>1 DEF At
<1>3. w \in Text /\ Len(w) = 0 /\ q.stack \in Stacks /\ Len(q.stack) = 0
  <2>1. PICK e : e = <<>>
    OBVIOUS
  <2>2. e \in Seq(Classified) /\ e \in Seq(Openers) /\ Len(e) = 0
    BY <2>1, EmptySeq
  <2> QED BY <1>1, <1>2, <2>1, <2>2 DEF Text, Stacks
<1>4. Located(q)
  BY <1>2, <1>3 DEF Located, Places, Inside
<1>5. Fits(w, 0) /\ Chosen(w, 0)
  BY <1>3 DEF Fits, Chosen
<1>6. Net(w) = 0
  <2>1. OpenBefore(w, 1) = 0
    BY OpenBeforeStep
  <2> QED BY <1>3, <2>1 DEF Net
<1>7. Deep(q, w)
  BY <1>2, <1>3, <1>5, <1>6, HolmesAssumption DEF Deep
<1>8. Naming(q, w)
  BY <1>2, <1>3, <1>5 DEF Naming
<1>9. Begun(q, w)
  BY <1>1, <1>2 DEF Begun
<1> QED BY <1>1, <1>3, <1>4, <1>7, <1>8, <1>9 DEF Tracks

---------------------------------------------------------------------------
(* The rules of the grammar, as it is derived from the left *)

Phrase(kind) == {x \in Text : Len(x) <= Longest /\ x \in Phrases[Len(x)][kind]}
ListOf(o) == IF o = "{" THEN Phrase("members") ELSE Phrase("elements")

\* Two texts joined are one.
LEMMA TextJoin ==
  ASSUME NEW x \in Text, NEW y \in Text, NEW z, z = x \o y
  PROVE  z \in Text /\ Len(z) = Len(x) + Len(y)
BY TextConcat

\* A list that is made of its parts.
LEMMA ListedHas == ASSUME NEW A, NEW B, NEW l \in A, NEW x \in B PROVE l \o Comma \o x \in Listed(A, B)
BY DEF Listed

\* A member that is made of its parts.
LEMMA NamedHas == ASSUME NEW A, NEW name \in Strings, NEW v \in A PROVE Label(name) \o v \in Named(A)
<1>1. name \in {"string", "analysis"}
  BY DEF Strings
<1> QED BY <1>1 DEF Named

\* The members of a set of phrases.
LEMMA InPhrase ==
  ASSUME NEW kind, NEW x
  PROVE  x \in Phrase(kind) <=> x \in Text /\ Len(x) <= Longest /\ x \in Phrases[Len(x)][kind]
BY DEF Phrase

\* No phrase is empty.
LEMMA PhraseSize ==
  ASSUME NEW kind \in {"value", "member", "elements", "members"}, NEW x \in Phrase(kind)
  PROVE  x \in Text /\ Len(x) \in 1 .. Longest
<1>1. x \in Text /\ Len(x) <= Longest /\ x \in Phrases[Len(x)][kind]
  BY InPhrase
<1>2. Len(x) \in Nat /\ Longest \in Nat
  BY <1>1, LongestIs, LenProperties DEF Text
<1>3. Phrases[0].value = {} /\ Phrases[0].member = {} /\ Phrases[0].elements = {} /\ Phrases[0].members = {}
  <2>1. PICK n \in 0 .. Longest : n = 0
    BY <1>2
  <2>2. \A list, one : Longer(n, list, one) = {}
    <3>1. 1 .. n - 2 = {}
      BY <2>1
    <3> QED BY <3>1 DEF Longer
  <2>3. Phrases[n].value = {} /\ Phrases[n].member = {}
    <3>1. n < 3
      BY <2>1
    <3> QED BY <2>1, <3>1, PhrasesAre, Zenon
  <2>4. /\ Phrases[n].elements = Phrases[n].value \cup Longer(n, "elements", "value")
        /\ Phrases[n].members = Phrases[n].member \cup Longer(n, "members", "member")
    BY PhrasesAre
  <2> QED BY <2>1, <2>2, <2>3, <2>4
<1>4. Phrases[0][kind] = {}
  BY <1>3
<1>5. Len(x) # 0
  BY <1>1, <1>4
<1> QED BY <1>1, <1>2, <1>5

\* A string, a number or a word is a value.
LEMMA ScalarPhrase ==
  ASSUME NEW c \in Scalars, Longest >= 1
  PROVE  <<c>> \in Phrase("value")
<1>1. <<c>> \in Text /\ Len(<<c>>) = 1
  BY OneToken DEF Scalars, Classified
<1>2. PICK n \in 0 .. Longest : n = 1
  BY LongestIs
<1>3. Phrases[n].value = {<<"string">>, <<"analysis">>, <<"scalar">>}
  BY <1>2, PhrasesAre
<1>4. <<c>> \in Phrases[n].value
  BY <1>3 DEF Scalars
<1> QED BY <1>1, <1>2, <1>4, InPhrase

\* So is a list in its brackets, or nothing in them.
LEMMA BracketPhrase ==
  ASSUME NEW o \in Openers, NEW x \in Text, x = <<>> \/ x \in ListOf(o), Len(x) + 2 <= Longest
  PROVE  <<o>> \o x \o <<CloserOf(o)>> \in Phrase("value")
<1>0. PICK m \in Nat : m = Len(x)
  BY LenProperties DEF Text
<1>1. PICK n \in 0 .. Longest : n = m + 2
  BY <1>0, LongestIs
<1>2. PICK list : list = IF o = "{" THEN "members" ELSE "elements"
  OBVIOUS
<1>3. x \in Inner(n, list)
  <2>1. CASE m = 0
    <3>1. x = <<>>
      BY <1>0, <2>1, EmptySeq DEF Text
    <3> QED BY <1>1, <2>1, <3>1 DEF Inner
  <2>2. CASE m # 0
    <3>1. x # <<>>
      BY <1>0, <2>2, EmptySeq
    <3>2. x \in Phrase(list)
      BY <1>2, <3>1, Zenon DEF ListOf
    <3>3. x \in Phrases[m][list]
      BY <1>0, <3>2, InPhrase
    <3>4. n # 2 /\ n - 2 = m
      BY <1>0, <1>1, <2>2
    <3> QED BY <3>3, <3>4 DEF Inner
  <2> QED BY <2>1, <2>2
<1>4. PICK c \in Closers : c = CloserOf(o)
  BY DEF CloserOf, Closers
<1>a. PICK a, b : a = <<o>> /\ b = <<c>>
  OBVIOUS
<1>b. PICK y : y = a \o x
  OBVIOUS
<1>c. PICK z : z = y \o b
  OBVIOUS
<1>5. z = <<o>> \o x \o <<c>>
  BY <1>a, <1>b, <1>c, Zenon
<1>6. z \in Text /\ Len(z) = n
  <2>0. o \in Classified /\ c \in Classified
    BY DEF Openers, Closers, Classified, Marks
  <2>1. a \in Text /\ Len(a) = 1 /\ b \in Text /\ Len(b) = 1
    BY <1>a, <2>0, OneToken
  <2>2. y \in Text /\ Len(y) = Len(a) + Len(x)
    BY <1>b, <2>1, TextJoin, Zenon
  <2>3. z \in Text /\ Len(z) = Len(y) + Len(b)
    BY <1>c, <2>1, <2>2, TextJoin, Zenon
  <2>4. Len(z) = 1 + m + 1
    BY <1>0, <2>1, <2>2, <2>3
  <2> QED BY <1>1, <2>3, <2>4
<1>7. z \in Phrases[n].value
  <2>1. Phrases[n].value = Enclosed("[", Inner(n, "elements"), "]") \cup Enclosed("{", Inner(n, "members"), "}")
    <3>1. n >= 2
      BY <1>1
    <3> QED BY <3>1, PhrasesAre, Zenon
  <2>2. CASE o = "{"
    <3>1. x \in Inner(n, "members") /\ c = "}"
      BY <1>2, <1>3, <1>4, <2>2 DEF CloserOf
    <3>2. z \in Enclosed("{", Inner(n, "members"), "}")
      BY <1>5, <2>2, <3>1 DEF Enclosed
    <3> QED BY <2>1, <3>2
  <2>3. CASE o # "{"
    <3>1. x \in Inner(n, "elements") /\ c = "]" /\ o = "["
      BY <1>2, <1>3, <1>4, <2>3 DEF CloserOf, Openers
    <3>2. z \in Enclosed("[", Inner(n, "elements"), "]")
      BY <1>5, <3>1 DEF Enclosed
    <3> QED BY <2>1, <3>2
  <2> QED BY <2>2, <2>3
<1>8. z \in Phrase("value")
  <2>1. Len(z) <= Longest /\ z \in Phrases[Len(z)]["value"]
    BY <1>1, <1>6, <1>7, LongestIs
  <2> QED BY <1>6, <2>1, InPhrase
<1> QED BY <1>4, <1>5, <1>8, Zenon

\* A name and a value are a member.
LEMMA MemberPhrase ==
  ASSUME NEW name \in Strings, NEW v \in Phrase("value"), Len(v) + 2 <= Longest
  PROVE  Label(name) \o v \in Phrase("member")
<1>0. PICK m \in 1 .. Longest : m = Len(v) /\ v \in Text
  BY PhraseSize
<1>1. PICK n \in 0 .. Longest : n = m + 2
  BY <1>0, LongestIs
<1>a. PICK a : a = Label(name)
  OBVIOUS
<1>2. PICK z : z = a \o v
  OBVIOUS
<1>3. a \in Text /\ Len(a) = 2
  <2>1. name \in Classified /\ ":" \in Classified
    BY DEF Strings, Classified, Scalars, Marks
  <2>2. a = <<name, ":">>
    BY <1>a DEF Label
  <2> QED BY <2>1, <2>2 DEF Text
<1>4. z \in Text /\ Len(z) = n
  <2>1. z \in Text /\ Len(z) = 2 + m
    BY <1>0, <1>2, <1>3, TextJoin
  <2> QED BY <1>1, <2>1
<1>5. v \in Phrases[m].value
  BY <1>0, InPhrase
<1>6. z \in Phrases[n].member
  <2>1. Phrases[n].member = Named(Phrases[n - 2].value) /\ n - 2 = m
    <3>1. n >= 3 /\ n - 2 = m
      BY <1>0, <1>1, LongestIs
    <3> QED BY <3>1, PhrasesAre, Zenon
  <2>2. z \in Named(Phrases[m].value)
    <3>1. Label(name) \o v \in Named(Phrases[m].value)
      BY <1>5, NamedHas
    <3> QED BY <1>a, <1>2, <3>1, Zenon
  <2> QED BY <2>1, <2>2
<1>7. z \in Phrase("member")
  <2>1. Len(z) <= Longest /\ z \in Phrases[Len(z)]["member"]
    BY <1>1, <1>4, <1>6, LongestIs
  <2> QED BY <1>4, <2>1, InPhrase
<1> QED BY <1>a, <1>2, <1>7, Zenon

\* One value or member is a list.
LEMMA OnePhrase == Phrase("value") \subseteq Phrase("elements") /\ Phrase("member") \subseteq Phrase("members")
<1>1. ASSUME NEW x \in Phrase("value") PROVE x \in Phrase("elements")
  <2>1. PICK n \in 0 .. Longest : n = Len(x) /\ x \in Text /\ x \in Phrases[n].value
    <3>1. Len(x) \in 1 .. Longest /\ x \in Text /\ x \in Phrases[Len(x)].value
      BY PhraseSize, InPhrase
    <3> QED BY <3>1, LongestIs
  <2>2. x \in Phrases[n].elements
    <3>1. Phrases[n].elements = Phrases[n].value \cup Longer(n, "elements", "value")
      BY PhrasesAre, Zenon
    <3> QED BY <2>1, <3>1, Zenon
  <2>3. Len(x) <= Longest /\ x \in Phrases[Len(x)]["elements"]
    BY <2>1, <2>2, LongestIs
  <2> QED BY <2>1, <2>3, InPhrase
<1>2. ASSUME NEW x \in Phrase("member") PROVE x \in Phrase("members")
  <2>1. PICK n \in 0 .. Longest : n = Len(x) /\ x \in Text /\ x \in Phrases[n].member
    <3>1. Len(x) \in 1 .. Longest /\ x \in Text /\ x \in Phrases[Len(x)].member
      BY PhraseSize, InPhrase
    <3> QED BY <3>1, LongestIs
  <2>2. x \in Phrases[n].members
    <3>1. Phrases[n].members = Phrases[n].member \cup Longer(n, "members", "member")
      BY PhrasesAre, Zenon
    <3> QED BY <2>1, <3>1, Zenon
  <2>3. Len(x) <= Longest /\ x \in Phrases[Len(x)]["members"]
    BY <2>1, <2>2, LongestIs
  <2> QED BY <2>1, <2>3, InPhrase
<1> QED BY <1>1, <1>2

\* A list, a comma and one more are a list.
LEMMA LongerPhrase ==
  ASSUME NEW list, NEW one, (list = "elements" /\ one = "value") \/ (list = "members" /\ one = "member"),
         NEW l \in Phrase(list), NEW x \in Phrase(one), Len(l) + 1 + Len(x) <= Longest
  PROVE  l \o Comma \o x \in Phrase(list)
<1>0. list \in {"value", "member", "elements", "members"} /\ one \in {"value", "member", "elements", "members"}
  OBVIOUS
<1>1. PICK k \in 1 .. Longest : k = Len(l) /\ l \in Text /\ l \in Phrases[k][list]
  BY <1>0, PhraseSize, InPhrase
<1>2. PICK m \in 1 .. Longest : m = Len(x) /\ x \in Text /\ x \in Phrases[m][one]
  BY <1>0, PhraseSize, InPhrase
<1>3. PICK n \in 0 .. Longest : n = k + 1 + m
  BY <1>1, <1>2, LongestIs
<1>4. k \in 1 .. n - 2 /\ n - k - 1 = m
  BY <1>3, LongestIs
<1>a. PICK a : a = Comma
  OBVIOUS
<1>b. PICK y : y = l \o a
  OBVIOUS
<1>c. PICK z : z = y \o x
  OBVIOUS
<1>5. z = l \o Comma \o x
  BY <1>a, <1>b, <1>c, Zenon
<1>6. z \in Text /\ Len(z) = n
  <2>1. a \in Text /\ Len(a) = 1
    <3>1. "," \in Classified
      BY DEF Classified, Marks
    <3> QED BY <1>a, <3>1, OneToken DEF Comma
  <2>2. y \in Text /\ Len(y) = k + 1
    <3>1. y \in Text /\ Len(y) = Len(l) + Len(a)
      BY <1>1, <1>b, <2>1, TextJoin, Zenon
    <3> QED BY <1>1, <2>1, <3>1
  <2>3. z \in Text /\ Len(z) = k + 1 + m
    BY <1>2, <1>c, <2>2, TextJoin
  <2> QED BY <1>3, <2>3
<1>7. z \in Listed(Phrases[k][list], Phrases[m][one])
  <2>1. l \o Comma \o x \in Listed(Phrases[k][list], Phrases[m][one])
    BY <1>1, <1>2, ListedHas
  <2> QED BY <1>5, <2>1, Zenon
<1>8. z \in Longer(n, list, one)
  <2>1. z \in Listed(Phrases[k][list], Phrases[n - k - 1][one])
    BY <1>4, <1>7
  <2> QED BY <1>4, <2>1 DEF Longer
<1>9. Phrases[n][list] = Phrases[n][one] \cup Longer(n, list, one)
  <2>1. /\ Phrases[n].elements = Phrases[n].value \cup Longer(n, "elements", "value")
        /\ Phrases[n].members = Phrases[n].member \cup Longer(n, "members", "member")
    BY PhrasesAre
  <2>2. (list = "elements" /\ one = "value") \/ (list = "members" /\ one = "member")
    OBVIOUS
  <2> QED BY <2>1, <2>2
<1>10. z \in Phrase(list)
  <2>1. Len(z) <= Longest /\ z \in Phrases[Len(z)][list]
    BY <1>3, <1>6, <1>8, <1>9, LongestIs
  <2> QED BY <1>6, <2>1, InPhrase
<1> QED BY <1>5, <1>10, Zenon

\* What may come before a value in the bracket o, and before a member.
BeforeValue(o) ==
  {x \in Text : \A v \in Phrase("value") : Len(x) + Len(v) <= Longest => x \o v \in ListOf(o)}
BeforeMember ==
  {x \in Text : \A v \in Phrase("member") : Len(x) + Len(v) <= Longest => x \o v \in ListOf("{")}

\* A value comes after what may come before one.
LEMMA ValueComes ==
  ASSUME NEW o, NEW x \in BeforeValue(o), NEW v \in Phrase("value"), Len(x) + Len(v) <= Longest
  PROVE  x \o v \in ListOf(o)
BY DEF BeforeValue

\* So does a member.
LEMMA MemberComes ==
  ASSUME NEW x \in BeforeMember, NEW v \in Phrase("member"), Len(x) + Len(v) <= Longest
  PROVE  x \o v \in ListOf("{")
BY DEF BeforeMember

\* Nothing comes before the first element or member.
LEMMA NothingBefore == <<>> \in BeforeValue("[") /\ <<>> \in BeforeMember
<1>1. PICK e : e = <<>>
  OBVIOUS
<1>2. e \in Text
  BY <1>1, EmptySeq DEF Text
<1>3. ASSUME NEW v \in Text PROVE e \o v = v
  BY <1>1, ConcatEmptySeq DEF Text
<1>4. ListOf("[") = Phrase("elements") /\ ListOf("{") = Phrase("members")
  BY DEF ListOf
<1>5. ASSUME NEW v \in Phrase("value") PROVE e \o v \in ListOf("[")
  <2>1. v \in Text /\ v \in Phrase("elements")
    BY PhraseSize, OnePhrase
  <2>2. e \o v = v
    BY <1>3, <2>1
  <2> QED BY <1>4, <2>1, <2>2
<1>6. ASSUME NEW v \in Phrase("member") PROVE e \o v \in ListOf("{")
  <2>1. v \in Text /\ v \in Phrase("members")
    BY PhraseSize, OnePhrase
  <2>2. e \o v = v
    BY <1>3, <2>1
  <2> QED BY <1>4, <2>1, <2>2
<1>7. e \in BeforeValue("[")
  BY <1>2, <1>5 DEF BeforeValue
<1>8. e \in BeforeMember
  BY <1>2, <1>6 DEF BeforeMember
<1> QED BY <1>1, <1>7, <1>8, Zenon

\* One token more on either side of a join.
LEMMA AppendJoins ==
  ASSUME NEW x \in Text, NEW c \in Classified
  PROVE  /\ Append(x, c) = x \o <<c>> /\ Append(x, c) \in Text
         /\ Len(x) \in Nat /\ Len(Append(x, c)) = Len(x) + 1
<1>1. Append(x, c) = x \o <<c>>
  BY AppendIsConcat DEF Text
<1>2. Append(x, c) \in Text /\ Len(Append(x, c)) = Len(x) + 1
  BY AppendProperties DEF Text
<1> QED BY <1>1, <1>2, LenProperties DEF Text

\* A scalar ends a list.
LEMMA ScalarComes ==
  ASSUME NEW o, NEW x \in BeforeValue(o), NEW c \in Scalars, Len(x) + 1 <= Longest
  PROVE  Append(x, c) \in ListOf(o)
<1>1. x \in Text /\ c \in Classified
  BY DEF BeforeValue, Classified
<1>2. Len(x) \in Nat /\ Longest \in Nat
  BY <1>1, LongestIs, LenProperties DEF Text
<1>3. PICK v : v = <<c>>
  OBVIOUS
<1>4. v \in Phrase("value") /\ Len(v) = 1
  BY <1>1, <1>2, <1>3, ScalarPhrase, OneToken
<1>5. x \o v \in ListOf(o)
  BY <1>4, ValueComes
<1>6. Append(x, c) = x \o <<c>>
  BY <1>1, AppendJoins
<1> QED BY <1>3, <1>5, <1>6, Zenon

\* After a comma comes the next element.
LEMMA CommaInArray ==
  ASSUME NEW x \in ListOf("[")
  PROVE  Append(x, ",") \in BeforeValue("[")
<1>1. x \in Phrase("elements") /\ ListOf("[") = Phrase("elements")
  BY DEF ListOf
<1>2. x \in Text
  BY <1>1, PhraseSize
<1>3. PICK c \in Classified : c = ","
  BY DEF Classified, Marks
<1>4. PICK y : y = Append(x, c)
  OBVIOUS
<1>5. y \in Text /\ Len(y) = Len(x) + 1 /\ y = x \o <<c>> /\ Len(x) \in Nat
  BY <1>2, <1>4, AppendJoins
<1>6. ASSUME NEW v \in Phrase("value"), Len(y) + Len(v) <= Longest PROVE y \o v \in ListOf("[")
  <2>1. Len(x) + 1 + Len(v) <= Longest
    BY <1>5, <1>6
  <2>2. x \o Comma \o v \in Phrase("elements")
    <3>1. PICK list, one : list = "elements" /\ one = "value"
      OBVIOUS
    <3>2. (list = "elements" /\ one = "value") \/ (list = "members" /\ one = "member")
      BY <3>1
    <3>3. x \in Phrase(list) /\ v \in Phrase(one)
      BY <1>1, <1>6, <3>1, Zenon
    <3>4. x \o Comma \o v \in Phrase(list)
      BY <2>1, <3>2, <3>3, LongerPhrase
    <3> QED BY <3>1, <3>4, Zenon
  <2> QED BY <1>1, <1>3, <1>5, <2>2, Zenon DEF Comma
<1>7. y \in BeforeValue("[")
  BY <1>5, <1>6 DEF BeforeValue
<1> QED BY <1>3, <1>4, <1>7, Zenon

\* After a comma comes the next member.
LEMMA CommaInObject ==
  ASSUME NEW x \in ListOf("{")
  PROVE  Append(x, ",") \in BeforeMember
<1>1. x \in Phrase("members") /\ ListOf("{") = Phrase("members")
  BY DEF ListOf
<1>2. x \in Text
  BY <1>1, PhraseSize
<1>3. PICK c \in Classified : c = ","
  BY DEF Classified, Marks
<1>4. PICK y : y = Append(x, c)
  OBVIOUS
<1>5. y \in Text /\ Len(y) = Len(x) + 1 /\ y = x \o <<c>> /\ Len(x) \in Nat
  BY <1>2, <1>4, AppendJoins
<1>6. ASSUME NEW v \in Phrase("member"), Len(y) + Len(v) <= Longest PROVE y \o v \in ListOf("{")
  <2>1. Len(x) + 1 + Len(v) <= Longest
    BY <1>5, <1>6
  <2>2. x \o Comma \o v \in Phrase("members")
    <3>1. PICK list, one : list = "members" /\ one = "member"
      OBVIOUS
    <3>2. (list = "elements" /\ one = "value") \/ (list = "members" /\ one = "member")
      BY <3>1
    <3>3. x \in Phrase(list) /\ v \in Phrase(one)
      BY <1>1, <1>6, <3>1, Zenon
    <3>4. x \o Comma \o v \in Phrase(list)
      BY <2>1, <3>2, <3>3, LongerPhrase
    <3> QED BY <3>1, <3>4, Zenon
  <2> QED BY <1>1, <1>3, <1>5, <2>2, Zenon DEF Comma
<1>7. y \in BeforeMember
  BY <1>5, <1>6 DEF BeforeMember
<1> QED BY <1>3, <1>4, <1>7, Zenon

\* After a name and a colon comes the value.
LEMMA NameInObject ==
  ASSUME NEW x \in BeforeMember, NEW name \in Strings
  PROVE  Append(Append(x, name), ":") \in BeforeValue("{")
<1>1. x \in Text /\ name \in Classified
  BY DEF BeforeMember, Strings, Classified, Scalars
<1>2. PICK c \in Classified : c = ":"
  BY DEF Classified, Marks
<1>3. PICK y : y = Append(x, name)
  OBVIOUS
<1>4. PICK z : z = Append(y, c)
  OBVIOUS
<1>5. y \in Text /\ Len(y) = Len(x) + 1 /\ Len(x) \in Nat
  BY <1>1, <1>3, AppendJoins
<1>6. z \in Text /\ Len(z) = Len(x) + 2
  <2>1. z \in Text /\ Len(z) = Len(y) + 1
    BY <1>4, <1>5, AppendJoins
  <2> QED BY <1>5, <2>1
<1>7. PICK l : l = Label(name)
  OBVIOUS
<1>8. l = Append(<<name>>, c) /\ l \in Text /\ Len(l) = 2
  <2>1. l = <<name, c>>
    BY <1>2, <1>7 DEF Label
  <2> QED BY <1>1, <1>2, <2>1 DEF Text
<1>9. z = x \o l
  <2>1. PICK a, b : a = <<name>> /\ b = <<c>>
    OBVIOUS
  <2>2. a \in Text /\ b \in Text
    BY <1>1, <2>1, OneToken
  <2>3. y = x \o a
    <3>1. y = x \o <<name>>
      BY <1>1, <1>3, AppendJoins
    <3> QED BY <2>1, <3>1, Zenon
  <2>4. z = y \o b
    <3>1. z = y \o <<c>>
      BY <1>4, <1>5, AppendJoins
    <3> QED BY <2>1, <3>1, Zenon
  <2>5. l = a \o b
    <3>1. Append(a, c) = a \o <<c>>
      BY <2>2, AppendJoins
    <3> QED BY <1>8, <2>1, <3>1, Zenon
  <2>6. (x \o a) \o b = x \o (a \o b)
    BY <1>1, <2>2, ConcatAssociative DEF Text
  <2> QED BY <2>3, <2>4, <2>5, <2>6, Zenon
<1>10. ASSUME NEW v \in Phrase("value"), Len(z) + Len(v) <= Longest PROVE z \o v \in ListOf("{")
  <2>1. v \in Text /\ Len(v) \in Nat /\ Longest \in Nat
    <3>1. v \in Text
      BY PhraseSize
    <3> QED BY <3>1, LongestIs, LenProperties DEF Text
  <2>2. PICK m : m = l \o v
    OBVIOUS
  <2>3. m \in Phrase("member")
    <3>1. Len(v) + 2 <= Longest
      BY <1>5, <1>6, <1>10, <2>1
    <3>2. Label(name) \o v \in Phrase("member")
      BY <3>1, MemberPhrase
    <3> QED BY <1>7, <2>2, <3>2, Zenon
  <2>4. Len(x) + Len(m) <= Longest
    <3>1. Len(m) = Len(l) + Len(v)
      BY <1>8, <2>1, <2>2, TextJoin, Zenon
    <3> QED BY <1>5, <1>6, <1>8, <1>10, <2>1, <3>1
  <2>5. x \o m \in ListOf("{")
    BY <2>3, <2>4, MemberComes
  <2>6. (x \o l) \o v = x \o (l \o v)
    BY <1>1, <1>8, <2>1, ConcatAssociative DEF Text
  <2> QED BY <1>9, <2>2, <2>5, <2>6, Zenon
<1>11. z \in BeforeValue("{")
  BY <1>6, <1>10 DEF BeforeValue
<1> QED BY <1>2, <1>3, <1>4, <1>11, Zenon

---------------------------------------------------------------------------
(* The open brackets, and what has been read in each of them *)

Part(w, a, b) == SubSeq(w, a, b)
Within(w, a, b) == a \in Nat /\ b \in Nat /\ 1 <= a /\ a <= b + 1 /\ b <= Len(w)
IsPart(x, w, a, b) ==
  x \in Text /\ Len(x) = b - a + 1 /\ \A i \in 1 .. b - a + 1 : x[i] = w[a + i - 1]

\* A part of a text.
LEMMA PartIs ==
  ASSUME NEW w \in Text, NEW a, NEW b, Within(w, a, b)
  PROVE  IsPart(Part(w, a, b), w, a, b)
<1>0. /\ a \in Nat /\ b \in Nat /\ 1 <= a /\ a <= b + 1 /\ b <= Len(w) /\ Len(w) \in Nat
      /\ a \in Int /\ b \in Int
  BY LenProperties DEF Within, Text
<1>1. \A i \in a .. b : w[i] \in Classified
  <2>1. ASSUME NEW i \in a .. b PROVE w[i] \in Classified
    <3>1. i \in 1 .. Len(w)
      BY <1>0
    <3> QED BY <3>1, ElementOfSeq DEF Text
  <2> QED BY <2>1
<1>2. /\ SubSeq(w, a, b) \in Seq(Classified)
      /\ Len(SubSeq(w, a, b)) = IF a <= b THEN b - a + 1 ELSE 0
      /\ \A i \in 1 .. b - a + 1 : SubSeq(w, a, b)[i] = w[a + i - 1]
  BY <1>0, <1>1, SubSeqProperties
<1>3. (IF a <= b THEN b - a + 1 ELSE 0) = b - a + 1
  BY <1>0
<1> QED BY <1>2, <1>3, Zenon DEF Text, Part, IsPart

\* It does not change when the text grows.
LEMMA PartStays ==
  ASSUME NEW w \in Text, NEW c \in Classified, NEW a, NEW b, Within(w, a, b)
  PROVE  Part(Append(w, c), a, b) = Part(w, a, b)
<1>0. PICK n \in Nat : n = Len(w)
  BY LenProperties DEF Text
<1>z. PICK z : z = Append(w, c)
  OBVIOUS
<1>1. z \in Text /\ Len(z) = n + 1 /\ \A i \in 1 .. n : z[i] = w[i]
  BY <1>0, <1>z, AppendProperties DEF Text
<1>2. Within(z, a, b) /\ a \in Nat /\ b \in Nat /\ 1 <= a /\ a <= b + 1 /\ b <= n
  BY <1>0, <1>1 DEF Within
<1>3. PICK x : x = Part(w, a, b)
  OBVIOUS
<1>4. PICK y : y = Part(z, a, b)
  OBVIOUS
<1>5. IsPart(x, w, a, b)
  BY <1>3, PartIs, Zenon
<1>6. IsPart(y, z, a, b)
  BY <1>1, <1>2, <1>4, PartIs, Zenon
<1>7. ASSUME NEW i \in 1 .. b - a + 1 PROVE x[i] = y[i]
  <2>1. a + i - 1 \in 1 .. n
    BY <1>2
  <2> QED BY <1>1, <1>5, <1>6, <2>1 DEF IsPart
<1>8. x \in Text /\ y \in Text /\ Len(x) = b - a + 1 /\ Len(y) = b - a + 1
  BY <1>5, <1>6 DEF IsPart
<1>9. x = y
  BY <1>7, <1>8, SeqEqual DEF Text
<1> QED BY <1>z, <1>3, <1>4, <1>9, Zenon

\* The part up to the end grows with it.
LEMMA RestGrows ==
  ASSUME NEW w \in Text, NEW c \in Classified, NEW z, z = Append(w, c), NEW a, Within(w, a, Len(w))
  PROVE  Part(z, a, Len(z)) = Append(Part(w, a, Len(w)), c)
<1>0. PICK n \in Nat : n = Len(w)
  BY LenProperties DEF Text
<1>1. PICK m \in Nat : m = n + 1
  OBVIOUS
<1>2. z \in Text /\ Len(z) = m /\ z[m] = c /\ \A i \in 1 .. n : z[i] = w[i]
  BY <1>0, <1>1, AppendProperties DEF Text
<1>3. a \in Nat /\ 1 <= a /\ a <= n + 1 /\ Within(w, a, n) /\ Within(z, a, m)
  BY <1>0, <1>1, <1>2 DEF Within
<1>4. PICK x : x = Part(w, a, n)
  OBVIOUS
<1>5. PICK y : y = Part(z, a, m)
  OBVIOUS
<1>6. PICK l \in Nat : l = n - a + 1 /\ m - a + 1 = l + 1
  <2>1. n - a + 1 \in Nat
    BY <1>3
  <2> QED BY <1>1, <1>3, <2>1
<1>7. x \in Text /\ Len(x) = l /\ \A i \in 1 .. l : x[i] = w[a + i - 1]
  <2>1. IsPart(x, w, a, n)
    BY <1>3, <1>4, PartIs, Zenon
  <2> QED BY <1>6, <2>1, Zenon DEF IsPart
<1>8. y \in Text /\ Len(y) = l + 1 /\ \A i \in 1 .. l + 1 : y[i] = z[a + i - 1]
  <2>1. IsPart(y, z, a, m)
    BY <1>2, <1>3, <1>5, PartIs, Zenon
  <2> QED BY <1>6, <2>1, Zenon DEF IsPart
<1>9. PICK v : v = Append(x, c)
  OBVIOUS
<1>10. v \in Text /\ Len(v) = l + 1 /\ v[l + 1] = c /\ \A i \in 1 .. l : v[i] = x[i]
  BY <1>7, <1>9, AppendProperties DEF Text
<1>11. ASSUME NEW i \in 1 .. l + 1 PROVE y[i] = v[i]
  <2>1. CASE i \in 1 .. l
    <3>1. a + i - 1 \in 1 .. n
      BY <1>3, <1>6, <2>1
    <3> QED BY <1>2, <1>7, <1>8, <1>10, <2>1, <3>1
  <2>2. CASE i = l + 1
    <3>1. a + i - 1 = m
      BY <1>1, <1>3, <1>6, <2>2
    <3> QED BY <1>2, <1>8, <1>10, <2>2, <3>1
  <2>3. i \in 1 .. l \/ i = l + 1
    OBVIOUS
  <2> QED BY <2>1, <2>2, <2>3, Zenon
<1>12. y = v
  BY <1>8, <1>10, <1>11, SeqEqual DEF Text
<1> QED BY <1>0, <1>2, <1>4, <1>5, <1>9, <1>12, Zenon

\* Between two places of a text.
LEMMA WithinBetween ==
  ASSUME NEW w, NEW n \in Nat, n = Len(w), NEW i \in 1 .. n, NEW j \in 1 .. n, i < j
  PROVE  Within(w, i + 1, j - 1)
BY DEF Within

\* Three texts joined.
LEMMA ThreeTexts ==
  ASSUME NEW x \in Text, NEW y \in Text, NEW t \in Text
  PROVE  (x \o y) \o t = x \o (y \o t)
BY ConcatAssociative DEF Text

\* f is where the brackets of the stack s were opened: before each but the first
\* stands what may come before a value in the one around it.
FrameAt(f, s, w, k) ==
  f[k] < f[k + 1] /\ Part(w, f[k] + 1, f[k + 1] - 1) \in BeforeValue(s[k])
Frames(f, s, w) ==
  /\ \A k \in 1 .. Len(s) : f[k] \in 1 .. Len(w) /\ w[f[k]] = s[k]
  /\ s # <<>> => f[1] = 1
  /\ \A k \in 1 .. Len(s) - 1 : FrameAt(f, s, w, k)
Rest(f, s, w) == Part(w, f[Len(s)] + 1, Len(w))

Stayed(f, s, w, z, c) ==
  /\ Frames(f, s, z)
  /\ Rest(f, s, z) = Append(Rest(f, s, w), c) /\ Rest(f, s, w) \in Text
  /\ Len(Rest(f, s, w)) < Len(w) /\ Len(w) \in Nat

\* They stay where they are.
LEMMA FramesStay ==
  ASSUME NEW f, NEW s \in Stacks, s # <<>>, NEW w \in Text, Frames(f, s, w), NEW c \in Classified
  PROVE  Stayed(f, s, w, Append(w, c), c)
<1>z. PICK z : z = Append(w, c)
  OBVIOUS
<1>1. PICK n \in Nat, m \in Nat : n = Len(w) /\ m = Len(s) /\ m >= 1
  BY EmptySeq, LenProperties DEF Text, Stacks
<1>2. z \in Text /\ Len(z) = n + 1 /\ \A i \in 1 .. n : z[i] = w[i]
  BY <1>z, <1>1, AppendProperties DEF Text
<1>3. \A k \in 1 .. m : f[k] \in 1 .. n /\ w[f[k]] = s[k]
  BY <1>1 DEF Frames
<1>4. ASSUME NEW k \in 1 .. m - 1 PROVE FrameAt(f, s, z, k)
  <2>1. FrameAt(f, s, w, k)
    BY <1>1 DEF Frames
  <2>2. k \in 1 .. m /\ k + 1 \in 1 .. m
    BY <1>1
  <2>3. PICK i \in 1 .. n, j \in 1 .. n : i = f[k] /\ j = f[k + 1] /\ i < j
    BY <1>3, <2>1, <2>2 DEF FrameAt
  <2>4. PICK a, b : a = i + 1 /\ b = j - 1
    OBVIOUS
  <2>a. Within(w, a, b)
    BY <1>1, <2>3, <2>4, WithinBetween
  <2>5. Part(z, a, b) = Part(w, a, b)
    <3>1. Part(Append(w, c), a, b) = Part(w, a, b)
      BY <2>a, PartStays
    <3> QED BY <1>z, <3>1
  <2> QED BY <2>1, <2>3, <2>4, <2>5, Zenon DEF FrameAt
<1>5. ASSUME NEW k \in 1 .. m PROVE f[k] \in 1 .. Len(z) /\ z[f[k]] = s[k]
  <2>1. f[k] \in 1 .. n /\ w[f[k]] = s[k]
    BY <1>3
  <2> QED BY <1>2, <2>1
<1>6. Frames(f, s, z)
  <2>1. f[1] = 1
    BY DEF Frames
  <2> QED BY <1>1, <1>4, <1>5, <2>1 DEF Frames
<1>7. PICK a \in Nat : a = f[m] + 1 /\ 1 <= a /\ a <= n + 1 /\ a > 1
  <2>1. f[m] \in 1 .. n
    BY <1>1, <1>3
  <2> QED BY <2>1
<1>8. Rest(f, s, w) = Part(w, a, Len(w)) /\ Rest(f, s, z) = Part(z, a, Len(z))
  BY <1>1, <1>7, Zenon DEF Rest
<1>9. Part(z, a, Len(z)) = Append(Part(w, a, Len(w)), c)
  <2>1. Within(w, a, Len(w))
    BY <1>1, <1>7 DEF Within
  <2> QED BY <1>z, <2>1, RestGrows, Zenon
<1>10. Part(w, a, Len(w)) \in Text /\ Len(Part(w, a, Len(w))) = n - a + 1
  <2>1. Within(w, a, Len(w))
    BY <1>1, <1>7 DEF Within
  <2>2. IsPart(Part(w, a, Len(w)), w, a, Len(w))
    BY <2>1, PartIs, Zenon
  <2> QED BY <1>1, <2>2, Zenon DEF IsPart
<1>11. Len(Part(w, a, Len(w))) < n
  BY <1>7, <1>10
<1> QED BY <1>z, <1>1, <1>6, <1>8, <1>9, <1>10, <1>11 DEF Stayed

\* One more is opened, where a value may come.
LEMMA FramesPush ==
  ASSUME NEW f, NEW s \in Stacks, NEW w \in Text, Frames(f, s, w),
         NEW o \in Openers, NEW z, z = Append(w, o),
         s = <<>> => w = <<>>,
         s # <<>> => Rest(f, s, w) \in BeforeValue(Last(s))
  PROVE  \E g : Frames(g, Append(s, o), z) /\ Rest(g, Append(s, o), z) = <<>>
<1>1. PICK n \in Nat, m \in Nat : n = Len(w) /\ m = Len(s)
  BY LenProperties DEF Text, Stacks
<1>2. /\ z \in Text /\ Len(z) = n + 1 /\ z[n + 1] = o /\ \A i \in 1 .. n : z[i] = w[i]
      /\ o \in Classified
  <2>1. o \in Classified
    BY DEF Openers, Classified, Marks
  <2> QED BY <1>1, <2>1, AppendProperties DEF Text
<1>3. PICK t : t = Append(s, o)
  OBVIOUS
<1>4. Len(t) = m + 1 /\ t # <<>> /\ t[m + 1] = o /\ \A k \in 1 .. m : t[k] = s[k]
  BY <1>1, <1>3, AppendProperties DEF Stacks
<1>5. PICK g : g = [k \in 1 .. m + 1 |-> IF k = m + 1 THEN n + 1 ELSE f[k]]
  OBVIOUS
<1>6. g[m + 1] = n + 1 /\ \A k \in 1 .. m : g[k] = f[k]
  BY <1>5
<1>7. \A k \in 1 .. m : f[k] \in 1 .. n /\ w[f[k]] = s[k]
  BY <1>1 DEF Frames
<1>8. ASSUME NEW k \in 1 .. m + 1 PROVE g[k] \in 1 .. n + 1 /\ z[g[k]] = t[k]
  <2>1. CASE k = m + 1
    BY <1>2, <1>4, <1>6, <2>1
  <2>2. CASE k \in 1 .. m
    <3>1. f[k] \in 1 .. n /\ w[f[k]] = s[k] /\ g[k] = f[k] /\ t[k] = s[k]
      BY <1>4, <1>6, <1>7, <2>2
    <3> QED BY <1>2, <3>1
  <2>3. k = m + 1 \/ k \in 1 .. m
    OBVIOUS
  <2> QED BY <2>1, <2>2, <2>3, Zenon
<1>9. g[1] = 1
  <2>1. CASE m = 0
    <3>1. s = <<>>
      BY <1>1, <2>1, EmptySeq DEF Stacks
    <3>2. n = 0
      BY <1>1, <3>1
    <3>3. m + 1 = 1 /\ n + 1 = 1
      BY <2>1, <3>2
    <3> QED BY <1>6, <3>3
  <2>2. CASE m # 0
    <3>1. s # <<>> /\ 1 \in 1 .. m
      BY <1>1, <2>2
    <3>2. f[1] = 1
      BY <3>1 DEF Frames
    <3> QED BY <1>6, <3>1, <3>2
  <2> QED BY <2>1, <2>2
<1>10. ASSUME NEW k \in 1 .. m PROVE FrameAt(g, t, z, k)
  <2>1. f[k] \in 1 .. n /\ g[k] = f[k] /\ t[k] = s[k]
    BY <1>4, <1>6, <1>7
  <2>2. CASE k = m
    <3>1. PICK i, j : i = f[k] /\ j = g[k + 1] /\ j = n + 1 /\ i \in 1 .. n
      BY <1>6, <2>1, <2>2
    <3>2. s # <<>>
      BY <1>1
    <3>3. Part(w, i + 1, n) \in BeforeValue(s[k])
      <4>1. Rest(f, s, w) = Part(w, i + 1, n)
        BY <1>1, <2>2, <3>1, Zenon DEF Rest
      <4>2. Last(s) = s[k]
        BY <1>1, <2>2, Zenon DEF Last
      <4>3. Rest(f, s, w) \in BeforeValue(Last(s))
        BY <3>2
      <4> QED BY <4>1, <4>2, <4>3, Zenon
    <3>a. PICK a : a = i + 1
      OBVIOUS
    <3>4. Within(w, a, n) /\ j - 1 = n /\ i < j
      BY <1>1, <3>1, <3>a DEF Within
    <3>5. Part(z, a, n) = Part(w, a, n)
      <4>1. Part(Append(w, o), a, n) = Part(w, a, n)
        BY <1>2, <3>4, PartStays
      <4> QED BY <4>1
    <3> QED BY <2>1, <3>1, <3>3, <3>4, <3>5, <3>a, Zenon DEF FrameAt
  <2>3. CASE k \in 1 .. m - 1
    <3>1. FrameAt(f, s, w, k)
      BY <1>1, <2>3 DEF Frames
    <3>2. k + 1 \in 1 .. m
      BY <2>3
    <3>3. PICK i \in 1 .. n, j \in 1 .. n : i = f[k] /\ j = f[k + 1] /\ i < j /\ j = g[k + 1]
      BY <1>6, <1>7, <2>1, <3>1, <3>2 DEF FrameAt
    <3>a. PICK a, b : a = i + 1 /\ b = j - 1
      OBVIOUS
    <3>4. Within(w, a, b)
      BY <1>1, <3>3, <3>a, WithinBetween
    <3>5. Part(z, a, b) = Part(w, a, b)
      <4>1. Part(Append(w, o), a, b) = Part(w, a, b)
        BY <1>2, <3>4, PartStays
      <4> QED BY <4>1
    <3> QED BY <2>1, <3>1, <3>3, <3>5, <3>a, Zenon DEF FrameAt
  <2>4. k = m \/ k \in 1 .. m - 1
    OBVIOUS
  <2> QED BY <2>2, <2>3, <2>4, Zenon
<1>11. Frames(g, t, z)
  <2>1. Len(t) - 1 = m
    BY <1>4
  <2> QED BY <1>2, <1>4, <1>8, <1>9, <1>10, <2>1 DEF Frames
<1>12. Rest(g, t, z) = <<>>
  <2>1. Rest(g, t, z) = Part(z, n + 2, n + 1)
    <3>1. g[Len(t)] + 1 = n + 2
      BY <1>4, <1>6
    <3> QED BY <1>2, <3>1, Zenon DEF Rest
  <2>2. n + 2 \in Int /\ n + 1 \in Int /\ n + 1 < n + 2
    OBVIOUS
  <2> QED BY <2>1, <2>2, SubSeqEmpty DEF Part
<1> QED BY <1>3, <1>11, <1>12

\* The last is closed: a value, in the bracket around it if there is one.
LEMMA FramesPop ==
  ASSUME NEW f, NEW s \in Stacks, s # <<>>, NEW w \in Text, Frames(f, s, w),
         Rest(f, s, w) = <<>> \/ Rest(f, s, w) \in ListOf(Last(s)),
         NEW z, z = Append(w, CloserOf(Last(s))), Len(z) <= Longest
  PROVE  /\ Len(s) = 1 => z \in Phrase("value")
         /\ Len(s) # 1 => Frames(f, Front(s), z) /\ Rest(f, Front(s), z) \in ListOf(Last(Front(s)))
<1>1. PICK n \in Nat, m \in Nat : n = Len(w) /\ m = Len(s) /\ m >= 1
  BY EmptySeq, LenProperties DEF Text, Stacks
<1>2. PICK o \in Openers, c \in Classified : o = Last(s) /\ c = CloserOf(o) /\ o \in Classified
  <2>1. Last(s) \in Openers
    BY TopAndRest
  <2>2. \A o \in Openers : CloserOf(o) \in Classified /\ o \in Classified
    BY DEF CloserOf, Openers, Classified, Marks
  <2> QED BY <2>1, <2>2
<1>3. z = Append(w, c) /\ z \in Text /\ Len(z) = n + 1 /\ \A i \in 1 .. n : z[i] = w[i]
  BY <1>1, <1>2, AppendProperties DEF Text
<1>4. PICK x : x = Rest(f, s, w)
  OBVIOUS
<1>5. Frames(f, s, z) /\ Rest(f, s, z) = Append(x, c) /\ x \in Text /\ Len(x) < n
  <2>1. /\ Frames(f, s, z) /\ Rest(f, s, z) = Append(Rest(f, s, w), c) /\ Rest(f, s, w) \in Text
        /\ Len(Rest(f, s, w)) < Len(w)
    <3>1. Stayed(f, s, w, z, c)
      BY <1>3, FramesStay
    <3> QED BY <3>1 DEF Stayed
  <2> QED BY <1>1, <1>4, <2>1, Zenon
<1>6. PICK j \in 1 .. n : j = f[m] /\ w[j] = o
  <2>1. f[m] \in 1 .. n /\ w[f[m]] = s[m]
    BY <1>1 DEF Frames
  <2>2. Last(s) = s[m]
    BY <1>1, Zenon DEF Last
  <2> QED BY <1>2, <2>1, <2>2
<1>7. PICK v : v = Part(z, j, n + 1)
  OBVIOUS
<1>8. v \in Phrase("value")
  <2>1. v = <<z[j]>> \o Part(z, j + 1, n + 1)
    <3>1. j \in 1 .. Len(z) /\ n + 1 \in j .. Len(z)
      BY <1>3
    <3> QED BY <1>3, <1>7, <3>1, SubSeqRecursiveFirst DEF Text, Part
  <2>2. z[j] = o
    BY <1>3, <1>6
  <2>3. Part(z, j + 1, n + 1) = Append(x, c)
    BY <1>1, <1>3, <1>5, <1>6, Zenon DEF Rest
  <2>4. Append(x, c) = x \o <<c>>
    BY <1>5, AppendJoins
  <2>5. PICK a, b : a = <<o>> /\ b = <<c>>
    OBVIOUS
  <2>6. a \in Text /\ b \in Text
    BY <1>2, <2>5, OneToken
  <2>7. (a \o x) \o b = a \o (x \o b)
    BY <1>5, <2>6, ThreeTexts
  <2>8. v = <<o>> \o x \o <<CloserOf(o)>>
    BY <1>2, <2>1, <2>2, <2>3, <2>4, <2>5, <2>7, Zenon
  <2>9. Len(x) + 2 <= Longest
    <3>1. Len(x) \in Nat /\ Longest \in Nat
      BY <1>5, LongestIs, LenProperties DEF Text
    <3> QED BY <1>3, <1>5, <3>1
  <2>10. x = <<>> \/ x \in ListOf(o)
    BY <1>2, <1>4
  <2>11. <<o>> \o x \o <<CloserOf(o)>> \in Phrase("value")
    BY <1>5, <2>9, <2>10, BracketPhrase
  <2> QED BY <2>8, <2>11
<1>9. ASSUME m = 1 PROVE z \in Phrase("value")
  <2>1. j = 1
    <3>1. f[1] = 1
      BY DEF Frames
    <3> QED BY <1>6, <1>9, <3>1
  <2>2. Part(z, 1, Len(z)) = z
    BY <1>3, SubSeqFull DEF Text, Part
  <2>3. v = z
    BY <1>3, <1>7, <2>1, <2>2
  <2> QED BY <1>8, <2>3
<1>10. ASSUME m # 1 PROVE Frames(f, Front(s), z) /\ Rest(f, Front(s), z) \in ListOf(Last(Front(s)))
  <2>0. PICK t : t = Front(s)
    OBVIOUS
  <2>1. PICK k \in Nat : k = m - 1 /\ k >= 1 /\ m = k + 1
    <3>1. m - 1 \in Nat /\ m - 1 >= 1 /\ m = (m - 1) + 1
      BY <1>1, <1>10
    <3> QED BY <3>1
  <2>2. t \in Stacks /\ Len(t) = k /\ s = Append(t, Last(s)) /\ Last(s) \in Openers
    BY <1>1, <2>0, <2>1, TopAndRest
  <2>3. \A i \in 1 .. k : t[i] = s[i]
    BY <2>2, AppendProperties DEF Stacks
  <2>4. t # <<>>
    BY <2>1, <2>2
  <2>5. /\ \A i \in 1 .. m : f[i] \in 1 .. n + 1 /\ z[f[i]] = s[i]
        /\ f[1] = 1 /\ \A i \in 1 .. m - 1 : FrameAt(f, s, z, i)
    BY <1>1, <1>3, <1>5 DEF Frames
  <2>6. ASSUME NEW i \in 1 .. k - 1 PROVE FrameAt(f, t, z, i)
    <3>1. FrameAt(f, s, z, i)
      BY <2>1, <2>5
    <3>2. t[i] = s[i]
      BY <2>3
    <3> QED BY <3>1, <3>2, Zenon DEF FrameAt
  <2>7. ASSUME NEW i \in 1 .. k PROVE f[i] \in 1 .. n + 1 /\ z[f[i]] = t[i]
    <3>1. i \in 1 .. m
      BY <2>1
    <3> QED BY <2>3, <2>5, <3>1
  <2>8. Frames(f, t, z)
    BY <1>3, <2>2, <2>4, <2>5, <2>6, <2>7 DEF Frames
  <2>9. FrameAt(f, s, z, k)
    BY <2>1, <2>5
  <2>10. PICK i \in 1 .. n + 1 : i = f[k] /\ i < j /\ Part(z, i + 1, j - 1) \in BeforeValue(s[k])
    <3>1. k \in 1 .. m
      BY <2>1
    <3>2. f[k] \in 1 .. n + 1
      BY <2>5, <3>1
    <3>3. f[k + 1] = j
      BY <1>6, <2>1
    <3> QED BY <2>9, <3>2, <3>3 DEF FrameAt
  <2>11. PICK y : y = Part(z, i + 1, j - 1)
    OBVIOUS
  <2>12. Len(y) + Len(v) <= Longest
    <3>a. PICK a, b, d : a = i + 1 /\ b = j - 1 /\ d = n + 1
      OBVIOUS
    <3>c. PICK e \in Nat : e = j /\ e >= 1 /\ e <= n /\ i < e
      BY <2>10
    <3>d. Within(z, a, b)
      BY <1>3, <3>a, <3>c DEF Within
    <3>e. Within(z, j, d)
      BY <1>3, <3>a, <3>c DEF Within
    <3>1. Within(z, a, b) /\ Within(z, j, d)
      BY <3>d, <3>e
    <3>2. IsPart(y, z, a, b)
      BY <1>3, <2>11, <3>1, <3>a, PartIs, Zenon
    <3>3. IsPart(v, z, j, d)
      BY <1>3, <1>7, <3>1, <3>a, PartIs, Zenon
    <3>b. Len(y) = b - a + 1 /\ Len(v) = d - j + 1
      BY <3>2, <3>3 DEF IsPart
    <3>4. i \in Int /\ j \in Int /\ i >= 1
      BY <2>10
    <3>5. Len(y) + Len(v) = n + 1 - i /\ n + 1 - i <= n + 1
      BY <3>4, <3>a, <3>b
    <3>6. n + 1 <= Longest /\ Longest \in Nat
      BY <1>3, LongestIs
    <3> QED BY <3>5, <3>6
  <2>13. y \o v \in ListOf(s[k])
    BY <1>8, <2>10, <2>11, <2>12, ValueComes
  <2>14. y \o v = Part(z, i + 1, n + 1)
    <3>1. PICK a, b : a = i + 1 /\ b = j - 1
      OBVIOUS
    <3>2. a \in 1 .. Len(z) + 1 /\ b \in a - 1 .. Len(z) /\ n + 1 \in b .. Len(z) /\ b + 1 = j
      <4>1. a \in 1 .. n + 1 + 1 /\ b \in a - 1 .. n + 1 /\ n + 1 \in b .. n + 1 /\ b + 1 = j
        BY <2>10, <3>1
      <4> QED BY <1>3, <4>1, Zenon
    <3>3. Part(z, a, b) \o Part(z, b + 1, n + 1) = Part(z, a, n + 1)
      BY <1>3, <3>2, ConcatAdjacentSubSeq DEF Text, Part
    <3> QED BY <1>7, <2>11, <3>1, <3>2, <3>3, Zenon
  <2>15. Rest(f, t, z) = Part(z, i + 1, n + 1)
    BY <1>3, <2>2, <2>10, Zenon DEF Rest
  <2>16. Last(t) = s[k]
    <3>1. Last(t) = t[k]
      BY <2>2, Zenon DEF Last
    <3> QED BY <2>1, <2>3, <3>1
  <2> QED BY <2>0, <2>8, <2>13, <2>14, <2>15, <2>16, Zenon
<1> QED BY <1>1, <1>9, <1>10

\* What has been read of the bracket o at the place p.
Here(p, o, x) ==
  /\ p = "members" => o = "{" /\ x = <<>>
  /\ p = "elements" => o = "[" /\ x = <<>>
  /\ p = "delimiter" => x \in ListOf(o)
  /\ p = "name" => o = "{" /\ x \in BeforeMember
  /\ p = "colon" => o = "{" /\ Append(x, ":") \in BeforeValue("{")
  /\ p = "analysis" => o = "{" /\ x \in BeforeValue("{")
  /\ p = "value" => x \in BeforeValue(o)

\* What has been read is a beginning that the grammar can go on with.
Parses(q, w) ==
  /\ q.place = "start" => w = <<>>
  /\ q.place \in Inside =>
       \E f : Frames(f, q.stack, w) /\ Here(q.place, Last(q.stack), Rest(f, q.stack, w))
  /\ q.place = "end" => w \in Phrase("value")

\* After a name comes the colon.
LEMMA HereName ==
  ASSUME NEW p \in {"members", "name"}, NEW o, NEW x, Here(p, o, x), NEW c \in Strings
  PROVE  Here("colon", o, Append(x, c))
<1>1. o = "{" /\ x \in BeforeMember
  BY NothingBefore DEF Here
<1>2. Append(Append(x, c), ":") \in BeforeValue("{")
  BY <1>1, NameInObject
<1> QED BY <1>1, <1>2 DEF Here

\* After the colon, the value.
LEMMA HereColon ==
  ASSUME NEW o, NEW x, Here("colon", o, x), NEW p \in {"analysis", "value"}
  PROVE  Here(p, o, Append(x, ":"))
<1>1. o = "{" /\ Append(x, ":") \in BeforeValue("{")
  BY DEF Here
<1> QED BY <1>1 DEF Here

\* After the value, a comma or the end.
LEMMA HereScalar ==
  ASSUME NEW p \in {"analysis", "value", "elements"}, NEW o, NEW x, Here(p, o, x), Len(x) + 1 <= Longest,
         NEW c \in Scalars
  PROVE  Here("delimiter", o, Append(x, c))
<1>1. x \in BeforeValue(o)
  BY NothingBefore DEF Here
<1>2. Append(x, c) \in ListOf(o)
  BY <1>1, ScalarComes
<1> QED BY <1>2 DEF Here

\* After a comma, the next of the list.
LEMMA HereComma ==
  ASSUME NEW o \in Openers, NEW x, Here("delimiter", o, x)
  PROVE  Here(NextOf(o), o, Append(x, ","))
<1>1. x \in ListOf(o)
  BY DEF Here
<1>2. CASE o = "{"
  <2>1. Append(x, ",") \in BeforeMember /\ NextOf(o) = "name"
    BY <1>1, <1>2, CommaInObject DEF NextOf
  <2> QED BY <1>2, <2>1 DEF Here
<1>3. CASE o = "["
  <2>1. Append(x, ",") \in BeforeValue(o) /\ NextOf(o) = "value"
    BY <1>1, <1>3, CommaInArray DEF NextOf
  <2> QED BY <2>1 DEF Here
<1> QED BY <1>2, <1>3 DEF Openers

\* In a bracket that was just opened nothing has been read.
LEMMA HereOpen == ASSUME NEW o \in Openers PROVE Here(FirstOf(o), o, <<>>)
<1>1. PICK e : e = <<>>
  OBVIOUS
<1>2. (o = "{" /\ FirstOf(o) = "members") \/ (o = "[" /\ FirstOf(o) = "elements")
  BY DEF FirstOf, Openers
<1>3. Here(FirstOf(o), o, e)
  BY <1>1, <1>2 DEF Here
<1> QED BY <1>1, <1>3, Zenon

\* Steps that neither open nor close a bracket.
LEMMA StepHere ==
  ASSUME NEW q, NEW c, NEW r, NEW x, Last(q.stack) \in Openers,
         Here(q.place, Last(q.stack), x), Len(x) + 1 <= Longest,
         NameStep(q, c, r) \/ ColonStep(q, c, r) \/ AnalysisStep(q, c, r) \/ ScalarStep(q, c, r)
           \/ CommaStep(q, c, r)
  PROVE  /\ r.stack = q.stack /\ q.place \in Inside /\ r.place \in Inside
         /\ Here(r.place, Last(q.stack), Append(x, c))
<1>1. PICK o \in Openers : o = Last(q.stack) /\ Here(q.place, o, x)
  OBVIOUS
<1>a. PICK s, b : s = q.stack /\ b = q.wanted
  OBVIOUS
<1>2. CASE NameStep(q, c, r)
  <2>1. q.place \in {"members", "name"} /\ c \in Strings /\ r.place = "colon" /\ r.stack = q.stack
    BY <1>2, AtParts DEF NameStep
  <2>2. Here("colon", o, Append(x, c))
    BY <1>1, <2>1, HereName
  <2> QED BY <1>1, <2>1, <2>2 DEF Inside
<1>3. CASE ColonStep(q, c, r)
  <2>1. PICK p : p = IF q.wanted THEN "analysis" ELSE "value"
    OBVIOUS
  <2>2. r = At(p, s, b) /\ c = ":" /\ q.place = "colon"
    BY <1>3, <1>a, <2>1, Zenon DEF ColonStep
  <2>a. r = At(p, s, b)
    BY <2>2
  <2>b. r.place = p
    BY <2>a, AtParts
  <2>c. r.stack = s
    BY <2>a, AtParts
  <2>3. r.place = p /\ r.stack = s
    BY <2>b, <2>c
  <2>4. p \in {"analysis", "value"}
    BY <2>1
  <2>5. Here(p, o, Append(x, c))
    BY <1>1, <2>2, <2>4, HereColon
  <2>6. q.place \in Inside /\ p \in Inside
    BY <2>2, <2>4 DEF Inside
  <2> QED BY <1>1, <1>a, <2>3, <2>5, <2>6, Zenon
<1>4. CASE AnalysisStep(q, c, r)
  <2>1. PICK w : w = FALSE
    OBVIOUS
  <2>2. r = At("delimiter", s, w) /\ c \in Strings /\ q.place = "analysis"
    BY <1>4, <1>a, <2>1, Zenon DEF AnalysisStep
  <2>3. r.place = "delimiter" /\ r.stack = s
    BY <2>2, AtParts
  <2>4. c \in Scalars /\ q.place \in {"analysis", "value", "elements"}
    BY <2>2 DEF Scalars, Strings
  <2>5. Here("delimiter", o, Append(x, c))
    BY <1>1, <2>4, HereScalar
  <2>6. q.place \in Inside /\ r.place \in Inside
    BY <2>2, <2>3 DEF Inside
  <2> QED BY <1>1, <1>a, <2>3, <2>5, <2>6, Zenon
<1>5. CASE ScalarStep(q, c, r)
  <2>2. r = At("delimiter", s, b) /\ c \in Scalars /\ q.place \in {"value", "elements"}
    BY <1>5, <1>a, Zenon DEF ScalarStep
  <2>3. r.place = "delimiter" /\ r.stack = s
    BY <2>2, AtParts
  <2>4. q.place \in {"analysis", "value", "elements"}
    BY <2>2
  <2>5. Here("delimiter", o, Append(x, c))
    BY <1>1, <2>2, <2>4, HereScalar
  <2>6. q.place \in Inside /\ r.place \in Inside
    BY <2>2, <2>3 DEF Inside
  <2> QED BY <1>1, <1>a, <2>3, <2>5, <2>6, Zenon
<1>6. CASE CommaStep(q, c, r)
  <2>1. PICK p : p = NextOf(o)
    OBVIOUS
  <2>2. r = At(p, s, b) /\ c = "," /\ q.place = "delimiter"
    BY <1>1, <1>6, <1>a, <2>1, Zenon DEF CommaStep
  <2>a. r = At(p, s, b)
    BY <2>2
  <2>b. r.place = p
    BY <2>a, AtParts
  <2>c. r.stack = s
    BY <2>a, AtParts
  <2>3. r.place = p /\ r.stack = s
    BY <2>b, <2>c
  <2>4. p \in Inside /\ q.place \in Inside
    BY <2>1, <2>2 DEF NextOf, Inside
  <2>5. Here(p, o, Append(x, c))
    BY <1>1, <2>1, <2>2, HereComma
  <2> QED BY <1>1, <1>a, <2>3, <2>4, <2>5, Zenon
<1> QED BY <1>2, <1>3, <1>4, <1>5, <1>6

\* Parses says no more about the places inside, at the start and at the end.
LEMMA ParsesInside ==
  ASSUME NEW q, NEW w, q.place \in Inside, NEW f, Frames(f, q.stack, w),
         Here(q.place, Last(q.stack), Rest(f, q.stack, w))
  PROVE  Parses(q, w)
<1>1. q.place # "start" /\ q.place # "end"
  BY DEF Inside
<1> QED BY <1>1, Zenon DEF Parses

\* A step of the decoder is one of the grammar.
LEMMA StepParses ==
  ASSUME NEW q, Located(q), NEW w \in Text, NEW c \in Classified, NEW r, Step(q, c, r),
         NEW z, z = Append(w, c), Len(z) <= Longest, Parses(q, w)
  PROVE  Parses(r, z)
<1>0. /\ q.stack \in Stacks
      /\ q.place \in Inside => q.stack # <<>>
      /\ q.place \in {"start", "end", "ok"} => q.stack = <<>>
  BY DEF Located
<1>a. PICK s : s = q.stack
  OBVIOUS
<1>b. s \in Stacks
  BY <1>0, <1>a, Zenon
<1>1. s = q.stack /\ s \in Stacks
  BY <1>a, <1>b
<1>2. ASSUME q.place \in Inside
      PROVE  \E f : /\ Frames(f, s, w) /\ Here(q.place, Last(s), Rest(f, s, w))
                    /\ Stayed(f, s, w, z, c) /\ Len(Rest(f, s, w)) + 1 <= Longest
                    /\ Last(s) \in Openers /\ s # <<>>
  <2>1. s # <<>>
    BY <1>0, <1>1, <1>2
  <2>2. Last(s) \in Openers
    BY <1>1, <2>1, TopAndRest
  <2>3. PICK f : Frames(f, s, w) /\ Here(q.place, Last(s), Rest(f, s, w))
    BY <1>1, <1>2, Zenon DEF Parses
  <2>4. Stayed(f, s, w, Append(w, c), c)
    BY <1>1, <2>1, <2>3, FramesStay
  <2>5. Len(Rest(f, s, w)) + 1 <= Longest
    <3>1. PICK x : x = Rest(f, s, w)
      OBVIOUS
    <3>2. x \in Text /\ Len(x) < Len(w) /\ Len(w) \in Nat
      BY <2>4, <3>1 DEF Stayed
    <3>3. Len(z) = Len(w) + 1 /\ Longest \in Nat /\ Len(x) \in Nat
      BY <3>2, AppendJoins, LongestIs, LenProperties DEF Text
    <3>4. Len(x) + 1 <= Longest
      BY <3>2, <3>3
    <3> QED BY <3>1, <3>4
  <2> QED BY <2>1, <2>2, <2>3, <2>4, <2>5
<1>3. CASE OpenStep(q, c, r)
  <2>1. c \in Openers /\ (q.place = "start" \/ q.place \in {"value", "elements"})
    BY <1>3 DEF OpenStep
  <2>2. PICK p, t, b : p = FirstOf(c) /\ t = Append(s, c) /\ b = q.wanted
    OBVIOUS
  <2>3. r = At(p, t, b)
    BY <1>1, <1>3, <2>2, Zenon DEF OpenStep
  <2>4. r.place = p /\ r.stack = t
    BY <2>3, AtParts
  <2>5. PICK f : /\ Frames(f, s, w) /\ (s = <<>> => w = <<>>)
                 /\ s # <<>> => Rest(f, s, w) \in BeforeValue(Last(s))
    <3>1. CASE q.place = "start"
      <4>1. s = <<>> /\ w = <<>>
        BY <1>0, <1>1, <3>1 DEF Parses
      <4>2. PICK e, f : e = s /\ e = <<>> /\ Len(e) = 0
        BY <4>1
      <4>3. Frames(f, e, w)
        BY <4>2 DEF Frames
      <4> QED BY <4>1, <4>2, <4>3
    <3>2. CASE q.place \in {"value", "elements"}
      <4>1. q.place \in Inside
        BY <3>2 DEF Inside
      <4>2. PICK f : Frames(f, s, w) /\ Here(q.place, Last(s), Rest(f, s, w)) /\ s # <<>>
        BY <1>2, <4>1
      <4>3. Rest(f, s, w) \in BeforeValue(Last(s))
        BY <3>2, <4>2, NothingBefore DEF Here
      <4> QED BY <4>2, <4>3
    <3> QED BY <2>1, <3>1, <3>2
  <2>a. Frames(f, s, w)
    BY <2>5
  <2>b. s = <<>> => w = <<>>
    BY <2>5
  <2>c. s # <<>> => Rest(f, s, w) \in BeforeValue(Last(s))
    BY <2>5
  <2>d. c \in Openers
    BY <2>1
  <2>6. PICK g : Frames(g, Append(s, c), z) /\ Rest(g, Append(s, c), z) = <<>>
    BY <1>b, <2>a, <2>b, <2>c, <2>d, FramesPush, Zenon
  <2>7. Last(t) = c
    BY <1>1, <2>1, <2>2, PushPop
  <2>8. Here(p, c, <<>>)
    BY <2>1, <2>2, HereOpen
  <2>9. Here(p, Last(t), Rest(g, t, z)) /\ Frames(g, t, z)
    BY <2>2, <2>6, <2>7, <2>8, Zenon
  <2>10. p \in Inside
    BY <2>2 DEF FirstOf, Inside
  <2> QED BY <2>4, <2>9, <2>10, ParsesInside
<1>4. CASE CloseStep(q, c, r)
  <2>1. PICK p, t, b : p = (IF Len(s) = 1 THEN "end" ELSE "delimiter") /\ t = Front(s) /\ b = q.wanted
    OBVIOUS
  <2>2. r = At(p, t, b)
    BY <1>1, <1>4, <2>1, Zenon DEF CloseStep
  <2>3. r.place = p /\ r.stack = t
    BY <2>2, AtParts
  <2>4. q.place \in {"members", "elements", "delimiter"} /\ q.place \in Inside
    BY <1>4 DEF CloseStep, Inside
  <2>5. PICK f : Frames(f, s, w) /\ Here(q.place, Last(s), Rest(f, s, w)) /\ s # <<>>
    BY <1>2, <2>4
  <2>6. PICK o, x : o = Last(s) /\ x = Rest(f, s, w)
    OBVIOUS
  <2>7. Here(q.place, o, x)
    BY <2>5, <2>6, Zenon
  <2>8. (x = <<>> \/ x \in ListOf(o)) /\ c = CloserOf(o)
    <3>1. \/ q.place = "members" /\ c = "}"
          \/ q.place = "elements" /\ c = "]"
          \/ q.place = "delimiter" /\ c = CloserOf(o)
      BY <1>1, <1>4, <2>6, Zenon DEF CloseStep
    <3>2. q.place = "members" => x = <<>> /\ o = "{"
      BY <2>7 DEF Here
    <3>3. q.place = "elements" => x = <<>> /\ o = "["
      BY <2>7 DEF Here
    <3>4. q.place = "delimiter" => x \in ListOf(o)
      BY <2>7 DEF Here
    <3>5. CloserOf("{") = "}" /\ CloserOf("[") = "]"
      BY DEF CloserOf
    <3> QED BY <2>4, <3>1, <3>2, <3>3, <3>4, <3>5
  <2>9. /\ Rest(f, s, w) = <<>> \/ Rest(f, s, w) \in ListOf(Last(s))
        /\ z = Append(w, CloserOf(Last(s)))
    BY <2>6, <2>8, Zenon
  <2>10. /\ Len(s) = 1 => z \in Phrase("value")
         /\ Len(s) # 1 => Frames(f, Front(s), z) /\ Rest(f, Front(s), z) \in ListOf(Last(Front(s)))
    BY <1>1, <2>5, <2>9, FramesPop
  <2>11. CASE Len(s) = 1
    <3>1. r.place = "end" /\ z \in Phrase("value")
      BY <2>1, <2>3, <2>10, <2>11
    <3> QED BY <3>1 DEF Parses, Inside
  <2>12. CASE Len(s) # 1
    <3>1. r.place = "delimiter" /\ Frames(f, t, z) /\ Rest(f, t, z) \in ListOf(Last(t))
      BY <2>1, <2>3, <2>10, <2>12
    <3>2. Here("delimiter", Last(t), Rest(f, t, z))
      BY <3>1 DEF Here
    <3> QED BY <2>3, <3>1, <3>2, ParsesInside DEF Inside
  <2> QED BY <2>11, <2>12
<1>5. CASE NameStep(q, c, r) \/ ColonStep(q, c, r) \/ AnalysisStep(q, c, r) \/ ScalarStep(q, c, r)
             \/ CommaStep(q, c, r)
  <2>1. q.place \in Inside
    BY <1>5 DEF NameStep, ColonStep, AnalysisStep, ScalarStep, CommaStep, Inside
  <2>2. PICK f : /\ Frames(f, s, w) /\ Here(q.place, Last(s), Rest(f, s, w))
                 /\ Stayed(f, s, w, z, c) /\ Len(Rest(f, s, w)) + 1 <= Longest
                 /\ Last(s) \in Openers /\ s # <<>>
    BY <1>2, <2>1
  <2>3. PICK x : x = Rest(f, s, w)
    OBVIOUS
  <2>4. /\ r.stack = q.stack /\ r.place \in Inside
        /\ Here(r.place, Last(q.stack), Append(x, c))
    <3>1. Last(q.stack) \in Openers /\ Here(q.place, Last(q.stack), x) /\ Len(x) + 1 <= Longest
      BY <1>1, <2>2, <2>3, Zenon
    <3> QED BY <1>5, <3>1, StepHere
  <2>5. Frames(f, s, z) /\ Rest(f, s, z) = Append(x, c)
    BY <2>2, <2>3, Zenon DEF Stayed
  <2>6. Frames(f, r.stack, z) /\ Here(r.place, Last(r.stack), Rest(f, r.stack, z))
    BY <1>1, <2>4, <2>5, Zenon
  <2> QED BY <2>4, <2>6, ParsesInside
<1>6. CASE LastStep(q, c, r)
  <2>1. r.place = "ok"
    BY <1>6, AtParts DEF LastStep
  <2> QED BY <2>1 DEF Parses, Inside
<1> QED BY <1>3, <1>4, <1>5, <1>6 DEF Step

\* What stands at the end is a document.
LEMMA EndIsDocument ==
  ASSUME NEW q, Located(q), q.place = "end", NEW w \in Text, Tracks(q, w), Parses(q, w)
  PROVE  w \in Documents
<1>1. w \in Phrase("value")
  BY DEF Parses
<1>2. PICK n \in 1 .. Longest : n = Len(w) /\ w \in Phrases[n].value /\ DOMAIN w = 1 .. n
  <2>1. Len(w) \in 1 .. Longest /\ w \in Phrases[Len(w)]["value"]
    BY <1>1, PhraseSize, InPhrase
  <2> QED BY <2>1, LenProperties DEF Text
<1>3. n \in Nat /\ n >= 1
  BY <1>2, LongestIs
<1>4. Fits(w, 0) /\ Chosen(w, 0) /\ w[1] = "{" /\ ~(n >= 2 /\ AnalysisAt(w, n - 1))
  <2>1. q.stack = <<>>
    BY DEF Located
  <2>2. Len(q.stack) = 0
    BY <2>1
  <2>3. Len(q.stack) <= MaxDepth
    BY <2>2, HolmesAssumption
  <2>4. Deep(q, w) /\ Naming(q, w) /\ Begun(q, w)
    BY DEF Tracks
  <2>5. Fits(w, 0)
    BY <2>3, <2>4 DEF Deep
  <2>6. Chosen(w, 0) /\ ~(n >= 2 /\ AnalysisAt(w, n - 1))
    BY <1>2, <2>4 DEF Naming
  <2>7. w # <<>>
    BY <1>2, <1>3
  <2>8. w[1] = "{"
    BY <2>4, <2>7 DEF Begun
  <2> QED BY <2>5, <2>6, <2>8
<1>5. ASSUME NEW i \in 1 .. n, AnalysisAt(w, i) PROVE w[i + 2] \in {"string", "analysis"}
  <2>1. w[i] = "analysis" /\ OpenBefore(w, i) = 1 /\ i < n /\ w[i + 1] = ":"
    BY <1>2, <1>5 DEF AnalysisAt
  <2>2. ASSUME i = n - 1 PROVE FALSE
    <3>1. n >= 2
      BY <1>3, <1>5, <2>2
    <3>2. AnalysisAt(w, n - 1)
      BY <1>5, <2>2, Zenon
    <3> QED BY <1>4, <3>1, <3>2
  <2>3. i \in 1 .. n - 2
    BY <1>3, <2>1, <2>2
  <2>4. 0 + OpenBefore(w, i) = 1
    BY <2>1
  <2> QED BY <1>2, <1>4, <2>1, <2>3, <2>4 DEF Chosen, Strings
<1>6. ASSUME NEW i \in 1 .. n, w[i] \notin {"}", "]"} PROVE OpenBefore(w, i) <= MaxDepth
  <2>1. 0 + OpenBefore(w, i) <= MaxDepth
    BY <1>2, <1>4, <1>6 DEF Fits, Closers
  <2>2. OpenBefore(w, i) \in Int
    BY <1>3, OpenBeforeStep
  <2> QED BY <2>1, <2>2
<1>7. w \in UNION {Phrases[k].value : k \in 1 .. Longest}
  BY <1>2
<1> QED BY <1>2, <1>4, <1>5, <1>6, <1>7, Zenon DEF Documents

---------------------------------------------------------------------------
(* What the decoder accepts *)

Beginning == At("start", <<>>, FALSE)

\* What a decoder at q knows of the classes w it has read.
HasRead(q, w) ==
  /\ Located(q) /\ Reads(Beginning, w, q)
  /\ q.place # "error" => Tracks(q, w) /\ Parses(q, w)
  /\ q.place = "ok" => Last(w) = "EOF" /\ Front(w) \in Documents

\* Nothing has been read yet.
LEMMA FollowsBegin == HasRead(Beginning, <<>>)
<1>1. PICK q, e : q = Beginning /\ e = <<>>
  OBVIOUS
<1>2. q = At("start", e, FALSE)
  BY <1>1, Zenon DEF Beginning
<1>3. q.place = "start"
  BY <1>2 DEF At
<1>4. Reads(q, e, q)
  BY <1>1, ReadsOne, Zenon
<1>5. Tracks(q, e) /\ Located(q)
  BY <1>1, <1>2, TracksBegin, Zenon
<1>6. Parses(q, e)
  BY <1>1, <1>3 DEF Parses, Inside
<1>7. HasRead(q, e)
  BY <1>1, <1>3, <1>4, <1>5, <1>6 DEF HasRead
<1> QED BY <1>1, <1>7, Zenon

\* The last token and what is before it.
LEMMA LastOfAppend ==
  ASSUME NEW w \in Text, NEW c \in Classified
  PROVE  Last(Append(w, c)) = c /\ Front(Append(w, c)) = w
<1>1. PICK n \in Nat : n = Len(w)
  BY LenProperties DEF Text
<1>2. PICK z : z = Append(w, c)
  OBVIOUS
<1>3. z \in Seq(Classified) /\ Len(z) = n + 1 /\ z[n + 1] = c /\ \A i \in 1 .. n : z[i] = w[i]
  BY <1>1, <1>2, AppendProperties DEF Text
<1>4. Last(z) = c
  BY <1>3 DEF Last
<1>5. PICK x : x = SubSeq(z, 1, n)
  OBVIOUS
<1>6. x \in Seq(Classified) /\ Len(x) = n /\ \A i \in 1 .. n : x[i] = z[i]
  BY <1>3, <1>5, AllButLast, SubSeqProperties
<1>7. x = w
  BY <1>1, <1>3, <1>6, SeqEqual DEF Text
<1>8. Front(z) = x
  BY <1>3, <1>5 DEF Front
<1> QED BY <1>2, <1>4, <1>7, <1>8

\* Reading one token more.
LEMMA StepFollows ==
  ASSUME NEW q, NEW w \in Text, HasRead(q, w), q.place \notin {"ok", "error"},
         NEW c \in Classified, Len(w) + 1 <= Longest, NEW r, r = Move(q, c)
  PROVE  HasRead(r, Append(w, c))
<1>1. Located(q) /\ Reads(Beginning, w, q) /\ Tracks(q, w) /\ Parses(q, w)
  BY DEF HasRead
<1>2. PICK z : z = Append(w, c)
  OBVIOUS
<1>3. z \in Text /\ Len(z) <= Longest
  BY <1>2, AppendProperties DEF Text
<1>4. Step(q, c, r) \/ r = At("error", q.stack, q.wanted)
  BY <1>1, MoveSteps
<1>5. Located(r)
  BY <1>1, <1>4, StepLocated
<1>6. Reads(Beginning, z, r)
  <2>1. PICK y : y = <<c>>
    OBVIOUS
  <2>2. y \in Text /\ Reads(q, y, r)
    BY <2>1, OneToken, ReadsOne, Zenon
  <2>3. Reads(Beginning, w \o y, r)
    BY <1>1, <2>2, ReadsConcat
  <2>4. w \o y = z
    BY <1>2, <2>1, AppendIsConcat DEF Text
  <2> QED BY <2>3, <2>4, Zenon
<1>7. CASE Step(q, c, r)
  <2>1. Tracks(r, z)
    BY <1>1, <1>2, <1>7, StepTracks
  <2>2. Parses(r, z)
    BY <1>1, <1>2, <1>3, <1>7, StepParses
  <2>3. ASSUME r.place = "ok" PROVE Last(z) = "EOF" /\ Front(z) \in Documents
    <3>1. LastStep(q, c, r)
      BY <1>7, <2>3, StepPlaces DEF Step, StepsFrom
    <3>2. c = "EOF" /\ q.place = "end"
      BY <3>1 DEF LastStep
    <3>3. w \in Documents
      BY <1>1, <3>2, EndIsDocument
    <3> QED BY <1>2, <3>2, <3>3, LastOfAppend
  <2>4. HasRead(r, z)
    BY <1>5, <1>6, <2>1, <2>2, <2>3 DEF HasRead
  <2> QED BY <1>2, <2>4, Zenon
<1>8. CASE r = At("error", q.stack, q.wanted)
  <2>1. r.place = "error"
    BY <1>8, AtParts
  <2>2. HasRead(r, z)
    BY <1>5, <1>6, <2>1 DEF HasRead
  <2> QED BY <1>2, <2>2, Zenon
<1> QED BY <1>4, <1>7, <1>8

\* What AcceptsExactlyTheDocuments says of the classes read.
Accepts(p, w) ==
  /\ p = "ok" => Last(w) = "EOF" /\ Front(w) \in Documents
  /\ p = "error" =>
       IF Last(w) = "EOF" THEN Front(w) \notin Documents
       ELSE Last(w) = "broken" \/ w \notin Beginnings

\* A document is never refused, nor anything that one begins with.
LEMMA FollowsAccepts ==
  ASSUME NEW q, NEW w \in Text, HasRead(q, w)
  PROVE  Accepts(q.place, w)
<1>1. Reads(Beginning, w, q)
  BY DEF HasRead
<1>2. ASSUME q.place = "error", Last(w) = "EOF", Front(w) \in Documents PROVE FALSE
  <2>1. w # <<>>
    <3>1. ASSUME w = <<>> PROVE FALSE
      <4>1. Reads(Beginning, w, Beginning)
        BY <3>1, ReadsOne, Zenon
      <4>2. q = Beginning
        BY <1>1, <4>1, ReadsSame
      <4>3. Beginning.place = "start"
        BY DEF Beginning, At
      <4> QED BY <1>2, <4>2, <4>3
    <3> QED BY <3>1
  <2>2. PICK n \in Nat : Len(w) = n + 1
    <3>1. PICK m \in Nat : m = Len(w)
      BY LenProperties DEF Text
    <3>2. m # 0
      BY <2>1, <3>1, EmptySeq DEF Text
    <3>3. m - 1 \in Nat /\ m = (m - 1) + 1
      BY <3>2
    <3> QED BY <3>1, <3>3
  <2>3. PICK d : d = SubSeq(w, 1, n)
    OBVIOUS
  <2>4. d \in Documents /\ w[n + 1] = "EOF"
    BY <1>2, <2>2, <2>3 DEF Front, Last
  <2>5. d \in Text /\ w = Append(d, w[n + 1])
    BY <2>2, <2>3, AllButLast DEF Text
  <2>6. PICK e, y, k : e = At("end", <<>>, FALSE) /\ y = <<"EOF">> /\ k = Move(e, "EOF")
    OBVIOUS
  <2>7. Reads(Beginning, d, e)
    BY <2>4, <2>6, DocumentsRead, Zenon DEF Beginning
  <2>8. "EOF" \in Classified
    BY DEF Classified, Ends
  <2>9. y \in Text /\ Reads(e, y, k)
    BY <2>6, <2>8, OneToken, ReadsOne, Zenon
  <2>10. Reads(Beginning, d \o y, k)
    BY <2>5, <2>7, <2>9, ReadsConcat
  <2>11. d \o y = w
    BY <2>4, <2>5, <2>6, <2>8, AppendIsConcat DEF Text
  <2>12. q = k
    BY <1>1, <2>10, <2>11, ReadsSame
  <2>13. k.place = "ok"
    <3>1. e.place = "end"
      BY <2>6 DEF At
    <3>2. k = Moved(e, "ok")
      BY <2>6, <3>1 DEF Move
    <3> QED BY <3>2, AtParts DEF Moved
  <2> QED BY <1>2, <2>12, <2>13
<1>3. ASSUME q.place = "error", w \in Beginnings PROVE FALSE
  <2>1. PICK d \in Documents : \E n \in DOMAIN d : w = SubSeq(d, 1, n)
    BY <1>3 DEF Beginnings
  <2>2. PICK n \in DOMAIN d : w = SubSeq(d, 1, n)
    BY <2>1
  <2>3. PICK e : e = At("end", <<>>, FALSE)
    OBVIOUS
  <2>4. d \in Text /\ Reads(Beginning, d, e)
    BY <2>3, DocumentsRead, Zenon DEF Beginning
  <2>5. n \in 0 .. Len(d)
    BY <2>4, LenProperties DEF Text
  <2>6. e.place # "error"
    BY <2>3 DEF At
  <2>7. PICK r : Reads(Beginning, w, r) /\ r.place # "error"
    BY <2>2, <2>4, <2>5, <2>6, ReadsBeginning
  <2>8. q = r
    BY <1>1, <2>7, ReadsSame
  <2> QED BY <1>3, <2>7, <2>8
<1>4. q.place = "ok" => Last(w) = "EOF" /\ Front(w) \in Documents
  BY DEF HasRead
<1> QED BY <1>2, <1>3, <1>4 DEF Accepts

---------------------------------------------------------------------------
(* The texts of the analyses read *)

\* Token i of the classes w is the value of a top-level analysis.
WholeAt(w, i) == i > 2 /\ AnalysisAt(w, i - 2) /\ w[i] \in Strings
TextsAt(r, w, i) == IF WholeAt(w, i) THEN <<Runes(r[i].text)>> ELSE <<>>
TextsBy(r, w) == [i \in DOMAIN r |-> TextsAt(r, w, i)]
Texts(r) == FlattenSeq(TextsBy(r, ClassesOf(r)))

\* The text of a token.
LEMMA TokenText == ASSUME NEW token \in AnyToken PROVE Runes(token.text) \in Pieces
<1>1. token.text \in Pieces
  BY TokenKinds
<1> QED BY <1>1, RunesAre

\* Every token adds one text or none.
LEMMA TextsType ==
  ASSUME NEW r \in Seq(AnyToken)
  PROVE  /\ TextsBy(r, ClassesOf(r)) \in Seq(Seq(Pieces)) /\ Len(TextsBy(r, ClassesOf(r))) = Len(r)
         /\ \A i \in 1 .. Len(r) : TextsBy(r, ClassesOf(r))[i] = TextsAt(r, ClassesOf(r), i)
         /\ Texts(r) \in Seq(Pieces)
<1>1. PICK n \in Nat : n = Len(r) /\ DOMAIN r = 1 .. n /\ \A i \in 1 .. n : r[i] \in AnyToken
  BY LenProperties, ElementOfSeq
<1>2. PICK w : w = ClassesOf(r)
  OBVIOUS
<1>3. PICK f : f = TextsBy(r, w)
  OBVIOUS
<1>4. f = [i \in 1 .. n |-> TextsAt(r, w, i)]
  BY <1>1, <1>3 DEF TextsBy
<1>5. ASSUME NEW i \in 1 .. n PROVE TextsAt(r, w, i) \in Seq(Pieces)
  <2>1. PICK t \in Pieces : t = Runes(r[i].text)
    BY <1>1, TokenText
  <2>2. <<t>> \in Seq(Pieces)
    OBVIOUS
  <2>3. <<>> \in Seq(Pieces)
    BY EmptySeq
  <2>4. TextsAt(r, w, i) = <<t>> \/ TextsAt(r, w, i) = <<>>
    BY <2>1, Zenon DEF TextsAt
  <2> QED BY <2>2, <2>3, <2>4, Zenon
<1>6. f \in Seq(Seq(Pieces)) /\ Len(f) = n /\ \A i \in 1 .. n : f[i] = TextsAt(r, w, i)
  BY <1>4, <1>5, IsASeq
<1>7. FlattenSeq(f) \in Seq(Pieces)
  BY <1>6, FlattenType
<1> QED BY <1>1, <1>2, <1>3, <1>6, <1>7, Zenon DEF Texts

\* One token more is one text more where an analysis was to be read.
LEMMA TextsGrow ==
  ASSUME NEW r \in Seq(AnyToken), NEW token \in AnyToken, NEW w, w = ClassesOf(r), NEW c, c = Class(token)
  PROVE  Texts(Append(r, token)) =
           IF Len(w) >= 2 /\ AnalysisAt(w, Len(w) - 1) /\ c \in Strings
           THEN Append(Texts(r), Runes(token.text)) ELSE Texts(r)
<1>1. PICK n \in Nat : n = Len(r)
  BY LenProperties
<1>2. PICK q : q = Append(r, token)
  OBVIOUS
<1>3. /\ q \in Seq(AnyToken) /\ Len(q) = n + 1 /\ q[n + 1] = token
      /\ \A i \in 1 .. n : q[i] = r[i]
  BY <1>1, <1>2, AppendProperties
<1>4. PICK z : z = ClassesOf(q)
  OBVIOUS
<1>5. c \in Classified /\ w \in Text /\ Len(w) = n
  BY <1>1, ClassesType, TokenClass
<1>6. z = Append(w, c)
  BY <1>2, <1>4, ClassesGrow
<1>7. z[n + 1] = c /\ \A i \in 1 .. n : z[i] = w[i]
  BY <1>5, <1>6, AppendProperties DEF Text
<1>8. \A i \in 1 .. n - 1 : AnalysisAt(z, i) <=> AnalysisAt(w, i)
  BY <1>5, <1>6, AnalysisOneMore
<1>9. ASSUME NEW i \in 1 .. n PROVE WholeAt(z, i) <=> WholeAt(w, i)
  <2>1. i > 2 => i - 2 \in 1 .. n - 1
    OBVIOUS
  <2>2. i > 2 => (AnalysisAt(z, i - 2) <=> AnalysisAt(w, i - 2))
    BY <1>8, <2>1
  <2> QED BY <1>7, <2>2 DEF WholeAt
<1>10. WholeAt(z, n + 1) <=> Len(w) >= 2 /\ AnalysisAt(w, Len(w) - 1) /\ c \in Strings
  <2>1. (n + 1) - 2 = n - 1 /\ (n + 1 > 2 <=> n >= 2)
    OBVIOUS
  <2>2. n >= 2 => n - 1 \in 1 .. n - 1
    OBVIOUS
  <2>3. n >= 2 => (AnalysisAt(z, n - 1) <=> AnalysisAt(w, n - 1))
    BY <1>8, <2>2
  <2>4. WholeAt(z, n + 1) <=> n >= 2 /\ AnalysisAt(z, n - 1) /\ c \in Strings
    BY <1>7, <2>1 DEF WholeAt
  <2> QED BY <1>5, <2>3, <2>4
<1>11. PICK f, g : f = TextsBy(r, w) /\ g = TextsBy(q, z)
  OBVIOUS
<1>12. /\ f \in Seq(Seq(Pieces)) /\ Len(f) = n /\ \A i \in 1 .. n : f[i] = TextsAt(r, w, i)
       /\ FlattenSeq(f) = Texts(r)
  BY <1>1, <1>11, TextsType, Zenon DEF Texts
<1>13. /\ g \in Seq(Seq(Pieces)) /\ Len(g) = n + 1 /\ \A i \in 1 .. n + 1 : g[i] = TextsAt(q, z, i)
       /\ FlattenSeq(g) = Texts(q)
  BY <1>3, <1>4, <1>11, TextsType, Zenon DEF Texts
<1>14. PICK x : x = TextsAt(q, z, n + 1)
  OBVIOUS
<1>15. x = g[n + 1] /\ x \in Seq(Pieces)
  BY <1>13, <1>14, ElementOfSeq
<1>16. g = Append(f, x)
  <2>1. PICK h : h = Append(f, x)
    OBVIOUS
  <2>2. h \in Seq(Seq(Pieces)) /\ Len(h) = n + 1 /\ h[n + 1] = x /\ \A i \in 1 .. n : h[i] = f[i]
    BY <1>12, <1>15, <2>1, AppendProperties
  <2>3. ASSUME NEW i \in 1 .. n PROVE g[i] = f[i]
    <3>1. g[i] = TextsAt(q, z, i) /\ f[i] = TextsAt(r, w, i)
      BY <1>12, <1>13
    <3>2. q[i] = r[i] /\ (WholeAt(z, i) <=> WholeAt(w, i))
      BY <1>3, <1>9
    <3> QED BY <3>1, <3>2, Zenon DEF TextsAt
  <2>4. ASSUME NEW i \in 1 .. n + 1 PROVE g[i] = h[i]
    <3>1. i \in 1 .. n \/ i = n + 1
      OBVIOUS
    <3>2. CASE i \in 1 .. n
      BY <2>2, <2>3, <3>2
    <3>3. CASE i = n + 1
      BY <1>15, <2>2, <3>3
    <3> QED BY <3>1, <3>2, <3>3
  <2>5. g = h
    BY <1>13, <2>2, <2>4, SeqEqual
  <2> QED BY <2>1, <2>5
<1>17. Texts(q) = Texts(r) \o x
  <2>1. FlattenSeq(Append(f, x)) = FlattenSeq(f) \o x
    BY <1>12, <1>15, FlattenAppend
  <2> QED BY <1>12, <1>13, <1>16, <2>1, Zenon
<1>18. PICK t \in Pieces : t = Runes(token.text)
  BY TokenText
<1>19. PICK a \in Seq(Pieces) : a = Texts(r)
  BY TextsType
<1>20. CASE WholeAt(z, n + 1)
  <2>1. x = <<t>>
    BY <1>3, <1>14, <1>18, <1>20, Zenon DEF TextsAt
  <2>2. a \o <<t>> = Append(a, t)
    BY AppendIsConcat
  <2>3. Texts(q) = Append(Texts(r), Runes(token.text))
    BY <1>17, <1>18, <1>19, <2>1, <2>2, Zenon
  <2> QED BY <1>2, <1>10, <1>20, <2>3, Zenon
<1>21. CASE ~WholeAt(z, n + 1)
  <2>1. x = <<>>
    BY <1>14, <1>21, Zenon DEF TextsAt
  <2>2. a \o <<>> = a
    BY ConcatEmptySeq
  <2>3. Texts(q) = Texts(r)
    BY <1>17, <1>19, <2>1, <2>2, Zenon
  <2> QED BY <1>2, <1>10, <1>21, <2>3, Zenon
<1> QED BY <1>20, <1>21

\* What LastWholeAnalysis says of the texts, the analysis and its flag.
Delivered(texts, value, cut) ==
  IF texts = <<>> THEN value = <<>> /\ ~cut ELSE Delivers(Last(texts), value, cut)

\* Nothing has been delivered yet.
LEMMA DeliveredBegin == Delivered(Texts(<<>>), <<>>, FALSE)
<1>1. PICK e \in Seq(AnyToken) : e = <<>> /\ Len(e) = 0
  BY EmptySeq
<1>2. PICK f : f = TextsBy(e, ClassesOf(e))
  OBVIOUS
<1>3. f \in Seq(Seq(Pieces)) /\ Len(f) = 0
  BY <1>1, <1>2, TextsType
<1>4. f = <<>>
  BY <1>3, EmptySeq
<1>5. Texts(e) = <<>>
  BY <1>2, <1>4, FlattenEmpty, Zenon DEF Texts
<1> QED BY <1>1, <1>5, Zenon DEF Delivered

\* Only the value of an analysis is taken, and it is taken as a whole.
LEMMA TokenDelivers ==
  ASSUME NEW token \in AnyToken, Decoding(token), NEW c, c = Class(token)
  PROVE  IF place = "analysis" /\ c \in Strings
         THEN Delivers(Runes(token.text), analysis', tooLarge')
         ELSE UNCHANGED <<analysis, tooLarge>>
<1>1. StringEnds(token) <=> c \in Strings
  BY TokenClass
<1>2. CASE place = "analysis" /\ c \in Strings
  <2>1. ReadAnalysis(token)
    BY <1>2 DEF Decoding, Start, Name, Colon, ReadAnalysis, SkipValue, Delimiter, ExpectEOF
  <2>2. PICK content : content = ReadString(token, MaxAnalysis)
    OBVIOUS
  <2>3. analysis' = content.value /\ tooLarge' = content.tooLarge
    BY <1>1, <1>2, <2>1, <2>2 DEF ReadAnalysis, Flag
  <2>4. token.text \in Pieces
    BY TokenKinds
  <2>5. Delivers(Runes(token.text), content.value, content.tooLarge)
    BY <2>2, <2>4, ReadStringDelivers, Zenon
  <2>6. Delivers(Runes(token.text), analysis', tooLarge')
    BY <2>3, <2>5, Zenon
  <2> QED BY <1>2, <2>6
<1>3. CASE ~(place = "analysis" /\ c \in Strings)
  <2>1. UNCHANGED <<analysis, tooLarge>>
    BY <1>1, <1>3 DEF Decoding, Start, Name, Colon, ReadAnalysis, SkipValue, Delimiter, ExpectEOF,
         Open, Close, Fail, Expect
  <2> QED BY <1>3, <2>1
<1> QED BY <1>2, <1>3

---------------------------------------------------------------------------
(* The inductive invariant and the theorems *)

Typed == input \in Inputs /\ read \in Seq(AnyToken) /\ Len(read) <= input.tokens

\* The decoder is where the classes it has read lead, and its analysis is what
\* it has made of the last one of the texts.
IInv ==
  /\ Typed
  /\ HasRead(At(place, stack, wanted), ClassesOf(read))
  /\ Delivered(Texts(read), analysis, tooLarge)

\* At the beginning nothing has been read and nothing delivered.
LEMMA InitIInv == Init => IInv
<1> SUFFICES ASSUME Init PROVE IInv
  OBVIOUS
<1>1. Typed
  <2>1. input \in Inputs /\ read = <<>>
    BY DEF Init
  <2>2. Len(read) = 0 /\ read \in Seq(AnyToken) /\ input.tokens \in Nat
    BY <2>1, EmptySeq, HolmesAssumption
  <2> QED BY <2>1, <2>2 DEF Typed
<1>2. At(place, stack, wanted) = Beginning
  BY Zenon DEF Init, Beginning
<1>3. ClassesOf(read) = <<>>
  <2>1. read \in Seq(AnyToken) /\ Len(read) = 0
    BY <1>1, EmptySeq DEF Init, Typed
  <2>2. ClassesOf(read) \in Text /\ Len(ClassesOf(read)) = 0
    BY <2>1, ClassesType
  <2> QED BY <2>2, EmptySeq DEF Text
<1>4. HasRead(At(place, stack, wanted), ClassesOf(read))
  BY <1>2, <1>3, FollowsBegin, Zenon
<1>5. Delivered(Texts(read), analysis, tooLarge)
  BY DeliveredBegin, Zenon DEF Init
<1> QED BY <1>1, <1>4, <1>5 DEF IInv

\* One token more.
LEMMA DecodingIInv ==
  ASSUME IInv, NEW token \in AnyToken, Decoding(token), read' = Append(read, token),
         Len(read) < input.tokens, UNCHANGED input
  PROVE  IInv'
<1>1. Typed /\ HasRead(At(place, stack, wanted), ClassesOf(read)) /\ Delivered(Texts(read), analysis, tooLarge)
  BY DEF IInv
<1>2. PICK n \in Nat : n = Len(read) /\ n + 1 <= input.tokens /\ n + 1 <= Longest
  <2>1. PICK n \in Nat : n = Len(read)
    BY <1>1, LenProperties DEF Typed
  <2>2. input.tokens \in Nat /\ input.tokens <= Longest /\ Longest \in Nat
    BY <1>1, LongestIs, HolmesAssumption DEF Typed
  <2> QED BY <2>1, <2>2
<1>3. read \in Seq(AnyToken) /\ input \in Inputs
  BY <1>1 DEF Typed
<1>4. Typed'
  <2>1. Append(read, token) \in Seq(AnyToken) /\ Len(Append(read, token)) = n + 1
    BY <1>2, <1>3, AppendProperties
  <2> QED BY <1>2, <1>3, <2>1 DEF Typed
<1>5. PICK q, w, c : q = At(place, stack, wanted) /\ w = ClassesOf(read) /\ c = Class(token)
  OBVIOUS
<1>6. PICK r : r = Move(q, c)
  OBVIOUS
<1>7. w \in Text /\ Len(w) = n /\ c \in Classified
  BY <1>2, <1>3, <1>5, ClassesType, TokenClass
<1>8. HasRead(q, w)
  BY <1>1, <1>5, Zenon
<1>9. q.place = place
  BY <1>5, AtParts
<1>10. place \notin {"ok", "error"}
  BY DEF Decoding, Start, Name, Colon, ReadAnalysis, SkipValue, Delimiter, ExpectEOF
<1>11. HasRead(r, Append(w, c))
  BY <1>2, <1>6, <1>7, <1>8, <1>9, <1>10, StepFollows
<1>12. At(place', stack', wanted') = r
  BY <1>5, <1>6, TokenMoves, Zenon
<1>13. ClassesOf(read') = Append(w, c)
  BY <1>3, <1>5, ClassesGrow
<1>14. HasRead(At(place, stack, wanted), ClassesOf(read))'
  BY <1>11, <1>12, <1>13, Zenon
<1>15. place = "analysis" <=> Len(w) >= 2 /\ AnalysisAt(w, Len(w) - 1)
  <2>1. Tracks(q, w)
    BY <1>8, <1>9, <1>10 DEF HasRead
  <2>2. Naming(q, w)
    BY <2>1 DEF Tracks
  <2> QED BY <1>9, <2>2 DEF Naming
<1>16. PICK texts : texts = Texts(read) /\ texts \in Seq(Pieces)
  BY <1>3, TextsType
<1>17. Delivered(Texts(read), analysis, tooLarge)'
  <2>1. CASE place = "analysis" /\ c \in Strings
    <3>1. Texts(read') = Append(texts, Runes(token.text))
      BY <1>3, <1>5, <1>15, <1>16, <2>1, TextsGrow
    <3>2. PICK t \in Pieces : t = Runes(token.text)
      BY TokenText
    <3>3. PICK all : all = Append(texts, t)
      OBVIOUS
    <3>4. all # <<>> /\ Last(all) = t
      <4>1. PICK k \in Nat : k = Len(texts)
        BY <1>16, LenProperties
      <4>2. Len(all) = k + 1 /\ all[k + 1] = t
        BY <1>16, <3>2, <3>3, <4>1, AppendProperties
      <4> QED BY <4>2 DEF Last
    <3>5. Delivers(t, analysis', tooLarge')
      BY <1>5, <2>1, <3>2, TokenDelivers, Zenon
    <3>6. Delivered(all, analysis', tooLarge')
      BY <3>4, <3>5, Zenon DEF Delivered
    <3> QED BY <3>1, <3>2, <3>3, <3>6, Zenon
  <2>2. CASE ~(place = "analysis" /\ c \in Strings)
    <3>1. Texts(read') = texts
      BY <1>3, <1>5, <1>15, <1>16, <2>2, TextsGrow
    <3>2. analysis' = analysis /\ tooLarge' = tooLarge
      BY <1>5, <2>2, TokenDelivers
    <3> QED BY <1>1, <1>16, <3>1, <3>2, Zenon
  <2> QED BY <2>1, <2>2
<1> QED BY <1>4, <1>14, <1>17 DEF IInv

\* Every step keeps the invariant.
LEMMA NextIInv == IInv /\ [Next]_vars => IInv'
<1> SUFFICES ASSUME IInv, [Next]_vars PROVE IInv'
  OBVIOUS
<1>1. CASE UNCHANGED vars
  BY <1>1, Zenon DEF vars, IInv, Typed
<1>2. CASE Terminated
  BY <1>2, Zenon DEF Terminated, vars, IInv, Typed
<1>3. ASSUME Len(read) < input.tokens, UNCHANGED input,
             NEW token \in input.literals \cup {Mark(c) : c \in Marks \cup Ends},
             Decoding(token), read' = Append(read, token)
      PROVE  IInv'
  <2>1. input.literals \subseteq Literals
    BY HolmesAssumption DEF IInv, Typed
  <2>2. token \in AnyToken
    BY <1>3, <2>1 DEF AnyToken
  <2> QED BY <1>3, <2>2, DecodingIInv
<1> QED BY <1>1, <1>2, <1>3 DEF Next

\* The inductive invariant: decode, skipObject and skipArray stand where the
\* grammar stands after the tokens read, and readString has made of the last
\* analysis what analysis and analysisTooLarge say.
THEOREM DecoderInvariant == Spec => []IInv
<1>1. Init => IInv
  BY InitIInv
<1>2. IInv /\ [Next]_vars => IInv'
  BY NextIInv
<1> QED BY <1>1, <1>2, PTL DEF Spec

\* The place tells whether the tokens read are a document.
LEMMA IInvAccepts == IInv => AcceptsExactlyTheDocuments
<1> SUFFICES ASSUME IInv PROVE AcceptsExactlyTheDocuments
  OBVIOUS
<1>1. PICK w, q : w = ClassesOf(read) /\ q = At(place, stack, wanted)
  OBVIOUS
<1>2. w \in Text
  BY <1>1, ClassesType DEF IInv, Typed
<1>3. HasRead(q, w) /\ q.place = place
  BY <1>1, AtParts DEF IInv
<1>4. Accepts(place, w)
  BY <1>2, <1>3, FollowsAccepts, Zenon
<1>5. w = Classes
  BY <1>1, Zenon DEF ClassesOf, Classes
<1> QED BY <1>4, <1>5, Zenon DEF Accepts, AcceptsExactlyTheDocuments

\* decode accepts exactly the documents of the grammar that keep maxJSONDepth and
\* whose top-level analysis is a string, for bodies of every length.
THEOREM Acceptance == Spec => []AcceptsExactlyTheDocuments
BY DecoderInvariant, IInvAccepts, PTL

\* The texts of the invariant are those of the property.
LEMMA AnalysesAreTexts == Analyses = Texts(read)
<1>1. ClassesOf(read) = Classes
  BY Zenon DEF ClassesOf, Classes
<1>2. Analyses = FlattenSeq([i \in DOMAIN read |-> TextsAt(read, Classes, i)])
  BY Zenon DEF Analyses, TextsAt, WholeAt, Strings
<1> QED BY <1>1, <1>2, Zenon DEF Texts, TextsBy

\* The analysis and its flag are those of the last text.
LEMMA IInvDelivers == IInv => LastWholeAnalysis
<1> SUFFICES ASSUME IInv PROVE LastWholeAnalysis
  OBVIOUS
<1>1. Delivered(Analyses, analysis, tooLarge)
  BY AnalysesAreTexts, Zenon DEF IInv
<1> QED BY <1>1, Zenon DEF Delivered, Delivers, LastWholeAnalysis

\* Whatever follows it, breaks off or repeats it: the decoder holds the last
\* analysis that was read as a whole, cut at maxAnalysisBytes and flagged if and
\* only if it does not fit.
THEOREM Delivery == Spec => []LastWholeAnalysis
BY DecoderInvariant, IInvDelivers, PTL

\* The answer of Chat follows from the place and the last text.
LEMMA IInvSuccess == IInv => SuccessMeansWhole
<1> SUFFICES ASSUME IInv, Done PROVE SuccessMeansWhole
  BY DEF SuccessMeansWhole
<1>1. AcceptsExactlyTheDocuments /\ LastWholeAnalysis
  BY IInvAccepts, IInvDelivers
<1>2. PICK legal \in BOOLEAN : legal <=> Last(Classes) = "EOF" /\ Front(Classes) \in Documents
  OBVIOUS
<1>3. place = "ok" <=> legal
  BY <1>1, <1>2, Zenon DEF AcceptsExactlyTheDocuments, Done
<1>4. place = "error" <=> ~legal
  BY <1>3 DEF Done
<1>5. PICK texts : texts = Analyses /\ texts \in Seq(Pieces)
  BY AnalysesAreTexts, TextsType DEF IInv, Typed
<1>6. PICK text : text = IF texts = <<>> THEN <<>> ELSE Last(texts)
  OBVIOUS
<1>7. text \in Pieces
  <2>1. CASE texts = <<>>
    BY <1>6, <2>1, EmptySeq DEF Pieces
  <2>2. CASE texts # <<>>
    <3>1. PICK n \in Nat : n = Len(texts) /\ n >= 1
      BY <1>5, <2>2, EmptySeq, LenProperties
    <3>2. texts[n] \in Pieces
      BY <1>5, <3>1, ElementOfSeq
    <3> QED BY <1>6, <2>2, <3>1, <3>2 DEF Last
  <2> QED BY <2>1, <2>2
<1>8. PICK size \in Nat : size = Size(text)
  <2>1. Len(text) \in 0 .. Len(text) /\ Cut(text, Len(text)) = text
    BY <1>7, LenProperties, WholeCut DEF Pieces
  <2> QED BY <1>7, <2>1, SizePrefix DEF Cut, Pieces
<1>9. PICK blank \in BOOLEAN : blank <=> Range(text) \subseteq {"space"}
  OBVIOUS
<1>10. text = <<>> => blank
  <2>1. Range(<<>>) = {}
    BY DEF Range
  <2> QED BY <1>9, <2>1
<1>11. MaxAnalysis \in Nat
  BY HolmesAssumption
<1>12. IF size <= MaxAnalysis THEN analysis = text /\ ~tooLarge ELSE tooLarge
  <2>1. CASE texts = <<>>
    <3>1. text = <<>> /\ analysis = <<>> /\ ~tooLarge
      BY <1>1, <1>5, <1>6, <2>1, Zenon DEF LastWholeAnalysis
    <3>2. size = 0
      BY <1>8, <3>1, SizeEmpty
    <3> QED BY <1>11, <3>1, <3>2
  <2>2. CASE texts # <<>>
    <3>1. text = Last(Analyses)
      BY <1>5, <1>6, <2>2, Zenon
    <3>2. IF Size(text) <= MaxAnalysis THEN analysis = text /\ ~tooLarge ELSE tooLarge
      BY <1>1, <1>5, <2>2, <3>1, Zenon DEF LastWholeAnalysis
    <3> QED BY <1>8, <3>2, Zenon
  <2> QED BY <2>1, <2>2
<1>13. /\ (~RequestFailed /\ ~AnalysisTooLarge) <=> (legal /\ ~blank /\ size <= MaxAnalysis)
       /\ AnalysisTooLarge <=> size > MaxAnalysis
       /\ ~blank /\ size <= MaxAnalysis => Answer = text
  <2>1. CASE size <= MaxAnalysis
    <3>1. analysis = text /\ ~tooLarge
      BY <1>12, <2>1
    <3>2. Answer = IF blank THEN <<>> ELSE text
      BY <1>9, <3>1, Zenon DEF Answer
    <3>3. Answer = <<>> <=> blank
      BY <1>10, <3>2, Zenon
    <3>4. RequestFailed <=> ~legal \/ blank
      BY <1>4, <3>1, <3>3, Zenon DEF RequestFailed
    <3>5. ~(size > MaxAnalysis)
      BY <1>8, <1>11, <2>1
    <3>6. ~blank => Answer = text
      BY <3>2, Zenon
    <3> QED BY <2>1, <3>1, <3>4, <3>5, <3>6, Zenon DEF AnalysisTooLarge
  <2>2. CASE ~(size <= MaxAnalysis)
    <3>1. tooLarge
      BY <1>12, <2>2
    <3>2. size > MaxAnalysis
      BY <1>8, <1>11, <2>2
    <3> QED BY <2>2, <3>1, <3>2, Zenon DEF AnalysisTooLarge
  <2> QED BY <2>1, <2>2
<1> QED BY <1>2, <1>5, <1>6, <1>8, <1>9, <1>13, Zenon DEF SuccessMeansWhole

\* Chat returns no error if and only if a legal document brought a whole analysis
\* that is not blank, and reports the limit if and only if the analysis was cut.
THEOREM Success == Spec => []SuccessMeansWhole
BY DecoderInvariant, IInvSuccess, PTL

=============================================================================
