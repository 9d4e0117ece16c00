-------------------------- MODULE MCHolmesResponse --------------------------
(***************************************************************************)
(* Bodies of HolmesResponse for TLC: each uses few literals, so that the   *)
(* structure, the strings and the numbers are explored each in full.       *)
(***************************************************************************)
EXTENDS HolmesResponse

Key == String(Analysis, TRUE)
Other == String(<<"narrow">>, TRUE)
Cut == String(<<"narrow", "narrow", "pair", "narrow">>, TRUE)
Body(tokens, literals) == [tokens |-> tokens, literals |-> literals]

Strings(runes, length) == UNION {[1 .. n -> runes] : n \in 0 .. length}

\* Nesting and order, with any literal; an analysis repeated, whole and cut.
Structure ==
  {Body(9, {Key, Other, Number(<<"1">>), Word("true"), Word("nul")}),
   Body(10, {Key, Other, String(<<"narrow", "narrow", "narrow", "wide", "narrow">>, TRUE)})}

\* Strings as analysis, whole, cut or broken.
Texts ==
  {Body(6, {Key, String(s, closed)}) :
     s \in Strings({"narrow", "wide", "space", "bad"}, 3) \cup Strings({"narrow", "wide", "hi", "lo"}, 4),
     closed \in BOOLEAN}

\* Names that begin like analysis, or would be it without a rune.
Names == {Body(6, {Other, String(s, TRUE)}) : s \in Strings({"analys", "is", "wide", "hi"}, 3)}

\* Every short number, and longer ones with each part well or badly formed.
Figures ==
  LET parts == {m \o w \o f \o e :
                  m \in {<<>>, <<"-">>, <<"+">>},
                  w \in {<<>>, <<"0">>, <<"1">>, <<"0", "1">>, <<"1", "0">>},
                  f \in {<<>>, <<".">>, <<".", "0">>},
                  e \in {<<>>, <<"e">>, <<"e", "1">>, <<"e", "-">>, <<"e", "+", "0">>}}
  IN {Body(6, {Other, Number(s)}) :
        s \in (parts \cup Strings({"-", "0", "1", ".", "e", "+"}, 3)) \ {<<>>}}

MCInputs == Structure \cup Texts \cup Names \cup Figures

=============================================================================
