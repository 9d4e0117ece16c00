--------------------------- MODULE MCSplitSlack ---------------------------
(***************************************************************************)
(* Limit 9, numerals of base 3 and a frame of 1: the prefix takes 3 runes  *)
(* for two parts, 5 for up to eight and 7 beyond, so that an answer of 12  *)
(* runes is split up to four times before prefix and number agree.         *)
(***************************************************************************)
EXTENDS SplitSlack

Over(runes, n) == UNION {[1 .. k -> runes] : k \in 0 .. n}

\* Texts of words and lines, shorter ones with carriage returns, and long ones
\* that repeat a line.
MCTexts ==
  Over({"x", "n"}, 12) \cup Over({"x", "n", "r"}, 8)
    \cup {[i \in 1 .. 26 |-> line[((i - 1) % Len(line)) + 1]] : line \in Over({"x", "n", "r"}, 4) \ {<<>>}}
=============================================================================
