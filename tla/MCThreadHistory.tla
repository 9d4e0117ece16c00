--------------------------- MODULE MCThreadHistory ---------------------------
EXTENDS ThreadHistory

\* One rune; two runes.
MCPlain == {<<1>>}
MCLong == {<<1>>, <<2, 1>>}
=============================================================================
