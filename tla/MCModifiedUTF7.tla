--------------------------- MODULE MCModifiedUTF7 ---------------------------
(* Short names over both sides of every boundary of the encoder, longer    *)
(* ones over one rune of each kind, and ill-formed encoded names.          *)
EXTENDS ModifiedUTF7

CONSTANTS MCNameLength, MCForeignLength

UpTo(n, S) == UNION {[1..k -> S] : k \in 0..n}

\* "&", "-", "~", DEL, U+3042 and U+1F600, a pair of surrogates.
Kinds == {38, 45, 126, 127, 12354, 128512}

\* NUL, the ends of printable ASCII, "/", "," and the ends of the code planes.
Edges == {0, 31, 32, 44, 47, 255, 256, 55295, 57344, 65533, 65535, 65536, 1114111}

MCNames   == UpTo(MCNameLength, Kinds) \union UpTo(2, Kinds \union Edges)
\* "&", "-", "A", "3", "!" and "2"
MCForeign == UpTo(MCForeignLength, {38, 45, 65, 51, 33, 50})
              \union {<<38, 50, 68, 48, 45>>, <<38, 50, 68, 51, 99, 65, 45>>}
=============================================================================
