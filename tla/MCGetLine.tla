----------------------------- MODULE MCGetLine -----------------------------
(* Constants for the runs of GetLine.                                      *)
EXTENDS GetLine

CONSTANTS a, b

TextsUpTo(n) == UNION {[1 .. k -> Character] : k \in 0 .. n}
AllTexts == TextsUpTo(7)
\* "\n\n" of HokuyoController is two of the same; the library has none like the last.
AllDelims == {<<>>, <<a>>, <<b, b>>, <<a, a, a>>, <<a, b>>}
OldText == <<b, a, b>>
=============================================================================
