----------------------------- MODULE MC_Coreutils -----------------------------
EXTENDS Coreutils

MCNames == {"a.c", "b"}
MCData == {"d1", "d2"}

\* The characters of each name and -name pattern.
MCNameChars ==
  [s \in {"a.c", "b", "*.c", "b*"} |->
     CASE s = "a.c" -> <<"a", ".", "c">>
       [] s = "b"   -> <<"b">>
       [] s = "*.c" -> <<"*", ".", "c">>
       [] s = "b*"  -> <<"b", "*">>]

\* find expressions: none, one -name with a pattern, with the empty name,
\* with its value missing, and an unknown key.
MCExprLists ==
  { <<>>, <<"-name", "*.c">>, <<"-name", "b*">>, <<"-name", "">>,
    <<"-name">>, <<"-name", "*.c", "-name">>, <<"-type", "f">> }
=============================================================================
