------------------------- MODULE MC_UpdateIfChanged -------------------------
(***************************************************************************)
(* Settings texts of up to MaxTextLen characters.  Characters are "a", the *)
(* two newline characters and "e" for a two-byte UTF-8 character (é); a   *)
(* byte is named by its hex value.  Each cfg picks the characters.         *)
(***************************************************************************)
EXTENDS UpdateIfChanged, TLC

MaxTextLen == 2

MCEncoding == [c \in {"a", "CR", "LF", "e"} |->
                 CASE c = "a"  -> <<"61">>
                   [] c = "CR" -> <<"0D">>
                   [] c = "LF" -> <<"0A">>
                   [] c = "e"  -> <<"C3", "A9">>]

\* ASCII texts without a carriage return.
PlainChars == {"a", "LF"}
\* Texts that may contain a carriage return.
CrChars == {"a", "CR", "LF"}
\* Texts that may contain a non-ASCII character.
Utf8Chars == {"a", "e"}
\* Newlines and non-ASCII characters, but no carriage return.
MixedChars == {"a", "LF", "e"}

PlainTexts == SeqOf(PlainChars, MaxTextLen)
CrTexts == SeqOf(CrChars, MaxTextLen)
Utf8Texts == SeqOf(Utf8Chars, MaxTextLen)
MixedTexts == SeqOf(MixedChars, MaxTextLen)

MCEncodingPlain == [c \in PlainChars |-> MCEncoding[c]]
MCEncodingCr == [c \in CrChars |-> MCEncoding[c]]
MCEncodingUtf8 == [c \in Utf8Chars |-> MCEncoding[c]]
MCEncodingMixed == [c \in MixedChars |-> MCEncoding[c]]

=============================================================================
