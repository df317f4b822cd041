------------------------------- MODULE Escapes --------------------------------
(* What string_helpers.c does to the text of a pattern: escape, and the        *)
(* translation of Python's \uXXXX and \UXXXXXXXX to PCRE2's \x{...}.           *)
(*                                                                             *)
(* "h" and "H" are hexadecimal digits, a small one and F.                      *)
EXTENDS Integers, Sequences, FiniteSetsExt, SequencesExt

Slash == "\\"
HexDigits == {"h", "H"}
Special == {"\\", "(", ")", "?", "#"}

\* Mutant: the backslash is not among the characters to escape.
EscapedButSlash(t) ==
  FlattenSeq([i \in DOMAIN t |-> IF t[i] \in Special \ {Slash} THEN <<Slash, t[i]>> ELSE <<t[i]>>])

module_escape(t) ==
  FlattenSeq([i \in DOMAIN t |-> IF t[i] \in Special THEN <<Slash, t[i]>> ELSE <<t[i]>>])

-----------------------------------------------------------------------------

HexLength(c) == IF c = "U" THEN 8 ELSE 4

\* A u or U at i with all its digits.
UnicodeAt(t, i) ==
  /\ i <= Len(t) /\ t[i] \in {"u", "U"}
  /\ i + HexLength(t[i]) <= Len(t)
  /\ \A k \in i + 1 .. i + HexLength(t[i]) : t[k] \in HexDigits

\* Above 0x10FFFF.
TooLarge(t, i) == t[i] = "U" /\ \E k \in i + 1 .. i + 3 : t[k] = "H"

Braced(t, i) == <<Slash, "x", "{">> \o SubSeq(t, i + 1, i + HexLength(t[i])) \o <<"}">>

\* The end of a comment that starts at i, the end of the text if it is not closed.
CommentEnd(t, i) ==
  LET close == {k \in i + 3 .. Len(t) : t[k] = ")"} IN IF close = {} THEN Len(t) ELSE Min(close)

CommentAt(t, i) == i + 2 <= Len(t) /\ SubSeq(t, i, i + 2) = <<"(", "?", "#">>

\* The backslashes from i on.
RunEnd(t, i) == Min({k \in i .. Len(t) + 1 : k > Len(t) \/ t[k] # Slash})

\* Mutant: every backslash before a u counts, escaped or not.
AnySlash(slashes) == slashes > 0

OpensEscape(slashes) == slashes % 2 = 1

\* The translation, or the error for an escape out of range as its last element.
module_translate_unicode_escapes(t) ==
  LET from[i \in 1..Len(t) + 1] ==
        LET run == RunEnd(t, i)
        IN IF i > Len(t) THEN <<>>
           ELSE IF CommentAt(t, i) THEN
                  SubSeq(t, i, CommentEnd(t, i)) \o from[CommentEnd(t, i) + 1]
           ELSE IF t[i] = Slash /\ OpensEscape(run - i) /\ UnicodeAt(t, run) THEN
                  IF TooLarge(t, run) THEN <<"error">>
                  ELSE SubSeq(t, i, run - 2) \o Braced(t, run)
                         \o from[run + HexLength(t[run]) + 1]
           ELSE IF t[i] = Slash THEN SubSeq(t, i, run - 1) \o from[run]
           ELSE <<t[i]>> \o from[i + 1]
  IN from[1]

-----------------------------------------------------------------------------
(* The reference: a pattern read item by item, an escape or a comment at a     *)
(* time, as a parser of regular expressions does.                              *)

ItemEnd(t, i) ==
  IF CommentAt(t, i) THEN CommentEnd(t, i)
  ELSE IF t[i] = Slash /\ UnicodeAt(t, i + 1) THEN i + 1 + HexLength(t[i + 1])
  ELSE IF t[i] = Slash /\ i < Len(t) THEN i + 1
  ELSE i

Items(t) ==
  LET from[i \in 1..Len(t) + 1] ==
        IF i > Len(t) THEN <<>> ELSE <<i>> \o from[ItemEnd(t, i) + 1]
  IN from[1]

EscapeItems(t) == {i \in Range(Items(t)) : t[i] = Slash /\ UnicodeAt(t, i + 1)}

TranslatedItem(t, i) ==
  IF i \in EscapeItems(t) THEN Braced(t, i + 1) ELSE SubSeq(t, i, ItemEnd(t, i))

Translated(t) == FlattenSeq([k \in DOMAIN Items(t) |-> TranslatedItem(t, Items(t)[k])])
==============================================================================
