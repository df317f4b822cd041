------------------------------ MODULE Templates -------------------------------
(* The templates of Match.expand and of a substitution.  pcre2.c reads the     *)
(* common ones itself, in four fast paths and a translation to PCRE2's own     *)
(* replacement syntax, and leaves the rest to the parser of the standard       *)
(* library's re, which says what every template means.                         *)
(*                                                                             *)
(* A template is a sequence of characters.  A match has the values of its      *)
(* groups, 0 to its number of groups, and the name table of its pattern, in    *)
(* the order PCRE2 keeps it.                                                   *)
EXTENDS Integers, Sequences, FiniteSetsExt, SequencesExt

CONSTANTS MaxTokens,   \* MATCH_EXPAND_MAX_TOKENS, 8 in the code
          NameLimit    \* the longest name the fast paths read, 128 in the code

ASSUME TemplatesAssumption == MaxTokens \in Nat \ {0} /\ NameLimit \in Nat \ {0}

Backslash == "\\"
Opening == "{"
Closing == "}"
Digit == <<"0", "1", "2", "3", "4", "5", "6", "7", "8", "9">>
Digits == {"0", "1", "2", "3", "4", "5", "6", "7", "8", "9"}
OctalDigits == Digits \ {"8", "9"}
Value == [c \in Digits |-> CHOOSE n \in 0..9 : Digit[n + 1] = c]

NotHandled == <<"not handled">>
Failed == <<"error">>
Unset == <<"unset">>

Groups(m) == DOMAIN m.value \ {0}
ValueOf(m, g) == IF m.value[g] = Unset THEN <<>> ELSE m.value[g]

\* The first place of c in t from i on, 0 where there is none.
FindChar(t, c, i) ==
  LET at == {j \in i..Len(t) : t[j] = c} IN IF at = {} THEN 0 ELSE Min(at)

NoMore(t, c, i) == FindChar(t, c, i) = 0
AllDigits(name) == Range(name) \subseteq Digits
NumberOf(name) == FoldLeft(LAMBDA n, c : 10 * n + Value[c], 0, name)

\* The number as text.
Decimal(n) ==
  LET write[k \in 0..n] ==
        IF k < 10 THEN <<Digit[k + 1]>> ELSE write[k \div 10] \o <<Digit[(k % 10) + 1]>>
  IN write[n]

-----------------------------------------------------------------------------
(* Names.  A name stands for several groups where the pattern allows           *)
(* duplicate names.                                                            *)

EntriesNamed(m, name) == {i \in DOMAIN m.names : m.names[i].name = name}
GroupsAt(m, entries) == {m.names[i].group : i \in entries}

groupindex(m) ==
  [name \in {entry.name : entry \in Range(m.names)} |-> Min(GroupsAt(m, EntriesNamed(m, name)))]

\* The first of the groups that took part in the match, or the first of all.
\* Mutant: the first of all, whichever took part.
FirstNamed(m, entries) == m.names[Min(entries)].group

FirstThatTookPart(m, entries) ==
  LET took == {i \in entries : m.value[m.names[i].group] # Unset}
  IN m.names[Min(IF took = {} THEN entries ELSE took)].group

match_expand_resolve_ascii_name(m, name) ==
  LET entries == EntriesNamed(m, name)
  IN IF entries = {} THEN -1 ELSE FirstThatTookPart(m, entries)

\* Match.group(name): by the mapping where its group took part, else by the table.
resolve_group_key(m, name) ==
  IF name \in DOMAIN groupindex(m) /\ m.value[groupindex(m)[name]] # Unset
  THEN groupindex(m)[name]
  ELSE match_expand_resolve_ascii_name(m, name)

-----------------------------------------------------------------------------
(* Match.expand.  A token is the part of the template before place "end" that  *)
(* starts at the backslash "slash" and stands for a group, or, as group -1,    *)
(* for a backslash.                                                            *)

NoToken == [slash |-> 0, end |-> 0, group |-> -2]
Token(slash, end, group) == [slash |-> slash, end |-> end, group |-> group]

\* The text with the tokens replaced.
Assembled(m, t, tokens) ==
  LET step(acc, token) ==
        [out |-> acc.out \o SubSeq(t, acc.from, token.slash - 1)
                   \o (IF token.group = -1 THEN <<Backslash>> ELSE ValueOf(m, token.group)),
         from |-> token.end]
      last == FoldLeft(step, [out |-> <<>>, from |-> 1], tokens)
  IN last.out \o SubSeq(t, last.from, Len(t))

\* A single reference is rendered only for a group the match has.
match_expand_render_reference(m, t, token) ==
  IF token.group \in DOMAIN m.value THEN Assembled(m, t, <<token>>) ELSE NotHandled

\* Mutant: a digit after the reference is taken for text.
SingleDigitAnyNext(t, s) == t[s + 1] \in Digits \ {"0"}

\* \1 to \9, and no digit after it.
SingleDigit(t, s) ==
  /\ t[s + 1] \in Digits \ {"0"}
  /\ s + 2 <= Len(t) => t[s + 2] \notin Digits

match_expand_simple_numeric(m, t, s) ==
  IF s < Len(t) /\ SingleDigit(t, s) /\ NoMore(t, Backslash, s + 2)
  THEN match_expand_render_reference(m, t, Token(s, s + 2, Value[t[s + 1]]))
  ELSE NotHandled

\* The name between \g< and >, with the place of the >.
Bracketed(t, s) ==
  LET close == IF Len(t) - s >= 4 /\ t[s + 1] = "g" /\ t[s + 2] = "<"
               THEN FindChar(t, ">", s + 3) ELSE 0
  IN [close |-> close, name |-> SubSeq(t, s + 3, close - 1)]

HasName(b) == b.close # 0 /\ b.name # <<>>

match_expand_explicit_numeric(m, t, s) ==
  LET b == Bracketed(t, s)
  IN IF HasName(b) /\ AllDigits(b.name) /\ NoMore(t, Backslash, b.close + 1)
     THEN match_expand_render_reference(m, t, Token(s, b.close + 1, NumberOf(b.name)))
     ELSE NotHandled

match_expand_explicit_named(m, t, s) ==
  LET b == Bracketed(t, s)
  IN IF HasName(b) /\ Len(b.name) <= NameLimit /\ NoMore(t, Backslash, b.close + 1)
     THEN match_expand_render_reference(
            m, t, Token(s, b.close + 1, match_expand_resolve_ascii_name(m, b.name)))
     ELSE NotHandled

ReferenceToken(m, s, end, group) ==
  IF group \in DOMAIN m.value THEN Token(s, end, group) ELSE NoToken

match_expand_parse_reference(m, t, s) ==
  LET b == Bracketed(t, s)
  IN IF s >= Len(t) THEN NoToken
     ELSE IF t[s + 1] = Backslash THEN Token(s, s + 2, -1)
     ELSE IF t[s + 1] \in Digits THEN
            IF SingleDigit(t, s) THEN ReferenceToken(m, s, s + 2, Value[t[s + 1]]) ELSE NoToken
     ELSE IF ~HasName(b) \/ Len(b.name) > NameLimit THEN NoToken
     ELSE IF AllDigits(b.name) THEN ReferenceToken(m, s, b.close + 1, NumberOf(b.name))
     ELSE ReferenceToken(m, s, b.close + 1, match_expand_resolve_ascii_name(m, b.name))

match_expand_multiple_tokens(m, t, first) ==
  LET tokens[s \in 0..Len(t)] ==
        LET token == match_expand_parse_reference(m, t, s)
        IN IF s = 0 THEN <<>>
           ELSE IF token = NoToken THEN <<NoToken>>
           ELSE <<token>> \o tokens[FindChar(t, Backslash, token.end)]
      found == tokens[first]
  IN IF /\ NoToken \notin Range(found)
        /\ Len(found) <= MaxTokens
        /\ Len(found) >= 2 \/ found[1].group = -1
     THEN Assembled(m, t, found) ELSE NotHandled

\* What pcre2.c renders itself; a template without a backslash is its own text.
ExpandNatively(m, t) ==
  LET slash == FindChar(t, Backslash, 1)
      paths == <<match_expand_simple_numeric(m, t, slash), match_expand_explicit_numeric(m, t, slash),
                 match_expand_explicit_named(m, t, slash), match_expand_multiple_tokens(m, t, slash)>>
      handled == {i \in 1..4 : paths[i] # NotHandled}
  IN IF slash = 0 THEN t
     ELSE IF handled = {} THEN NotHandled
     ELSE paths[Min(handled)]

-----------------------------------------------------------------------------
(* The parser of re (_parser.parse_template): the pieces of a template, each a *)
(* character or a group, a name looked up in index; and what re_compat makes   *)
(* of them.                                                                    *)

Character(c) == [text |-> c, group |-> -1]
Group(g) == [text |-> "", group |-> g]
Bad == Character("bad")

parse_template(m, t, index) ==
  LET digit(i) == i <= Len(t) /\ t[i] \in Digits
      octal(i) == i <= Len(t) /\ t[i] \in OctalDigits
      group(g) == IF g \in DOMAIN m.value THEN Group(g) ELSE Bad
      named(name) == IF AllDigits(name) THEN group(NumberOf(name))
                     ELSE IF name \in DOMAIN index THEN group(index[name])
                     ELSE Bad
      parse[i \in 1..Len(t) + 3] ==
        LET close == FindChar(t, ">", i + 3)
            name == SubSeq(t, i + 3, close - 1)
        IN IF i > Len(t) THEN <<>>
           ELSE IF t[i] # Backslash THEN <<Character(t[i])>> \o parse[i + 1]
           ELSE IF i = Len(t) THEN <<Bad>>
           ELSE IF t[i + 1] = "g" THEN
                  IF i + 2 > Len(t) \/ t[i + 2] # "<" \/ close = 0 \/ name = <<>> THEN <<Bad>>
                  ELSE <<named(name)>> \o parse[close + 1]
           ELSE IF t[i + 1] = "0" THEN
                  <<Character("octal")>>
                    \o parse[i + 2 + (IF ~octal(i + 2) THEN 0 ELSE IF ~octal(i + 3) THEN 1 ELSE 2)]
           ELSE IF octal(i + 1) /\ octal(i + 2) /\ octal(i + 3) THEN
                  IF Value[t[i + 1]] > 3 THEN <<Bad>> ELSE <<Character("octal")>> \o parse[i + 4]
           ELSE IF t[i + 1] \in Digits /\ digit(i + 2) THEN
                  <<group(NumberOf(<<t[i + 1], t[i + 2]>>))>> \o parse[i + 3]
           ELSE IF t[i + 1] \in Digits THEN <<group(Value[t[i + 1]])>> \o parse[i + 2]
           ELSE IF t[i + 1] = Backslash THEN <<Character(Backslash)>> \o parse[i + 2]
           ELSE IF t[i + 1] = "n" THEN <<Character("newline")>> \o parse[i + 2]
           ELSE <<Character(Backslash), Character(t[i + 1])>> \o parse[i + 2]
  IN parse[1]

render_template(m, parsed) ==
  IF Bad \in Range(parsed) THEN Failed
  ELSE FlattenSeq([i \in DOMAIN parsed |->
         IF parsed[i].group = -1 THEN <<parsed[i].text>> ELSE ValueOf(m, parsed[i].group)])

expand_match_template(m, t) ==
  render_template(m, parse_template(m, t, groupindex(m)))

Match_expand(m, t) ==
  IF ExpandNatively(m, t) = NotHandled THEN expand_match_template(m, t) ELSE ExpandNatively(m, t)

-----------------------------------------------------------------------------
(* Replacements, in PCRE2's syntax.                                            *)

\* A replacement with one reference and no $ is rewritten with ${...} for \...
pattern_translate_single_replacement(m, t) ==
  LET s == FindChar(t, Backslash, 1)
      b == Bracketed(t, s)
      named == IF AllDigits(b.name) THEN NumberOf(b.name) \in DOMAIN m.value
               ELSE EntriesNamed(m, b.name) # {}
      rewritten(name, end) ==
        SubSeq(t, 1, s - 1) \o <<"$", Opening>> \o name \o <<Closing>> \o SubSeq(t, end, Len(t))
  IN IF s = 0 \/ s = Len(t) \/ ~NoMore(t, "$", 1) THEN NotHandled
     ELSE IF t[s + 1] \in Digits \ {"0"} THEN
            IF Value[t[s + 1]] \in Groups(m) /\ SingleDigit(t, s) /\ NoMore(t, Backslash, s + 2)
            THEN rewritten(<<t[s + 1]>>, s + 2) ELSE NotHandled
     ELSE IF HasName(b) /\ Len(b.name) <= NameLimit /\ NoMore(t, Backslash, b.close + 1) /\ named THEN
            rewritten(b.name, b.close + 1)
     ELSE NotHandled

\* Mutant: the dollars of the text are left as they are.
DollarsKept(piece) ==
  IF piece.group # -1 THEN <<"$", Opening>> \o Decimal(piece.group) \o <<Closing>>
  ELSE IF piece.text = Backslash THEN <<Backslash, Backslash>>
  ELSE <<piece.text>>

ReplacementOf(piece) ==
  IF piece.group # -1 THEN <<"$", Opening>> \o Decimal(piece.group) \o <<Closing>>
  ELSE IF piece.text \in {Backslash, "$"} THEN <<piece.text, piece.text>>
  ELSE <<piece.text>>

_pcre2_replacement_from_parsed(parsed) ==
  FlattenSeq([i \in DOMAIN parsed |-> ReplacementOf(parsed[i])])

\* PCRE2's reading of a replacement (PCRE2_SUBSTITUTE_EXTENDED, UNSET_EMPTY);
\* pcre never writes a reference without braces.
ReplacedBy(m, r) ==
  LET read[i \in 1..Len(r) + 2] ==
        LET close == FindChar(r, Closing, i)
            name == SubSeq(r, i + 2, close - 1)
            group == IF AllDigits(name) THEN NumberOf(name)
                     ELSE match_expand_resolve_ascii_name(m, name)
        IN IF i > Len(r) THEN <<>>
           ELSE IF r[i] \notin {Backslash, "$"} THEN <<r[i]>> \o read[i + 1]
           ELSE IF i = Len(r) THEN Failed
           ELSE IF r[i] = Backslash THEN <<r[i + 1]>> \o read[i + 2]
           ELSE IF r[i + 1] = "$" THEN <<"$">> \o read[i + 2]
           ELSE IF r[i + 1] # Opening \/ close = 0 \/ group \notin DOMAIN m.value THEN Failed
           ELSE ValueOf(m, group) \o read[close + 1]
  IN read[1]
==============================================================================
