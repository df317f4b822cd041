-------------------------------- MODULE Texts ---------------------------------
(* Texts a caller hands to the functions of Templates and Escapes, made up of  *)
(* fragments, one more at a time: a template for a match, or a pattern.        *)
EXTENDS Templates, Escapes

CONSTANTS Matches,             \* the matches a template is expanded for
          TemplateFragments, PatternFragments,
          MaxFragments         \* bound on the fragments of a text

\* Group 0 is the match, the names are those of other groups, the entries of one
\* name stand in the order of their groups, and no name has a brace in it.
IsNamedMatch(m) ==
  /\ DOMAIN m.value \subseteq Nat
  /\ m.value \in [DOMAIN m.value -> Seq(STRING)]
  /\ m.names \in Seq([name : Seq(STRING), group : Groups(m)])
  /\ \A i \in DOMAIN m.names :
       /\ Closing \notin Range(m.names[i].name) /\ ~AllDigits(m.names[i].name)
       /\ \A j \in 1..i - 1 :
            m.names[j].name = m.names[i].name => m.names[j].group < m.names[i].group

ASSUME TextsAssumption ==
  /\ \A m \in Matches : IsNamedMatch(m)
  /\ TemplateFragments \cup PatternFragments \subseteq Seq(STRING)
  /\ \A f \in TemplateFragments : Bad.text \notin Range(f)

VARIABLES role, text, fragments

textVars == <<role, text, fragments>>

TextInit ==
  /\ role \in {"template", "pattern"}
  /\ text = <<>>
  /\ fragments = 0

AddFragment ==
  /\ fragments < MaxFragments
  /\ \E f \in IF role = "template" THEN TemplateFragments ELSE PatternFragments : text' = text \o f
  /\ fragments' = fragments + 1
  /\ UNCHANGED role

TextNext == AddFragment

TextsSpec == TextInit /\ [][TextNext]_textVars

-----------------------------------------------------------------------------

UniqueNames(m) == \A i, j \in DOMAIN m.names : m.names[i].name = m.names[j].name => i = j

\* The group a name stands for: of those that took part, where some did.
GroupOf(m, name) ==
  LET named == {m.names[i].group : i \in {j \in DOMAIN m.names : m.names[j].name = name}}
      tookPart == {g \in named : m.value[g] # Unset}
  IN IF named = {} THEN -1 ELSE IF tookPart = {} THEN Min(named) ELSE Min(tookPart)

\* Whichever way a template goes, four fast paths or re's parser, the result is
\* what re's parser makes of it, errors included; and where a name stands for
\* several groups the fast paths and Match.group both take the one that took
\* part (Match_expand, pcre2.c:1905; resolve_group_key, pcre2.c:353).
ExpandFollowsRe ==
  role = "template" => \A m \in Matches :
    LET index == [name \in DOMAIN groupindex(m) |-> GroupOf(m, name)]
        native == ExpandNatively(m, text)
    IN /\ UniqueNames(m) => Match_expand(m, text) = expand_match_template(m, text)
       /\ native # NotHandled => native = render_template(m, parse_template(m, text, index))
       /\ \A name \in DOMAIN groupindex(m) : resolve_group_key(m, name) = GroupOf(m, name)

\* A template handed to pcre2_substitute in PCRE2's syntax, rewritten by hand or
\* written from the parsed template, is replaced by what re's parser makes of it
\* (pattern_translate_single_replacement, pcre2.c:5151;
\* _pcre2_replacement_from_parsed, pcre.py:303).
ReplacementsMeanTheTemplate ==
  role = "template" => \A m \in {n \in Matches : UniqueNames(n)} :
    LET parsed == parse_template(m, text, groupindex(m))
        rewritten == pattern_translate_single_replacement(m, text)
    IN /\ rewritten # NotHandled => ReplacedBy(m, rewritten) = render_template(m, parsed)
       /\ Bad \notin Range(parsed) =>
            ReplacedBy(m, _pcre2_replacement_from_parsed(parsed)) = render_template(m, parsed)

\* The translation rewrites exactly the \u and \U that a parser of the pattern
\* meets as escapes, outside of comments and of escaped backslashes, and refuses
\* those out of range; and it leaves alone what escape has made
\* (module_translate_unicode_escapes, string_helpers.c:457; module_escape).
\* An escaped parenthesis that ?# follows is not asked about: the code takes it
\* for the start of a comment.
EscapesTranslated ==
  role = "pattern" =>
    LET outOfRange == {i \in EscapeItems(text) : TooLarge(text, i + 1)}
        result == module_translate_unicode_escapes(text)
    IN /\ (\A i \in 2..Len(text) : CommentAt(text, i) => text[i - 1] # Slash) =>
            IF outOfRange # {} THEN result[Len(result)] = "error" ELSE result = Translated(text)
       /\ module_translate_unicode_escapes(module_escape(text)) = module_escape(text)
==============================================================================
