----------------------------- MODULE GTestRegex -----------------------------
(***************************************************************************)
(* googletest's own regular expressions, which death tests and the         *)
(* assertions on them use where <regex.h> is missing: validation, the      *)
(* backtracking matcher, and FullMatch by a pattern with anchors.          *)
(*                                                                         *)
(* A text is a sequence of characters, and "end" is the '\0' after it.     *)
(***************************************************************************)
EXTENDS Integers, Sequences, SequencesExt

CONSTANTS
  Regexes,   \* the syntax trees of the valid regular expressions among
  Texts,     \* the regular expressions to be tried, on
  Subjects   \* these strings

VARIABLES
  regex, str,               \* RE(regex), and what is matched
  is_valid, full_pattern,   \* of the RE
  partial, full,            \* PartialMatch and FullMatch
  trying                    \* what comes next

regexVars == <<regex, str, is_valid, full_pattern, partial, full, trying>>

CharAt(s, i) == IF i <= Len(s) THEN s[i] ELSE "end"

-----------------------------------------------------------------------------
(* Characters                                                              *)

\* All but the back quote.
Punct  == {"^", "-", "!", "\"", "#", "$", "%", "&", "'", "(", ")", "*", "+", ",", ".", "/",
           ":", ";", "<", "=", ">", "?", "@", "[", "\\", "]", "_", "{", "|", "}", "~"}
Digits == {"0", "1", "2", "3", "4", "5", "6", "7", "8", "9"}
Repeat == {"?", "*", "+"}

\* Of letters and white space, one of each kind.
Letters == {"a", "d"}
Space   == {" ", "\n"}

IsValidEscape(c) == c \in Punct \cup {"d", "D", "n", "s", "S", "w", "W"}

AtomMatchesChar(escaped, pattern_char, ch) ==
  IF escaped
    THEN CASE pattern_char = "d" -> ch \in Digits
           [] pattern_char = "D" -> ch \notin Digits
           [] pattern_char = "n" -> ch = "\n"
           [] pattern_char = "s" -> ch \in Space
           [] pattern_char = "S" -> ch \notin Space
           [] pattern_char = "w" -> ch \in Letters \cup Digits \cup {"_"}
           [] pattern_char = "W" -> ch \notin Letters \cup Digits \cup {"_"}
           [] OTHER -> pattern_char \in Punct /\ pattern_char = ch
    ELSE (pattern_char = "." /\ ch # "\n") \/ pattern_char = ch

-----------------------------------------------------------------------------

\* Mutant: anything may be repeated, anchors too.
ValidAnyRepeat(s, i, prev_repeatable) ==
  /\ ~(s[i] = "^" /\ i > 1)
  /\ ~(s[i] = "$" /\ i < Len(s))
  /\ s[i] \notin {"(", ")", "[", "]", "{", "}", "|"}

\* What may stand at position i, when the token before may be repeated or not.
ValidAt(s, i, prev_repeatable) ==
  /\ ~(s[i] = "^" /\ i > 1)
  /\ ~(s[i] = "$" /\ i < Len(s))
  /\ s[i] \notin {"(", ")", "[", "]", "{", "}", "|"}
  /\ s[i] \in Repeat => prev_repeatable

ValidateRegex(s) ==
  LET valid[i \in 1 .. Len(s) + 2, prev_repeatable \in BOOLEAN] ==
        IF i > Len(s) THEN TRUE
        ELSE IF s[i] = "\\"
          THEN i < Len(s) /\ IsValidEscape(s[i + 1]) /\ valid[i + 2, TRUE]
        ELSE ValidAt(s, i, prev_repeatable) /\ valid[i + 1, s[i] \notin Repeat \cup {"^", "$"}]
  IN  valid[1, FALSE]

\* The fewest and the most times of a repetition.
MinCount(repeat) == IF repeat = "+" THEN 1 ELSE 0

\* Mutant: "?" is "*".
MaxCountStar(repeat, n) == n

MaxCount(repeat, n) == IF repeat = "?" THEN 1 ELSE n

\* MatchRegexAtHead and MatchRepetitionAndRegexAtHead: the regex from position r
\* on matches a prefix of the string from position s on.
MatchRegexAtHead(pattern, subject) ==
  LET match[r \in 1 .. Len(pattern) + 1, s \in 1 .. Len(subject) + 1] ==
        IF r > Len(pattern) THEN TRUE
        ELSE IF pattern[r] = "$" THEN s > Len(subject)
        ELSE LET escaped == pattern[r] = "\\"
                 atom    == IF escaped THEN r + 1 ELSE r
                 fits(i) == AtomMatchesChar(escaped, pattern[atom], subject[i])
                 repeat  == CharAt(pattern, atom + 1)
                 left    == Len(subject) + 1 - s
             IN  IF repeat \in Repeat
                   THEN \E n \in MinCount(repeat) .. MaxCount(repeat, left) :
                          /\ n <= left
                          /\ \A i \in s .. s + n - 1 : fits(i)
                          /\ match[atom + 2, s + n]
                   ELSE s <= Len(subject) /\ fits(s) /\ match[atom + 1, s + 1]
  IN  match

MatchRegexAnywhere(pattern, subject) ==
  LET match == MatchRegexAtHead(pattern, subject)
  IN  IF CharAt(pattern, 1) = "^" THEN match[2, 1]
      ELSE \E s \in 1 .. Len(subject) + 1 : match[1, s]

-----------------------------------------------------------------------------
(* RE                                                                      *)

\* The anchors that are added unless the pattern has that character already.
FullPattern(s) ==
  (IF CharAt(s, 1) # "^" THEN <<"^">> ELSE <<>>) \o s
    \o (IF s = <<>> \/ s[Len(s)] # "$" THEN <<"$">> ELSE <<>>)

REInit ==
  /\ trying = "init"
  /\ is_valid' = ValidateRegex(regex)
  /\ full_pattern' = IF is_valid' THEN FullPattern(regex) ELSE <<>>
  /\ trying' = "match"
  /\ UNCHANGED <<regex, str, partial, full>>

TryMatch ==
  /\ trying = "match"
  /\ partial' = (is_valid /\ MatchRegexAnywhere(regex, str))
  /\ full' = (is_valid /\ MatchRegexAnywhere(full_pattern, str))
  /\ trying' = "done"
  /\ UNCHANGED <<regex, str, is_valid, full_pattern>>

RegexDone == trying = "done" /\ UNCHANGED regexVars

RegexInit ==
  /\ regex \in Texts /\ str \in Subjects
  /\ is_valid = FALSE /\ full_pattern = <<>> /\ partial = FALSE /\ full = FALSE
  /\ trying = "init"

RegexNext == REInit \/ TryMatch \/ RegexDone

-----------------------------------------------------------------------------
(* Properties                                                              *)

\* A syntax tree: whether it is anchored at the head and at the tail, and its
\* units, each an atom and how often it comes.
UnitText(u) == (IF u.escaped THEN <<"\\">> ELSE <<>>) \o <<u.char>>
                 \o (IF u.repeat = "once" THEN <<>> ELSE <<u.repeat>>)
TreeText(t) == (IF t.head THEN <<"^">> ELSE <<>>)
                 \o FoldLeft(LAMBDA text, u : text \o UnitText(u), <<>>, t.units)
                 \o (IF t.tail THEN <<"$">> ELSE <<>>)

\* The tree of each valid text.
Grammar == [s \in {TreeText(t) : t \in Regexes} |-> CHOOSE t \in Regexes : TreeText(t) = s]

Times(repeat, n) ==
  CASE repeat = "once" -> {1} [] repeat = "?" -> {0, 1} [] repeat = "*" -> 0 .. n
    [] repeat = "+" -> 1 .. n

\* The language of a sequence of units: the string is cut into one piece for each
\* unit, of as many characters as the unit allows, which all fit it.
InLanguage(units, s) ==
  \E cut \in [0 .. Len(units) -> 0 .. Len(s)] :
    /\ cut[0] = 0 /\ cut[Len(units)] = Len(s)
    /\ \A k \in DOMAIN units :
         /\ cut[k] - cut[k - 1] \in Times(units[k].repeat, Len(s))
         /\ \A i \in cut[k - 1] + 1 .. cut[k] :
              AtomMatchesChar(units[k].escaped, units[k].char, s[i])

MatchesPart(t, s) ==
  \E i \in 0 .. Len(s) : \E j \in i .. Len(s) :
    /\ t.head => i = 0
    /\ t.tail => j = Len(s)
    /\ InLanguage(t.units, SubSeq(s, i + 1, j))

\* A pattern whose last character is a '$' that is escaped gets no anchor.
EndsInDollar(t) ==
  /\ ~t.tail /\ t.units # <<>>
  /\ LET u == t.units[Len(t.units)] IN u.escaped /\ u.char = "$" /\ u.repeat = "once"

\* A text is accepted exactly if it is a regular expression of the documented
\* syntax; PartialMatch tells whether it is the expression for a part of the
\* string, and FullMatch for the string as a whole, unless it ends in "\$".  What
\* is not accepted matches nothing.
RegexRight ==
  trying = "done" =>
    /\ is_valid <=> regex \in DOMAIN Grammar
    /\ ~is_valid => ~partial /\ ~full
    /\ is_valid =>
         LET t == Grammar[regex]
         IN  /\ partial <=> MatchesPart(t, str)
             /\ ~EndsInDollar(t) => (full <=> InLanguage(t.units, str))
=============================================================================
