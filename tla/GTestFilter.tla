---------------------------- MODULE GTestFilter ----------------------------
(***************************************************************************)
(* The language of --gtest_filter.  A text is a sequence of characters; a  *)
(* word that always goes together (DeathTest, DISABLED_) is one of them.   *)
(***************************************************************************)
EXTENDS Naturals, Sequences, FiniteSets, SequencesExt

\* SplitString: the fields between the delimiters, one more than there are of these.
SplitString(text, delimiter) ==
  LET cuts   == {i \in 1 .. Len(text) + 1 : i > Len(text) \/ text[i] = delimiter}
      cut(j) == CHOOSE i \in cuts : Cardinality({c \in cuts : c < i}) = j - 1
  IN [j \in 1 .. Cardinality(cuts) |->
        SubSeq(text, IF j = 1 THEN 1 ELSE cut(j - 1) + 1, cut(j) - 1)]

\* PatternMatchesString, one call for each round of its loop: the pattern from p
\* and the name from n are left, and the last star restarts at rp and rn.
PatternMatchesString(name, pattern) ==
  LET P == Len(pattern) + 1   N == Len(name) + 1
      rounds[r \in (1 .. P) \X (1 .. N) \X (1 .. P) \X (1 .. N + 1)] ==
        LET p == r[1]   n == r[2]   rp == r[3]   rn == r[4] IN
        IF p = P /\ n = N THEN TRUE
        ELSE IF p < P /\ pattern[p] = "*" THEN rounds[<<p + 1, n, p, n + 1>>]
        ELSE IF p < P /\ n < N /\ pattern[p] \in {"?", name[n]}
               THEN rounds[<<p + 1, n + 1, rp, rn>>]
        ELSE IF 1 < rn /\ rn <= N THEN rounds[<<rp, rn, rp, rn>>]
        ELSE FALSE
  IN rounds[<<1, 1, 1, 1>>]

IsGlobPattern(pattern) == \E i \in DOMAIN pattern : pattern[i] \in {"?", "*"}

\* UnitTestFilter::MatchesName
UnitTestFilter(filter, name) ==
  LET patterns == ToSet(SplitString(filter, ":"))
  IN \/ name \in {p \in patterns : ~IsGlobPattern(p)}
     \/ \E p \in patterns : IsGlobPattern(p) /\ PatternMatchesString(name, p)

\* Everything after the first dash is one negative filter, further dashes included.
PositiveAndNegativeUnitTestFilter(filter, name) ==
  LET parts    == SplitString(filter, "-")
      positive == parts[1]
      negative == SubSeq(filter, Len(positive) + 2, Len(filter))
  IN IF Len(parts) = 1 THEN UnitTestFilter(positive, name)
     ELSE /\ UnitTestFilter(IF positive = <<>> THEN <<"*">> ELSE positive, name)
          /\ ~UnitTestFilter(negative, name)

kDeathTestSuiteFilter == <<"*", "DeathTest", ":", "*", "DeathTest", "/", "*">>
kDisableTestFilter    == <<"DISABLED_", "*", ":", "*", "/", "DISABLED_", "*">>

-----------------------------------------------------------------------------
\* What a pattern means: a star stands for any text, a question mark for one
\* character, and the rest for itself.
Denotes(pattern, name) ==
  LET P == Len(pattern) + 1   N == Len(name) + 1
      from[x \in (1 .. P) \X (1 .. N)] ==
        LET p == x[1]   n == x[2] IN
        IF p = P THEN n = N
        ELSE IF pattern[p] = "*" THEN \E k \in n .. N : from[<<p + 1, k>>]
        ELSE n < N /\ pattern[p] \in {"?", name[n]} /\ from[<<p + 1, n + 1>>]
  IN from[<<1, 1>>]

\* What a filter means: a name among the positive patterns, none of the negative.
Selects(filter, name) ==
  LET dash     == SelectInSeq(filter, LAMBDA c : c = "-")
      positive == IF dash = 0 THEN filter ELSE SubSeq(filter, 1, dash - 1)
      Among(patterns) == \E p \in ToSet(SplitString(patterns, ":")) : Denotes(p, name)
  IN /\ Among(positive) \/ dash = 1
     /\ dash = 0 \/ ~Among(SubSeq(filter, dash + 1, Len(filter)))
=============================================================================
