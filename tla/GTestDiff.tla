----------------------------- MODULE GTestDiff -----------------------------
(***************************************************************************)
(* The difference that a failed equality shows of two values of several    *)
(* lines: the edits that lead from one to the other, then the hunks of     *)
(* CreateUnifiedDiff, one after the other.                                 *)
(***************************************************************************)
EXTENDS Integers, Sequences, SequencesExt

CONSTANTS
  DiffInputs   \* left and right, the lines, and context

VARIABLES
  left, right, context,
  edits,                   \* of CalculateOptimalEdits
  edit_i, l_i, r_i,        \* of CreateUnifiedDiff: how much has been consumed
  hunk, n_suffix,          \* the hunk that is being filled
  hunks,                   \* the hunks printed
  doing

diffVars == <<left, right, context, edits, edit_i, l_i, r_i, hunk, n_suffix, hunks, doing>>

-----------------------------------------------------------------------------
(* CalculateOptimalEdits                                                   *)

\* A line's id is its first place among all the lines.
GetId(line) == SelectInSeq(left \o right, LAMBDA other : other = line)

\* An edit costs 1, and a replacement 1.00001, in units of 0.00001.
EditCost    == 100000
ReplaceCost == 100001

\* Mutant: the last comparison is forgotten.
BestMoveForgets(add, remove, replace) ==
  IF add < remove THEN "add" ELSE IF remove < add THEN "remove" ELSE "match"

\* The move that reaches a cell whose lines differ, from the costs of the cells
\* that an addition, a removal and a replacement come from.
BestMove(add, remove, replace) ==
  IF add < remove /\ add < replace THEN "add"
  ELSE IF remove < add /\ remove < replace THEN "remove"
  ELSE "replace"

Match(l, r) == GetId(left[l]) = GetId(right[r])

\* costs and best_move, for the first l lines and the first r lines.
Costs ==
  LET cost[l \in 0 .. Len(left), r \in 0 .. Len(right)] ==
        IF l = 0 \/ r = 0 THEN EditCost * (l + r)
        ELSE IF Match(l, r) THEN cost[l - 1, r - 1]
        ELSE LET add     == cost[l, r - 1]
                 remove  == cost[l - 1, r]
                 replace == cost[l - 1, r - 1]
             IN  CASE BestMove(add, remove, replace) = "add"     -> add + EditCost
                   [] BestMove(add, remove, replace) = "remove"  -> remove + EditCost
                   [] OTHER -> replace + ReplaceCost
  IN  cost

\* The path to the end, reconstructed from there.
CalculateOptimalEdits ==
  LET cost == Costs
      move(l, r) == IF r = 0 THEN "remove" ELSE IF l = 0 THEN "add"
                    ELSE IF Match(l, r) THEN "match"
                    ELSE BestMove(cost[l, r - 1], cost[l - 1, r], cost[l - 1, r - 1])
      path[l \in 0 .. Len(left), r \in 0 .. Len(right)] ==
        IF l = 0 /\ r = 0 THEN <<>>
        ELSE LET m == move(l, r)
             IN  Append(path[IF m # "add" THEN l - 1 ELSE l, IF m # "remove" THEN r - 1 ELSE r], m)
  IN  path[Len(left), Len(right)]

-----------------------------------------------------------------------------
(* Hunk: removals and additions wait until a common line comes, and then   *)
(* the removals go first.                                                  *)

Empty(left_start, right_start) ==
  [left |-> left_start, right |-> right_start, lines |-> <<>>, removes |-> <<>>, adds |-> <<>>]

FlushEdits(h) == [h EXCEPT !.lines = @ \o h.removes \o h.adds, !.removes = <<>>, !.adds = <<>>]

PushCommon(h, line) ==
  LET flushed == FlushEdits(h)
  IN  [flushed EXCEPT !.lines = Append(@, [edit |-> " ", line |-> line])]
PushRemove(h, line) == [h EXCEPT !.removes = Append(@, [edit |-> "-", line |-> line])]
PushAdd(h, line)    == [h EXCEPT !.adds = Append(@, [edit |-> "+", line |-> line])]

\* removes_ + common_, or adds_ + common_
CountOf(h, side) == Len(SelectSeq(h.lines, LAMBDA x : x.edit \in {" ", side}))

HasEdits(h) == \E i \in DOMAIN FlushEdits(h).lines : FlushEdits(h).lines[i].edit # " "

-----------------------------------------------------------------------------
(* CreateUnifiedDiff                                                       *)

Optimal ==
  /\ doing = "edits"
  /\ edits' = CalculateOptimalEdits
  /\ doing' = "find"
  /\ UNCHANGED <<left, right, context, edit_i, l_i, r_i, hunk, n_suffix, hunks>>

\* The matches that follow the edits consumed so far.
MatchesAhead ==
  LET others == {i \in edit_i + 1 .. Len(edits) : edits[i] # "match"}
  IN  IF others = {} THEN Len(edits) - edit_i
      ELSE (CHOOSE i \in others : \A j \in others : i <= j) - 1 - edit_i

Smaller(a, b) == IF a < b THEN a ELSE b

\* The first edit is found, and the hunk begins with the lines before it.
StartHunk ==
  /\ doing = "find" /\ edit_i < Len(edits)
  /\ edit_i' = edit_i + MatchesAhead /\ l_i' = l_i + MatchesAhead /\ r_i' = r_i + MatchesAhead
  /\ LET prefix == Smaller(l_i', context)
         before == SubSeq(left, l_i' - prefix + 1, l_i')
     IN  hunk' = FoldLeft(PushCommon, Empty(l_i' - prefix + 1, r_i' - prefix + 1), before)
  /\ n_suffix' = 0
  /\ doing' = "hunk"
  /\ UNCHANGED <<left, right, context, edits, hunks>>

\* Mutant: any edit within reach of both contexts is too far away.
CompleteEarly == edit_i = Len(edits) \/ n_suffix >= context

\* The hunk has its suffix, and the next edit is far away.
Complete ==
  \/ edit_i = Len(edits)
  \/ /\ n_suffix >= context
     /\ edit_i + MatchesAhead = Len(edits) \/ MatchesAhead >= context

PushEdit ==
  /\ doing = "hunk" /\ ~Complete
  /\ LET edit == edits[edit_i + 1]
     IN  /\ n_suffix' = IF edit = "match" THEN n_suffix + 1 ELSE 0
         /\ hunk' = CASE edit = "match"   -> PushCommon(hunk, left[l_i + 1])
                      [] edit = "remove"  -> PushRemove(hunk, left[l_i + 1])
                      [] edit = "add"     -> PushAdd(hunk, right[r_i + 1])
                      [] edit = "replace" ->
                           PushAdd(PushRemove(hunk, left[l_i + 1]), right[r_i + 1])
         /\ l_i' = IF edit # "add" THEN l_i + 1 ELSE l_i
         /\ r_i' = IF edit # "remove" THEN r_i + 1 ELSE r_i
  /\ edit_i' = edit_i + 1
  /\ UNCHANGED <<left, right, context, edits, hunks, doing>>

\* PrintTo; a hunk without edits is the end.
PrintHunk ==
  /\ doing = "hunk" /\ Complete
  /\ IF HasEdits(hunk) THEN hunks' = Append(hunks, FlushEdits(hunk)) /\ doing' = "find"
                       ELSE doing' = "done" /\ UNCHANGED hunks
  /\ UNCHANGED <<left, right, context, edits, edit_i, l_i, r_i, hunk, n_suffix>>

EndDiff ==
  /\ doing = "find" /\ edit_i = Len(edits)
  /\ doing' = "done"
  /\ UNCHANGED <<left, right, context, edits, edit_i, l_i, r_i, hunk, n_suffix, hunks>>

DiffDone == doing = "done" /\ UNCHANGED diffVars

DiffInit ==
  /\ \E in \in DiffInputs : left = in.left /\ right = in.right /\ context = in.context
  /\ edits = <<>> /\ edit_i = 0 /\ l_i = 0 /\ r_i = 0
  /\ hunk = Empty(1, 1) /\ n_suffix = 0 /\ hunks = <<>>
  /\ doing = "edits"

DiffNext == Optimal \/ StartHunk \/ PushEdit \/ PrintHunk \/ EndDiff \/ DiffDone

-----------------------------------------------------------------------------
(* Properties                                                              *)

Side(h, side)  == LET kept == SelectSeq(h.lines, LAMBDA x : x.edit \in {" ", side})
                  IN  [i \in DOMAIN kept |-> kept[i].line]
LeftEnd(n)     == IF n = 0 THEN 0 ELSE hunks[n].left + CountOf(hunks[n], "-") - 1
RightEnd(n)    == IF n = 0 THEN 0 ELSE hunks[n].right + CountOf(hunks[n], "+") - 1

\* The lines of left and right between hunk n - 1 and hunk n, or after all.
LeftGap(n)  == SubSeq(left, LeftEnd(n - 1) + 1, IF n > Len(hunks) THEN Len(left) ELSE hunks[n].left - 1)
RightGap(n) == SubSeq(right, RightEnd(n - 1) + 1, IF n > Len(hunks) THEN Len(right) ELSE hunks[n].right - 1)

Leading(lines) == IF \E i \in DOMAIN lines : lines[i].edit # " "
                    THEN SelectInSeq(lines, LAMBDA x : x.edit # " ") - 1 ELSE Len(lines)

\* Putting the hunks in the place of the lines that their headers name turns left
\* into right, and back: what a hunk keeps and removes stands in left from its
\* start on, what it keeps and adds in right, and what is between the hunks is the
\* same.
Applies ==
  /\ \A n \in DOMAIN hunks :
       /\ Side(hunks[n], "-") = SubSeq(left, hunks[n].left, LeftEnd(n))
       /\ Side(hunks[n], "+") = SubSeq(right, hunks[n].right, RightEnd(n))
       /\ LeftEnd(n - 1) < hunks[n].left /\ RightEnd(n - 1) < hunks[n].right
  /\ \A n \in 1 .. Len(hunks) + 1 : LeftGap(n) = RightGap(n)

\* A hunk shows as many lines around its edits as context asks for, or as there
\* are, and no more; it has no stretch of unchanged lines as long as two contexts,
\* and every removal comes before the additions that it stands with.
InContext ==
  \A n \in DOMAIN hunks :
    LET lines == hunks[n].lines
    IN  /\ Leading(lines) = Smaller(context, Leading(lines) + Len(LeftGap(n)))
        /\ Leading(Reverse(lines)) = Smaller(context, Leading(Reverse(lines)) + Len(LeftGap(n + 1)))
        /\ \A i \in 1 .. Len(lines) - 1 : ~(lines[i].edit = "+" /\ lines[i + 1].edit = "-")
        /\ \A i \in 1 .. Len(lines) - 2 * context + 1 :
             \E j \in i .. i + 2 * context - 1 : lines[j].edit # " "

UnifiedDiffRight == doing = "done" => Applies /\ InContext

\* The fewest edits: the distance of Wagner and Fischer.
EditDistance(l, r) ==
  LET d[i \in 0 .. Len(l), j \in 0 .. Len(r)] ==
        IF i = 0 \/ j = 0 THEN i + j
        ELSE IF l[i] = r[j] THEN d[i - 1, j - 1]
        ELSE 1 + Smaller(d[i - 1, j - 1], Smaller(d[i - 1, j], d[i, j - 1]))
  IN  d[Len(l), Len(r)]

\* "Returns the optimal edits to go from 'left' to 'right'.  All edits cost the
\* same": there are no fewer of them that would do.
EditsOptimal ==
  doing # "edits" => Len(SelectSeq(edits, LAMBDA e : e # "match")) = EditDistance(left, right)
=============================================================================
