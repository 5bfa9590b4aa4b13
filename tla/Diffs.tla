---------------------------------- MODULE Diffs ----------------------------------
(***************************************************************************)
(* The difference of two texts in the message of a failed EXPECT_EQ():       *)
(* CalculateOptimalEdits and CreateUnifiedDiff of gtest.cc, on sequences of  *)
(* lines.                                                                    *)
(***************************************************************************)
EXTENDS Integers, Sequences, FiniteSets, FiniteSetsExt

(* What one edit costs, in hundred-thousandths *)
One == 100000
Replacing == 100001

(* The cost of turning the first p[1] lines of left into the first p[2] of   *)
(* right, and the last edit of the way that was found best; best knows that  *)
(* of fewer lines.                                                           *)
Best(cost, move) == [cost |-> cost, move |-> move]
BestMove(left, right, p, best) ==
  CASE p[2] = 0 -> Best(p[1] * One, "kRemove")
    [] p[1] = 0 /\ p[2] > 0 -> Best(p[2] * One, "kAdd")
    [] p[1] > 0 /\ p[2] > 0 ->
         IF left[p[1]] = right[p[2]]
         THEN Best(best[<<p[1] - 1, p[2] - 1>>].cost, "kMatch")
         ELSE LET add     == best[<<p[1], p[2] - 1>>].cost
                  remove  == best[<<p[1] - 1, p[2]>>].cost
                  replace == best[<<p[1] - 1, p[2] - 1>>].cost
              IN  CASE add < remove /\ add < replace -> Best(add + One, "kAdd")
                    [] remove < add /\ remove < replace -> Best(remove + One, "kRemove")
                    [] OTHER -> Best(replace + Replacing, "kReplace")
Table(left, right) == (0 .. Len(left)) \X (0 .. Len(right))
BestMoves(left, right) ==
  LET best[p \in Table(left, right)] == BestMove(left, right, p, best) IN best

Before(p, move) == <<IF move = "kAdd" THEN p[1] ELSE p[1] - 1, IF move = "kRemove" THEN p[2] ELSE p[2] - 1>>
CalculateOptimalEdits(left, right) ==
  LET best == BestMoves(left, right)
      path[p \in Table(left, right)] ==
        IF p = <<0, 0>> THEN <<>> ELSE Append(path[Before(p, best[p].move)], best[p].move)
  IN  path[<<Len(left), Len(right)>>]

--------------------------------------------------------------------------------
(* Lines of left, and of right, that the edits before the k-th go over *)
LeftLines(edits, k) == Cardinality({i \in 1 .. k - 1 : edits[i] # "kAdd"})
RightLines(edits, k) == Cardinality({i \in 1 .. k - 1 : edits[i] # "kRemove"})
NextEdit(edits, k) == Min({i \in k .. Len(edits) : edits[i] # "kMatch"} \union {Len(edits) + 1})
Suffix(edits, start, k) ==
  k - 1 - Max({i \in start .. k - 1 : edits[i] # "kMatch"} \union {start - 1})

(* A hunk goes on to the k-th edit unless it has its suffix and the next     *)
(* edit is too far away; a slip: it stops as soon as it has its suffix.      *)
StopsEarly(edits, start, k, context) == Suffix(edits, start, k) >= context
Stops(edits, start, k, context) ==
  /\ Suffix(edits, start, k) >= context
  /\ NextEdit(edits, k) > Len(edits) \/ NextEdit(edits, k) - k >= context
HunkEnd(edits, start, context) ==
  Min({i \in start .. Len(edits) : Stops(edits, start, i, context)} \union {Len(edits) + 1})

(* The marks of lines: one of both texts, and the lines of either *)
Common == " "
OldMarks == {Common, "-"}
NewMarks == {Common, "+"}

(* Between lines that match, what goes before what comes                     *)
Flushed(hunk) == hunk.lines \o hunk.removes \o hunk.adds
Pushed(hunk, edit, old, new) ==
  IF edit = "kMatch" THEN [lines |-> Append(Flushed(hunk), <<Common, old>>), removes |-> <<>>, adds |-> <<>>]
  ELSE [hunk EXCEPT !.removes = IF edit = "kAdd" THEN @ ELSE Append(@, <<"-", old>>),
                    !.adds = IF edit = "kRemove" THEN @ ELSE Append(@, <<"+", new>>)]
(* After some lines, those of the edits from start up to end                 *)
Shown(lines, edits, left, right, start, end) ==
  LET hunk[k \in start .. end] ==
        IF k = start THEN [lines |-> lines, removes |-> <<>>, adds |-> <<>>]
        ELSE Pushed(hunk[k - 1], edits[k - 1], left[LeftLines(edits, k - 1) + 1], right[RightLines(edits, k - 1) + 1])
  IN  Flushed(hunk[end])

Marked(lines, marks) == Cardinality({i \in DOMAIN lines : lines[i][1] \in marks})
HunkAt(edits, left, right, start, end, context) ==
  LET l == LeftLines(edits, start)
      r == RightLines(edits, start)
      prefix == IF l < context THEN l ELSE context
      lines == Shown([i \in 1 .. prefix |-> <<Common, left[l - prefix + i]>>], edits, left, right, start, end)
  IN  [left_start |-> l - prefix + 1, right_start |-> r - prefix + 1, lines |-> lines,
       left_length |-> Marked(lines, OldMarks), right_length |-> Marked(lines, NewMarks)]

CreateUnifiedDiff(left, right, context) ==
  LET edits == CalculateOptimalEdits(left, right)
      hunks[k \in 1 .. Len(edits) + 1] ==
        LET start == NextEdit(edits, k)
            end == HunkEnd(edits, start, context)
        IN  IF start > Len(edits) THEN <<>>
            ELSE <<HunkAt(edits, left, right, start, end, context)>> \o hunks[end]
  IN  hunks[1]

--------------------------------------------------------------------------------
(* The lines of one kind say what the lines of text from first on say.       *)
Says(lines, marks, text, first) ==
  \A i \in DOMAIN lines :
    lines[i][1] \in marks => lines[i][2] = text[first - 1 + Marked(SubSeq(lines, 1, i), marks)]
(* The hunks make the new text of the old one: each has the lines of both     *)
(* that it says, with an edit among them, and between two of them, which do   *)
(* not overlap, the texts agree.                                             *)
Patches(hunks, old, new) ==
  LET OldEnd(k) == IF k = 0 THEN 0 ELSE hunks[k].left_start + hunks[k].left_length - 1
      NewEnd(k) == IF k = 0 THEN 0 ELSE hunks[k].right_start + hunks[k].right_length - 1
      OldStart(k) == IF k > Len(hunks) THEN Len(old) + 1 ELSE hunks[k].left_start
      NewStart(k) == IF k > Len(hunks) THEN Len(new) + 1 ELSE hunks[k].right_start
  IN  /\ \A k \in 1 .. Len(hunks) :
           /\ hunks[k].left_length = Marked(hunks[k].lines, OldMarks) /\ Says(hunks[k].lines, OldMarks, old, OldStart(k))
           /\ hunks[k].right_length = Marked(hunks[k].lines, NewMarks) /\ Says(hunks[k].lines, NewMarks, new, NewStart(k))
           /\ \E i \in DOMAIN hunks[k].lines : hunks[k].lines[i][1] # Common
      /\ \A k \in 0 .. Len(hunks) :
           /\ OldEnd(k) < OldStart(k + 1) /\ NewEnd(k) < NewStart(k + 1)
           /\ SubSeq(old, OldEnd(k) + 1, OldStart(k + 1) - 1) = SubSeq(new, NewEnd(k) + 1, NewStart(k + 1) - 1)
================================================================================
