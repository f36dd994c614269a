---------------------------- MODULE ColumnRules ----------------------------
(***************************************************************************)
(* model/fast.py: the twin of the rules used for long games and the        *)
(* arithmetic the fast datapath follows.  A column is the set of its       *)
(* occupied rows (a bit mask in the code).                                 *)
(***************************************************************************)
EXTENDS GameRules

Columnwise == [Column -> SUBSET Row]
RowsToCols(rows) == [x \in Column |-> {y \in Row : x \in rows[y]}]
ColsToRows(cols) == [y \in Row |-> {x \in Column : y \in cols[x]}]

BitLength(col) == Max({0} \cup {y + 1 : y \in col})
HeightsOf(cols) == [x \in Column |-> BitLength(cols[x])]

(* Delete the rows of full, the highest first, closing each gap.            *)
RemoveRow(col, b) == {y \in col : y < b} \cup {y - 1 : y \in {r \in col : r > b}}

(* Fault: the lowest row first, which moves the positions of the others.    *)
RemoveRows_LowestFirst(col, full) ==
    LET Left[n \in 0 .. H] ==
            IF n = 0 THEN col ELSE IF n-1 \in full THEN RemoveRow(Left[n-1], n-1) ELSE Left[n-1]
    IN Left[H]

RemoveRows(col, full) ==
    LET Left[n \in 0 .. H] ==
            IF n = 0 THEN col ELSE IF H-n \in full THEN RemoveRow(Left[n-1], H-n) ELSE Left[n-1]
    IN Left[H]

(* Landing by exact heights and the shape's lowest cells.                   *)
Landing(heights, cells, x) ==
    Max({0} \cup {heights[x + dx] - Bottom(cells, dx) : dx \in Columns(cells)})

Stacked(cols, cells, x, y) ==
    [c \in Column |-> cols[c] \cup {y + dy : dy \in ColBits(cells, c - x)}]
FullRows(cols) == {y \in Row : \A x \in Column : y \in cols[x]}

FeaturesCols(cols) ==
    LET h == HeightsOf(cols)
    IN [a |-> MapThenSumSet(LAMBDA x : h[x], Column),
        q |-> MapThenSumSet(LAMBDA x : Cardinality((0 .. h[x]-1) \ cols[x]), Column),
        u |-> MapThenSumSet(LAMBDA x : Abs(h[x] - h[x-1]), 1 .. W-1)]

ScoredCols(y, lines, new) == Scored(y, lines, ColsToRows(new), FeaturesCols(new))

(* _place and the body of evaluate_candidates_cols, for a candidate of      *)
(* candidate_ids.                                                           *)
EvaluateCols(cols, p, cid) ==
    LET cells == Shape(p, RotationOf(cid))
        x == ColumnOf(cid)
        y == Landing(HeightsOf(cols), cells, x)
        stacked == Stacked(cols, cells, x, y)
        full == FullRows(stacked)
        new == [c \in Column |-> RemoveRows(stacked[c], full)]
    IN IF y + Height(cells) > H THEN NoMove ELSE ScoredCols(y, Cardinality(full), new)

LegalCols(cols, p) ==
    LET heights == HeightsOf(cols)
    IN Selected(CandidateIds[p],
                {cid \in ToSet(CandidateIds[p]) :
                    LET cells == Shape(p, RotationOf(cid))
                    IN Landing(heights, cells, ColumnOf(cid)) + Height(cells) <= H})

BestMoveFast(rows, p) ==
    FoldLeft(LAMBDA best, cid : KeepHigher(best, cid, EvaluateCols(RowsToCols(rows), p, cid)),
             Nothing, LegalCols(RowsToCols(rows), p))

LowestStackFast(rows, p) ==
    FoldLeft(LAMBDA best, cid : KeepLower(best, cid, EvaluateCols(RowsToCols(rows), p, cid)),
             Nothing, LegalCols(RowsToCols(rows), p))

(* The loop over the second piece runs on the columns of the first move.    *)
Raised(branch, s2) ==
    [count |-> branch.count + 1, best |-> IF branch.count = 0 \/ s2 > branch.best THEN s2 ELSE branch.best]
LeafFast(cols, lines, next) ==
    FoldLeft(LAMBDA branch, cid :
                Raised(branch, EvaluateCols(cols, next, cid).score + Profile(PRECISION).wl * lines),
             [count |-> 0, best |-> 0], LegalCols(cols, next))
BranchFast(root, branch) ==
    [surviving |-> branch.count > 0, leaf_count |-> branch.count, score_s1 |-> root.score,
     score |-> IF branch.count > 0 THEN branch.best ELSE root.score]
FirstMoveFast(root, next) == BranchFast(root, LeafFast(RowsToCols(root.next), root.lines, next))

(* Both winners are kept along the scan: the best survivor, and the best    *)
(* first move for when none survives.                                       *)
KeepHigherS1(best, cid, rec) == KeepBest(rec.score_s1 > best.found.score_s1, best, cid, rec)
KeepBoth(best, cid, rec) ==
    [surv |-> IF rec.surviving THEN KeepHigher(best.surv, cid, rec) ELSE best.surv,
     fallback |-> KeepHigherS1(best.fallback, cid, rec)]
PreferSurvivors(best) == IF best.surv.candidate # NoCandidate THEN best.surv ELSE best.fallback

BestMoveDepth2Fast(rows, p, next) ==
    PreferSurvivors(
        FoldLeft(LAMBDA best, cid :
                    KeepBoth(best, cid, FirstMoveFast(EvaluateCols(RowsToCols(rows), p, cid), next)),
                 [surv |-> Nothing, fallback |-> Nothing], LegalCols(RowsToCols(rows), p)))
=============================================================================
