----------------------------- MODULE GameRules -----------------------------
(***************************************************************************)
(* The drop-v1.1 rules and the policies as the oracle states them:         *)
(* model/pieces.py, model/game.py (literal descent), model/features.py,    *)
(* model/numeric.py, model/policy.py and model/lookahead.py.  A board     *)
(* gives the occupied columns of each row, bottom row 0 first.             *)
(***************************************************************************)
EXTENDS Integers, Sequences, SequencesExt, FiniteSetsExt, Numeric

CONSTANTS
    W,                 \* columns of the board; 10 in the code
    H,                 \* rows; 20 in the code
    PRECISION          \* numeric profile, see Numeric

ASSUME RulesAssumption == W \in Nat \ {0} /\ H \in Nat \ {0} /\ PRECISION \in 0 .. 7

-----------------------------------------------------------------------------
(* pieces.py: the orientations of the seven pieces and the list of          *)
(* candidates.  rtl/shape_rom.sv and rtl/cand_rom.sv hold tables generated  *)
(* from it (tools/gen_shapes.py).  A shape is its set of cells <<dx, dy>>.  *)
MAX_ROTATIONS == 4
MAX_CANDIDATE_ID == 40
PieceId == 0 .. 6

BASE_CELLS ==
    [p \in PieceId |->
        <<{<<0,0>>, <<1,0>>, <<2,0>>, <<3,0>>},     \* I
          {<<0,0>>, <<1,0>>, <<0,1>>, <<1,1>>},     \* O
          {<<0,0>>, <<1,0>>, <<2,0>>, <<1,1>>},     \* T
          {<<0,0>>, <<1,0>>, <<1,1>>, <<2,1>>},     \* S
          {<<1,0>>, <<2,0>>, <<0,1>>, <<1,1>>},     \* Z
          {<<0,0>>, <<1,0>>, <<2,0>>, <<0,1>>},     \* J
          {<<0,0>>, <<1,0>>, <<2,0>>, <<2,1>>}>>    \* L
        [p + 1]]

Normalise(cells) ==
    LET left == Min({c[1] : c \in cells})
        low == Min({c[2] : c \in cells})
    IN {<<c[1] - left, c[2] - low>> : c \in cells}

(* The orientations in the order they first appear under clockwise turns.   *)
Clockwise(cells) == {<<c[2], -c[1]>> : c \in cells}
Turned[k \in 0 .. MAX_ROTATIONS - 1] ==
    IF k = 0 THEN BASE_CELLS
             ELSE [p \in PieceId |-> Clockwise(Turned[k-1][p])]
Rotations ==
    [p \in PieceId |->
        FoldLeft(LAMBDA out, cells : IF cells \in ToSet(out) THEN out ELSE Append(out, cells),
                 <<>>,
                 [k \in 1 .. MAX_ROTATIONS |-> Normalise(Turned[k-1][p])])]

Shape(p, r) == Rotations[p][r + 1]
Width(s) == Max({c[1] : c \in s}) + 1
Height(s) == Max({c[2] : c \in s}) + 1
Columns(s) == {c[1] : c \in s}                                \* colmask
ColBits(s, dx) == {c[2] : c \in {d \in s : d[1] = dx}}
Bottom(s, dx) == Min(ColBits(s, dx))                          \* for occupied columns

(* Every orientation is four cells of a square of four columns and rows.    *)
ASSUME ShapeAssumption ==
    \A p \in PieceId, r \in 0 .. 3 :
        r < Len(Rotations[p]) =>
            Shape(p, r) \subseteq (0 .. 3) \X (0 .. 3) /\ Cardinality(Shape(p, r)) = 4

RotationOf(cid) == cid \div 10
ColumnOf(cid) == cid % 10
IsValidCandidate(p, cid) ==
    /\ RotationOf(cid) < Len(Rotations[p])
    /\ ColumnOf(cid) + Width(Shape(p, RotationOf(cid))) <= W

(* The loop that keeps the ids of a list that are in keep, in their order.  *)
Selected(ids, keep) ==
    LET Out[n \in 0 .. Len(ids)] ==
            IF n = 0 THEN <<>>
            ELSE IF ids[n] \in keep THEN Append(Out[n-1], ids[n]) ELSE Out[n-1]
    IN Out[Len(ids)]

CandidateIds ==
    [p \in PieceId |->
        Selected([i \in 1 .. MAX_CANDIDATE_ID |-> i - 1],
                 {cid \in 0 .. MAX_CANDIDATE_ID - 1 : IsValidCandidate(p, cid)})]

-----------------------------------------------------------------------------
Row == 0 .. H-1
Column == 0 .. W-1
FULL_ROW == Column
Board == [Row -> SUBSET Column]
Normalized == [Row -> (SUBSET Column) \ {FULL_ROW}]   \* validate_board
EMPTY_BOARD == [y \in Row |-> {}]

NoMove == [legal |-> FALSE]

-----------------------------------------------------------------------------
(* Cells above the board are empty, below the floor and in the walls taken. *)
Fits(rows, cells, x, y) ==
    \A c \in cells :
        /\ x + c[1] \in Column /\ y + c[2] >= 0
        /\ y + c[2] < H => x + c[1] \notin rows[y + c[2]]

(* Fault: the descent tests the row it is in, not the one below.           *)
PhysicalLanding_TestsSameRow(rows, cells, x) ==
    LET Stop[y \in 0 .. H] ==
            IF y > 0 /\ Fits(rows, cells, x, y) THEN Stop[y-1] ELSE y
    IN Stop[H]

PhysicalLanding(rows, cells, x) ==
    LET Stop[y \in 0 .. H] ==
            IF y > 0 /\ Fits(rows, cells, x, y - 1) THEN Stop[y-1] ELSE y
    IN Stop[H]

LandsInside(rows, cells, x) ==
    x + Width(cells) <= W /\ PhysicalLanding(rows, cells, x) + Height(cells) <= H

Merged(rows, cells, x, y) ==
    [r \in Row |-> rows[r] \cup {x + c[1] : c \in {d \in cells : y + d[2] = r}}]

Survivors(rows) ==
    LET Kept[n \in 0 .. H] ==
            IF n = 0 THEN <<>>
            ELSE IF rows[n-1] = FULL_ROW THEN Kept[n-1] ELSE Append(Kept[n-1], rows[n-1])
    IN Kept[H]
Lines(rows) == H - Len(Survivors(rows))
(* Fault: only the lowest full row is removed.                              *)
Cleared_LowestOnly(rows) ==
    LET low == Min({y \in Row : rows[y] = FULL_ROW} \cup {H})
    IN [y \in Row |-> IF y < low THEN rows[y] ELSE IF y < H-1 THEN rows[y+1] ELSE {}]

Cleared(rows) ==
    LET survivors == Survivors(rows)
    IN [y \in Row |-> IF y < Len(survivors) THEN survivors[y+1] ELSE {}]

-----------------------------------------------------------------------------
ColumnHeight(rows, x) == Max({0} \cup {y + 1 : y \in {r \in Row : x \in rows[r]}})
ColumnHeights(rows) == [x \in Column |-> ColumnHeight(rows, x)]

AggregateHeight(rows) == MapThenSumSet(LAMBDA x : ColumnHeight(rows, x), Column)
Holes(rows) ==
    LET heights == ColumnHeights(rows)
    IN Cardinality({c \in Column \X Row : c[2] < heights[c[1]] /\ c[1] \notin rows[c[2]]})
Bumpiness(rows) ==
    LET heights == ColumnHeights(rows)
    IN MapThenSumSet(LAMBDA x : Abs(heights[x] - heights[x-1]), 1 .. W-1)

-----------------------------------------------------------------------------
(* One record of evaluate_candidates: what placing p with candidate cid     *)
(* does.                                                                    *)
Scored(y, lines, next, f) ==
    [legal |-> TRUE, y |-> y, lines |-> lines, next |-> next, a |-> f.a, q |-> f.q, u |-> f.u,
     score |-> ScoreProfile(PRECISION, f.a, f.q, f.u, lines)]
FeaturesOf(rows) == [a |-> AggregateHeight(rows), q |-> Holes(rows), u |-> Bumpiness(rows)]

Evaluate(rows, p, cid) ==
    LET cells == Shape(p, RotationOf(cid))
        x == ColumnOf(cid)
        y == PhysicalLanding(rows, cells, x)
        merged == Merged(rows, cells, x, y)
        next == Cleared(merged)
    IN IF LandsInside(rows, cells, x) THEN Scored(y, Lines(merged), next, FeaturesOf(next)) ELSE NoMove

LegalActions(rows, p) ==
    Selected(CandidateIds[p],
             {cid \in ToSet(CandidateIds[p]) : LandsInside(rows, Shape(p, RotationOf(cid)), ColumnOf(cid))})

(* The scan of every policy keeps the first of the best candidates.         *)
NoCandidate == -1
Nothing == [candidate |-> NoCandidate, found |-> NoMove]
KeepBest(better, best, cid, rec) ==
    IF best.candidate = NoCandidate \/ better THEN [candidate |-> cid, found |-> rec] ELSE best

Higher(e, f) == e.score > f.score
KeepHigher(best, cid, rec) == KeepBest(Higher(rec, best.found), best, cid, rec)
BestMove(rows, p) ==
    FoldLeft(LAMBDA best, cid : KeepHigher(best, cid, Evaluate(rows, p, cid)), Nothing, LegalActions(rows, p))

(* The rows of candidate_table: the legal candidates with their features.   *)
CandidateTable(rows, p) ==
    {LET e == Evaluate(rows, p, cid) IN [id |-> cid, lines |-> e.lines, a |-> e.a, q |-> e.q, u |-> e.u] :
        cid \in ToSet(LegalActions(rows, p))}

(* lowest_stack: the least of <<A, Q, U, candidate>>.                       *)
Lower(e, f) ==
    \/ e.a < f.a
    \/ e.a = f.a /\ e.q < f.q
    \/ e.a = f.a /\ e.q = f.q /\ e.u < f.u
KeepLower(best, cid, rec) == KeepBest(Lower(rec, best.found), best, cid, rec)
LowestStack(rows, p) ==
    FoldLeft(LAMBDA best, cid : KeepLower(best, cid, Evaluate(rows, p, cid)), Nothing, LegalActions(rows, p))

(* lookahead.py: what the second piece makes of each first move.            *)
Branch(root, leaves, next) ==
    LET s2 == {Evaluate(root.next, next, leaf).score : leaf \in ToSet(leaves)}
    IN [surviving |-> leaves # <<>>, leaf_count |-> Len(leaves), score_s1 |-> root.score,
        score |-> IF leaves = <<>> THEN root.score ELSE Max(s2) + Profile(PRECISION).wl * root.lines]
FirstMove(root, next) == Branch(root, LegalActions(root.next, next), next)

(* A first move that leaves the second piece a place comes before all that  *)
(* do not.                                                                  *)
Preferred(e, f) ==
    \/ e.surviving /\ ~f.surviving
    \/ e.surviving = f.surviving /\ Higher(e, f)
KeepPreferred(best, cid, rec) == KeepBest(Preferred(rec, best.found), best, cid, rec)
BestMoveDepth2(rows, p, next) ==
    FoldLeft(LAMBDA best, cid : KeepPreferred(best, cid, FirstMove(Evaluate(rows, p, cid), next)),
             Nothing, LegalActions(rows, p))
=============================================================================
