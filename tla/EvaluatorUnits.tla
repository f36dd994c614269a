-------------------------- MODULE EvaluatorUnits ---------------------------
(***************************************************************************)
(* The units of the two evaluators, a register record and an edge operator *)
(* each.  First A0: rtl/drop_unit.sv, merge_unit.sv, features.sv, and the  *)
(* row compactor line_clear.sv, which A1 uses too.  A unit latches its     *)
(* inputs on start and raises done for one cycle.  A shape is what         *)
(* shape_rom gives: its cells and whether the rotation exists.             *)
(***************************************************************************)
EXTENDS GameRules

NoShape == [valid |-> FALSE, cells |-> {<<0, 0>>}]
GeometryOk(shape, x) == shape.valid /\ x + Width(shape.cells) <= W

-----------------------------------------------------------------------------
(* drop_unit.sv: one row lower per cycle until the next row collides.       *)
DropReset == [st |-> "IDLE", rows |-> EMPTY_BOARD, shape |-> NoShape, x |-> 0, y |-> H,
              done |-> FALSE, legal |-> FALSE, yo |-> 0]

Hit(u, c) ==
    LET cx == u.x + c[1]
        cy == u.y - 1 + c[2]
    IN cy < 0 \/ cx >= W \/ (cy < H /\ cx \in u.rows[cy])

Landed(u) == u.y = 0 \/ \E c \in u.shape.cells : Hit(u, c)

InBoard(u) == GeometryOk(u.shape, u.x) /\ u.y + Height(u.shape.cells) <= H

DropEdge(u, start, rows, shape, x) ==
    LET s == [u EXCEPT !.done = FALSE]
    IN CASE u.st = "IDLE" ->
              IF start THEN [s EXCEPT !.st = "CHECK", !.rows = rows, !.shape = shape, !.x = x, !.y = H]
                       ELSE s
         [] u.st = "CHECK" ->
              [s EXCEPT !.st = IF GeometryOk(u.shape, u.x) THEN "DESCEND" ELSE "FINISH"]
         [] u.st = "DESCEND" ->
              IF Landed(u) THEN [s EXCEPT !.st = "FINISH"] ELSE [s EXCEPT !.y = u.y - 1]
         [] u.st = "FINISH" ->
              [s EXCEPT !.st = "IDLE", !.done = TRUE, !.legal = InBoard(u),
                        !.yo = IF InBoard(u) THEN u.y ELSE 0]

-----------------------------------------------------------------------------
(* merge_unit.sv: one cell per cycle, in the order of the shape.            *)
CellBefore(c, d) == c[2] < d[2] \/ (c[2] = d[2] /\ c[1] < d[1])
CellsOf(shape) == SetToSortSeq(shape.cells, CellBefore)

(* Every orientation fits the four columns and rows of the ROM, and its     *)
(* order lists the cells.                                                   *)
ASSUME RomAssumption ==
    \A p \in PieceId, r \in 0 .. 3 :
        r < Len(Rotations[p]) =>
            /\ Shape(p, r) \in (SUBSET ((0 .. 3) \X (0 .. 3))) \ {{}}
            /\ {SetToSortSeq(Shape(p, r), CellBefore)[k] : k \in 1 .. 4} = Shape(p, r)

MergeReset == [st |-> "IDLE", shape |-> NoShape, x |-> 0, y |-> 0, k |-> 0,
               done |-> FALSE, rows |-> EMPTY_BOARD]
MergeEdge(u, start, rows, shape, x, y) ==
    LET s == [u EXCEPT !.done = FALSE]
        cell == CellsOf(u.shape)[u.k + 1]
    IN CASE u.st = "IDLE" ->
              IF start THEN [s EXCEPT !.st = "WRITE", !.rows = rows, !.shape = shape,
                                      !.x = x, !.y = y, !.k = 0]
                       ELSE s
         [] u.st = "WRITE" ->
              [s EXCEPT !.rows[u.y + cell[2]] = @ \cup {u.x + cell[1]},
                        !.st = IF u.k = 3 THEN "FINISH" ELSE "WRITE",
                        !.k = (u.k + 1) % 4]
         [] u.st = "FINISH" -> [s EXCEPT !.st = "IDLE", !.done = TRUE]

-----------------------------------------------------------------------------
(* line_clear.sv: the top row of the input leaves each cycle; survivors are *)
(* pushed into the bottom of the output.                                    *)
Push(rows, row) == [y \in Row |-> IF y = 0 THEN row ELSE rows[y-1]]

ClearReset == [st |-> "IDLE", rest |-> EMPTY_BOARD, step |-> 0, count |-> 0,
               done |-> FALSE, rows |-> EMPTY_BOARD]
Scanned(u) ==
    LET s == [u EXCEPT !.rest = Push(u.rest, {}), !.step = (u.step + 1) % 32, !.done = FALSE,
                       !.st = IF u.step = H-1 THEN "FINISH" ELSE "SCAN"]
    IN IF u.rest[H-1] = FULL_ROW THEN [s EXCEPT !.count = (u.count + 1) % 32]
                                 ELSE [s EXCEPT !.rows = Push(u.rows, u.rest[H-1])]
ClearEdge(u, start, rows) ==
    LET s == [u EXCEPT !.done = FALSE]
    IN CASE u.st = "IDLE" ->
              IF start THEN [s EXCEPT !.st = "SCAN", !.rest = rows, !.rows = EMPTY_BOARD,
                                      !.count = 0, !.step = 0]
                       ELSE s
         [] u.st = "SCAN" -> Scanned(u)
         [] u.st = "FINISH" -> [s EXCEPT !.st = "IDLE", !.done = TRUE]

-----------------------------------------------------------------------------
(* features.sv: a cell per cycle, columns from the left and rows from the   *)
(* top, then a column per cycle.                                            *)
ScanReset == [st |-> "IDLE", rows |-> EMPTY_BOARD, sx |-> 0, sy |-> H-1, seen |-> FALSE, rx |-> 0,
              heights |-> [x \in Column |-> 0], a |-> 0, q |-> 0, u |-> 0, done |-> FALSE]

(* Profile 3 saturates the count of holes.                                  *)
HoleCounted(q) == IF PRECISION = 3 /\ q >= 15 THEN q ELSE (q + 1) % 256

CellScanned(f) ==
    LET occupied == f.sx \in f.rows[f.sy]
        last == f.sy = 0
        s == [f EXCEPT !.done = FALSE, !.sy = IF last THEN H-1 ELSE f.sy - 1,
                       !.seen = ~last /\ (f.seen \/ occupied),
                       !.sx = IF last THEN f.sx + 1 ELSE f.sx,
                       !.st = IF last /\ f.sx = W-1 THEN "REDUCE" ELSE "SCAN"]
    IN IF occupied /\ ~f.seen THEN [s EXCEPT !.heights[f.sx] = f.sy + 1]
       ELSE IF f.seen /\ ~occupied THEN [s EXCEPT !.q = HoleCounted(f.q)]
       ELSE s
ColumnReduced(f) ==
    LET step == IF f.rx = 0 \/ PRECISION = 4 THEN 0 ELSE Abs(f.heights[f.rx] - f.heights[f.rx - 1])
    IN [f EXCEPT !.done = FALSE, !.a = (f.a + f.heights[f.rx]) % 256, !.u = (f.u + step) % 256,
                 !.rx = f.rx + 1, !.st = IF f.rx = W-1 THEN "FINISH" ELSE "REDUCE"]

(* Fault: the sums of the last board are not cleared at the start.          *)
ScanEdge_KeepsSums(f, start, rows) ==
    CASE f.st = "IDLE" ->
           IF start THEN [ScanReset EXCEPT !.st = "SCAN", !.rows = rows, !.a = f.a, !.q = f.q, !.u = f.u]
                    ELSE [f EXCEPT !.done = FALSE]
      [] f.st = "SCAN" -> CellScanned(f)
      [] f.st = "REDUCE" -> ColumnReduced(f)
      [] f.st = "FINISH" -> [f EXCEPT !.st = "IDLE", !.done = TRUE]
ScanEdge(f, start, rows) ==
    CASE f.st = "IDLE" ->
           IF start THEN [ScanReset EXCEPT !.st = "SCAN", !.rows = rows]
                    ELSE [f EXCEPT !.done = FALSE]
      [] f.st = "SCAN" -> CellScanned(f)
      [] f.st = "REDUCE" -> ColumnReduced(f)
      [] f.st = "FINISH" -> [f EXCEPT !.st = "IDLE", !.done = TRUE]

-----------------------------------------------------------------------------
(* The units of the A1 evaluator: rtl/drop_fast.sv, merge_fast.sv and       *)
(* features_fast.sv with board_profile.sv.  Each has one or two registered  *)
(* stages after start and takes its inputs from the evaluator's registers.  *)

(* drop_fast.sv: height minus bottom per column, then the clamped maximum.  *)
FastDropReset == [s1 |-> FALSE, ok |-> FALSE, height |-> 0, d |-> [k \in 0 .. 3 |-> 0],
                  done |-> FALSE, legal |-> FALSE, yo |-> 0]
Difference(heights, shape, x, k) ==
    IF ~shape.valid \/ k \notin Columns(shape.cells) THEN -1
    ELSE (IF x + k \in Column THEN heights[x + k] ELSE 0) - Bottom(shape.cells, k)
LandingOf(d) == Max({0} \cup {d[k] : k \in 0 .. 3})

FastDropEdge(u, start, heights, shape, x) ==
    LET legal == u.ok /\ LandingOf(u.d) + u.height <= H
    IN [s1 |-> start, done |-> u.s1,
        ok |-> IF start THEN GeometryOk(shape, x) ELSE u.ok,
        height |-> IF start THEN Height(shape.cells) ELSE u.height,
        d |-> IF start THEN [k \in 0 .. 3 |-> Difference(heights, shape, x, k)] ELSE u.d,
        legal |-> IF u.s1 THEN legal ELSE u.legal,
        yo |-> IF ~u.s1 THEN u.yo ELSE IF legal THEN LandingOf(u.d) ELSE 0]

(* merge_fast.sv: the mask of the four cells in one cycle.                  *)
FastMergeReset == [done |-> FALSE, rows |-> EMPTY_BOARD]
FastMergeEdge(u, start, rows, shape, x, y) ==
    [done |-> start,
     rows |-> IF ~start THEN u.rows
              ELSE [r \in Row |-> rows[r] \cup {c \in Column : <<c - x, r - y>> \in shape.cells}]]

-----------------------------------------------------------------------------
(* board_profile.sv: heights, and the empty cells below them.               *)
ProfileHeights(rows) == [x \in Column |-> Max({0} \cup {y + 1 : y \in {r \in Row : x \in rows[r]}})]
HoleMask(rows, x) == {y \in Row : y < ProfileHeights(rows)[x] /\ x \notin rows[y]}

(* features_fast.sv: stage 1 latches heights, hole counts and differences,  *)
(* stage 2 their sums.  Profile 3 sums holes in the saturating tree,        *)
(* profile 4 has no differences.                                            *)
HoleSum(v) == IF PRECISION = 3 THEN SaturatingSum(v) ELSE FastSum(v)

FastScanReset == [s1 |-> FALSE, heights |-> [x \in Column |-> 0], holes |-> [x \in Column |-> 0],
                  absd |-> [x \in 0 .. W-2 |-> 0], a |-> 0, q |-> 0, u |-> 0, done |-> FALSE]
Counted(f, rows) ==
    LET h == ProfileHeights(rows)
    IN [f EXCEPT !.heights = h,
                 !.holes = [x \in Column |-> Cardinality(HoleMask(rows, x))],
                 !.absd = [x \in 0 .. W-2 |-> IF PRECISION = 4 THEN 0 ELSE Abs(h[x+1] - h[x])]]
Summed(f) ==
    [f EXCEPT !.a = FastSum(Padded(f.heights)), !.q = HoleSum(Padded(f.holes)),
              !.u = FastSum(Padded(f.absd))]
FastScanEdge(f, start, rows) ==
    LET summed == IF f.s1 THEN Summed(f) ELSE f
        loaded == IF start THEN Counted(summed, rows) ELSE summed
    IN [loaded EXCEPT !.s1 = start, !.done = f.s1]
=============================================================================
