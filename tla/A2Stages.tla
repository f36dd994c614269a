------------------------------ MODULE A2Stages ------------------------------
(***************************************************************************)
(* What banks P0..P22 of the token pipeline compute on one token, bank by  *)
(* bank: rtl/drop_merge_pipe.sv, line_clear_pipe.sv with its rank and      *)
(* selection networks (model/compaction.py), features_pipe.sv and          *)
(* score_pipe.sv.  CandidatePipe models the movement of the tokens, this   *)
(* module their payloads.                                                  *)
(***************************************************************************)
EXTENDS GameRules

(* P0 selects the heights under the piece, P1 subtracts its lowest cells,   *)
(* P2 takes the maximum, clamps it and checks the top of the board.         *)
Tile == 0 .. 3
HeightsUnder(heights, cells, x) ==
    [k \in Tile |-> IF k \in Columns(cells) /\ x + k \in Column THEN heights[x + k] ELSE 0]
Differences(selected, cells) ==
    [k \in Tile |-> IF k \in Columns(cells) THEN selected[k] - Bottom(cells, k) ELSE -1]
Clamped(diff) == Max({0} \cup {diff[k] : k \in Tile})
Dropped(heights, cells, x) ==
    LET land == Clamped(Differences(HeightsUnder(heights, cells, x), cells))
        legal == x + Width(cells) <= W /\ land + Height(cells) <= H
    IN [legal |-> legal, y |-> IF legal THEN land ELSE 0]

(* P3: an illegal token carries the zero board from here on.                *)

MergedRows(rows, cells, x, drop) ==
    [r \in Row |-> IF ~drop.legal THEN {}
                   ELSE rows[r] \cup {c \in Column : <<c - x, r - drop.y>> \in cells}]

-----------------------------------------------------------------------------
(* P4..P9: inclusive prefix sums of the keep bits, a stride per bank.       *)

(* Fault: one level of the scan is missing.                                 *)
STRIDES_NoSixteen == <<1, 2, 4, 8>>

STRIDES == <<1, 2, 4, 8, 16>>
Keep(rows) == {s \in Row : rows[s] # FULL_ROW}
LevelZero(keep) == [s \in Row |-> IF s \in keep THEN 1 ELSE 0]
RankLevel(prev, stride) ==
    [s \in Row |-> IF s >= stride THEN (prev[s] + prev[s - stride]) % 32 ELSE prev[s]]
Ranks(keep) == FoldLeft(RankLevel, LevelZero(keep), STRIDES)
ClearedCount(rank) == (H - rank[H-1]) % 32

(* P10 matches sources to destinations; P11 and P12 OR the matched rows, in *)
(* groups of four sources.                                                  *)
Group == 0 .. (H - 1) \div 4
GroupRows(g) == {s \in Row : s \div 4 = g}
Match(keep, rank) == [d \in Row |-> {s \in keep : rank[s] = d + 1}]
Partial(rows, match, d, g) == UNION {rows[s] : s \in match[d] \cap GroupRows(g)}
Compacted(rows, match) == [d \in Row |-> UNION {Partial(rows, match, d, g) : g \in Group}]

(* model/compaction.py, the reference of the two networks: the scan without *)
(* widths, the matrix of matches, the groups of four; and its oracle, the   *)
(* list of survivors padded at the top.                                     *)
PrefixLevel(prev, stride) == [s \in Row |-> prev[s] + IF s >= stride THEN prev[s - stride] ELSE 0]
InclusivePrefix(keep) == FoldLeft(PrefixLevel, LevelZero(keep), STRIDES)
MatchMatrix(keep, ranks) == {m \in Row \X Row : m[2] \in keep /\ ranks[m[2]] = m[1] + 1}
SelectRows(rows, match) ==
    [d \in Row |-> UNION {UNION {rows[s] : s \in {t \in GroupRows(g) : <<d, t>> \in match}} : g \in Group}]
CompactPrefix(rows) ==
    LET ranks == InclusivePrefix(Keep(rows))
    IN [rows |-> SelectRows(rows, MatchMatrix(Keep(rows), ranks)), cleared |-> H - ranks[H-1]]
CompactFilter(rows) == [rows |-> Cleared(rows), cleared |-> Lines(rows)]

-----------------------------------------------------------------------------
(* P13 codes and counts each group of a column, P14 joins the groups, P15   *)
(* forms holes and differences, P16..P19 sum them.                          *)
GroupBits(rows, x, g) == {i \in 0 .. 3 : 4*g + i \in Row /\ x \in rows[4*g + i]}
Code(bits) == Max({0} \cup {i + 1 : i \in bits})

JoinedHeight(code) ==
    LET nonempty == {g \in Group : code[g] # 0}
    IN IF nonempty = {} THEN 0 ELSE 4 * Max(nonempty) + code[Max(nonempty)]
Profiled(rows) ==
    [height |-> [x \in Column |-> JoinedHeight([g \in Group |-> Code(GroupBits(rows, x, g))])],
     occupied |-> [x \in Column |-> MapThenSumSet(LAMBDA g : Cardinality(GroupBits(rows, x, g)), Group) % 32]]
HolesIn(profile) == [x \in Column |-> (profile.height[x] - profile.occupied[x]) % 32]
Steps(height) == [x \in 0 .. W-2 |-> Abs(height[x+1] - height[x]) % 32]

A2Features(rows) ==
    LET profile == Profiled(rows)
    IN [a |-> PipeSum(Padded(profile.height)),
        q |-> PipeSum(Padded(HolesIn(profile))),
        u |-> PipeSum(Padded(Steps(profile.height)))]

-----------------------------------------------------------------------------
(* P20..P22: products by shifts, two partial sums, and the zero score of an *)
(* illegal token; the line count enters with its low three bits.            *)
ScoreBanks(f, lines, legal) ==
    LET l == lines % 8
        pos == (64*l + 8*l + 4*l) - (32*f.a + 16*f.a + 2*f.a + f.a)
        neg == (32*f.q + 4*f.q) + (16*f.u + 2*f.u)
    IN IF legal THEN pos - neg ELSE 0

(* One token from issue to retirement.                                      *)
A2Evaluate(rows, heights, p, cid) ==
    LET cells == Shape(p, RotationOf(cid))
        drop == Dropped(heights, cells, ColumnOf(cid))
        merged == MergedRows(rows, cells, ColumnOf(cid), drop)
        rank == Ranks(Keep(merged))
        next == Compacted(merged, Match(Keep(merged), rank))
        f == A2Features(next)
    IN [legal |-> drop.legal, y |-> drop.y, lines |-> ClearedCount(rank) % 8, next |-> next,
        a |-> f.a, q |-> f.q, u |-> f.u, score |-> ScoreBanks(f, ClearedCount(rank), drop.legal)]
=============================================================================
