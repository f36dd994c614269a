--------------------------- MODULE CandidateEval ---------------------------
(***************************************************************************)
(* rtl/candidate_eval.sv: one candidate through drop, merge, clear,        *)
(* features and score, each unit started by a one-cycle pulse and awaited  *)
(* by its own.  ARCH 0 has the serial units, ARCH 1 the fast ones; with    *)
(* BOARD_REPR 1 the heights of the board come with the job, otherwise a    *)
(* PROFILE state of ARCH 1 derives them.  The two parameters are fixed     *)
(* when the design is built: a behaviour starts with one of Builds and     *)
(* keeps it.  This is the inside of the busy phase that Evaluator leaves   *)
(* open for the lanes and the lookahead.                                   *)
(***************************************************************************)
EXTENDS EvaluatorUnits, ColumnRules, A2Stages

CONSTANTS
    Builds,            \* the <<ARCH, BOARD_REPR>> of the designs
    Boards,            \* the boards of the jobs
    Asked              \* the <<piece, rotation, x>> of the jobs

ASSUME EvalAssumption ==
    /\ Builds \subseteq {0, 1} \X {0, 1}
    /\ Boards \subseteq Normalized
    /\ Asked \subseteq PieceId \X (0 .. 3) \X (0 .. 9)

VARIABLES
    build,             \* <<ARCH, BOARD_REPR>>, never changed
    st,                \* state
    job,               \* board_q, heights_q, piece_q, rot_q, x_q
    cyc,
    go,                \* the start pulse of a unit, high for one cycle
    drop, merge, clear, feat, score,
    out,               \* the output registers
    waited             \* edges since the job was accepted

units == <<drop, merge, clear, feat, score>>
vars == <<build, st, job, cyc, go, units, out, waited>>

ARCH == build[1]
BOARD_REPR == build[2]

NoGo == "none"
ZeroHeights == [x \in Column |-> 0]
NoJob == [rows |-> EMPTY_BOARD, heights |-> ZeroHeights, p |-> 0, r |-> 0, x |-> 0]
ZeroOut == [done |-> FALSE, legal |-> FALSE, y |-> 0, lines |-> 0, next |-> EMPTY_BOARD,
            a |-> 0, q |-> 0, u |-> 0, score |-> 0, cycles |-> 0]

Jobs ==
    {[rows |-> rows, heights |-> IF BOARD_REPR = 1 THEN ColumnHeights(rows) ELSE ZeroHeights,
      p |-> a[1], r |-> a[2], x |-> a[3]] : rows \in Boards, a \in Asked}

(* shape_rom.sv, read from the latched piece and rotation.                  *)
ShapeRom(j) ==
    IF j.r < Len(Rotations[j.p]) THEN [valid |-> TRUE, cells |-> Shape(j.p, j.r)] ELSE NoShape

-----------------------------------------------------------------------------
ScoreReset == [valid |-> FALSE, sum |-> 0]
ScoreEdge(s, start, f, count) ==
    [valid |-> start, sum |-> IF start THEN ScoreSum(PRECISION, f.a, f.q, f.u, count % 8) ELSE s.sum]

Init ==
    /\ build \in Builds
    /\ st = "IDLE" /\ job = NoJob /\ cyc = 0 /\ go = NoGo /\ out = ZeroOut /\ waited = 0
    /\ drop = IF ARCH = 0 THEN DropReset ELSE FastDropReset
    /\ merge = IF ARCH = 0 THEN MergeReset ELSE FastMergeReset
    /\ clear = ClearReset
    /\ feat = IF ARCH = 0 THEN ScanReset ELSE FastScanReset
    /\ score = ScoreReset

(* The edge of every unit with rst low.                                     *)
UnitsEdge ==
    /\ drop' = IF ARCH = 0 THEN DropEdge(drop, go = "drop", job.rows, ShapeRom(job), job.x)
                           ELSE FastDropEdge(drop, go = "drop", job.heights, ShapeRom(job), job.x)
    /\ merge' = IF ARCH = 0 THEN MergeEdge(merge, go = "merge", job.rows, ShapeRom(job), job.x, drop.yo)
                            ELSE FastMergeEdge(merge, go = "merge", job.rows, ShapeRom(job), job.x, drop.yo)
    /\ clear' = ClearEdge(clear, go = "clear", merge.rows)
    /\ feat' = IF ARCH = 0 THEN ScanEdge(feat, go = "feat", clear.rows)
                           ELSE FastScanEdge(feat, go = "feat", clear.rows)
    /\ score' = ScoreEdge(score, go = "score", feat, clear.count)

Quiet == out' = [out EXCEPT !.done = FALSE]

(* An edge in state s to state next, with the start pulse of a unit.        *)
Busy(s, next, pulse) ==
    /\ st = s /\ st' = next /\ go' = pulse
    /\ cyc' = (cyc + 1) % 65536 /\ waited' = waited + 1
    /\ UnitsEdge

-----------------------------------------------------------------------------
Reset ==
    /\ st' = "IDLE" /\ job' = NoJob /\ cyc' = 0 /\ go' = NoGo /\ out' = ZeroOut /\ waited' = 0
    /\ drop' = IF ARCH = 0 THEN DropReset ELSE FastDropReset
    /\ merge' = IF ARCH = 0 THEN MergeReset ELSE FastMergeReset
    /\ clear' = ClearReset
    /\ feat' = IF ARCH = 0 THEN ScanReset ELSE FastScanReset
    /\ score' = ScoreReset

Idle ==
    /\ st = "IDLE" /\ go' = NoGo /\ UnitsEdge /\ Quiet
    /\ UNCHANGED <<st, job, cyc, waited>>

Start(j) ==
    /\ st = "IDLE" /\ st' = "DECODE" /\ go' = NoGo
    /\ job' = j /\ cyc' = 0 /\ waited' = 0
    /\ UnitsEdge /\ Quiet

Decode ==
    /\ Busy("DECODE", IF ARCH = 1 /\ BOARD_REPR = 0 THEN "PROFILE" ELSE "DROP_START", NoGo)
    /\ Quiet /\ UNCHANGED job

Profiling ==
    /\ Busy("PROFILE", "DROP_START", NoGo)
    /\ job' = [job EXCEPT !.heights = ProfileHeights(job.rows)]
    /\ Quiet

DropStart == Busy("DROP_START", "DROP_WAIT", "drop") /\ Quiet /\ UNCHANGED job
DropAwait == ~drop.done /\ Busy("DROP_WAIT", "DROP_WAIT", NoGo) /\ Quiet /\ UNCHANGED job
DropLegal == drop.done /\ drop.legal /\ Busy("DROP_WAIT", "MERGE_START", NoGo) /\ Quiet /\ UNCHANGED job
DropIllegal ==
    /\ drop.done /\ ~drop.legal /\ Busy("DROP_WAIT", "FINISH", NoGo)
    /\ out' = [ZeroOut EXCEPT !.cycles = out.cycles]
    /\ UNCHANGED job

MergeStart == Busy("MERGE_START", "MERGE_WAIT", "merge") /\ Quiet /\ UNCHANGED job
MergeWait ==
    /\ Busy("MERGE_WAIT", IF merge.done THEN "CLEAR_START" ELSE "MERGE_WAIT", NoGo)
    /\ Quiet /\ UNCHANGED job
ClearStart == Busy("CLEAR_START", "CLEAR_WAIT", "clear") /\ Quiet /\ UNCHANGED job
(* Fault: the features start with the compactor still running.              *)
ClearWait_Early ==
    /\ Busy("CLEAR_WAIT", IF clear.step = H-1 THEN "FEAT_START" ELSE "CLEAR_WAIT", NoGo)
    /\ Quiet /\ UNCHANGED job
ClearWait ==
    /\ Busy("CLEAR_WAIT", IF clear.done THEN "FEAT_START" ELSE "CLEAR_WAIT", NoGo)
    /\ Quiet /\ UNCHANGED job
FeatStart == Busy("FEAT_START", "FEAT_WAIT", "feat") /\ Quiet /\ UNCHANGED job
FeatWait ==
    /\ Busy("FEAT_WAIT", IF feat.done THEN "SCORE_START" ELSE "FEAT_WAIT", NoGo)
    /\ Quiet /\ UNCHANGED job
ScoreStart == Busy("SCORE_START", "SCORE_WAIT", "score") /\ Quiet /\ UNCHANGED job
ScoreAwait == ~score.valid /\ Busy("SCORE_WAIT", "SCORE_WAIT", NoGo) /\ Quiet /\ UNCHANGED job
ScoreDone ==
    /\ score.valid /\ Busy("SCORE_WAIT", "FINISH", NoGo)
    /\ out' = [done |-> FALSE, legal |-> TRUE, y |-> drop.yo, lines |-> clear.count % 8,
               next |-> clear.rows, a |-> feat.a, q |-> feat.q, u |-> feat.u, score |-> score.sum,
               cycles |-> out.cycles]
    /\ UNCHANGED job

(* Fault: the reported cycles miss the last edge.                           *)
Finish_ReportsShort ==
    /\ Busy("FINISH", "IDLE", NoGo)
    /\ out' = [out EXCEPT !.done = TRUE, !.cycles = cyc]
    /\ UNCHANGED job
Finish ==
    /\ Busy("FINISH", "IDLE", NoGo)
    /\ out' = [out EXCEPT !.done = TRUE, !.cycles = (cyc + 1) % 65536]
    /\ UNCHANGED job

BusyEdge ==
    \/ Decode \/ Profiling \/ DropStart \/ DropAwait \/ DropLegal \/ DropIllegal
    \/ MergeStart \/ MergeWait \/ ClearStart \/ ClearWait \/ FeatStart \/ FeatWait
    \/ ScoreStart \/ ScoreAwait \/ ScoreDone \/ Finish

Next ==
    /\ Reset \/ Idle \/ (\E j \in Jobs : Start(j)) \/ BusyEdge
    /\ UNCHANGED build

Spec == Init /\ [][Next]_vars

-----------------------------------------------------------------------------
(* What the oracle says of a job: evaluate_candidates with the features its *)
(* profile uses, all zeros for a candidate that is not legal.               *)
IsLegal(j) == ShapeRom(j).valid /\ LandsInside(j.rows, ShapeRom(j).cells, j.x)
Expected(j) ==
    LET e == Evaluate(j.rows, j.p, 10 * j.r + j.x)
    IN IF ~IsLegal(j) THEN [ZeroOut EXCEPT !.done = TRUE]
       ELSE [done |-> TRUE, legal |-> TRUE, y |-> e.y, lines |-> e.lines, next |-> e.next, a |-> e.a,
             q |-> HolesUsed(PRECISION, e.q), u |-> BumpinessUsed(PRECISION, e.u),
             score |-> e.score, cycles |-> 0]

(* Every candidate starts from its own board, whatever the units hold from  *)
(* the candidate before or a reset has cut short: done comes with the       *)
(* oracle's record of the latched job (tb/test_candidate.py check).         *)
ResultIsRule == out.done => [out EXCEPT !.cycles = 0] = Expected(job)

(* busy_o of the units.                                                     *)
DropBusy == IF ARCH = 0 THEN drop.st # "IDLE" ELSE drop.s1
MergeBusy == ARCH = 0 /\ merge.st # "IDLE"
ClearBusy == clear.st # "IDLE"
FeatBusy == IF ARCH = 0 THEN feat.st # "IDLE" ELSE feat.s1

(* A unit is started only when it is idle, which would ignore the pulse     *)
(* otherwise, and pulses done only while the FSM waits for it, which would  *)
(* hang otherwise; an idle evaluator has no unit running.                   *)
UnitsInStep ==
    /\ (go = "drop" => ~DropBusy) /\ (drop.done => st = "DROP_WAIT")
    /\ (go = "merge" => ~MergeBusy) /\ (merge.done => st = "MERGE_WAIT")
    /\ (go = "clear" => ~ClearBusy) /\ (clear.done => st = "CLEAR_WAIT")
    /\ (go = "feat" => ~FeatBusy) /\ (feat.done => st = "FEAT_WAIT")
    /\ (score.valid => st = "SCORE_WAIT")
    /\ (st = "IDLE" => go = NoGo /\ ~DropBusy /\ ~MergeBusy /\ ~ClearBusy /\ ~FeatBusy)

(* The cycles of a job, stage by stage (results/stage_cycles_*.json): the   *)
(* serial descent stops after H - y rows, everything else is fixed.  On the *)
(* real board a legal job takes 277 - y cycles in A0, 40 in A1 with the     *)
(* height cache and 41 without.                                             *)
DropCycles(j) ==
    IF ARCH = 1 THEN 3
    ELSE IF ~GeometryOk(ShapeRom(j), j.x) THEN 4
    ELSE H - PhysicalLanding(j.rows, ShapeRom(j).cells, j.x) + 5
Latency(j) ==
    (IF ARCH = 1 /\ BOARD_REPR = 0 THEN 4 ELSE 3) + DropCycles(j)
        + IF ~IsLegal(j) THEN 0
          ELSE IF ARCH = 0 THEN 6 + 7 + (H + 3) + (W * (H + 1) + 3)
          ELSE 6 + 2 + (H + 3) + 3

(* The evaluator answers in exactly those cycles and reports them, whatever *)
(* it did before (candidate_eval.sv cycles_o; the testbench compares it     *)
(* with the edges it counts), so no state waits for a pulse that is gone.   *)
LatencyContract ==
    /\ out.done => waited = Latency(job) /\ out.cycles = waited
    /\ st # "IDLE" => waited < Latency(job)

(* On the real board the evaluator, the banks of the token pipeline and the *)
(* column twin say the same of a job, the exact features included (the      *)
(* score depends on the profile, the token pipeline has only the exact      *)
(* one), and the reference of the row networks clears the rows they clear:  *)
(* the architectures, model/fast.py and model/compaction.py are             *)
(* interchangeable.                                                         *)
ArchitecturesAgree ==
    out.done /\ IsValidCandidate(job.p, 10 * job.r + job.x) =>
        LET cid == 10 * job.r + job.x
            banks == A2Evaluate(job.rows, ColumnHeights(job.rows), job.p, cid)
            merged == Merged(job.rows, Shape(job.p, job.r), job.x, out.y)
            twin == EvaluateCols(RowsToCols(job.rows), job.p, cid)
        IN /\ banks.legal = out.legal /\ banks.y = out.y /\ banks.lines = out.lines
           /\ banks.next = out.next /\ banks.a = out.a
           /\ twin.legal = out.legal
           /\ out.legal =>
                  /\ banks = [twin EXCEPT !.score = banks.score]
                  /\ CompactPrefix(merged) = CompactFilter(merged)
                  /\ CompactPrefix(merged).rows = out.next
=============================================================================
