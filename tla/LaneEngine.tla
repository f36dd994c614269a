----------------------------- MODULE LaneEngine -----------------------------
(***************************************************************************)
(* src/rtl/lane_player.sv, LANES times, each around a private evaluator    *)
(* (src/rtl/candidate_eval.sv).  Lane k evaluates the dense indices        *)
(* k, k+LANES, k+2*LANES, ... one after the other and keeps a local best.  *)
(***************************************************************************)
EXTENDS TetrisCore, Evaluator, FiniteSets

VARIABLES
    lane,        \* registers of each lane_player
    ev           \* registers of each lane's evaluator

laneVars == <<lane, ev>>

LaneState == {"IDLE", "NEXT", "EVAL_START", "EVAL_WAIT", "UPDATE", "FINISH"}

Context == Request \cup {NoRequest}

LaneRegs == [state : LaneState, board : Context, heights : Context,
             count : Nat, j : Nat, best : Best, done : BOOLEAN,
             ev_start : BOOLEAN, cand_id_q : Nat, evaluated : Nat, legal : Nat]

(* What an evaluator latches: the lane's context and the dense index.       *)
Job == [board : Context, heights : Context, index : Nat]

EvRegs == [left : 0 .. MaxEval, job : Job, done : BOOLEAN, out : Result]

NoResult == [id |-> 0, legal |-> FALSE, score |-> 0, y |-> 0]

LaneTypeOK ==
    /\ lane \in [Lane -> LaneRegs]
    /\ ev \in [Lane -> EvRegs]

LaneReset ==
    [state |-> "IDLE", board |-> NoRequest, heights |-> NoRequest, count |-> 0,
     j |-> 0, best |-> NoBest, done |-> FALSE, ev_start |-> FALSE,
     cand_id_q |-> 0, evaluated |-> 0, legal |-> 0]

NoJob == [board |-> NoRequest, heights |-> NoRequest, index |-> 0]

LanesInit ==
    /\ lane = [k \in Lane |-> LaneReset]
    /\ ev = [k \in Lane |-> EvReset(NoJob, NoResult)]

(* Fault: reset does not reach the evaluators.                              *)
LanesReset_EvaluatorsRun ==
    /\ lane' = [k \in Lane |-> LaneReset]
    /\ UNCHANGED ev

LanesReset ==
    /\ lane' = [k \in Lane |-> LaneReset]
    /\ ev' = [k \in Lane |-> EvReset(NoJob, NoResult)]

-----------------------------------------------------------------------------
(* The result of a transaction: belongs to no request if the latched board  *)
(* and height cache do not belong together.                                 *)
Corrupt == [id |-> 63, legal |-> TRUE, score |-> 1000000, y |-> 31]

Evaluated(job) ==
    IF job.board = job.heights /\ job.board \in Request /\ job.index < Count[job.board]
    THEN Outcome[job.board][job.index] ELSE Corrupt

(* The pulses done_o and ev_start are low unless the state raises them.     *)
Settled(l) == [l EXCEPT !.done = FALSE, !.ev_start = FALSE]

Started(l, k) ==
    [Settled(l) EXCEPT !.state = "NEXT", !.board = req_q, !.heights = heights_q,
                       !.count = CandidateCount, !.j = k, !.best = NoBest,
                       !.evaluated = 0, !.legal = 0]

(* UPDATE: the finished candidate into the local best, then the next index  *)
(* of this lane's share.                                                    *)
Updated(l, e) ==
    LET c == [e.out EXCEPT !.id = l.cand_id_q]
    IN [Settled(l) EXCEPT !.state = "NEXT", !.j = @ + LANES,
                          !.evaluated = @ + 1,
                          !.legal = IF c.legal THEN @ + 1 ELSE @,
                          !.best = Take(@, c)]

(* cand_rom: the id of the dense index the lane stands at.                  *)
CandId(l) ==
    IF l.board \in Request /\ l.j < Count[l.board] THEN Outcome[l.board][l.j].id ELSE 0

LaneNext(k, start) ==
    LET l == lane[k]
        s == Settled(l)
    IN CASE l.state = "IDLE" -> IF start THEN Started(l, k) ELSE s
         [] l.state = "NEXT" ->
                [s EXCEPT !.state = IF l.j < l.count THEN "EVAL_START" ELSE "FINISH"]
         [] l.state = "EVAL_START" ->
                [s EXCEPT !.state = "EVAL_WAIT", !.ev_start = TRUE, !.cand_id_q = CandId(l)]
         [] l.state = "EVAL_WAIT" ->
                [s EXCEPT !.state = IF ev[k].done THEN "UPDATE" ELSE "EVAL_WAIT"]
         [] l.state = "UPDATE" -> Updated(l, ev[k])
         [] l.state = "FINISH" -> [s EXCEPT !.state = "IDLE", !.done = TRUE]

JobOf(l) == [board |-> l.board, heights |-> l.heights, index |-> l.j]

Starting == {k \in Lane : EvStarting(ev[k], lane[k].ev_start)}

(* One clock edge of every lane and evaluator with rst low.                 *)
LanesEdge(start) ==
    /\ lane' = [k \in Lane |-> LaneNext(k, start)]
    /\ \E t \in [Starting -> Latency] :
           ev' = [k \in Lane |->
                      EvNext(ev[k], lane[k].ev_start, JobOf(lane[k]),
                             IF k \in Starting THEN t[k] ELSE 0, Evaluated(ev[k].job))]
=============================================================================
