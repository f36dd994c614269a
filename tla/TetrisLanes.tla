----------------------------- MODULE TetrisLanes -----------------------------
(***************************************************************************)
(* The core with LANES sequential lane players (ARCH = 0 or 1, depth one): *)
(* the lanes run at their own pace, as long as their candidates take, and  *)
(* the core collects their done pulses and reduces their bests.            *)
(***************************************************************************)
EXTENDS LaneEngine

vars == <<coreVars, laneVars>>

ASSUME LanesAssumption == DEPTH = 1

TypeOK == CoreTypeOK /\ LaneTypeOK

Init == CoreInit /\ LanesInit

LaneDone == {k \in Lane : lane[k].done}
LaneBest == [k \in Lane |-> lane[k].best]

Engine == LanesEdge(search_start)

ResetEdge       == CoreReset /\ LanesReset
IdleEdge        == Idle /\ Engine
AcceptEdge(r)   == Accept(r) /\ Engine
CacheEdge       == Cache /\ Engine
SearchStartEdge == SearchStart /\ Engine
SearchWaitEdge  == SearchWait(LaneDone, LaneBest) /\ Engine
ReduceEdge      == Reduce(LaneBest) /\ Engine
FinalizeEdge    == Finalize /\ Engine
HoldEdge        == Hold /\ Engine
ConsumeEdge     == Consume /\ Engine

Next ==
    \/ ResetEdge \/ IdleEdge \/ (\E r \in Request : AcceptEdge(r)) \/ CacheEdge
    \/ SearchStartEdge \/ SearchWaitEdge \/ ReduceEdge \/ FinalizeEdge
    \/ HoldEdge \/ ConsumeEdge

Working ==
    \/ CacheEdge \/ SearchStartEdge \/ SearchWaitEdge \/ ReduceEdge \/ FinalizeEdge

Spec == Init /\ [][Next]_vars /\ WF_vars(Working)

-----------------------------------------------------------------------------
Client == INSTANCE DecisionEngine WITH outstanding <- Outstanding, answer <- Offered

(* The lanes together implement the same engine as one pipeline: whichever  *)
(* lane finishes first, and however the strided shares interleave the ids   *)
(* of tied candidates, the answer is the decision of the rules.             *)
AnswersAreDecisions == Client!Promise

(* Liveness of the same promise: a request the core accepted gets its       *)
(* response, unless a reset cancels it.                                     *)
EveryRequestAnswered == Client!Progress

(* The indices lane k has evaluated when it stands at index n.              *)
ShareBelow(k, n) == {i \in 0 .. n-1 : i % LANES = k}

(* A running lane's best is the winner of its share so far, judged on the   *)
(* request the core holds; the share is never evaluated twice or skipped.   *)
(* When the core reduces, the lanes together have evaluated every candidate *)
(* of the request once, and all are idle: no best changes under REDUCE.     *)
LaneBestOfShare ==
    \A k \in Lane :
        LET l == lane[k]
            done_ == ShareBelow(k, l.j) \cap (0 .. l.count-1)
        IN /\ l.state # "IDLE" =>
                /\ l.board = req_q /\ l.heights = req_q /\ l.count = Count[req_q]
                /\ l.evaluated = Cardinality(done_)
                /\ IsWinner(l.best, {Outcome[req_q][i] : i \in done_})
           /\ state = "REDUCE" =>
                /\ l.state = "IDLE" /\ ~EvBusy(ev[k])
                /\ l.evaluated = Cardinality(ShareBelow(k, Count[req_q]))

(* A done pulse comes only while the core collects pulses, so the ones of   *)
(* lanes that finish early are remembered and none is lost; and a request   *)
(* leaves no lane running behind, also when reset cancelled it.             *)
PulsesCollected ==
    \A k \in Lane :
        /\ lane[k].done => state = "SEARCH_WAIT" /\ k \notin lane_done_seen
        /\ state = "IDLE" => lane[k].state = "IDLE" /\ ~lane[k].ev_start /\ ~EvBusy(ev[k])
=============================================================================
