------------------------------ MODULE TetrisA2 ------------------------------
(***************************************************************************)
(* The core with the pipelined search in lane slot 0 (ARCH = 2): the two   *)
(* state machines step together on every clock edge.  The core alone       *)
(* decides when the search starts and owns the context the pipeline reads. *)
(***************************************************************************)
EXTENDS TetrisCore, SearchEngine

vars == <<coreVars, searchVars>>

(* Bubble is a cleared valid bit and no tag.                                *)
ASSUME A2Assumption == LANES = 1 /\ DEPTH = 1 /\ Bubble \notin Nat

TypeOK == CoreTypeOK /\ SearchTypeOK

Init == CoreInit /\ SearchInit

LaneDone == IF done THEN Lane ELSE {}
LaneBest == [k \in Lane |-> best]

(* The search side of the edge: start_i is the registered search_start.     *)
Engine == SearchEdge(search_start, CoreContext, CandidateCount)

ResetEdge       == CoreReset /\ SearchReset
IdleEdge        == Idle /\ Engine
AcceptEdge(r)   == Accept(r) /\ Engine
CacheEdge       == Cache /\ Engine
SearchStartEdge == SearchStart /\ Engine
SearchWaitEdge  == SearchWait(LaneDone, LaneBest) /\ Engine
ReduceEdge      == Reduce(LaneBest) /\ Engine
FinalizeEdge    == Finalize /\ Engine
HoldEdge        == Hold /\ Engine
ConsumeEdge     == Consume /\ Engine

Next ==
    \/ ResetEdge \/ IdleEdge \/ (\E r \in Request : AcceptEdge(r)) \/ CacheEdge \/ SearchStartEdge
    \/ SearchWaitEdge \/ ReduceEdge \/ FinalizeEdge \/ HoldEdge \/ ConsumeEdge

(* The edges on which the core works: no wire but rst can keep it from them. *)
Working ==
    \/ CacheEdge \/ SearchStartEdge \/ SearchWaitEdge \/ ReduceEdge \/ FinalizeEdge

(* Only the clock is fair: it does not stop.  Nothing is assumed of the     *)
(* client, which may never ask, never consume, or reset at every edge.      *)
Spec == Init /\ [][Next]_vars /\ WF_vars(Working)

-----------------------------------------------------------------------------
Client == INSTANCE DecisionEngine WITH outstanding <- Outstanding, answer <- Offered

(* The core implements the abstract engine: every accepted request is       *)
(* answered once, with the decision of the rules for that request, unless a *)
(* reset cancels it; the answer is held, unchanged, until consumed.         *)
AnswersAreDecisions == Client!Promise

(* Liveness of the same promise: a request the core accepted gets its       *)
(* response, unless a reset cancels it.                                     *)
EveryRequestAnswered == Client!Progress

(* Context ownership (docs/design_a2.md, 3): while any token is in flight   *)
(* the piece, height and board registers keep the values the search was     *)
(* started with, so every token is built from one request.                  *)
OwnedContext ==
    \A i \in InFlight :
        /\ req_q \in Request /\ heights_q = req_q
        /\ bank[i].piece = req_q /\ bank[i].heights = req_q
        /\ i >= MERGE => bank[i].board = req_q

(* The search is started only when it is idle and its pipeline empty        *)
(* (search_pipeline.sv:99), and no done pulse can come when the core does   *)
(* not wait for one: a pulse outside SEARCH_WAIT would be lost.             *)
StartDoneProtocol ==
    /\ search_start => ~active /\ InFlight = {} /\ state = "SEARCH_WAIT"
    /\ active \/ done => state = "SEARCH_WAIT"

Golden == INSTANCE TokenModel
Tags == [i \in Bank |-> IF Valid(i) THEN bank[i].tag ELSE Bubble]

(* The cycle contract: core, search and pipeline together keep the schedule *)
(* of the golden token model, edge by edge, whatever the request's data and *)
(* whatever was reset or answered before: bank i holds the tag the model    *)
(* has there, the last token retires on the model's edge, and the answer    *)
(* comes N + BANKS + 6 cycles after the edge that accepted the request      *)
(* (docs/design_a2.md, 8: D(N) = N + 29 with 23 banks), an invalid one's    *)
(* after 2.                                                                 *)
CycleContract ==
    /\ state \notin {"IDLE", "RESPOND"} /\ req_q \notin Invalid =>
           LET golden == Golden!Simulated(Count[req_q], cyc)
           IN  /\ Tags = golden.pipe
               /\ done <=> cyc = Golden!ReducerDone(Count[req_q])
               /\ state = "REDUCE" => cyc = Golden!CoreReduce(Count[req_q])
               /\ cyc >= Golden!ReducerDone(Count[req_q]) => golden.retired = Count[req_q]
    /\ rsp_valid =>
           cycles_o = IF req_q \in Invalid THEN 2
                      ELSE Golden!DecisionCycles(Count[req_q])
    /\ \A r \in Request \ Invalid : Golden!DecisionCycles(Count[r]) = Golden!Formula(Count[r])

(* A request leaves nothing behind: whenever the core can accept a request  *)
(* the search is idle, its pipeline is empty and no pulse is pending, also  *)
(* after a reset in the middle of a search.                                 *)
QuietWhenIdle ==
    state = "IDLE" => ~active /\ ~done /\ ~search_start /\ InFlight = {} /\ ~rsp_valid
=============================================================================
