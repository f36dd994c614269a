---------------------------- MODULE SearchEngine ----------------------------
(***************************************************************************)
(* src/rtl/search_pipeline.sv with src/rtl/best_reducer.sv: the A2 search, *)
(* which enumerates the dense candidates of a request into candidate_pipe  *)
(* and keeps the running best of the tokens that come out.  Operators on   *)
(* the registers, for SearchPipeline (any environment that respects the    *)
(* start/done interface) and TetrisA2 (the core as that environment).      *)
(*                                                                         *)
(* m_ready is the constant 1 here, so s_ready is ~rst and every visible    *)
(* token retires on the edge that sees it.                                 *)
(***************************************************************************)
EXTENDS CandidatePipe

VARIABLES
    active,      \* a search is running (busy_o)
    j,           \* dense index of the next candidate to issue
    n_q,         \* latched dense candidate count N
    done,        \* done_o
    issued, retired,   \* issued_o, retired_o
    best         \* best_valid_o, best_score_o, best_id_o, best_y_o

searchVars == <<bank, active, j, n_q, done, issued, retired, best>>

SearchTypeOK ==
    /\ PipeTypeOK
    /\ active \in BOOLEAN /\ done \in BOOLEAN
    /\ j \in Nat /\ n_q \in Nat /\ issued \in Nat /\ retired \in 0 .. issued
    /\ best \in Best

SearchInit ==
    /\ PipeInit
    /\ active = FALSE /\ done = FALSE
    /\ j = 0 /\ n_q = 0 /\ issued = 0 /\ retired = 0
    /\ best = NoBest

-----------------------------------------------------------------------------
AcceptStart(start) == ~active /\ start

(* s_valid and s_last                                                       *)
Issuing == active /\ j < n_q
(* Fault: s_last compares with N instead of N-1.                            *)
IsLast_OffByOne == j = n_q

IsLast == j = n_q - 1

Retiring == MValid(FALSE)
LastRetiring == Retiring /\ bank[LastBank].last

(* Fault: a new search keeps the best of the last one.                      *)
Reduced_NoClear(start) ==
    IF Retiring THEN Take(best, Deliver(bank[LastBank])) ELSE best

(* Fault: done gates take, so the candidate that ends the search is lost.   *)
Reduced_SkipsLast(start) ==
    IF AcceptStart(start) THEN NoBest
    ELSE IF Retiring /\ ~LastRetiring THEN Take(best, Deliver(bank[LastBank]))
    ELSE best

(* best_reducer: clear has priority over take.                              *)
Reduced(start) ==
    IF AcceptStart(start) THEN NoBest
    ELSE IF Retiring THEN Take(best, Deliver(bank[LastBank]))
    ELSE best

(* Fault: done_o stays up until the next start.                             *)
SearchEdge_StickyDone(start, ctx, count) ==
    /\ PipeEdge(FALSE, TRUE, IF Issuing THEN Issue(ctx, j, IsLast) ELSE Bubble, ctx)
    /\ active' = (~LastRetiring /\ (active \/ AcceptStart(start)))
    /\ done' = (LastRetiring \/ (done /\ ~AcceptStart(start)))
    /\ n_q' = IF AcceptStart(start) THEN count ELSE n_q
    /\ j' = IF Issuing THEN j + 1 ELSE IF AcceptStart(start) THEN 0 ELSE j
    /\ issued' = IF Issuing THEN issued + 1
                 ELSE IF AcceptStart(start) THEN 0 ELSE issued
    /\ retired' = IF Retiring THEN retired + 1
                  ELSE IF AcceptStart(start) THEN 0 ELSE retired
    /\ best' = Reduced(start)

(* One clock edge with rst low.  Where the code assigns a register twice on *)
(* one edge the later assignment stands: issue over start for j and issued, *)
(* retirement over start for retired and active.                            *)
SearchEdge(start, ctx, count) ==
    /\ PipeEdge(FALSE, TRUE, IF Issuing THEN Issue(ctx, j, IsLast) ELSE Bubble, ctx)
    /\ active' = (~LastRetiring /\ (active \/ AcceptStart(start)))
    /\ done' = LastRetiring
    /\ n_q' = IF AcceptStart(start) THEN count ELSE n_q
    /\ j' = IF Issuing THEN j + 1 ELSE IF AcceptStart(start) THEN 0 ELSE j
    /\ issued' = IF Issuing THEN issued + 1
                 ELSE IF AcceptStart(start) THEN 0 ELSE issued
    /\ retired' = IF Retiring THEN retired + 1
                  ELSE IF AcceptStart(start) THEN 0 ELSE retired
    /\ best' = Reduced(start)

(* Fault: reset stops the search but not the pipeline.                      *)
SearchReset_KeepsBanks ==
    /\ UNCHANGED bank
    /\ active' = FALSE /\ done' = FALSE
    /\ j' = 0 /\ n_q' = 0 /\ issued' = 0 /\ retired' = 0
    /\ best' = NoBest

(* One clock edge with rst high.                                            *)
SearchReset ==
    /\ PipeEdge(TRUE, TRUE, Bubble, [piece |-> NoRequest, heights |-> NoRequest, board |-> NoRequest])
    /\ active' = FALSE /\ done' = FALSE
    /\ j' = 0 /\ n_q' = 0 /\ issued' = 0 /\ retired' = 0
    /\ best' = NoBest
=============================================================================
