--------------------------- MODULE SearchPipeline ---------------------------
(***************************************************************************)
(* The A2 search under the most general environment its start/done         *)
(* interface admits.  Every step is one rising clock edge.  The            *)
(* environment owns the context: it may change it, start a search or hold  *)
(* start low on any edge while the search is idle, and reset at any edge;  *)
(* it leaves the context and start alone while busy_o is high.             *)
(***************************************************************************)
EXTENDS SearchEngine

VARIABLE req_i   \* the request on board_i, heights_i, piece_i and count_i

pipelineVars == <<searchVars, req_i>>

(* Requests the core searches: it never starts one with an invalid piece.   *)
Searchable == Request \ Invalid

PipelineTypeOK == SearchTypeOK /\ req_i \in Searchable

PipelineInit == SearchInit /\ req_i \in Searchable

(* Idle edge: no search runs and none is started.                           *)
RestEdge ==
    /\ ~active
    /\ SearchEdge(FALSE, ContextOf(req_i), Count[req_i])
    /\ req_i' \in Searchable

StartEdge ==
    /\ ~active
    /\ SearchEdge(TRUE, ContextOf(req_i), Count[req_i])
    /\ UNCHANGED req_i

SearchingEdge ==
    /\ active
    /\ SearchEdge(FALSE, ContextOf(req_i), Count[req_i])
    /\ UNCHANGED req_i

AbortEdge ==
    /\ SearchReset
    /\ req_i' \in Searchable

PipelineNext == RestEdge \/ StartEdge \/ SearchingEdge \/ AbortEdge

(* Only the clock is fair: a running search gets its next edge.             *)
PipelineSpec == PipelineInit /\ [][PipelineNext]_pipelineVars /\ WF_pipelineVars(SearchingEdge)

-----------------------------------------------------------------------------
InFlightTags == {bank[i].tag : i \in InFlight}

(* The tokens in the pipeline are exactly the candidates issued and not yet *)
(* retired, oldest nearest the output, each carrying its own index, the     *)
(* last marker only on candidate N-1, and data of the current context only. *)
TokensInOrder ==
    /\ InFlightTags = retired .. issued-1
    /\ \A i, k \in InFlight : i < k => bank[i].tag > bank[k].tag
    /\ \A i \in InFlight :
           /\ bank[i].last <=> bank[i].tag = n_q - 1
           /\ bank[i].piece = req_i /\ bank[i].heights = req_i
           /\ i >= MERGE => bank[i].board = req_i

(* An idle search has an empty pipeline: a new start cannot mix its tokens  *)
(* with those of the search before (the assertion at                        *)
(* search_pipeline.sv:99 is never reached with occupancy # 0).              *)
IdleIsEmpty == ~active => InFlight = {}

(* retired <= issued <= N, and the running best is the winner of exactly    *)
(* the first `retired` candidates: none skipped, counted twice or compared  *)
(* with a best of an earlier search.                                        *)
RunningBest ==
    active =>
        /\ retired <= issued /\ issued <= n_q /\ n_q = Count[req_i]
        /\ IsWinner(best, FirstResults(req_i, retired))

(* done_o pulses only after all N candidates retired, illegal ones          *)
(* included, and on that cycle the published best already includes the      *)
(* candidate that retired last.                                             *)
DoneIsComplete ==
    [][done' => /\ ~active' /\ retired' = Count[req_i] /\ issued' = Count[req_i]
                /\ best' = Winner[req_i]]_pipelineVars

(* done_o is a single-cycle pulse.                                          *)
DonePulse == [][done => ~done']_pipelineVars
=============================================================================
