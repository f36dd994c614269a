----------------------------- MODULE TetrisCore -----------------------------
(***************************************************************************)
(* src/rtl/tetris_core.sv: the request/response state machine around the   *)
(* search engines, as one action per state.  The engines themselves are    *)
(* composed with it in TetrisA2 (pipelined search), TetrisLanes (one, two  *)
(* or four evaluator lanes) and TetrisD2 (two-piece lookahead); here they  *)
(* are the two operands of an edge: done, the set of lanes whose done_o is *)
(* high, and lbest, the best registers of every lane.                      *)
(*                                                                         *)
(* Every step is one rising clock edge.  The wires it samples are chosen   *)
(* by the step: rst high is the action CoreReset; req_valid high with the  *)
(* request r in IDLE is Accept(r), low is Idle; rsp_ready high in RESPOND  *)
(* is Consume, low is Hold.                                                *)
(***************************************************************************)
EXTENDS Candidates

CONSTANTS
    LANES,        \* number of lane slots
    DEPTH,        \* 1, or 2 for the lookahead engine
    CYC,          \* bound: the cycle counter counts modulo CYC (2^32 in the code)
    NoResponse    \* response registers while no response is on offer

(* The configurations <<ARCH, BOARD_REPR, LANES, DEPTH, PRECISION>>: those  *)
(* model/config.py lets every tool use, and those the core elaborates.      *)
V1_SUPPORTED ==
    {<<0, 0, 1, 1, 0>>, <<1, 0, 1, 1, 0>>, <<1, 1, 1, 1, 0>>, <<1, 1, 1, 1, 1>>, <<1, 1, 1, 1, 2>>,
     <<1, 1, 1, 1, 3>>, <<1, 1, 1, 1, 4>>, <<1, 1, 1, 2, 0>>, <<1, 1, 2, 1, 0>>}
UPGRADE_SUPPORTED ==
    {<<2, 1, 1, 1, 0>>, <<1, 1, 4, 1, 0>>, <<1, 1, 1, 1, 5>>, <<1, 1, 1, 1, 6>>, <<1, 1, 1, 1, 7>>}
SUPPORTED == V1_SUPPORTED \cup UPGRADE_SUPPORTED
DECLARED == {}
Status(c) == IF c \in SUPPORTED THEN "verified" ELSE IF c \in DECLARED THEN "declared" ELSE "unsupported"

CFG_OK(c) ==
    \/ c \in {<<0, 0, 1, 1, 0>>, <<1, 0, 1, 1, 0>>, <<2, 1, 1, 1, 0>>}
    \/ c \in {<<1, 1, 1, 2, 0>>, <<1, 1, 2, 1, 0>>, <<1, 1, 4, 1, 0>>}
    \/ \E p \in 0 .. 7 : c = <<1, 1, 1, 1, p>>

(* The two lists are kept by hand and agree on every parameter set,         *)
(* tools/check_a2_spec.py tries eleven of them (check_identity,             *)
(* check_elaboration, check_lane_guards); the composition at hand is one.   *)
ASSUME ConfigurationsAgree ==
    /\ \A c \in (0 .. 3) \X (0 .. 2) \X (0 .. 5) \X (0 .. 3) \X (-1 .. 8) :
           Status(c) = "verified" <=> CFG_OK(c)
    /\ \E c \in SUPPORTED : c[3] = LANES /\ c[4] = DEPTH

ASSUME CoreAssumption ==
    /\ LANES \in {1, 2, 4}
    /\ DEPTH \in {1, 2}
    /\ DEPTH = 2 => LANES = 1
    /\ CYC \in Nat \ {0}
    /\ NoResponse \notin Response

Lane == 0 .. LANES-1

(* rk is $clog2(LANES) bits wide, one bit for a single lane.               *)
RkRange == IF LANES = 1 THEN 2 ELSE LANES

VARIABLES
    state,
    req_q,          \* board_q, piece_q, next_q: always written together
    heights_q,      \* the request whose board the height cache was built from
    cyc, err_q, search_start,
    lane_done_seen, \* lanes whose done pulse has been seen
    cbest,          \* best_valid, best_score, best_id, best_y
    rk,             \* lane under reduction
    rsp_valid,
    rsp,            \* error_o, no_move_o, rotation_o/x_o (as id), y_o, score_o
    cycles_o

coreVars == <<state, req_q, heights_q, cyc, err_q, search_start,
              lane_done_seen, cbest, rk, rsp_valid, rsp, cycles_o>>

State == {"IDLE", "CACHE", "SEARCH_START", "SEARCH_WAIT", "REDUCE",
          "FINALIZE", "RESPOND"}

CoreTypeOK ==
    /\ state \in State
    /\ req_q \in Request \cup {NoRequest}
    /\ heights_q \in Request \cup {NoRequest}
    /\ cyc \in 0 .. CYC-1 /\ cycles_o \in 0 .. CYC-1
    /\ err_q \in BOOLEAN /\ search_start \in BOOLEAN /\ rsp_valid \in BOOLEAN
    /\ lane_done_seen \subseteq Lane
    /\ cbest \in Best
    /\ rk \in 0 .. RkRange-1
    /\ rsp \in Response \cup {NoResponse}

CoreInit ==
    /\ state = "IDLE"
    /\ req_q = NoRequest /\ heights_q = NoRequest
    /\ cyc = 0 /\ err_q = FALSE /\ search_start = FALSE
    /\ lane_done_seen = {} /\ cbest = NoBest /\ rk = 0
    /\ rsp_valid = FALSE /\ rsp = NoResponse /\ cycles_o = 0

-----------------------------------------------------------------------------
(* Fault: only remembered pulses count, one cycle late.                     *)
AllDone_SeenOnly(done) == lane_done_seen = Lane

(* Fault: only pulses of this cycle count, none is remembered.              *)
AllDone_NoMemory(done) == done = Lane

(* Fault: the first lane to finish ends the search.                         *)
AllDone_AnyLane(done) == lane_done_seen \cup done # {}

(* all_done: every lane's pulse is high now or was seen before; at depth    *)
(* two s_done is the pulse itself.                                          *)
AllDone(done) ==
    IF DEPTH = 1 THEN lane_done_seen \cup done = Lane ELSE done = Lane

(* cyc + 1, in the width of the counter.                                    *)
Tick == (cyc + 1) % CYC

(* The context the engines read: the latched request and the height cache.  *)
CoreContext == [piece |-> req_q, heights |-> heights_q, board |-> req_q]

CandidateCount == IF req_q = NoRequest THEN 0 ELSE Count[req_q]

-----------------------------------------------------------------------------
CoreReset ==
    /\ state' = "IDLE"
    /\ req_q' = NoRequest /\ heights_q' = NoRequest
    /\ cyc' = 0 /\ err_q' = FALSE /\ search_start' = FALSE
    /\ lane_done_seen' = {} /\ cbest' = NoBest /\ rk' = 0
    /\ rsp_valid' = FALSE /\ rsp' = NoResponse /\ cycles_o' = 0

(* IDLE with no request: every register holds.                              *)
Idle ==
    /\ state = "IDLE"
    /\ search_start' = FALSE
    /\ UNCHANGED <<state, req_q, heights_q, cyc, err_q, lane_done_seen,
                   cbest, rk, rsp_valid, rsp, cycles_o>>

(* req_ready is high exactly in IDLE (with rst low).                        *)
Accept(r) ==
    /\ state = "IDLE"
    /\ state' = "CACHE"
    /\ req_q' = r
    /\ err_q' = (r \in Invalid)
    /\ cyc' = 0
    /\ cbest' = NoBest /\ lane_done_seen' = {} /\ rk' = 0
    /\ search_start' = FALSE
    /\ UNCHANGED <<heights_q, rsp_valid, rsp, cycles_o>>

(* Fault: the height cache is built for the first request only.             *)
Cache_Stale ==
    /\ state = "CACHE"
    /\ heights_q' = IF heights_q = NoRequest THEN req_q ELSE heights_q
    /\ state' = IF err_q THEN "FINALIZE" ELSE "SEARCH_START"
    /\ cyc' = Tick /\ search_start' = FALSE
    /\ UNCHANGED <<req_q, err_q, lane_done_seen, cbest, rk, rsp_valid, rsp, cycles_o>>

(* Fault: an invalid piece is searched too, over no candidates.             *)
Cache_SearchesInvalid ==
    /\ state = "CACHE"
    /\ heights_q' = req_q
    /\ state' = "SEARCH_START"
    /\ cyc' = Tick /\ search_start' = FALSE
    /\ UNCHANGED <<req_q, err_q, lane_done_seen, cbest, rk, rsp_valid, rsp, cycles_o>>

(* Registers the heights of the latched board; an error skips the search.   *)
Cache ==
    /\ state = "CACHE"
    /\ heights_q' = req_q
    /\ state' = IF err_q THEN "FINALIZE" ELSE "SEARCH_START"
    /\ cyc' = Tick /\ search_start' = FALSE
    /\ UNCHANGED <<req_q, err_q, lane_done_seen, cbest, rk, rsp_valid, rsp, cycles_o>>

SearchStart ==
    /\ state = "SEARCH_START"
    /\ search_start' = TRUE
    /\ state' = "SEARCH_WAIT"
    /\ cyc' = Tick
    /\ UNCHANGED <<req_q, heights_q, err_q, lane_done_seen, cbest, rk,
                   rsp_valid, rsp, cycles_o>>

(* Collects done pulses; at depth two the search's result is the best.      *)
SearchWait(done, lbest) ==
    /\ state = "SEARCH_WAIT"
    /\ lane_done_seen' = lane_done_seen \cup done
    /\ \/ /\ ~AllDone(done)
          /\ UNCHANGED <<state, cbest>>
       \/ /\ AllDone(done) /\ DEPTH = 1
          /\ state' = "REDUCE"
          /\ UNCHANGED cbest
       \/ /\ AllDone(done) /\ DEPTH = 2
          /\ state' = "FINALIZE"
          /\ cbest' = lbest[0]
    /\ cyc' = Tick /\ search_start' = FALSE
    /\ UNCHANGED <<req_q, heights_q, err_q, rk, rsp_valid, rsp, cycles_o>>

(* One lane per edge into the global best.                                  *)
Reduce(lbest) ==
    /\ state = "REDUCE"
    /\ cbest' = Merge(cbest, lbest[rk])
    /\ state' = IF rk = LANES-1 THEN "FINALIZE" ELSE "REDUCE"
    /\ rk' = (rk + 1) % RkRange
    /\ cyc' = Tick /\ search_start' = FALSE
    /\ UNCHANGED <<req_q, heights_q, err_q, lane_done_seen, rsp_valid, rsp, cycles_o>>

Finalize ==
    /\ state = "FINALIZE"
    /\ rsp' = Respond(err_q, cbest)
    /\ cycles_o' = Tick
    /\ rsp_valid' = TRUE
    /\ state' = "RESPOND"
    /\ cyc' = Tick /\ search_start' = FALSE
    /\ UNCHANGED <<req_q, heights_q, err_q, lane_done_seen, cbest, rk>>

(* RESPOND: the registers hold until the response is consumed.              *)
Hold ==
    /\ state = "RESPOND"
    /\ search_start' = FALSE
    /\ UNCHANGED <<state, req_q, heights_q, cyc, err_q, lane_done_seen,
                   cbest, rk, rsp_valid, rsp, cycles_o>>

Consume ==
    /\ state = "RESPOND"
    /\ rsp_valid' = FALSE
    /\ state' = "IDLE"
    /\ search_start' = FALSE
    /\ UNCHANGED <<req_q, heights_q, cyc, err_q, lane_done_seen, cbest, rk,
                   rsp, cycles_o>>

-----------------------------------------------------------------------------
(* The client's view of the core: the outstanding request is the latched    *)
(* one outside IDLE, the answer is on offer while rsp_valid.                *)
Outstanding == IF state = "IDLE" THEN NoRequest ELSE req_q
Offered     == IF rsp_valid THEN rsp ELSE NoResponse
=============================================================================
