---------------------------- MODULE CandidatePipe ----------------------------
(***************************************************************************)
(* src/rtl/candidate_pipe.sv: BANKS register banks under one global        *)
(* advance, as operators on the variable bank.  bank[i] is the token       *)
(* behind valid bit i, or Bubble when that bit is 0 (a payload register    *)
(* is only ever read behind its valid bit).                                *)
(*                                                                         *)
(* A token records where its data came from: the piece and the heights it  *)
(* was issued with (bank 0 reads them, drop_merge_pipe P0) and the board   *)
(* that bank MERGE merged it into (P3).  Each is named by the request that *)
(* produced it, so that a token whose parts disagree is visible.           *)
(***************************************************************************)
EXTENDS Candidates

CONSTANTS
    BANKS,       \* number of banks (23 in the code)
    MERGE,       \* the bank that loads the merged context board (3 in the code)
    Bubble       \* a bank whose valid bit is 0

Bank == 0 .. BANKS-1
LastBank == BANKS-1
Context == Request \cup {NoRequest}

Token == [tag : Nat, last : BOOLEAN,
          piece : Context, heights : Context, board : Context]

ASSUME PipeAssumption ==
    /\ BANKS \in Nat
    /\ MERGE \in 1 .. BANKS-1
    /\ Bubble \notin Token

VARIABLE bank

-----------------------------------------------------------------------------
Valid(i) == bank[i] # Bubble

(* Fault: the banks move on although the output was not taken.              *)
Advance_IgnoresReady(rst, m_ready) == ~rst

(* advance = !rst && (!last_valid || m_ready)                               *)
Advance(rst, m_ready) == ~rst /\ (~Valid(LastBank) \/ m_ready)
SReady(rst, m_ready)  == Advance(rst, m_ready)
MValid(rst)           == Valid(LastBank) /\ ~rst

(* ctx_board_i, ctx_heights_i and ctx_piece_i, all of the request r.        *)
ContextOf(r) == [piece |-> r, heights |-> r, board |-> r]

(* The token bank 0 loads from s_* and the context: the height registers    *)
(* and the piece are read here, the board is not.                           *)
Issue(ctx, tag, last) ==
    [tag |-> tag, last |-> last,
     piece |-> ctx.piece, heights |-> ctx.heights, board |-> NoRequest]

(* What bank i loads on an advancing edge when input in stands before       *)
(* bank 0.                                                                  *)
Load(i, in, ctx) ==
    LET t == IF i = 0 THEN in ELSE bank[i-1]
    IN IF t # Bubble /\ i = MERGE THEN [t EXCEPT !.board = ctx.board] ELSE t

EmptyPipe == [i \in Bank |-> Bubble]

PipeInit == bank = EmptyPipe

(* Fault: reset does not clear the valid bits.                              *)
PipeEdge_ResetHolds(rst, m_ready, in, ctx) ==
    bank' = IF ~rst /\ Advance(rst, m_ready) THEN [i \in Bank |-> Load(i, in, ctx)]
            ELSE bank

(* One clock edge: reset clears every valid bit, an advance shifts every    *)
(* bank by one (bubbles included), anything else holds every bank.          *)
PipeEdge(rst, m_ready, in, ctx) ==
    bank' = IF rst THEN EmptyPipe
            ELSE IF Advance(rst, m_ready) THEN [i \in Bank |-> Load(i, in, ctx)]
            ELSE bank

-----------------------------------------------------------------------------
(* The data parts of a token come from one request.                         *)
Coherent(t) == t.piece = t.heights /\ t.heights = t.board /\ t.board \in Request

(* m_legal, m_score, m_y, m_candidate_id: what the datapath delivers for a  *)
(* token.  A token assembled from two requests delivers a result that       *)
(* belongs to neither: legal, at an impossible id, with a score above all.  *)
Corrupt == [id |-> 63, legal |-> TRUE, score |-> 1000000, y |-> 31]

Deliver(t) ==
    IF Coherent(t) /\ t.tag < Count[t.board]
    THEN Outcome[t.board][t.tag]
    ELSE Corrupt

PipeTypeOK == bank \in [Bank -> Token \cup {Bubble}]

InFlight == {i \in Bank : Valid(i)}
=============================================================================
