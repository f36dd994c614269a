--------------------------- MODULE LookaheadEngine ---------------------------
(***************************************************************************)
(* src/rtl/search_depth2.sv: the two-piece lookahead, a nested sequential  *)
(* search around one shared evaluator.  A root is a candidate of the       *)
(* current piece on the request's board; its post-clear board B1 and line  *)
(* count are registered, and every candidate of the next piece is          *)
(* evaluated on B1.                                                        *)
(*                                                                         *)
(* A board is named by how it came about: <<r>> is the board of request r, *)
(* <<r, j>> the board after root candidate j of r, <<>> the reset value;   *)
(* heights are named by the board they were computed from.                 *)
(***************************************************************************)
EXTENDS TetrisCore, Evaluator, Sequences

CONSTANTS
    Lines,        \* Lines[r][j]: lines root candidate j of r clears
    NextCount,    \* NextCount[r]: dense candidates of r's next piece
    Leaf,         \* Leaf[r][j][i]: result of next candidate i after root j
    WL            \* weight of a cleared line in the compiled profile

ASSUME LookaheadAssumption ==
    /\ DEPTH = 2
    /\ WL \in Nat
    /\ \A r \in Request :
           /\ NextCount[r] \in Nat
           /\ \A j \in 0 .. Count[r]-1 :
                  /\ Lines[r][j] \in 0 .. 4
                  /\ Leaf[r][j] \in [0 .. NextCount[r]-1 -> Result]

VARIABLES
    look,         \* registers of search_depth2
    ev            \* registers of its evaluator

lookVars == <<look, ev>>

LookState == {"IDLE", "ROOT_NEXT", "ROOT_START", "ROOT_WAIT", "B1_CACHE", "LEAF_NEXT",
              "LEAF_START", "LEAF_WAIT", "ROOT_UPDATE", "FINISH"}

NoBoard == <<>>

Context == Request \cup {NoRequest}
Board == {NoBoard} \cup {<<r>> : r \in Context} \cup (Context \X Nat)

LookReset ==
    [ state |-> "IDLE", done |-> FALSE, ev_start |-> FALSE,
      root_board |-> NoBoard, root_heights |-> NoBoard,
      b1_board |-> NoBoard, b1_heights |-> NoBoard,
      jr |-> 0, jl |-> 0, leaf_phase |-> FALSE,
      root_id |-> 0, root_y |-> 0, s1 |-> 0, l1 |-> 0,
      branch_valid |-> FALSE, branch_score |-> 0,
      surv |-> NoBest, fb |-> NoBest, best |-> NoBest,
      root_candidates |-> 0, leaf_candidates |-> 0 ]

NoJob == [board |-> NoBoard, heights |-> NoBoard, leaf |-> FALSE, index |-> 0]

NoResult == [id |-> 0, legal |-> FALSE, score |-> 0, y |-> 0, lines |-> 0, board |-> NoBoard]

LookRegs ==
    [state : LookState, done : BOOLEAN, ev_start : BOOLEAN,
     root_board : Board, root_heights : Board, b1_board : Board, b1_heights : Board,
     jr : Nat, jl : Nat, leaf_phase : BOOLEAN, root_id : Nat, root_y : Nat, s1 : Int,
     l1 : 0 .. 4, branch_valid : BOOLEAN, branch_score : Int,
     surv : Best, fb : Best, best : Best, root_candidates : Nat, leaf_candidates : Nat]

(* What the evaluator latches, and its result registers.                    *)
Job == [board : Board, heights : Board, leaf : BOOLEAN, index : Nat]

EvResult == [id : Nat, legal : BOOLEAN, score : Int, y : Nat, lines : 0 .. 4, board : Board]

EvRegs == [left : 0 .. MaxEval, job : Job, done : BOOLEAN, out : EvResult]

LookTypeOK == look \in LookRegs /\ ev \in EvRegs

LookInit == look = LookReset /\ ev = EvReset(NoJob, NoResult)

LookaheadReset == look' = LookReset /\ ev' = EvReset(NoJob, NoResult)

-----------------------------------------------------------------------------
(* The result of a transaction.  A job whose heights are not those of its   *)
(* board, or that pairs a board with the wrong piece, gets a result that    *)
(* belongs to no candidate.                                                 *)
Corrupt == [id |-> 63, legal |-> TRUE, score |-> 1000000, y |-> 31,
            lines |-> 0, board |-> NoBoard]

RootResult(r, j) ==
    LET c == Outcome[r][j]
    IN [ id |-> c.id, legal |-> c.legal, score |-> c.score, y |-> c.y,
         lines |-> IF c.legal THEN Lines[r][j] ELSE 0,
         board |-> IF c.legal THEN <<r, j>> ELSE NoBoard ]

LeafResult(r, j, i) ==
    LET c == Leaf[r][j][i]
    IN [ id |-> c.id, legal |-> c.legal, score |-> c.score, y |-> c.y,
         lines |-> 0, board |-> NoBoard ]

Evaluated(job) ==
    IF job.board = job.heights /\ Len(job.board) = 1 /\ ~job.leaf
    THEN RootResult(job.board[1], job.index)
    ELSE IF job.board = job.heights /\ Len(job.board) = 2 /\ job.leaf
    THEN LeafResult(job.board[1], job.board[2], job.index)
    ELSE Corrupt

(* The job on the evaluator's inputs: leaf_phase selects context and list.  *)
JobNow ==
    IF look.leaf_phase
    THEN [board |-> look.b1_board, heights |-> look.b1_heights, leaf |-> TRUE, index |-> look.jl]
    ELSE [board |-> look.root_board, heights |-> look.root_heights, leaf |-> FALSE, index |-> look.jr]

RootCount == CandidateCount
LeafCount == IF req_q = NoRequest THEN 0 ELSE NextCount[req_q]

(* Fault: the lines of the first move do not count.                         *)
Bonus_Omitted(l1) == 0

(* bonus: l1 * wL, by a five-way case.                                      *)
Bonus(l1) == l1 * WL
S2 == ev.out.score + Bonus(look.l1)

-----------------------------------------------------------------------------
(* The registers after one edge in each state; done_o and ev_start are low  *)
(* unless the state raises them.                                            *)
Settled == [look EXCEPT !.done = FALSE, !.ev_start = FALSE]

Started ==
    [Settled EXCEPT !.state = "ROOT_NEXT",
                    !.root_board = <<req_q>>, !.root_heights = <<heights_q>>,
                    !.jr = 0, !.leaf_phase = FALSE, !.surv = NoBest, !.fb = NoBest,
                    !.root_candidates = 0, !.leaf_candidates = 0]

RootNext ==
    [Settled EXCEPT !.leaf_phase = FALSE,
                    !.state = IF look.jr < RootCount THEN "ROOT_START" ELSE "FINISH"]

RootStart ==
    [Settled EXCEPT !.ev_start = TRUE, !.root_id = Outcome[req_q][look.jr].id,
                    !.state = "ROOT_WAIT"]

(* Fault: the branch of the root before is not cleared.                     *)
RootDone_KeepsBranch ==
    IF ev.out.legal
    THEN [Settled EXCEPT !.b1_board = ev.out.board, !.l1 = ev.out.lines,
                         !.s1 = ev.out.score, !.root_y = ev.out.y,
                         !.root_candidates = @ + 1, !.jl = 0,
                         !.state = "B1_CACHE"]
    ELSE [Settled EXCEPT !.jr = @ + 1, !.state = "ROOT_NEXT"]

RootDone ==
    IF ev.out.legal
    THEN [Settled EXCEPT !.b1_board = ev.out.board, !.l1 = ev.out.lines,
                         !.s1 = ev.out.score, !.root_y = ev.out.y,
                         !.root_candidates = @ + 1,
                         !.branch_valid = FALSE, !.branch_score = 0, !.jl = 0,
                         !.state = "B1_CACHE"]
    ELSE [Settled EXCEPT !.jr = @ + 1, !.state = "ROOT_NEXT"]

(* Fault: the leaves are searched with the heights of the root before.      *)
B1Cache_Stale ==
    [Settled EXCEPT !.b1_heights = IF @ = NoBoard THEN look.b1_board ELSE @,
                    !.leaf_phase = TRUE, !.state = "LEAF_NEXT"]

B1Cache ==
    [Settled EXCEPT !.b1_heights = look.b1_board, !.leaf_phase = TRUE, !.state = "LEAF_NEXT"]

LeafNext ==
    [Settled EXCEPT !.state = IF look.jl < LeafCount THEN "LEAF_START" ELSE "ROOT_UPDATE"]

LeafStart == [Settled EXCEPT !.ev_start = TRUE, !.state = "LEAF_WAIT"]

(* Fault: an illegal leaf does not advance the leaf index.                  *)
LeafDone_RetriesIllegal ==
    LET better == ev.out.legal /\ (~look.branch_valid \/ S2 > look.branch_score)
    IN [Settled EXCEPT !.leaf_candidates = IF ev.out.legal THEN @ + 1 ELSE @,
                       !.branch_valid = @ \/ better,
                       !.branch_score = IF better THEN S2 ELSE @,
                       !.jl = IF ev.out.legal THEN @ + 1 ELSE @, !.state = "LEAF_NEXT"]

(* Leaves come in increasing id order: the first of equal scores stays.     *)
LeafDone ==
    LET better == ev.out.legal /\ (~look.branch_valid \/ S2 > look.branch_score)
    IN [Settled EXCEPT !.leaf_candidates = IF ev.out.legal THEN @ + 1 ELSE @,
                       !.branch_valid = @ \/ better,
                       !.branch_score = IF better THEN S2 ELSE @,
                       !.jl = @ + 1, !.state = "LEAF_NEXT"]

RootRecord(score) ==
    [id |-> look.root_id, legal |-> TRUE, score |-> score, y |-> look.root_y]

RootUpdate ==
    [Settled EXCEPT
        !.surv = IF look.branch_valid THEN Take(@, RootRecord(look.branch_score)) ELSE @,
        !.fb = Take(@, RootRecord(look.s1)),
        !.jr = @ + 1, !.state = "ROOT_NEXT"]

(* A surviving root is preferred to the best one-move score.                *)
Finish ==
    [Settled EXCEPT !.best = IF look.surv.valid THEN look.surv ELSE look.fb,
                    !.done = TRUE, !.state = "IDLE"]

LookNext(start) ==
    CASE look.state = "IDLE"        -> IF start THEN Started ELSE Settled
      [] look.state = "ROOT_NEXT"   -> RootNext
      [] look.state = "ROOT_START"  -> RootStart
      [] look.state = "ROOT_WAIT"   -> IF ev.done THEN RootDone ELSE Settled
      [] look.state = "B1_CACHE"    -> B1Cache
      [] look.state = "LEAF_NEXT"   -> LeafNext
      [] look.state = "LEAF_START"  -> LeafStart
      [] look.state = "LEAF_WAIT"   -> IF ev.done THEN LeafDone ELSE Settled
      [] look.state = "ROOT_UPDATE" -> RootUpdate
      [] look.state = "FINISH"      -> Finish

(* One clock edge with rst low.                                             *)
LookaheadEdge(start) ==
    /\ look' = LookNext(start)
    /\ \E t \in (IF EvStarting(ev, look.ev_start) THEN Latency ELSE {0}) :
           ev' = EvNext(ev, look.ev_start, JobNow, t, Evaluated(ev.job))
=============================================================================
