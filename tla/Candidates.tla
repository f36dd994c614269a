----------------------------- MODULE Candidates -----------------------------
(***************************************************************************)
(* The vocabulary every engine of the repository shares: a decision        *)
(* request, the result of evaluating each of its candidates, the order the *)
(* winner is chosen by, and the response the core must give.               *)
(*                                                                         *)
(* A request stands for the latched (board, piece, next piece).  What the  *)
(* datapath computes for it is a constant: Outcome[r][j] is the result of  *)
(* candidate j of r's dense list (src/rtl/cand_rom.sv), in list order.     *)
(* GameRules.tla models the datapath itself.                               *)
(***************************************************************************)
EXTENDS Integers

CONSTANTS
    Request,     \* requests the environment may present
    Invalid,     \* those whose piece (or, at depth two, next piece) is 7
    Count,       \* Count[r]: number of dense candidates (0 for piece 7)
    Outcome,     \* Outcome[r][j]: result of candidate j \in 0..Count[r]-1
    NoRequest    \* contents of the request registers after reset

(* The result of one candidate: candidate_eval's legal_o, score_o, y_o and  *)
(* the candidate_id that travels with it.                                  *)
Result == [id : Nat, legal : BOOLEAN, score : Int, y : Nat]

ASSUME RequestAssumption ==
    /\ NoRequest \notin Request
    /\ Invalid \subseteq Request
    /\ Count \in [Request -> Nat]
    /\ \A r \in Request \ Invalid : Count[r] > 0

(* Illegal candidates carry zero fields, and the ids of a dense list        *)
(* strictly increase (src/rtl/generated/cand_case.svh).                     *)
ASSUME OutcomeAssumption ==
    \A r \in Request :
        /\ Outcome[r] \in [0 .. Count[r]-1 -> Result]
        /\ \A j, k \in 0 .. Count[r]-1 :
               j < k => Outcome[r][j].id < Outcome[r][k].id

-----------------------------------------------------------------------------
(* The best registers of a reducer: best_valid/score/id/y.                  *)
Best == [valid : BOOLEAN, id : Nat, score : Int, y : Nat]

NoBest == [valid |-> FALSE, id |-> 0, score |-> 0, y |-> 0]

AsBest(c) == [valid |-> TRUE, id |-> c.id, score |-> c.score, y |-> c.y]

(* Higher signed score first, then the lower candidate_id.                  *)
Better(a, b) ==
    \/ a.score > b.score
    \/ a.score = b.score /\ a.id < b.id

(* One step of the running best: a legal result replaces a worse best.      *)
Take(best, c) ==
    IF c.legal /\ (~best.valid \/ Better(c, best)) THEN AsBest(c) ELSE best

(* Fault: lanes are compared by score alone, so the first lane wins a tie.  *)
Merge_FirstLaneWins(best, b) ==
    IF b.valid /\ (~best.valid \/ b.score > best.score) THEN b ELSE best

(* One step of merging two bests (REDUCE: lane best into global best).      *)
Merge(best, b) ==
    IF b.valid /\ (~best.valid \/ Better(b, best)) THEN b ELSE best

-----------------------------------------------------------------------------
(* What "best" means: best holds the winner of the set S of results, or     *)
(* nothing if S has no legal result.                                        *)
IsWinner(best, S) ==
    IF \E c \in S : c.legal
    THEN \E c \in S : /\ c.legal
                      /\ best = AsBest(c)
                      /\ \A d \in S : d.legal => ~ Better(d, c)
    ELSE best = NoBest

Results(r) == {Outcome[r][j] : j \in 0 .. Count[r]-1}

(* The results of the first n candidates of r.                              *)
FirstResults(r, n) == {Outcome[r][j] : j \in 0 .. n-1}

Winner ==
    [r \in Request |->
        CHOOSE b \in {NoBest} \cup {AsBest(c) : c \in Results(r)} :
            IsWinner(b, Results(r))]

-----------------------------------------------------------------------------
(* The response fields of the core (rotation and x are decoded from id).    *)
Response == [error : BOOLEAN, no_move : BOOLEAN, id : Nat, y : Nat, score : Int]

(* FINALIZE: fields are zero unless there is a valid best and no error.     *)
Respond(err, best) ==
    LET ok == ~err /\ best.valid
    IN [ error   |-> err,
         no_move |-> ~err /\ ~best.valid,
         id      |-> IF ok THEN best.id ELSE 0,
         y       |-> IF ok THEN best.y ELSE 0,
         score   |-> IF ok THEN best.score ELSE 0 ]

(* The one response a request may get.                                      *)
Decision ==
    [r \in Request |->
        Respond(r \in Invalid, IF r \in Invalid THEN NoBest ELSE Winner[r])]
=============================================================================
