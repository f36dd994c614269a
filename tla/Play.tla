-------------------------------- MODULE Play --------------------------------
(***************************************************************************)
(* Games: each step locks one legal placement of one piece, whatever the   *)
(* policy picks (model/policy.py has a scored, a random and a              *)
(* lowest-stack one) and whatever the stream deals.  On every board a game *)
(* reaches, the oracle's rules, the column twin and the banks of the token *)
(* pipeline are compared.                                                  *)
(***************************************************************************)
EXTENDS ColumnRules, A2Stages

CONSTANTS
    Dealt,             \* the pieces of the stream
    First, Shown,      \*   and those the policies choose for, and see next
    MaxPieces          \* bound on the pieces of a game

ASSUME DealtAssumption == Dealt \cup First \cup Shown \subseteq PieceId /\ MaxPieces \in Nat

VARIABLES board, pieces
playVars == <<board, pieces>>

PlayInit == board = EMPTY_BOARD /\ pieces = 0

Place(p, cid) ==
    /\ pieces < MaxPieces
    /\ board' = Evaluate(board, p, cid).next
    /\ pieces' = pieces + 1

PlayNext == \E p \in Dealt : \E cid \in ToSet(LegalActions(board, p)) : Place(p, cid)

PlaySpec == PlayInit /\ [][PlayNext]_playVars

-----------------------------------------------------------------------------
Cells(rows) == {c \in Row \X Column : c[2] \in rows[c[1]]}

(* Boards between two moves have no full row: validate_board (board.py)     *)
(* rejects others, and the three-bit line counts rely on it.                *)
PlayTypeOK == board \in Normalized /\ pieces \in 0 .. MaxPieces

(* A move adds exactly the four cells of its piece and removes whole rows:  *)
(* nothing is overwritten by a merge, lost or copied by closing the gaps    *)
(* (game.py lock_and_clear).                                                *)
CellsConserved ==
    [][\E lines \in 0 .. 4 :
          Cardinality(Cells(board')) = Cardinality(Cells(board)) + 4 - W * lines]_playVars

(* fast.py must be a bit-exact twin of the literal rules on every candidate *)
(* of every piece (its docstring): landing, lines, next board, features,    *)
(* score, and the move of every policy, with one piece and with two.        *)
TwinAgrees ==
    /\ \A p \in PieceId : \A i \in DOMAIN CandidateIds[p] :
           EvaluateCols(RowsToCols(board), p, CandidateIds[p][i]) = Evaluate(board, p, CandidateIds[p][i])
    /\ \A p \in First :
           /\ BestMoveFast(board, p) = BestMove(board, p)
           /\ LowestStackFast(board, p) = LowestStack(board, p)
           /\ \A next \in Shown : BestMoveDepth2Fast(board, p, next) = BestMoveDepth2(board, p, next)

(* The banks of the token pipeline compute the rules on every candidate, on *)
(* the heights of the original board, and retire an illegal one as zeros.   *)
Canonical(e) ==
    IF e.legal THEN e
    ELSE [legal |-> FALSE, y |-> 0, lines |-> 0, next |-> EMPTY_BOARD, a |-> 0, q |-> 0, u |-> 0, score |-> 0]
PipelineAgrees ==
    \A p \in PieceId : \A i \in DOMAIN CandidateIds[p] :
        A2Evaluate(board, ColumnHeights(board), p, CandidateIds[p][i])
            = Canonical(Evaluate(board, p, CandidateIds[p][i]))

(* The three statements of the rules agree on every board a game reaches.   *)
RulesAgree == TwinAgrees /\ PipelineAgrees
=============================================================================
