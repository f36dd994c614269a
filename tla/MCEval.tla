------------------------------- MODULE MCEval -------------------------------
(***************************************************************************)
(* The evaluator on the real board of ten columns and twenty rows.  The    *)
(* jobs reach far and near landings, lines cleared with a gap between      *)
(* them, more than fifteen holes, a blocked candidate, a rotation that     *)
(* does not exist and an anchor past the wall.                             *)
(***************************************************************************)
EXTENDS CandidateEval

Well == [y \in Row |-> IF y < 6 THEN Column \ {9} ELSE {}]
Overhung ==
    [y \in Row |-> CASE y \in {0, 2} -> Column \ {0}
                     [] y \in 4 .. 17 -> {4, 6 + (y % 4)}
                     [] OTHER -> {1, 3, 4}]
Tall == [y \in Row |-> {x \in Column : (y < 18 /\ (x + y) % 3 # 0) \/ (y = 18 /\ x = 0)}]

MCBoards == {Well, Overhung, Tall}

\* <<piece, rotation, x>>
MCAsked ==
    {<<0, 1, 9>>, <<0, 1, 0>>, <<1, 0, 4>>, <<4, 1, 2>>, <<6, 3, 7>>, <<1, 1, 0>>, <<2, 0, 8>>}

MCBuilds == {<<0, 0>>, <<1, 0>>, <<1, 1>>}

-----------------------------------------------------------------------------
(* The quantized profiles on the candidates of these boards: a certified    *)
(* winner is never displaced (the assertion of analyze_state), is no tie,   *)
(* and the figures analyze_precision_v2.py counts fit together.  All three  *)
(* verdicts occur.                                                          *)
Analyses ==
    {AnalyzeState(p, CandidateTable(rows, piece)) :
        <<p, rows, piece>> \in {a \in QUANTIZED \X MCBoards \X PieceId : LegalActions(a[2], a[3]) # <<>>}}

ASSUME CertificateIsSound ==
    /\ \A rows \in MCBoards, piece \in PieceId : CandidateTable(rows, piece) \subseteq Features
    /\ \A a \in Analyses :
           /\ a.certified => ~a.changed /\ ~a.exact_tie /\ ~a.quantized_tie
           /\ a.rank = 0 <=> ~a.changed
           /\ a.loss >= 0 /\ (a.changed => \E n \in a.gap : a.loss >= n)
           /\ a.exact_tie <=> a.gap = {0}
    /\ \E a \in Analyses : a.certified
    /\ \E a \in Analyses : a.changed
    /\ \E a \in Analyses : ~a.certified /\ ~a.changed

(* The widths of the profile table are the narrowest that hold every score  *)
(* (the frozen expectations of numeric.py).                                 *)
ASSUME WidthsAreFrozen == [p \in QUANTIZED |-> SufficientScoreWidth(p)] = [p \in 5 .. 7 |-> <<14, 12, 11>>[p - 4]]
=============================================================================
