------------------------------ MODULE TetrisD2 ------------------------------
(***************************************************************************)
(* The core with the two-piece lookahead engine (DEPTH = 2).               *)
(***************************************************************************)
EXTENDS LookaheadEngine, FiniteSets

vars == <<coreVars, lookVars>>

TypeOK == CoreTypeOK /\ LookTypeOK

Init == CoreInit /\ LookInit

SearchDone == IF look.done THEN Lane ELSE {}
SearchBest == [k \in Lane |-> look.best]

Engine == LookaheadEdge(search_start)

ResetEdge       == CoreReset /\ LookaheadReset
IdleEdge        == Idle /\ Engine
AcceptEdge(r)   == Accept(r) /\ Engine
CacheEdge       == Cache /\ Engine
SearchStartEdge == SearchStart /\ Engine
SearchWaitEdge  == SearchWait(SearchDone, SearchBest) /\ Engine
FinalizeEdge    == Finalize /\ Engine
HoldEdge        == Hold /\ Engine
ConsumeEdge     == Consume /\ Engine

Next ==
    \/ ResetEdge \/ IdleEdge \/ (\E r \in Request : AcceptEdge(r)) \/ CacheEdge
    \/ SearchStartEdge \/ SearchWaitEdge \/ FinalizeEdge \/ HoldEdge \/ ConsumeEdge

Working == CacheEdge \/ SearchStartEdge \/ SearchWaitEdge \/ FinalizeEdge

Spec == Init /\ [][Next]_vars /\ WF_vars(Working)

-----------------------------------------------------------------------------
(* The two-piece rule (docs/spec.md, "Depth two"; src/model/lookahead.py):  *)
(* a root's value is the best S2 over its legal second moves; the winner is *)
(* the best surviving root, or the best one-move root if none survives.     *)
LegalRoots(r, n) == {j \in 0 .. n-1 : Outcome[r][j].legal}
Seconds(r, j, n) == {Leaf[r][j][i].score + WL * Lines[r][j] :
                         i \in {k \in 0 .. n-1 : Leaf[r][j][k].legal}}
Survivors(r, n) == {j \in LegalRoots(r, n) : Seconds(r, j, NextCount[r]) # {}}

Highest(S) == CHOOSE m \in S : \A s \in S : s <= m

(* The roots below n that have a second move, with the values they achieve. *)
Branches(r, n) ==
    {[Outcome[r][j] EXCEPT !.score = Highest(Seconds(r, j, NextCount[r]))] :
        j \in Survivors(r, n)}

TwoPieceWinner(r) ==
    LET S == IF Survivors(r, Count[r]) # {} THEN Branches(r, Count[r]) ELSE Results(r)
    IN CHOOSE b \in {NoBest} \cup {AsBest(c) : c \in S} : IsWinner(b, S)

TwoPieceDecision ==
    [r \in Request |->
        Respond(r \in Invalid, IF r \in Invalid THEN NoBest ELSE TwoPieceWinner(r))]

Client == INSTANCE DecisionEngine WITH
    outstanding <- Outstanding, answer <- Offered, Decision <- TwoPieceDecision

(* The lookahead core implements the decision engine for the two-piece rule. *)
AnswersAreTwoPieceDecisions == Client!Promise

(* Liveness of the same promise: a request the core accepted gets its       *)
(* response, unless a reset cancels it.                                     *)
EveryRequestAnswered == Client!Progress

(* Whatever the shared evaluator works on is one consistent job: the heights *)
(* are those of the board, a leaf is evaluated on the board of the current   *)
(* root and no other, a root on the request's own.                           *)
JobsAreConsistent ==
    EvBusy(ev) \/ look.ev_start =>
        LET job == IF EvBusy(ev) THEN ev.job ELSE JobNow
        IN /\ job.board = job.heights
           /\ job.board = IF job.leaf THEN <<req_q, look.jr>> ELSE <<req_q>>

(* The branch value is the highest S2 of the legal leaves visited, and l1,   *)
(* s1 and y are still those of this root.                                    *)
BranchOfVisited ==
    LET visited == Seconds(req_q, look.jr, look.jl)
        root == Outcome[req_q][look.jr]
    IN /\ look.branch_valid <=> visited # {}
       /\ look.branch_valid => look.branch_score = Highest(visited)
       /\ look.l1 = Lines[req_q][look.jr]
       /\ look.root_id = root.id /\ look.s1 = root.score /\ look.root_y = root.y

(* While roots are searched, surv and fb are the winners over the roots that *)
(* are finished, for the surviving value and for the one-move score, and     *)
(* while leaves are, the branch value is that of the leaves visited.         *)
BestsOfFinishedRoots ==
    look.state # "IDLE" =>
        /\ IsWinner(look.surv, Branches(req_q, look.jr))
        /\ IsWinner(look.fb, FirstResults(req_q, look.jr))
        /\ look.state \in {"LEAF_NEXT", "LEAF_START", "LEAF_WAIT", "ROOT_UPDATE"} => BranchOfVisited
=============================================================================
