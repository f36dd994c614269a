------------------------------ MODULE MCSearch ------------------------------
(***************************************************************************)
(* Every request of one to MaxN candidates whose results are illegal or    *)
(* legal with one of two scores: every tie, every position of the winner,  *)
(* every run of illegal candidates.  The scores are negative, as almost    *)
(* all real ones are, so that no numeric sentinel can stand for "none".    *)
(***************************************************************************)
EXTENDS SearchPipeline, FiniteSets

CONSTANT MaxN

Kind == {"illegal", "low", "high"}
MCRequest == UNION {[1 .. n -> Kind] : n \in 1 .. MaxN}
MCInvalid == {}
MCCount == [r \in MCRequest |-> Cardinality(DOMAIN r)]

(* Dense candidate k of two rotations with two anchors each.                *)
Id(k) == 10 * (k \div 2) + (k % 2)

MCOutcome == [r \in MCRequest |-> [k \in 0 .. MCCount[r]-1 |->
    LET legal == r[k+1] # "illegal"
    IN [ id    |-> Id(k),
         legal |-> legal,
         score |-> IF r[k+1] = "low" THEN -9 ELSE IF legal THEN -4 ELSE 0,
         y     |-> IF legal THEN k + 1 ELSE 0 ]]]
=============================================================================
