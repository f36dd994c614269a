------------------------------- MODULE MCLanes -------------------------------
(***************************************************************************)
(* Four lanes.  Requests of three candidates leave a lane without work and *)
(* have every pair of results, ties included, behind a low first one; in   *)
(* requests of six, two lanes have two candidates each; the others have a  *)
(* single illegal candidate or none (<<>>, the invalid piece 7).           *)
(***************************************************************************)
EXTENDS TetrisLanes, Sequences

Kind == {"illegal", "low", "high"}
MCInvalid == {<<>>}
MCRequest == {<<>>, <<"illegal">>} \cup ({"low"} \X Kind \X Kind) \cup
    { <<"illegal", "low", "low", "illegal", "low", "illegal">>,
      <<"low", "illegal", "illegal", "low", "high", "high">>,
      <<"high", "low", "illegal", "illegal", "high", "low">> }
MCCount == [r \in MCRequest |-> Len(r)]

Id(k) == 10 * (k \div 2) + (k % 2)

MCOutcome == [r \in MCRequest |-> [k \in 0 .. MCCount[r]-1 |->
    LET legal == r[k+1] # "illegal"
    IN [ id    |-> Id(k),
         legal |-> legal,
         score |-> IF r[k+1] = "low" THEN -9 ELSE IF legal THEN -4 ELSE 0,
         y     |-> IF legal THEN k + 1 ELSE 0 ]]]
=============================================================================
