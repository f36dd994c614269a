-------------------------------- MODULE MCA2 --------------------------------
(***************************************************************************)
(* A request is the tuple of its candidates' kinds: illegal or one of two  *)
(* scores.  All requests of one to MaxN candidates; requests of the real   *)
(* sizes 9, 17 and 34, with the winner first, last, in the middle, tied    *)
(* with a later candidate, or absent; and the invalid request <<>> (piece  *)
(* 7, no candidates).                                                      *)
(***************************************************************************)
EXTENDS TetrisA2, FiniteSets

CONSTANT MaxN

Kind == {"illegal", "low", "high"}

(* n candidates, the ones of the two sets scoring high and low.             *)
Placed(n, high, low) ==
    [i \in 1 .. n |-> IF i-1 \in high THEN "high" ELSE IF i-1 \in low THEN "low" ELSE "illegal"]
RealSize == { Placed(9, {}, {}), Placed(9, {0}, 1 .. 8), Placed(9, {}, 0 .. 8),
              Placed(17, {16}, 0 .. 15), Placed(17, {3, 12, 16}, {0}),
              Placed(34, {33}, {}), Placed(34, {5, 11, 33}, {0, 32}) }

MCInvalid == {<<>>}
MCRequest == UNION {[1 .. n -> Kind] : n \in 0 .. MaxN} \cup RealSize
MCCount == [r \in MCRequest |-> Cardinality(DOMAIN r)]

Id(k) == 10 * (k \div 9) + (k % 9)

MCOutcome == [r \in MCRequest |-> [k \in 0 .. MCCount[r]-1 |->
    LET legal == r[k+1] # "illegal"
    IN [ id    |-> Id(k),
         legal |-> legal,
         score |-> IF r[k+1] = "low" THEN -9 ELSE IF legal THEN -4 ELSE 0,
         y     |-> IF legal THEN k % 20 ELSE 0 ]]]

-----------------------------------------------------------------------------
(* The golden model at the real sizes (tools/check_a2_spec.py,              *)
(* check_latency): the documented latencies, and a next request two cycles  *)
(* after each (request_interval.py).  CycleContract counts the tokens.      *)
ASSUME GoldenLatencies ==
    \A n \in {9, 17, 34} :
        LET d == Golden!DecisionCycles(n)
        IN  /\ d = (CASE n = 9 -> 38 [] n = 17 -> 46 [] n = 34 -> 63)
            /\ d = Golden!Formula(n) /\ Golden!RequestInterval(n) = d + 2
=============================================================================
