------------------------------- MODULE MCPipe -------------------------------
(***************************************************************************)
(* Two contexts.  The golden token model is run beside, with the same      *)
(* banks.                                                                  *)
(***************************************************************************)
EXTENDS PipeProtocol

CONSTANTS r1, r2

MCRequest == {r1, r2}
MCInvalid == {}
MCCount == [r \in MCRequest |-> 1]
MCOutcome == [r \in MCRequest |-> [j \in {0} |->
                 [id |-> 0, legal |-> FALSE, score |-> 0, y |-> 0]]]

-----------------------------------------------------------------------------
Golden == INSTANCE TokenModel

(* The golden model on four tokens (tools/check_a2_spec.py, check_latency): *)
(* without stalls and bubbles one token is accepted on each edge, visible   *)
(* after BANKS - 1 edges and transferred after BANKS; with them, in every   *)
(* pattern of four edges in which both ends move at all, nothing is lost or *)
(* overtaken and no token is faster.                                        *)
Tokens == 4
Edges == 8 * Tokens + 2 * BANKS
Every4(pattern) == {e \in 0 .. Edges : e % 4 \in pattern}

ASSUME GoldenModelKeepsItsLaws ==
    \A stalls, bubbles \in SUBSET (0 .. 3) \ {0 .. 3} :
        LET run == Golden!Streamed(Tokens, Every4(stalls), Every4(bubbles), Edges)
        IN  /\ Golden!OrderPreserved(run, Tokens)
            /\ \A i \in 1 .. Tokens : Golden!TransferLatency(run, i) >= BANKS
            /\ stalls = {} /\ bubbles = {} =>
                   \A i \in 1 .. Tokens :
                       /\ Golden!VisibleLatency(run, i) = BANKS - 1
                       /\ Golden!TransferLatency(run, i) = BANKS
                       /\ i > 1 => run.accepted[i] = run.accepted[i-1] + 1
=============================================================================
