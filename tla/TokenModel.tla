----------------------------- MODULE TokenModel -----------------------------
(***************************************************************************)
(* model/a2_token_model.py: the schedule of a search as the golden model   *)
(* has it, from the numbers alone.  Pipe.step moves opaque tags through    *)
(* the banks; simulate_search issues N of them from edge FIRST_ISSUE on    *)
(* and counts what comes out; decision_latency adds the edges up.  Edge 0  *)
(* is the one on which the core accepts the request.                       *)
(***************************************************************************)
EXTENDS Integers, Sequences

CONSTANTS
    BANKS,        \* number of banks (23 in the code)
    Bubble        \* a bank whose valid bit is 0

CORE_CACHE == 1
CORE_SEARCH_START == 2
CTRL_ACCEPT == 3
FIRST_ISSUE == 4

LastBank == BANKS-1
Empty == [i \in 0 .. LastBank |-> Bubble]

Advance(pipe, m_ready, rst) == ~rst /\ (pipe[LastBank] = Bubble \/ m_ready)

(* What the banks hold after an edge that finds token (or Bubble) before    *)
(* bank 0.                                                                  *)
Step(pipe, token, m_ready, rst) ==
    IF rst THEN Empty
    ELSE IF Advance(pipe, m_ready, rst)
    THEN [i \in 0 .. LastBank |-> IF i = 0 THEN token ELSE pipe[i-1]]
    ELSE pipe

(* A search over n candidates: the banks after edge e, and the tokens that  *)
(* have been transferred.                                                   *)
IssuedAt(n, e) == IF e \in FIRST_ISSUE .. FIRST_ISSUE + n - 1 THEN e - FIRST_ISSUE ELSE Bubble

Simulated(n, e) ==
    LET Run[t \in 0 .. e] ==
            LET before == IF t = 0 THEN [pipe |-> Empty, retired |-> 0] ELSE Run[t-1]
            IN  [pipe |-> Step(before.pipe, IssuedAt(n, t), TRUE, FALSE),
                 retired |-> IF before.pipe[LastBank] = Bubble THEN before.retired ELSE before.retired + 1]
    IN  Run[e]

(* The same, added up: where each stage of the search happens.              *)
LastIssue(n) == FIRST_ISSUE + n - 1
LastVisible(n) == LastIssue(n) + LastBank
ReducerDone(n) == LastVisible(n) + 1
CoreReduce(n) == ReducerDone(n) + 1
CoreFinalize(n) == CoreReduce(n) + 1
DecisionCycles(n) == CoreFinalize(n) + 1

Formula(n) == n + BANKS + 6
NextAccept(n) == DecisionCycles(n) + 2     \* with immediate consumption
RequestInterval(n) == NextAccept(n)

-----------------------------------------------------------------------------
(* stream: n tokens offered one after the other, except on the edges of     *)
(* bubbles, to a sink that is ready except on the edges of stalls.  Per     *)
(* token, the edge that accepted it and the one after which it was first    *)
(* visible; the transfers in their order.                                   *)
Streamed(n, stalls, bubbles, edges) ==
    LET Run[e \in 0 .. edges] ==
            IF e = 0 THEN [pipe |-> Empty, accepted |-> <<>>, visible |-> <<>>, transferred |-> <<>>]
            ELSE LET s == Run[e-1]
                     edge == e - 1
                     ready == edge \notin stalls
                     token == IF Len(s.accepted) < n /\ edge \notin bubbles THEN Len(s.accepted) ELSE Bubble
                     out == s.pipe[LastBank]
                     pipe == Step(s.pipe, token, ready, FALSE)
                 IN  [pipe |-> pipe,
                      accepted |-> IF Advance(s.pipe, ready, FALSE) /\ token # Bubble
                                   THEN Append(s.accepted, edge) ELSE s.accepted,
                      visible |-> IF pipe[LastBank] # Bubble /\ pipe[LastBank] = Len(s.visible)
                                  THEN Append(s.visible, edge) ELSE s.visible,
                      transferred |-> IF out # Bubble /\ ready
                                      THEN Append(s.transferred, <<out, edge>>) ELSE s.transferred]
    IN  Run[edges]

OrderPreserved(run, n) ==
    Len(run.transferred) = n /\ \A i \in 1 .. n : run.transferred[i][1] = i - 1
VisibleLatency(run, i) == run.visible[i] - run.accepted[i]
TransferLatency(run, i) == run.transferred[i][2] - run.accepted[i]
=============================================================================
