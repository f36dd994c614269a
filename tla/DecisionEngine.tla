--------------------------- MODULE DecisionEngine ---------------------------
(***************************************************************************)
(* What a decision engine promises its client (docs/spec.md and the header *)
(* of src/rtl/tetris_core.sv): one outstanding request; every accepted     *)
(* request is answered, unless a reset cancels it, with the one decision   *)
(* the rules give it; the answer stays until it is consumed.  Every        *)
(* architecture of the core is shown to implement this specification.      *)
(***************************************************************************)
CONSTANTS
    Request,       \* requests a client may present
    NoRequest,     \* no request is outstanding
    NoResponse,    \* no response is on offer
    Decision       \* Decision[r]: the one answer to request r

VARIABLES
    outstanding,   \* the request being worked on, or NoRequest
    answer         \* the response on offer, or NoResponse

vars == <<outstanding, answer>>

Init == outstanding = NoRequest /\ answer = NoResponse

Accept(r) ==
    /\ outstanding = NoRequest
    /\ outstanding' = r
    /\ UNCHANGED answer

Answer ==
    /\ outstanding # NoRequest /\ answer = NoResponse
    /\ answer' = Decision[outstanding]
    /\ UNCHANGED outstanding

Consume ==
    /\ answer # NoResponse
    /\ outstanding' = NoRequest /\ answer' = NoResponse

Cancel ==
    /\ outstanding # NoRequest
    /\ outstanding' = NoRequest /\ answer' = NoResponse

Next == (\E r \in Request : Accept(r)) \/ Answer \/ Consume \/ Cancel

Promise == Init /\ [][Next]_vars

(* An accepted request is answered unless it is cancelled: under Promise    *)
(* this says the same as weak fairness of Answer.                           *)
Progress == (outstanding # NoRequest) ~> (answer # NoResponse \/ outstanding = NoRequest)

Spec == Promise /\ Progress
=============================================================================
