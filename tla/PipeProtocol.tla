---------------------------- MODULE PipeProtocol ----------------------------
(***************************************************************************)
(* candidate_pipe under the most general environment its token interface   *)
(* admits: any pattern of s_valid and m_ready, reset at any edge.  Every   *)
(* step of the specification is one rising clock edge; rst, s_valid and    *)
(* m_ready are the wires sampled by that edge.                             *)
(*                                                                         *)
(* The environment numbers the tokens it gets accepted, and keeps the      *)
(* context stable while any token is in flight (docs/design_a2.md, 3).     *)
(***************************************************************************)
EXTENDS CandidatePipe

CONSTANT MaxTokens   \* bound: tokens the environment gets accepted
ASSUME MaxTokensAssumption == MaxTokens \in Nat

VARIABLES
    rst, s_valid, m_ready,  \* input wires
    ctx,                    \* the request whose context is on the ctx_* inputs
    accepted,               \* tokens accepted so far: the tag of the next one
    delivered               \* the tag the next output transfer must carry

protocolVars == <<bank, rst, s_valid, m_ready, ctx, accepted, delivered>>

WireTypeOK ==
    /\ rst \in BOOLEAN /\ s_valid \in BOOLEAN /\ m_ready \in BOOLEAN
    /\ ctx \in Request

ProtocolTypeOK ==
    /\ PipeTypeOK
    /\ WireTypeOK
    /\ accepted \in Nat /\ delivered \in 0 .. accepted

ProtocolInit ==
    /\ PipeInit
    /\ rst \in BOOLEAN /\ s_valid = FALSE /\ m_ready \in BOOLEAN
    /\ ctx \in Request
    /\ accepted = 0 /\ delivered = 0

(* The wires the next edge will sample.  The context may be replaced only   *)
(* once the pipeline is empty.                                              *)
Drive ==
    /\ rst' \in BOOLEAN
    /\ m_ready' \in BOOLEAN
    /\ s_valid' \in {v \in BOOLEAN : v => accepted' < MaxTokens}
    /\ ctx' \in {r \in Request : r = ctx \/ bank' = EmptyPipe}

SourceToken == IF s_valid THEN Issue(ContextOf(ctx), accepted, FALSE) ELSE Bubble

ProtocolEdge == PipeEdge(rst, m_ready, SourceToken, ContextOf(ctx))

(* Reset cancels every token in flight.                                     *)
CancelEdge ==
    /\ rst
    /\ ProtocolEdge
    /\ delivered' = accepted
    /\ UNCHANGED accepted
    /\ Drive

(* A valid output that is not ready freezes every bank.                     *)
StallEdge ==
    /\ ~rst /\ ~Advance(rst, m_ready)
    /\ ProtocolEdge
    /\ UNCHANGED <<accepted, delivered>>
    /\ Drive

(* Fault: without an input or an output token the banks do not move, so the *)
(* last tokens never drain.                                                 *)
AdvanceEdge_NoDrain ==
    /\ Advance(rst, m_ready)
    /\ IF s_valid \/ MValid(rst) THEN ProtocolEdge ELSE UNCHANGED bank
    /\ accepted' = IF s_valid THEN accepted + 1 ELSE accepted
    /\ delivered' = IF MValid(rst) /\ m_ready THEN delivered + 1 ELSE delivered
    /\ Drive

AdvanceEdge ==
    /\ Advance(rst, m_ready)
    /\ ProtocolEdge
    /\ accepted' = IF s_valid /\ SReady(rst, m_ready) THEN accepted + 1 ELSE accepted
    /\ delivered' = IF MValid(rst) /\ m_ready THEN delivered + 1 ELSE delivered
    /\ Drive

ProtocolNext == CancelEdge \/ StallEdge \/ AdvanceEdge

(* The clock does not stop; nothing is assumed of the wires.                *)
ProtocolSpec == ProtocolInit /\ [][ProtocolNext]_protocolVars /\ WF_protocolVars(ProtocolNext)

-----------------------------------------------------------------------------
(* Conservation and order ("Every accepted candidate produces exactly one  *)
(* result token unless reset cancels it", docs/design_a2.md, 4): whatever   *)
(* the stalls, bubbles and resets, the tokens in flight are exactly those   *)
(* accepted and not yet delivered or cancelled, no later one ahead of an    *)
(* earlier one, none twice.                                                 *)
Conservation ==
    /\ {bank[i].tag : i \in InFlight} = delivered .. accepted-1
    /\ \A i, k \in InFlight : i < k => bank[i].tag > bank[k].tag

(* The output transfer delivers the oldest outstanding token, assembled     *)
(* wholly from the context it was accepted under: nothing read at P0 and    *)
(* nothing merged at P3 comes from another request, however long the        *)
(* pipeline stalled between the two.                                        *)
OutputIsOldest ==
    MValid(rst) =>
        /\ bank[LastBank].tag = delivered
        /\ Coherent(bank[LastBank]) /\ bank[LastBank].board = ctx

(* If the consumer is ready infinitely often, every accepted token is       *)
(* delivered or cancelled by a reset: the global advance cannot deadlock on *)
(* bubbles or on a full pipeline.                                           *)
EveryTokenDelivered ==
    []<>m_ready =>
        \A n \in 1 .. MaxTokens : (accepted >= n) ~> (delivered >= n)
=============================================================================
