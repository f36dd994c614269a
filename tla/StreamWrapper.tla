---------------------------- MODULE StreamWrapper ----------------------------
(***************************************************************************)
(* src/rtl/stream_wrapper.sv: words in, one request to the core, words     *)
(* out.  The core is the abstract engine of DecisionEngine, which TetrisA2,*)
(* TetrisLanes and TetrisD2 implement: its answer may take any number of   *)
(* clock edges.  A step is one edge of the wrapper, or an edge on which    *)
(* only the core makes progress.                                           *)
(*                                                                         *)
(* A word is its field, the bits the registers keep: 5:0 of the first word,*)
(* all of the next six, 7:0 of the last.  The response registers are the   *)
(* three words of one response.                                            *)
(***************************************************************************)
EXTENDS Naturals, Sequences

CONSTANTS
    Field, Zero,       \* contents of a word; the cleared one
    NoRequest, NoResponse,  \* NoResponse also stands for cleared response registers
    Action, Score, Cycles  \* the parts of the response to a packet, by packet

Index == 0 .. 7        \* widx: 3 bits
Packet == [Index -> Field]

(* The three words of the response to packet p.                             *)
Reply(p) == <<Action[p], Score[p], Cycles[p]>>

ASSUME WrapperAssumption ==
    /\ Zero \in Field
    /\ NoRequest \notin Packet
    /\ NoResponse \notin {Reply(p) : p \in Packet}

VARIABLES
    state, widx, tidx,
    words,             \* piece_q, next_q, board_q as the eight fields they come from
    rsp,               \* rsp0_q, rsp1_q, rsp2_q
    outstanding, answer  \* the core: see DecisionEngine

wrapperVars == <<state, widx, tidx, words, rsp>>
coreVars == <<outstanding, answer>>
streamVars == <<wrapperVars, coreVars>>

Core == INSTANCE DecisionEngine WITH
            Request <- Packet,
            Decision <- [p \in Packet |-> Reply(p)]

ClearedWords == [i \in Index |-> Zero]

(* The registers keep their widths; the two index counters wrap by theirs.   *)
WrapperTypeOK ==
    /\ state \in {"RX", "REQ", "WAIT", "TX"}
    /\ widx \in Index /\ tidx \in 0 .. 3
    /\ words \in Packet
    /\ rsp \in {NoResponse} \cup {Reply(p) : p \in Packet}
    /\ outstanding \in Packet \cup {NoRequest}

WrapperInit ==
    /\ state = "RX" /\ widx = 0 /\ tidx = 0
    /\ words = ClearedWords /\ rsp = NoResponse
    /\ Core!Init

-----------------------------------------------------------------------------
(* rst is shared with the core.                                             *)
ResetEdge ==
    /\ state' = "RX" /\ widx' = 0 /\ tidx' = 0
    /\ words' = ClearedWords /\ rsp' = NoResponse
    /\ outstanding' = NoRequest /\ answer' = NoResponse

(* Fault: the request goes out with the seventh word.                       *)
Receive_AsksEarly(f) ==
    /\ state = "RX"
    /\ words' = [words EXCEPT ![widx] = f]
    /\ widx' = (widx + 1) % 8
    /\ state' = IF widx = 6 THEN "REQ" ELSE "RX"
    /\ UNCHANGED <<tidx, rsp, coreVars>>

(* s_ready is high in RX: the word with field f is taken in.                *)
Receive(f) ==
    /\ state = "RX"
    /\ words' = [words EXCEPT ![widx] = f]
    /\ widx' = (widx + 1) % 8
    /\ state' = IF widx = 7 THEN "REQ" ELSE "RX"
    /\ UNCHANGED <<tidx, rsp, coreVars>>

(* Fault: WAIT is entered whether or not the core took the request.         *)
Ask_Unanswered ==
    /\ state = "REQ"
    /\ state' = "WAIT"
    /\ UNCHANGED <<widx, tidx, words, rsp, coreVars>>

(* REQ with req_ready high: the core latches the packet.                    *)
Ask ==
    /\ state = "REQ"
    /\ Core!Accept(words)
    /\ state' = "WAIT"
    /\ UNCHANGED <<widx, tidx, words, rsp>>

(* Fault: the response is copied without being taken from the core.         *)
Capture_LeavesResponse ==
    /\ state = "WAIT" /\ answer # NoResponse
    /\ rsp' = answer
    /\ tidx' = 0
    /\ state' = "TX"
    /\ UNCHANGED <<widx, words, coreVars>>

(* WAIT with rsp_valid high: the response is taken from the core.           *)
Capture ==
    /\ state = "WAIT"
    /\ rsp' = answer
    /\ Core!Consume
    /\ tidx' = 0
    /\ state' = "TX"
    /\ UNCHANGED <<widx, words>>

(* TX with m_ready high.                                                    *)
Transmit ==
    /\ state = "TX"
    /\ tidx' = (tidx + 1) % 4
    /\ \/ tidx = 2 /\ state' = "RX" /\ widx' = 0
       \/ tidx # 2 /\ UNCHANGED <<state, widx>>
    /\ UNCHANGED <<words, rsp, coreVars>>

(* The core finishes while the wrapper waits.                               *)
CoreAnswers == Core!Answer /\ UNCHANGED wrapperVars

WrapperNext ==
    \/ ResetEdge
    \/ \E f \in Field : Receive(f)
    \/ Ask \/ Capture \/ Transmit \/ CoreAnswers

(* The clock runs and the core keeps its promise of progress (checked for   *)
(* each architecture); the two ends of the stream promise nothing.          *)
WrapperSpec == WrapperInit /\ [][WrapperNext]_streamVars /\ WF_streamVars(Ask \/ Capture) /\ WF_streamVars(CoreAnswers)

-----------------------------------------------------------------------------
(* m_data: the word on offer for a given index.                             *)
WordAt(t) == IF t = 0 THEN rsp[1] ELSE IF t = 1 THEN rsp[2] ELSE rsp[3]

(* The stream as its two ends see it: words taken since the last boundary,  *)
(* and words still to come.                                                 *)
Inbox ==
    [i \in 1 .. IF state = "RX" THEN widx ELSE 8 |-> words[i-1]]
Outbox ==
    IF state = "TX" THEN [i \in 1 .. 3 - tidx |-> WordAt(tidx + i - 1)] ELSE <<>>

ReplyToWords(fs) == Reply([i \in Index |-> fs[i+1]])

Stream == INSTANCE PacketServer WITH
            Words <- 8, inbox <- Inbox, outbox <- Outbox, ReplyTo <- ReplyToWords

(* The wrapper implements the packet server: each eight words taken in      *)
(* since the last boundary are answered by the three words of the decision  *)
(* for exactly those fields, in order, before another word is taken in,     *)
(* whatever pauses and resets happen on the way.                            *)
PacketsAnswered == Stream!Promise

(* A complete packet gets its response on the stream, unless a reset        *)
(* discards it.                                                             *)
EveryPacketAnswered == Stream!Progress

(* One transaction at a time: the core works on the registered packet       *)
(* exactly while the wrapper waits, and REQ always finds it ready, so no    *)
(* request is lost or asked twice and no response is left behind in it.     *)
CoreInStep ==
    /\ state = "WAIT" => outstanding = words
    /\ state # "WAIT" => outstanding = NoRequest /\ answer = NoResponse
=============================================================================
