------------------------------ MODULE A2Proofs ------------------------------
(***************************************************************************)
(* The A2 core from its token pipeline upwards, for every number of banks, *)
(* every set of requests and every candidate list: first the pipeline      *)
(* under every environment of its token interface (PipeProtocol, what      *)
(* MCPipe checks for four banks), then the search under every environment  *)
(* of its start/done interface (SearchPipeline, what MCSearch checks for   *)
(* three banks and four candidates), then the core around it, which        *)
(* implements the abstract decision engine (what MCA2 checks on instances).*)
(*                                                                         *)
(* The inductive invariants of the first two say of the tokens in flight,  *)
(* bank by bank, what Conservation and TokensInOrder say of the set of     *)
(* their tags: each is outstanding, each outstanding tag is in some bank,  *)
(* and an earlier bank holds a later token.  The order is what makes the   *)
(* last bank hold the oldest token, so that an output transfer takes       *)
(* exactly that away.                                                      *)
(*                                                                         *)
(* The inductive invariant of the core ties the search and the state       *)
(* machine around it together state by state: outside SEARCH_WAIT the      *)
(* search is quiet, inside it exactly one of the start pulse, the running  *)
(* search and the done pulse is there, and from the done pulse on the      *)
(* winner of the latched request travels from the search's best registers  *)
(* through the reduction to the response.                                  *)
(*                                                                         *)
(* Last the cycle contract: the recursion of the golden token model in     *)
(* closed form, and the edge counter of the core in step with it.          *)
(***************************************************************************)
EXTENDS TetrisA2, PipeProtocol, SearchPipeline, CoreLemmas, WellFoundedInduction

ContextRecord == [piece : Context, heights : Context, board : Context]

LEMMA BankFacts ==
    /\ Bank \subseteq Int /\ LastBank \in Bank /\ 0 \in Bank /\ MERGE \in Bank
    /\ \A i \in Bank : i <= LastBank
    /\ \A i \in Bank : i # 0 => i-1 \in Bank
    /\ \A i \in Bank : i # LastBank => i+1 \in Bank
  BY PipeAssumption DEF Bank, LastBank

LEMMA ContextOfIsRecord ==
    ASSUME NEW r \in Request
    PROVE  ContextOf(r) \in ContextRecord /\ ContextOf(r).board = r
  BY DEF ContextOf, ContextRecord, Context

LEMMA BubbleIsNoToken == \A t \in Token : t # Bubble
  BY PipeAssumption

(* A bank loads a token exactly when one stands before it, and the token    *)
(* keeps its tag, marker, piece and heights; its board is the context's in  *)
(* bank MERGE and otherwise what it was.                                    *)
LEMMA LoadToken ==
    ASSUME NEW in \in Token \cup {Bubble}, NEW c \in ContextRecord,
           NEW i \in Bank, PipeTypeOK
    PROVE  LET t == IF i = 0 THEN in ELSE bank[i-1]
               u == Load(i, in, c)
           IN /\ t \in Token \cup {Bubble}
              /\ u \in Token \cup {Bubble}
              /\ u = Bubble <=> t = Bubble
              /\ u # Bubble =>
                     /\ t \in Token /\ u \in Token
                     /\ u.tag = t.tag /\ u.last = t.last
                     /\ u.piece = t.piece /\ u.heights = t.heights
                     /\ u.board = IF i = MERGE THEN c.board ELSE t.board
  <1> DEFINE t == IF i = 0 THEN in ELSE bank[i-1]
  <1>1. t \in Token \cup {Bubble}
    BY BankFacts DEF PipeTypeOK
  <1>2. CASE t = Bubble
    BY <1>1, <1>2 DEF Load
  <1>3. CASE t # Bubble
    <2>1. t \in Token
      BY <1>1, <1>3
    <2>2. CASE i = MERGE
      <3>1. Load(i, in, c) = [t EXCEPT !.board = c.board]
        BY <2>2, <1>3 DEF Load
      <3>2. /\ [t EXCEPT !.board = c.board] \in Token
            /\ [t EXCEPT !.board = c.board].board = c.board
            /\ [t EXCEPT !.board = c.board].tag = t.tag
            /\ [t EXCEPT !.board = c.board].last = t.last
            /\ [t EXCEPT !.board = c.board].piece = t.piece
            /\ [t EXCEPT !.board = c.board].heights = t.heights
        BY <2>1 DEF Token, ContextRecord
      <3> QED
        BY <3>1, <3>2, <2>1, <2>2, <1>3, BubbleIsNoToken
    <2>3. CASE i # MERGE
      BY <2>1, <2>3, <1>3, BubbleIsNoToken DEF Load
    <2> QED
      BY <2>2, <2>3
  <1> QED
    BY <1>2, <1>3

(* The three things an edge can do to the banks.                            *)
LEMMA EdgeCases ==
    ASSUME NEW reset \in BOOLEAN, NEW ready \in BOOLEAN,
           NEW in, NEW c, PipeEdge(reset, ready, in, c)
    PROVE  /\ reset => bank' = EmptyPipe
           /\ Advance(reset, ready) => bank' = [i \in Bank |-> Load(i, in, c)]
           /\ ~reset /\ ~Advance(reset, ready) => bank' = bank
  BY DEF PipeEdge, Advance

LEMMA EmptyHasNoToken ==
    ASSUME bank' = EmptyPipe
    PROVE  PipeTypeOK' /\ InFlight' = {}
  BY DEF EmptyPipe, PipeTypeOK, InFlight, Valid

-----------------------------------------------------------------------------
(* The pipeline alone, under PipeProtocol.                                  *)
Undelivered == delivered .. accepted-1

TagsUndelivered == \A i \in InFlight : bank[i].tag \in Undelivered
TagsHeld == \A n \in Undelivered : \E i \in InFlight : bank[i].tag = n
TagsInOrder == \A i, k \in InFlight : i < k => bank[i].tag > bank[k].tag
OneContext ==
    \A i \in InFlight : /\ bank[i].piece = ctx /\ bank[i].heights = ctx
                        /\ i >= MERGE => bank[i].board = ctx

ProtocolIInv == ProtocolTypeOK /\ TagsUndelivered /\ TagsHeld /\ TagsInOrder /\ OneContext

-----------------------------------------------------------------------------
LEMMA InFlightTokens ==
    ASSUME PipeTypeOK, NEW i \in InFlight
    PROVE  i \in Bank /\ bank[i] \in Token /\ bank[i].tag \in Nat
  BY DEF PipeTypeOK, InFlight, Valid, Token

LEMMA SourceTokenType ==
    ASSUME ProtocolTypeOK
    PROVE  /\ SourceToken \in Token \cup {Bubble}
           /\ s_valid => /\ SourceToken # Bubble
                         /\ SourceToken.tag = accepted /\ SourceToken.piece = ctx /\ SourceToken.heights = ctx
           /\ ~s_valid => SourceToken = Bubble
  <1>1. ASSUME s_valid
        PROVE  SourceToken = [tag |-> accepted, last |-> FALSE,
                     piece |-> ctx, heights |-> ctx, board |-> NoRequest]
    BY <1>1 DEF SourceToken, Issue, ContextOf
  <1>2. ASSUME s_valid
        PROVE  SourceToken \in Token /\ SourceToken.tag = accepted /\ SourceToken.piece = ctx /\ SourceToken.heights = ctx
    <2>1. ctx \in Context /\ NoRequest \in Context /\ accepted \in Nat /\ FALSE \in BOOLEAN
      BY DEF ProtocolTypeOK, WireTypeOK, Context
    <2>2. [tag |-> accepted, last |-> FALSE, piece |-> ctx, heights |-> ctx,
           board |-> NoRequest] \in Token
      BY <2>1, Zenon DEF Token
    <2>3. SourceToken = [tag |-> accepted, last |-> FALSE, piece |-> ctx, heights |-> ctx,
                board |-> NoRequest]
      BY <1>1, <1>2
    <2>4. SourceToken \in Token
      BY <2>2, <2>3, Zenon
    <2> QED
      BY <2>3, <2>4
  <1>3. ~s_valid => SourceToken = Bubble
    BY DEF SourceToken
  <1> QED
    BY <1>2, <1>3, BubbleIsNoToken

(* While a token is in flight the oldest outstanding one is at the output   *)
(* if anything is.                                                          *)
LEMMA OldestAtOutput ==
    ASSUME ProtocolIInv, Valid(LastBank)
    PROVE  bank[LastBank].tag = delivered /\ delivered < accepted
  <1>1. LastBank \in InFlight
    BY BankFacts DEF InFlight
  <1>2. bank[LastBank].tag \in Undelivered /\ delivered \in Undelivered
    BY <1>1 DEF ProtocolIInv, TagsUndelivered, Undelivered, ProtocolTypeOK
  <1>3. PICK i \in InFlight : bank[i].tag = delivered
    BY <1>2 DEF ProtocolIInv, TagsHeld
  <1>4. i = LastBank \/ i < LastBank
    BY BankFacts, <1>1 DEF InFlight
  <1>5. CASE i < LastBank
    <2>1. delivered > bank[LastBank].tag
      BY <1>1, <1>3, <1>5 DEF ProtocolIInv, TagsInOrder
    <2> QED
      BY <2>1, <1>2 DEF Undelivered, ProtocolIInv, ProtocolTypeOK
  <1> QED
    BY <1>2, <1>3, <1>4, <1>5 DEF Undelivered, ProtocolIInv, ProtocolTypeOK

-----------------------------------------------------------------------------
LEMMA ProtocolInitIInv == ProtocolInit => ProtocolIInv
  <1> SUFFICES ASSUME ProtocolInit PROVE ProtocolIInv
    OBVIOUS
  <1>1. InFlight = {}
    BY DEF ProtocolInit, PipeInit, EmptyPipe, InFlight, Valid
  <1>2. ProtocolTypeOK
    <2>1. PipeTypeOK
      BY DEF ProtocolInit, PipeInit, EmptyPipe, PipeTypeOK
    <2>2. WireTypeOK
      BY Zenon DEF ProtocolInit, WireTypeOK
    <2>3. accepted \in Nat /\ delivered \in 0 .. accepted
      BY DEF ProtocolInit
    <2> QED
      BY <2>1, <2>2, <2>3 DEF ProtocolTypeOK
  <1>3. Undelivered = {}
    BY DEF ProtocolInit, Undelivered
  <1> QED
    BY <1>1, <1>2, <1>3 DEF ProtocolIInv, TagsUndelivered, TagsHeld, TagsInOrder, OneContext

LEMMA DriveType == ASSUME Drive PROVE WireTypeOK'
  BY DEF Drive, WireTypeOK

LEMMA CancelStep == ASSUME ProtocolIInv, CancelEdge PROVE ProtocolIInv'
  <1>1. bank' = EmptyPipe
    BY EdgeCases DEF CancelEdge, ProtocolEdge, ProtocolIInv, ProtocolTypeOK, WireTypeOK
  <1>2. PipeTypeOK' /\ InFlight' = {}
    BY <1>1, EmptyHasNoToken
  <1>3. ProtocolTypeOK'
    BY <1>2, DriveType DEF CancelEdge, ProtocolTypeOK, ProtocolIInv
  <1>4. Undelivered' = {}
    BY DEF CancelEdge, Undelivered, ProtocolIInv, ProtocolTypeOK
  <1> QED
    BY <1>2, <1>3, <1>4 DEF ProtocolIInv, TagsUndelivered, TagsHeld, TagsInOrder, OneContext

LEMMA StallStep == ASSUME ProtocolIInv, StallEdge PROVE ProtocolIInv'
  <1>1. bank' = bank
    BY EdgeCases DEF StallEdge, ProtocolEdge, ProtocolIInv, ProtocolTypeOK, WireTypeOK
  <1>2. ProtocolTypeOK'
    BY <1>1, DriveType DEF StallEdge, ProtocolTypeOK, PipeTypeOK, ProtocolIInv
  <1>3. InFlight' = InFlight /\ Undelivered' = Undelivered
    BY <1>1 DEF InFlight, Valid, Undelivered, StallEdge
  <1>4. Valid(LastBank)
    BY DEF StallEdge, Advance
  <1>5. ctx' = ctx
    BY <1>1, <1>4, BankFacts DEF StallEdge, Drive, Valid, EmptyPipe
  <1> QED
    BY <1>1, <1>2, <1>3, <1>5
       DEF ProtocolIInv, TagsUndelivered, TagsHeld, TagsInOrder, OneContext

(* Where the token of each bank comes from on an advancing edge.            *)
LEMMA AdvanceLoads ==
    ASSUME ProtocolIInv, AdvanceEdge, NEW i \in Bank
    PROVE  LET t == IF i = 0 THEN SourceToken ELSE bank[i-1]
           IN /\ i \in InFlight' <=> t # Bubble
              /\ i \in InFlight' =>
                     /\ bank'[i] \in Token /\ t \in Token
                     /\ bank'[i].tag = t.tag
                     /\ bank'[i].piece = t.piece /\ bank'[i].heights = t.heights
                     /\ bank'[i].board = IF i = MERGE THEN ctx ELSE t.board
  <1>1. bank' = [k \in Bank |-> Load(k, SourceToken, ContextOf(ctx))]
    BY EdgeCases DEF AdvanceEdge, ProtocolEdge, ProtocolIInv, ProtocolTypeOK, WireTypeOK
  <1>2. bank'[i] = Load(i, SourceToken, ContextOf(ctx))
    BY <1>1
  <1>3. SourceToken \in Token \cup {Bubble}
    BY SourceTokenType DEF ProtocolIInv
  <1>4. ContextOf(ctx) \in ContextRecord /\ ContextOf(ctx).board = ctx
    BY ContextOfIsRecord DEF ProtocolIInv, ProtocolTypeOK, WireTypeOK, ContextOf
  <1>5. PipeTypeOK
    BY DEF ProtocolIInv, ProtocolTypeOK
  <1>6. i \in InFlight' <=> bank'[i] # Bubble
    BY DEF InFlight, Valid
  <1> HIDE DEF ContextOf
  <1> QED
    BY <1>2, <1>3, <1>4, <1>5, <1>6, LoadToken

(* The tokens after the edge: the input in bank 0, and the token of bank k  *)
(* in bank k+1.                                                             *)
LEMMA AdvanceMoves ==
    ASSUME ProtocolIInv, AdvanceEdge
    PROVE  /\ \A i \in InFlight' :
                  /\ i \in Bank
                  /\ i = 0 => s_valid /\ bank'[i].tag = accepted
                  /\ i # 0 => i-1 \in InFlight /\ bank'[i].tag = bank[i-1].tag
           /\ s_valid => 0 \in InFlight' /\ bank'[0].tag = accepted
           /\ \A k \in InFlight : k # LastBank =>
                  k+1 \in InFlight' /\ bank'[k+1].tag = bank[k].tag
  <1>1. ASSUME NEW i \in InFlight'
        PROVE  /\ i \in Bank
               /\ i = 0 => s_valid /\ bank'[i].tag = accepted
               /\ i # 0 => i-1 \in InFlight /\ bank'[i].tag = bank[i-1].tag
    <2>1. i \in Bank
      BY <1>1 DEF InFlight
    <2>2. CASE i = 0
      BY <1>1, <2>1, <2>2, AdvanceLoads, SourceTokenType DEF ProtocolIInv
    <2>3. CASE i # 0
      <3>1. i-1 \in Bank
        BY <2>1, <2>3, BankFacts
      <3> QED
        BY <1>1, <2>1, <2>3, <3>1, AdvanceLoads DEF InFlight, Valid
    <2> QED
      BY <2>1, <2>2, <2>3
  <1>2. ASSUME s_valid PROVE 0 \in InFlight' /\ bank'[0].tag = accepted
    BY <1>2, AdvanceLoads, SourceTokenType, BankFacts DEF ProtocolIInv
  <1>3. ASSUME NEW k \in InFlight, k # LastBank
        PROVE  k+1 \in InFlight' /\ bank'[k+1].tag = bank[k].tag
    <2>1. k \in Bank /\ k+1 \in Bank /\ k+1 # 0 /\ (k+1)-1 = k /\ bank[k] # Bubble
      BY <1>3, BankFacts DEF InFlight, Valid, Bank
    <2> QED
      BY <2>1, AdvanceLoads
  <1> QED
    BY <1>1, <1>2, <1>3

LEMMA AdvanceStep == ASSUME ProtocolIInv, AdvanceEdge PROVE ProtocolIInv'
  <1> USE DEF ProtocolIInv
  <1>a. /\ ProtocolTypeOK /\ ~rst
        /\ accepted \in Nat /\ delivered \in Nat /\ delivered <= accepted
    BY DEF ProtocolTypeOK, AdvanceEdge, Advance
  <1>b. accepted' = IF s_valid THEN accepted + 1 ELSE accepted
    BY DEF AdvanceEdge, SReady
  <1>c. delivered' = IF Valid(LastBank) THEN delivered + 1 ELSE delivered
    BY <1>a DEF AdvanceEdge, MValid, Advance
  <1>d. Valid(LastBank) => bank[LastBank].tag = delivered /\ delivered < accepted
    BY OldestAtOutput
  <1>1. PipeTypeOK'
    <2>1. bank' = [k \in Bank |-> Load(k, SourceToken, ContextOf(ctx))]
      BY EdgeCases DEF AdvanceEdge, ProtocolEdge, ProtocolTypeOK, WireTypeOK
    <2>2. \A i \in Bank : Load(i, SourceToken, ContextOf(ctx)) \in Token \cup {Bubble}
      BY LoadToken, SourceTokenType, ContextOfIsRecord DEF ProtocolTypeOK, WireTypeOK
    <2> QED
      BY <2>1, <2>2 DEF PipeTypeOK
  <1>2. ProtocolTypeOK'
    <2>1. accepted' \in Nat /\ delivered' \in 0 .. accepted'
      BY <1>a, <1>b, <1>c, <1>d
    <2> QED
      BY <1>1, <2>1, DriveType DEF ProtocolTypeOK, AdvanceEdge
  <1>3. TagsUndelivered'
    <2> SUFFICES ASSUME NEW i \in InFlight' PROVE bank'[i].tag \in delivered' .. accepted'-1
      BY DEF TagsUndelivered, Undelivered
    <2>1. CASE i = 0
      BY <2>1, <1>a, <1>b, <1>c, <1>d, AdvanceMoves
    <2>2. CASE i # 0
      <3>1. i-1 \in InFlight /\ i \in Bank /\ bank'[i].tag = bank[i-1].tag
        BY <2>2, AdvanceMoves
      <3>2. bank[i-1].tag \in delivered .. accepted-1
        BY <3>1 DEF TagsUndelivered, Undelivered
      <3>3. i-1 < LastBank
        BY <3>1, BankFacts DEF Bank, LastBank
      <3>4. Valid(LastBank) => bank[i-1].tag > delivered
        BY <3>1, <3>3, <1>d, BankFacts DEF TagsInOrder, InFlight
      <3> QED
        BY <3>1, <3>2, <3>4, <1>a, <1>b, <1>c
    <2> QED
      BY <2>1, <2>2
  <1>4. TagsHeld'
    <2> SUFFICES ASSUME NEW n \in delivered' .. accepted'-1
                 PROVE  \E i \in InFlight' : bank'[i].tag = n
      BY DEF TagsHeld, Undelivered
    <2>1. CASE n = accepted
      BY <2>1, <1>a, <1>b, AdvanceMoves
    <2>2. CASE n # accepted
      <3>1. n \in delivered .. accepted-1
        BY <2>2, <1>a, <1>b, <1>c
      <3>2. PICK k \in InFlight : bank[k].tag = n
        BY <3>1 DEF TagsHeld, Undelivered
      <3>3. k # LastBank
        BY <3>2, <1>a, <1>c, <1>d DEF InFlight
      <3> QED
        BY <3>2, <3>3, AdvanceMoves
    <2> QED
      BY <2>1, <2>2
  <1>5. TagsInOrder'
    <2> SUFFICES ASSUME NEW i \in InFlight', NEW k \in InFlight', i < k
                 PROVE  bank'[i].tag > bank'[k].tag
      BY DEF TagsInOrder
    <2>0. i \in Bank /\ k \in Bank /\ k # 0
      BY AdvanceMoves DEF Bank
    <2>1. k-1 \in InFlight /\ bank'[k].tag = bank[k-1].tag
      BY <2>0, AdvanceMoves
    <2>2. CASE i = 0
      BY <2>1, <2>2, <1>a, AdvanceMoves DEF TagsUndelivered, Undelivered
    <2>3. CASE i # 0
      <3>1. i-1 \in InFlight /\ bank'[i].tag = bank[i-1].tag
        BY <2>3, AdvanceMoves
      <3>2. i-1 < k-1
        BY <2>0 DEF Bank
      <3> QED
        BY <2>1, <3>1, <3>2 DEF TagsInOrder
    <2> QED
      BY <2>2, <2>3
  <1>6. OneContext'
    <2> SUFFICES ASSUME NEW i \in InFlight'
                 PROVE  /\ bank'[i].piece = ctx' /\ bank'[i].heights = ctx'
                        /\ i >= MERGE => bank'[i].board = ctx'
      BY DEF OneContext
    <2>1. ctx' = ctx
      BY DEF AdvanceEdge, Drive, InFlight, Valid, EmptyPipe
    <2>2. i \in Bank
      BY DEF InFlight
    <2>3. CASE i = 0
      <3>1. ~(i >= MERGE)
        BY <2>3, PipeAssumption
      <3>2. s_valid
        BY <2>3, AdvanceMoves
      <3>3. bank'[i].piece = SourceToken.piece /\ bank'[i].heights = SourceToken.heights
        BY <2>2, <2>3, AdvanceLoads
      <3>4. SourceToken.piece = ctx /\ SourceToken.heights = ctx
        BY <3>2, SourceTokenType
      <3> QED
        BY <2>1, <3>1, <3>3, <3>4
    <2>4. CASE i # 0
      <3>1. i-1 \in InFlight
        BY <2>4, AdvanceMoves
      <3>2. /\ bank[i-1].piece = ctx /\ bank[i-1].heights = ctx
            /\ i-1 >= MERGE => bank[i-1].board = ctx
        BY <3>1 DEF OneContext
      <3>3. i >= MERGE => i = MERGE \/ i-1 >= MERGE
        BY <2>2, PipeAssumption DEF Bank
      <3> QED
        BY <2>1, <2>2, <2>4, <3>2, <3>3, AdvanceLoads
    <2> QED
      BY <2>3, <2>4
  <1> QED
    BY <1>2, <1>3, <1>4, <1>5, <1>6

LEMMA ProtocolStutter == ASSUME ProtocolIInv, UNCHANGED protocolVars PROVE ProtocolIInv'
  BY DEF ProtocolIInv, protocolVars, ProtocolTypeOK, PipeTypeOK, WireTypeOK, TagsUndelivered, TagsHeld,
         TagsInOrder, OneContext, Undelivered, InFlight, Valid

LEMMA ProtocolInductive == ProtocolIInv /\ [ProtocolNext]_protocolVars => ProtocolIInv'
  BY CancelStep, StallStep, AdvanceStep, ProtocolStutter DEF ProtocolNext

THEOREM ProtocolInvariance == ProtocolSpec => []ProtocolIInv
  BY ProtocolInitIInv, ProtocolInductive, PTL DEF ProtocolSpec

-----------------------------------------------------------------------------
LEMMA ProtocolImplies == ProtocolIInv => ProtocolTypeOK /\ Conservation /\ OutputIsOldest
  <1> SUFFICES ASSUME ProtocolIInv PROVE ProtocolTypeOK /\ Conservation /\ OutputIsOldest
    OBVIOUS
  <1>1. Conservation
    BY DEF ProtocolIInv, Conservation, TagsUndelivered, TagsHeld, TagsInOrder, Undelivered
  <1>2. OutputIsOldest
    <2> SUFFICES ASSUME MValid(rst)
                 PROVE  /\ bank[LastBank].tag = delivered
                        /\ Coherent(bank[LastBank]) /\ bank[LastBank].board = ctx
      BY DEF OutputIsOldest
    <2>1. Valid(LastBank) /\ LastBank \in InFlight /\ LastBank >= MERGE
      BY BankFacts DEF MValid, InFlight
    <2>2. bank[LastBank].tag = delivered
      BY <2>1, OldestAtOutput
    <2> QED
      BY <2>1, <2>2 DEF ProtocolIInv, OneContext, Coherent, ProtocolTypeOK, WireTypeOK
  <1> QED
    BY <1>1, <1>2 DEF ProtocolIInv

(* Type correctness of the pipeline and its ports.                          *)
THEOREM ProtocolTypeCorrect == ProtocolSpec => []ProtocolTypeOK
  BY ProtocolInvariance, ProtocolImplies, PTL

(* Whatever the pattern of valid, ready and reset, the pipeline of any      *)
(* length loses, duplicates and reorders no token.                          *)
THEOREM TokensConserved == ProtocolSpec => []Conservation
  BY ProtocolInvariance, ProtocolImplies, PTL

(* Whatever stands at the output is the oldest outstanding token, built     *)
(* from the one context it was accepted under.                              *)
THEOREM OldestDelivered == ProtocolSpec => []OutputIsOldest
  BY ProtocolInvariance, ProtocolImplies, PTL

-----------------------------------------------------------------------------
(* Bank by bank: the tokens in flight are those issued and not retired, a   *)
(* later one in an earlier bank, the marker on the last one only, all built *)
(* from request r.                                                          *)
TagsOutstanding == \A i \in InFlight : bank[i].tag \in retired .. issued-1
TagsPresent == \A n \in retired .. issued-1 : \E i \in InFlight : bank[i].tag = n
TagsDescend == \A i, k \in InFlight : i < k => bank[i].tag > bank[k].tag
LastMarked == \A i \in InFlight : bank[i].last <=> bank[i].tag = n_q - 1
BuiltFrom(r) ==
    \A i \in InFlight : /\ bank[i].piece = r /\ bank[i].heights = r
                        /\ i >= MERGE => bank[i].board = r

Progressing(r) ==
    active => /\ n_q = Count[r] /\ n_q > 0
              /\ j = issued /\ issued <= n_q /\ retired < n_q
              /\ IsWinner(best, FirstResults(r, retired))

Resting == ~active => InFlight = {} /\ retired = issued

SearchInv(r) ==
    /\ SearchTypeOK
    /\ TagsOutstanding /\ TagsPresent /\ TagsDescend /\ LastMarked
    /\ BuiltFrom(r) /\ Progressing(r) /\ Resting

-----------------------------------------------------------------------------
LEMMA EmptyInv ==
    ASSUME SearchTypeOK, ~active, InFlight = {}, retired = issued, NEW r
    PROVE  SearchInv(r)
  <1>1. retired .. issued-1 = {}
    BY DEF SearchTypeOK
  <1> QED
    BY <1>1 DEF SearchInv, TagsOutstanding, TagsPresent, TagsDescend, LastMarked,
                BuiltFrom, Progressing, Resting

(* An idle search has nothing in flight and owes nothing to any request.    *)
LEMMA IdleOfAny ==
    ASSUME NEW r, NEW q, SearchInv(r), ~active
    PROVE  SearchInv(q)
  BY EmptyInv DEF SearchInv, Resting

LEMMA InitSearchInv == ASSUME NEW r, SearchInit PROVE SearchInv(r)
  <1>1. PipeTypeOK /\ InFlight = {}
    BY DEF SearchInit, PipeInit, EmptyPipe, PipeTypeOK, InFlight, Valid
  <1>2. SearchTypeOK
    <2>1. active \in BOOLEAN /\ done \in BOOLEAN
      BY Zenon DEF SearchInit
    <2>2. best \in Best
      BY NoBestType DEF SearchInit
    <2> QED
      BY <1>1, <2>1, <2>2 DEF SearchTypeOK, SearchInit
  <1> QED
    BY <1>1, <1>2, EmptyInv DEF SearchInit

LEMMA ResetSearchInv ==
    ASSUME NEW r, SearchReset
    PROVE  SearchInv(r)' /\ ~active' /\ ~done' /\ InFlight' = {}
  <1>1. bank' = EmptyPipe
    BY DEF SearchReset, PipeEdge
  <1>2. PipeTypeOK' /\ InFlight' = {}
    BY <1>1, EmptyHasNoToken
  <1>3. SearchTypeOK'
    <2>1. active' \in BOOLEAN /\ done' \in BOOLEAN
      BY Zenon DEF SearchReset
    <2>2. best' \in Best
      BY NoBestType DEF SearchReset
    <2> QED
      BY <1>2, <2>1, <2>2 DEF SearchTypeOK, SearchReset
  <1>4. ~active' /\ ~done' /\ retired' = issued'
    BY DEF SearchReset
  <1>5. (retired .. issued-1)' = {}
    BY DEF SearchReset
  <1> QED
    BY <1>2, <1>3, <1>4, <1>5
       DEF SearchInv, TagsOutstanding, TagsPresent, TagsDescend, LastMarked,
           BuiltFrom, Progressing, Resting

-----------------------------------------------------------------------------
(* The token before bank 0 on an edge of a search for r.                    *)
InputFor(r) == IF Issuing THEN Issue(ContextOf(r), j, IsLast) ELSE Bubble

LEMMA SearchToken ==
    ASSUME NEW r \in Request, SearchTypeOK
    PROVE  /\ InputFor(r) \in Token \cup {Bubble}
           /\ Issuing => /\ InputFor(r) # Bubble
                         /\ InputFor(r).tag = j
                         /\ InputFor(r).last = (j = n_q - 1)
                         /\ InputFor(r).piece = r /\ InputFor(r).heights = r
           /\ ~Issuing => InputFor(r) = Bubble
  <1>1. ASSUME Issuing
        PROVE  /\ InputFor(r) \in Token
               /\ InputFor(r).tag = j
               /\ InputFor(r).last = (j = n_q - 1)
               /\ InputFor(r).piece = r /\ InputFor(r).heights = r
    <2> DEFINE t == [tag |-> j, last |-> IsLast, piece |-> r, heights |-> r,
                     board |-> NoRequest]
    <2>1. InputFor(r) = t
      BY <1>1 DEF InputFor, Issue, ContextOf
    <2>2. r \in Context /\ NoRequest \in Context /\ j \in Nat /\ IsLast \in BOOLEAN
      BY DEF SearchTypeOK, Context, IsLast
    <2>3. t \in Token
      BY <2>2, Zenon DEF Token
    <2>4. t.tag = j /\ t.last = IsLast /\ t.piece = r /\ t.heights = r
      OBVIOUS
    <2> HIDE DEF t
    <2> QED
      BY <2>1, <2>3, <2>4 DEF IsLast
  <1>2. ~Issuing => InputFor(r) = Bubble
    BY DEF InputFor
  <1> QED
    BY <1>1, <1>2, BubbleIsNoToken

(* Whatever the output shows is the oldest token not yet retired.           *)
LEMMA OldestRetires ==
    ASSUME NEW r, SearchInv(r), Retiring
    PROVE  /\ LastBank \in InFlight /\ active
           /\ bank[LastBank].tag = retired /\ retired < issued
  <1>1. LastBank \in InFlight /\ active
    BY BankFacts DEF InFlight, Retiring, MValid, SearchInv, Resting
  <1>2. bank[LastBank].tag \in retired .. issued-1 /\ retired \in retired .. issued-1
    BY <1>1 DEF SearchInv, TagsOutstanding, SearchTypeOK
  <1>3. PICK i \in InFlight : bank[i].tag = retired
    BY <1>2 DEF SearchInv, TagsPresent
  <1>4. i = LastBank \/ i < LastBank
    BY BankFacts, <1>1 DEF InFlight
  <1>5. CASE i < LastBank
    <2>1. retired > bank[LastBank].tag
      BY <1>1, <1>3, <1>5 DEF SearchInv, TagsDescend
    <2> QED
      BY <2>1, <1>2 DEF SearchInv, SearchTypeOK
  <1> QED
    BY <1>1, <1>2, <1>3, <1>4, <1>5 DEF SearchInv, SearchTypeOK

(* Its result is that of the candidate with its index.                      *)
LEMMA RetiresOutcome ==
    ASSUME NEW r \in Request, SearchInv(r), Retiring
    PROVE  Deliver(bank[LastBank]) = Outcome[r][retired]
  <1>1. LastBank \in InFlight /\ LastBank >= MERGE
    BY OldestRetires, PipeAssumption DEF LastBank
  <1>2. Coherent(bank[LastBank]) /\ bank[LastBank].board = r
    BY <1>1 DEF SearchInv, BuiltFrom, Coherent
  <1>3. active /\ bank[LastBank].tag = retired
    BY OldestRetires
  <1>4. retired < Count[r]
    BY <1>3 DEF SearchInv, Progressing
  <1> QED
    BY <1>2, <1>3, <1>4 DEF Deliver

-----------------------------------------------------------------------------
(* Where the token of each bank comes from on an edge of a running search.  *)
LEMMA SearchLoads ==
    ASSUME NEW r \in Request, SearchInv(r), NEW start, NEW n,
           SearchEdge(start, ContextOf(r), n), NEW i \in Bank
    PROVE  LET t == IF i = 0 THEN InputFor(r) ELSE bank[i-1]
           IN /\ t \in Token \cup {Bubble} /\ bank'[i] \in Token \cup {Bubble}
              /\ i \in InFlight' <=> t # Bubble
              /\ i \in InFlight' =>
                     /\ bank'[i].tag = t.tag /\ bank'[i].last = t.last
                     /\ bank'[i].piece = t.piece /\ bank'[i].heights = t.heights
                     /\ bank'[i].board = IF i = MERGE THEN r ELSE t.board
  <1>1. bank' = [k \in Bank |-> Load(k, InputFor(r), ContextOf(r))]
    BY DEF SearchEdge, PipeEdge, Advance, InputFor
  <1>2. bank'[i] = Load(i, InputFor(r), ContextOf(r))
    BY <1>1
  <1>3. InputFor(r) \in Token \cup {Bubble}
    BY SearchToken DEF SearchInv
  <1>4. ContextOf(r) \in ContextRecord /\ ContextOf(r).board = r
    BY ContextOfIsRecord
  <1>5. PipeTypeOK
    BY DEF SearchInv, SearchTypeOK
  <1>6. i \in InFlight' <=> bank'[i] # Bubble
    BY DEF InFlight, Valid
  <1> HIDE DEF ContextOf, InputFor
  <1> QED
    BY <1>2, <1>3, <1>4, <1>5, <1>6, LoadToken

(* The token that enters bank 0.                                            *)
LEMMA SearchEnters ==
    ASSUME NEW r \in Request, SearchInv(r), NEW start, NEW n,
           SearchEdge(start, ContextOf(r), n)
    PROVE  /\ Issuing <=> 0 \in InFlight'
           /\ 0 \in InFlight' => /\ bank'[0].tag = j
                               /\ bank'[0].last = (j = n_q - 1)
                               /\ bank'[0].piece = r
                               /\ bank'[0].heights = r
  <1>0. SearchTypeOK /\ 0 \in Bank
    BY BankFacts DEF SearchInv
  <1>1. Issuing <=> 0 \in InFlight'
    BY <1>0, SearchLoads, SearchToken
  <1>2. ASSUME 0 \in InFlight'
        PROVE  /\ bank'[0].tag = j
               /\ bank'[0].last = (j = n_q - 1)
               /\ bank'[0].piece = r
               /\ bank'[0].heights = r
    <2>1. /\ bank'[0].tag = InputFor(r).tag /\ bank'[0].last = InputFor(r).last
          /\ bank'[0].piece = InputFor(r).piece
          /\ bank'[0].heights = InputFor(r).heights
      BY <1>0, <1>2, SearchLoads
    <2>2. /\ InputFor(r).tag = j /\ InputFor(r).last = (j = n_q - 1)
          /\ InputFor(r).piece = r /\ InputFor(r).heights = r
      BY <1>0, <1>1, <1>2, SearchToken
    <2> QED
      BY <2>1, <2>2
  <1> QED
    BY <1>1, <1>2

(* The tokens that move on by one bank.                                     *)
LEMMA SearchMoves ==
    ASSUME NEW r \in Request, SearchInv(r), NEW start, NEW n,
           SearchEdge(start, ContextOf(r), n)
    PROVE  /\ \A i \in InFlight' :
                  /\ i \in Bank
                  /\ i # 0 => /\ i-1 \in InFlight
                             /\ bank'[i].tag = bank[i-1].tag
                             /\ bank'[i].last = bank[i-1].last
                             /\ bank'[i].piece = bank[i-1].piece
                             /\ bank'[i].heights = bank[i-1].heights
                             /\ bank'[i].board = IF i = MERGE THEN r ELSE bank[i-1].board
           /\ \A k \in InFlight : k # LastBank =>
                  k+1 \in InFlight' /\ bank'[k+1].tag = bank[k].tag
  <1>0. SearchTypeOK
    BY DEF SearchInv
  <1>2. ASSUME NEW i \in InFlight', i # 0
        PROVE  /\ i-1 \in InFlight
               /\ bank'[i].tag = bank[i-1].tag
               /\ bank'[i].last = bank[i-1].last
               /\ bank'[i].piece = bank[i-1].piece
               /\ bank'[i].heights = bank[i-1].heights
               /\ bank'[i].board = IF i = MERGE THEN r ELSE bank[i-1].board
    <2>1. i \in Bank /\ i-1 \in Bank
      BY <1>2, BankFacts DEF InFlight
    <2> QED
      BY <1>2, <2>1, SearchLoads DEF InFlight, Valid
  <1>4. ASSUME NEW k \in InFlight, k # LastBank
        PROVE  k+1 \in InFlight' /\ bank'[k+1].tag = bank[k].tag
    <2>1. k \in Bank /\ k+1 \in Bank /\ k+1 # 0 /\ (k+1)-1 = k /\ bank[k] # Bubble
      BY <1>4, BankFacts DEF InFlight, Valid, Bank
    <2> QED
      BY <2>1, SearchLoads
  <1>5. \A i \in InFlight' : i \in Bank
    BY DEF InFlight
  <1> QED
    BY <1>2, <1>4, <1>5

-----------------------------------------------------------------------------
(* One edge of a running search keeps the invariant; the edge that raises   *)
(* done leaves every candidate retired and the winner in the best registers.*)
LEMMA RunningEdge ==
    ASSUME NEW r \in Request, SearchInv(r), active,
           NEW start, NEW n \in Nat, SearchEdge(start, ContextOf(r), n)
    PROVE  /\ SearchInv(r)'
           /\ done' => /\ ~active' /\ InFlight' = {}
                       /\ retired' = Count[r] /\ issued' = Count[r]
                       /\ best' = Winner[r] /\ IsWinner(best', Results(r))
           /\ active' <=> ~done'
  <1>a. /\ SearchTypeOK
        /\ n_q = Count[r] /\ n_q > 0 /\ j = issued /\ issued <= n_q /\ retired < n_q
        /\ IsWinner(best, FirstResults(r, retired))
    BY DEF SearchInv, Progressing
  <1>n. /\ j \in Nat /\ n_q \in Nat /\ issued \in Nat /\ retired \in Nat
        /\ retired <= issued
    BY <1>a DEF SearchTypeOK
  <1>b. Issuing <=> issued < n_q
    BY <1>a DEF Issuing
  <1>c. /\ n_q' = n_q
        /\ j' = IF Issuing THEN j + 1 ELSE j
        /\ issued' = IF Issuing THEN issued + 1 ELSE issued
        /\ retired' = IF Retiring THEN retired + 1 ELSE retired
        /\ active' = ~LastRetiring /\ done' = LastRetiring
        /\ best' = IF Retiring THEN Take(best, Deliver(bank[LastBank])) ELSE best
    BY DEF SearchEdge, AcceptStart, Reduced
  <1>d. Retiring => /\ LastBank \in InFlight /\ bank[LastBank].tag = retired
                    /\ retired < issued
    BY OldestRetires
  <1>e. ~Retiring => LastBank \notin InFlight
    BY DEF Retiring, MValid, InFlight
  <1>1. SearchTypeOK'
    <2>1. PipeTypeOK'
      <3>1. \A i \in Bank : bank'[i] \in Token \cup {Bubble}
        BY SearchLoads
      <3>2. bank' = [i \in Bank |-> bank'[i]]
        BY DEF SearchEdge, PipeEdge, Advance
      <3> QED
        BY <3>1, <3>2 DEF PipeTypeOK
    <2>2. best' \in Best
      <3>1. CASE Retiring
        BY <3>1, <1>a, <1>c, <1>n, RetiresOutcome, FirstAndNext, TakeType DEF SearchTypeOK
      <3>2. CASE ~Retiring
        BY <3>2, <1>a, <1>c DEF SearchTypeOK
      <3> QED
        BY <3>1, <3>2
    <2>3. active' \in BOOLEAN /\ done' \in BOOLEAN
      BY DEF SearchEdge, LastRetiring, Retiring, MValid, Valid
    <2>4. /\ j' \in Nat /\ n_q' \in Nat /\ issued' \in Nat
          /\ retired' \in 0 .. issued'
      BY <1>c, <1>d, <1>n
    <2> QED
      BY <2>1, <2>2, <2>3, <2>4 DEF SearchTypeOK
  <1>2. TagsOutstanding'
    <2> SUFFICES ASSUME NEW i \in InFlight' PROVE bank'[i].tag \in retired' .. issued'-1
      BY DEF TagsOutstanding
    <2>1. CASE i = 0
      <3>1. Issuing /\ bank'[i].tag = j
        BY <2>1, SearchEnters
      <3> QED
        BY <3>1, <1>a, <1>c, <1>d, <1>n
    <2>2. CASE i # 0
      <3>1. i-1 \in InFlight /\ i \in Bank /\ bank'[i].tag = bank[i-1].tag
        BY <2>2, SearchMoves
      <3>2. bank[i-1].tag \in retired .. issued-1
        BY <3>1 DEF SearchInv, TagsOutstanding
      <3>3. i-1 < LastBank
        BY <3>1, BankFacts DEF Bank, LastBank
      <3>4. Retiring => bank[i-1].tag > retired
        BY <3>1, <3>3, <1>d DEF SearchInv, TagsDescend
      <3> QED
        BY <3>1, <3>2, <3>4, <1>c, <1>n
    <2> QED
      BY <2>1, <2>2
  <1>3. TagsPresent'
    <2> SUFFICES ASSUME NEW m \in retired' .. issued'-1
                 PROVE  \E i \in InFlight' : bank'[i].tag = m
      BY DEF TagsPresent
    <2>1. CASE m = issued
      <3>1. Issuing
        BY <2>1, <1>c, <1>n
      <3>2. 0 \in InFlight' /\ bank'[0].tag = j
        BY <3>1, SearchEnters
      <3> QED
        BY <2>1, <3>2, <1>a
    <2>2. CASE m # issued
      <3>1. m \in retired .. issued-1
        BY <2>2, <1>c, <1>n
      <3>2. PICK k \in InFlight : bank[k].tag = m
        BY <3>1 DEF SearchInv, TagsPresent
      <3>3. k # LastBank
        BY <3>2, <1>c, <1>d, <1>e, <1>n
      <3> QED
        BY <3>2, <3>3, SearchMoves
    <2> QED
      BY <2>1, <2>2
  <1>4. TagsDescend'
    <2> SUFFICES ASSUME NEW i \in InFlight', NEW k \in InFlight', i < k
                 PROVE  bank'[i].tag > bank'[k].tag
      BY DEF TagsDescend
    <2>0. i \in Bank /\ k \in Bank /\ k # 0
      BY SearchMoves DEF Bank
    <2>1. k-1 \in InFlight /\ bank'[k].tag = bank[k-1].tag
      BY <2>0, SearchMoves
    <2>2. CASE i = 0
      <3>1. bank'[i].tag = j
        BY <2>2, SearchEnters
      <3>2. bank[k-1].tag \in retired .. issued-1
        BY <2>1 DEF SearchInv, TagsOutstanding
      <3> QED
        BY <2>1, <3>1, <3>2, <1>a, <1>n
    <2>3. CASE i # 0
      <3>1. i-1 \in InFlight /\ bank'[i].tag = bank[i-1].tag
        BY <2>3, SearchMoves
      <3>2. i-1 < k-1
        BY <2>0 DEF Bank
      <3> QED
        BY <2>1, <3>1, <3>2 DEF SearchInv, TagsDescend
    <2> QED
      BY <2>2, <2>3
  <1>5. LastMarked'
    <2> SUFFICES ASSUME NEW i \in InFlight'
                 PROVE  bank'[i].last <=> bank'[i].tag = n_q - 1
      BY <1>c DEF LastMarked
    <2>1. CASE i = 0
      BY <2>1, SearchEnters
    <2>2. CASE i # 0
      <3>1. /\ i-1 \in InFlight
            /\ bank'[i].tag = bank[i-1].tag /\ bank'[i].last = bank[i-1].last
        BY <2>2, SearchMoves
      <3> QED
        BY <3>1 DEF SearchInv, LastMarked
    <2> QED
      BY <2>1, <2>2
  <1>6. BuiltFrom(r)'
    <2> SUFFICES ASSUME NEW i \in InFlight'
                 PROVE  /\ bank'[i].piece = r /\ bank'[i].heights = r
                        /\ i >= MERGE => bank'[i].board = r
      BY DEF BuiltFrom
    <2>1. i \in Bank
      BY SearchMoves
    <2>2. CASE i = 0
      <3>1. ~(i >= MERGE)
        BY <2>2, PipeAssumption
      <3> QED
        BY <2>2, <3>1, SearchEnters
    <2>3. CASE i # 0
      <3>1. /\ i-1 \in InFlight
            /\ bank'[i].piece = bank[i-1].piece /\ bank'[i].heights = bank[i-1].heights
            /\ bank'[i].board = IF i = MERGE THEN r ELSE bank[i-1].board
        BY <2>3, SearchMoves
      <3>2. /\ bank[i-1].piece = r /\ bank[i-1].heights = r
            /\ i-1 >= MERGE => bank[i-1].board = r
        BY <3>1 DEF SearchInv, BuiltFrom
      <3>3. i >= MERGE => i = MERGE \/ i-1 >= MERGE
        BY <2>1, PipeAssumption DEF Bank
      <3> QED
        BY <3>1, <3>2, <3>3
    <2> QED
      BY <2>2, <2>3
  <1>7. IsWinner(best', FirstResults(r, retired'))
    <2>1. CASE Retiring
      <3>1. Deliver(bank[LastBank]) = Outcome[r][retired]
        BY <2>1, RetiresOutcome
      <3>2. best' = Take(best, Outcome[r][retired])
        BY <2>1, <3>1, <1>c
      <3>3. /\ FirstResults(r, retired) \in SUBSET Result
            /\ Outcome[r][retired] \in Result
            /\ FirstResults(r, retired+1) = FirstResults(r, retired) \cup {Outcome[r][retired]}
        BY <1>a, <1>n, FirstAndNext
      <3>4. retired' = retired + 1
        BY <2>1, <1>c
      <3> QED
        BY <1>a, <3>2, <3>3, <3>4, TakeWins
    <2>2. CASE ~Retiring
      BY <2>2, <1>a, <1>c
    <2> QED
      BY <2>1, <2>2
  <1>8. LastRetiring <=> Retiring /\ retired = n_q - 1
    BY <1>d DEF LastRetiring, SearchInv, LastMarked
  <1>9. ASSUME LastRetiring
        PROVE  retired' = n_q /\ issued' = n_q /\ InFlight' = {}
    <2>1. retired' = n_q /\ issued' = n_q
      BY <1>8, <1>9, <1>a, <1>b, <1>c, <1>d, <1>n
    <2>2. retired' .. issued'-1 = {}
      BY <2>1, <1>n
    <2> QED
      BY <2>1, <2>2, <1>2 DEF TagsOutstanding
  <1>10. Progressing(r)'
    <2> SUFFICES ASSUME ~LastRetiring
                 PROVE  /\ n_q' = Count[r] /\ n_q' > 0
                        /\ j' = issued' /\ issued' <= n_q' /\ retired' < n_q'
                        /\ IsWinner(best', FirstResults(r, retired'))
      BY <1>c DEF Progressing
    <2> QED
      BY <1>a, <1>b, <1>c, <1>n, <1>7, <1>8
  <1>11. Resting'
    BY <1>c, <1>9 DEF Resting
  <1>12. done' => best' = Winner[r] /\ IsWinner(best', Results(r))
    <2> SUFFICES ASSUME LastRetiring
                 PROVE  best' = Winner[r] /\ IsWinner(best', Results(r))
      BY <1>c
    <2>1. FirstResults(r, retired') = Results(r)
      BY <1>9, <1>a, FirstIsAll
    <2> QED
      BY <2>1, <1>7, WinnerOfAll
  <1>13. SearchInv(r)'
    BY <1>1, <1>2, <1>3, <1>4, <1>5, <1>6, <1>10, <1>11 DEF SearchInv
  <1> QED
    BY <1>13, <1>12, <1>9, <1>c, <1>a

-----------------------------------------------------------------------------
(* One edge of an idle search: nothing enters the pipeline.                 *)
LEMMA RestingEdge ==
    ASSUME NEW r, SearchInv(r), ~active,
           NEW start, NEW c \in ContextRecord, NEW n \in Nat, SearchEdge(start, c, n)
    PROVE  /\ PipeTypeOK' /\ InFlight' = {} /\ ~done'
           /\ active' = (start = TRUE)
           /\ start => /\ j' = 0 /\ issued' = 0 /\ retired' = 0
                       /\ n_q' = n /\ best' = NoBest
           /\ ~start => UNCHANGED <<j, issued, retired, n_q, best>>
  <1>1. InFlight = {} /\ SearchTypeOK
    BY DEF SearchInv, Resting
  <1>2. ~Retiring /\ ~Issuing
    BY <1>1, BankFacts DEF Retiring, MValid, InFlight, Issuing
  <1>3. bank' = [k \in Bank |-> Load(k, Bubble, c)]
    BY <1>2 DEF SearchEdge, PipeEdge, Advance
  <1>4. \A i \in Bank : Load(i, Bubble, c) = Bubble
    BY <1>1, BankFacts DEF Load, InFlight, Valid
  <1>5. bank' = EmptyPipe
    BY <1>3, <1>4 DEF EmptyPipe
  <1>6. PipeTypeOK' /\ InFlight' = {}
    BY <1>5, EmptyHasNoToken
  <1>7. ~LastRetiring
    BY <1>2 DEF LastRetiring
  <1> QED
    BY <1>2, <1>6, <1>7 DEF SearchEdge, AcceptStart, Reduced

LEMMA IdleEdgeInv ==
    ASSUME NEW r, SearchInv(r), ~active, NEW q,
           NEW c \in ContextRecord, NEW n \in Nat, SearchEdge(FALSE, c, n)
    PROVE  SearchInv(q)' /\ ~active' /\ ~done' /\ best' = best
  <1>1. /\ PipeTypeOK' /\ InFlight' = {} /\ ~done' /\ ~active'
        /\ UNCHANGED <<j, issued, retired, n_q, best>>
    BY RestingEdge
  <1>2. active' \in BOOLEAN /\ done' \in BOOLEAN
    BY DEF SearchEdge, LastRetiring, Retiring, MValid, Valid
  <1>3. SearchTypeOK'
    BY <1>1, <1>2 DEF SearchTypeOK, SearchInv
  <1>4. retired' = issued' /\ (retired .. issued-1)' = {}
    BY <1>1 DEF SearchInv, Resting, SearchTypeOK
  <1> QED
    BY <1>1, <1>3, <1>4
       DEF SearchInv, TagsOutstanding, TagsPresent, TagsDescend, LastMarked,
           BuiltFrom, Progressing, Resting

LEMMA StartEdgeInv ==
    ASSUME NEW r, SearchInv(r), ~active,
           NEW q \in Request, Count[q] > 0,
           NEW c \in ContextRecord, SearchEdge(TRUE, c, Count[q])
    PROVE  SearchInv(q)' /\ active' /\ ~done'
  <1>0. Count[q] \in Nat
    BY RequestAssumption
  <1>1. /\ PipeTypeOK' /\ InFlight' = {} /\ ~done' /\ active'
        /\ j' = 0 /\ issued' = 0 /\ retired' = 0
        /\ n_q' = Count[q] /\ best' = NoBest
    BY <1>0, RestingEdge
  <1>2. active' \in BOOLEAN /\ done' \in BOOLEAN
    BY DEF SearchEdge, LastRetiring, Retiring, MValid, Valid
  <1>3. SearchTypeOK'
    BY <1>0, <1>1, <1>2, NoBestType DEF SearchTypeOK
  <1>4. IsWinner(best', FirstResults(q, retired'))
    BY <1>1, NoneWins
  <1>5. (retired .. issued-1)' = {}
    BY <1>1
  <1>6. Progressing(q)'
    BY <1>0, <1>1, <1>4 DEF Progressing
  <1> QED
    BY <1>1, <1>3, <1>5, <1>6
       DEF SearchInv, TagsOutstanding, TagsPresent, TagsDescend, LastMarked,
           BuiltFrom, Resting

(* A step that changes no register of the search keeps the invariant.       *)
LEMMA StutterSearchInv ==
    ASSUME NEW r, SearchInv(r), UNCHANGED searchVars
    PROVE  SearchInv(r)'
  BY DEF SearchInv, searchVars, SearchTypeOK, PipeTypeOK, TagsOutstanding, TagsPresent,
         TagsDescend, LastMarked, BuiltFrom, Progressing, Resting, InFlight, Valid

-----------------------------------------------------------------------------
(* The search, under SearchPipeline.                                        *)
PipelineIInv == req_i \in Searchable /\ SearchInv(req_i) /\ (done => ~active)

LEMMA SearchableCounts ==
    ASSUME NEW r \in Searchable
    PROVE  /\ r \in Request /\ Count[r] \in Nat /\ Count[r] > 0
           /\ ContextOf(r) \in ContextRecord
  BY RequestAssumption DEF Searchable, ContextOf, ContextRecord, Context

-----------------------------------------------------------------------------
LEMMA PipelineInitIInv == PipelineInit => PipelineIInv
  BY InitSearchInv DEF PipelineInit, PipelineIInv, SearchInit

LEMMA RestStep == ASSUME PipelineIInv, RestEdge PROVE PipelineIInv' /\ ~done'
  <1>1. PICK q \in Searchable : req_i' = q
    BY DEF RestEdge
  <1>2. SearchInv(q)' /\ ~done'
    BY SearchableCounts, IdleEdgeInv DEF RestEdge, PipelineIInv
  <1> QED
    BY <1>1, <1>2 DEF PipelineIInv, SearchInv, BuiltFrom, Progressing

LEMMA StartStep == ASSUME PipelineIInv, StartEdge PROVE PipelineIInv' /\ ~done'
  <1>1. PICK q \in Searchable : req_i = q /\ req_i' = q
    BY DEF StartEdge, PipelineIInv
  <1>2. SearchInv(q)' /\ ~done'
    BY <1>1, SearchableCounts, StartEdgeInv DEF StartEdge, PipelineIInv
  <1> QED
    BY <1>1, <1>2 DEF PipelineIInv, SearchInv, BuiltFrom, Progressing

LEMMA AbortStep == ASSUME PipelineIInv, AbortEdge PROVE PipelineIInv' /\ ~done'
  <1>1. PICK q \in Searchable : req_i' = q
    BY DEF AbortEdge
  <1>2. SearchInv(q)' /\ ~done'
    BY ResetSearchInv DEF AbortEdge
  <1> QED
    BY <1>1, <1>2 DEF PipelineIInv, SearchInv, BuiltFrom, Progressing

LEMMA SearchingStep ==
    ASSUME PipelineIInv, SearchingEdge
    PROVE  /\ PipelineIInv'
           /\ done' => /\ ~active' /\ retired' = Count[req_i] /\ issued' = Count[req_i]
                       /\ best' = Winner[req_i]
  <1>1. PICK q \in Searchable : req_i = q /\ req_i' = q
    BY DEF SearchingEdge, PipelineIInv
  <1>2. /\ SearchInv(q)'
        /\ done' => /\ ~active' /\ retired' = Count[q] /\ issued' = Count[q]
                    /\ best' = Winner[q]
    BY <1>1, SearchableCounts, RunningEdge DEF SearchingEdge, PipelineIInv
  <1> QED
    BY <1>1, <1>2 DEF PipelineIInv, SearchInv, BuiltFrom, Progressing

LEMMA PipelineStutter == ASSUME PipelineIInv, UNCHANGED pipelineVars PROVE PipelineIInv'
  <1>1. req_i' = req_i /\ SearchInv(req_i)'
    BY StutterSearchInv DEF pipelineVars, PipelineIInv
  <1> QED
    BY <1>1 DEF PipelineIInv, pipelineVars, searchVars

LEMMA PipelineInductive == PipelineIInv /\ [PipelineNext]_pipelineVars => PipelineIInv'
  BY RestStep, StartStep, SearchingStep, AbortStep, PipelineStutter DEF PipelineNext

THEOREM PipelineInvariance == PipelineSpec => []PipelineIInv
  BY PipelineInitIInv, PipelineInductive, PTL DEF PipelineSpec

-----------------------------------------------------------------------------
LEMMA PipelineImplies == PipelineIInv => PipelineTypeOK /\ TokensInOrder /\ IdleIsEmpty /\ RunningBest
  <1> SUFFICES ASSUME PipelineIInv PROVE PipelineTypeOK /\ TokensInOrder /\ IdleIsEmpty /\ RunningBest
    OBVIOUS
  <1> USE DEF PipelineIInv, SearchInv
  <1>1. PipelineTypeOK
    BY DEF PipelineTypeOK
  <1>2. InFlightTags = retired .. issued-1
    BY DEF InFlightTags, TagsOutstanding, TagsPresent
  <1>3. TokensInOrder
    BY <1>2 DEF TokensInOrder, TagsDescend, LastMarked, BuiltFrom
  <1>4. IdleIsEmpty
    BY DEF IdleIsEmpty, Resting
  <1>5. RunningBest
    BY DEF RunningBest, Progressing, SearchTypeOK
  <1> QED
    BY <1>1, <1>3, <1>4, <1>5

(* Type correctness of the search registers.                                *)
THEOREM PipelineTypeCorrect == PipelineSpec => []PipelineTypeOK
  BY PipelineInvariance, PipelineImplies, PTL

(* The pipeline holds exactly the candidates issued and not retired, in     *)
(* order, marked and built from the context of the running search.          *)
THEOREM SearchTokensInOrder == PipelineSpec => []TokensInOrder
  BY PipelineInvariance, PipelineImplies, PTL

(* Whenever the search is idle its pipeline is empty.                       *)
THEOREM IdlePipelineEmpty == PipelineSpec => []IdleIsEmpty
  BY PipelineInvariance, PipelineImplies, PTL

(* The running best is the winner of exactly the candidates retired.        *)
THEOREM RunningBestIsWinner == PipelineSpec => []RunningBest
  BY PipelineInvariance, PipelineImplies, PTL

(* done_o comes when all candidates are retired, with the winner published. *)
THEOREM DoneWithWinner == PipelineSpec => DoneIsComplete
  <1>1. PipelineIInv /\ [PipelineNext]_pipelineVars =>
          [done' => /\ ~active' /\ retired' = Count[req_i] /\ issued' = Count[req_i]
                    /\ best' = Winner[req_i]]_pipelineVars
    BY RestStep, StartStep, SearchingStep, AbortStep DEF PipelineNext
  <1> QED
    BY <1>1, PipelineInvariance, PTL DEF PipelineSpec, DoneIsComplete

(* done_o is up for one cycle only: it comes on an edge of a running search *)
(* and leaves the search idle.                                              *)
THEOREM DoneIsPulse == PipelineSpec => DonePulse
  <1>1. PipelineIInv /\ [PipelineNext]_pipelineVars => [done => ~done']_pipelineVars
    BY RestStep, StartStep, AbortStep DEF PipelineNext, SearchingEdge, PipelineIInv
  <1> QED
    BY <1>1, PipelineInvariance, PTL DEF PipelineSpec, DonePulse

-----------------------------------------------------------------------------
(* The core around the search.                                              *)
Quiet == ~active /\ ~done /\ ~search_start

HasWinner == best = Winner[req_q] /\ IsWinner(best, Results(req_q))

(* What holds in each state of the core.                                    *)
InIdle == state = "IDLE" => Quiet /\ ~rsp_valid
InCache ==
    state = "CACHE" => /\ Quiet /\ Latched /\ cbest = NoBest
                       /\ rk = 0 /\ lane_done_seen = {}
InStart ==
    state = "SEARCH_START" => /\ Quiet /\ Searching /\ cbest = NoBest
                              /\ rk = 0 /\ lane_done_seen = {}
InWait ==
    state = "SEARCH_WAIT" =>
        /\ Searching /\ cbest = NoBest /\ rk = 0 /\ lane_done_seen = {}
        /\ \/ search_start /\ ~active /\ ~done
           \/ ~search_start /\ active /\ ~done
           \/ ~search_start /\ ~active /\ done /\ HasWinner
InReduce ==
    state = "REDUCE" => Quiet /\ Searching /\ cbest = NoBest /\ rk = 0 /\ HasWinner
InFinalize ==
    state = "FINALIZE" => Quiet /\ Latched /\ (~err_q => cbest = Winner[req_q])
InRespond ==
    state = "RESPOND" => /\ Quiet /\ Latched
                         /\ rsp_valid /\ rsp = Decision[req_q] /\ rsp # NoResponse

IInv ==
    /\ CoreTypeOK
    /\ SearchInv(req_q)
    /\ InIdle /\ InCache /\ InStart /\ InWait /\ InReduce /\ InFinalize /\ InRespond
    /\ rsp_valid => state = "RESPOND"

-----------------------------------------------------------------------------
LEMMA OneLane == Lane = {0} /\ RkRange = 2 /\ LANES = 1 /\ DEPTH = 1
  BY A2Assumption DEF Lane, RkRange

LEMMA CoreContextRecord ==
    ASSUME CoreTypeOK
    PROVE  /\ CoreContext \in ContextRecord
           /\ CandidateCount \in Nat
           /\ req_q \in Request => CandidateCount = Count[req_q]
  BY RequestAssumption DEF CoreTypeOK, CoreContext, ContextRecord, Context, CandidateCount

(* Outside a search an edge leaves the search quiet and its best registers  *)
(* alone; a done pulse ends.                                                *)
LEMMA StoppedEngine ==
    ASSUME IInv, ~active, ~search_start, Engine, NEW q
    PROVE  SearchInv(q)' /\ ~active' /\ ~done' /\ best' = best
  <1>1. search_start = FALSE
    BY DEF IInv, CoreTypeOK
  <1>2. SearchEdge(FALSE, CoreContext, CandidateCount)
    BY <1>1 DEF Engine
  <1>3. SearchInv(req_q) /\ ~active
    BY DEF IInv
  <1>4. CoreContext \in ContextRecord /\ CandidateCount \in Nat
    BY CoreContextRecord DEF IInv
  <1> HIDE DEF CoreContext, CandidateCount
  <1> QED
    BY <1>2, <1>3, <1>4, IdleEdgeInv

LEMMA QuietEngine ==
    ASSUME IInv, Quiet, Engine, NEW q
    PROVE  SearchInv(q)' /\ ~active' /\ ~done' /\ best' = best
  <1>1. ~active /\ ~search_start
    BY DEF Quiet
  <1> QED
    BY <1>1, StoppedEngine

(* The invariant of the search follows the latched request.                 *)
LEMMA FollowRequest ==
    ASSUME NEW q, SearchInv(q)', req_q' = q
    PROVE  SearchInv(req_q)'
  BY DEF SearchInv, BuiltFrom, Progressing

-----------------------------------------------------------------------------
LEMMA InitIInv == Init => IInv
  <1> SUFFICES ASSUME Init PROVE IInv
    OBVIOUS
  <1>1. CoreTypeOK
    BY CoreInitType DEF Init
  <1>2. SearchInv(req_q)
    BY InitSearchInv DEF Init
  <1> QED
    BY <1>1, <1>2 DEF IInv, Init, CoreInit, SearchInit, Quiet, InIdle, InCache, InStart,
                      InWait, InReduce, InFinalize, InRespond

-----------------------------------------------------------------------------
(* One lemma per edge: it keeps the invariant.                              *)
LEMMA ResetKeeps == ASSUME IInv, ResetEdge PROVE IInv'
  <1>1. CoreTypeOK'
    BY ResetType DEF ResetEdge
  <1>2. SearchInv(NoRequest)' /\ ~active' /\ ~done'
    BY ResetSearchInv DEF ResetEdge
  <1>3. SearchInv(req_q)'
    BY <1>2, FollowRequest DEF ResetEdge, CoreReset
  <1> QED
    BY <1>1, <1>2, <1>3
       DEF IInv, ResetEdge, CoreReset, Quiet, InIdle, InCache, InStart, InWait, InReduce,
           InFinalize, InRespond

LEMMA RestKeeps == ASSUME IInv, IdleEdge \/ HoldEdge \/ ConsumeEdge PROVE IInv'
  <1>1. CoreTypeOK'
    BY RestType DEF IInv, IdleEdge, HoldEdge, ConsumeEdge
  <1>2. Quiet /\ Engine
    BY DEF IInv, InIdle, InRespond, IdleEdge, HoldEdge, ConsumeEdge, Idle, Hold, Consume
  <1>3. SearchInv(req_q)' /\ ~active' /\ ~done'
    <2>1. PICK q : q = req_q
      OBVIOUS
    <2>2. req_q' = q
      BY <2>1 DEF IdleEdge, HoldEdge, ConsumeEdge, Idle, Hold, Consume
    <2> QED
      BY <1>2, <2>2, QuietEngine, FollowRequest
  <1> QED
    BY <1>1, <1>3
       DEF IInv, IdleEdge, HoldEdge, ConsumeEdge, Idle, Hold, Consume, Quiet, Latched,
           InIdle, InCache, InStart, InWait, InReduce, InFinalize, InRespond

LEMMA AcceptKeeps == ASSUME IInv, NEW r \in Request, AcceptEdge(r) PROVE IInv'
  <1>1. CoreTypeOK'
    BY AcceptType DEF IInv, AcceptEdge
  <1>2. Quiet /\ Engine /\ ~rsp_valid
    BY DEF IInv, InIdle, AcceptEdge, Accept
  <1>3. SearchInv(req_q)' /\ ~active' /\ ~done'
    BY <1>2, QuietEngine, FollowRequest DEF AcceptEdge, Accept
  <1> QED
    BY <1>1, <1>2, <1>3
       DEF IInv, AcceptEdge, Accept, Quiet, Latched,
           InIdle, InCache, InStart, InWait, InReduce, InFinalize, InRespond

LEMMA CacheKeeps == ASSUME IInv, CacheEdge PROVE IInv'
  <1>1. CoreTypeOK'
    BY CacheType DEF IInv, CacheEdge
  <1>2. /\ Quiet /\ Engine /\ ~rsp_valid /\ Latched
        /\ cbest = NoBest /\ rk = 0 /\ lane_done_seen = {}
    BY DEF IInv, InCache, CacheEdge, Cache
  <1>3. SearchInv(req_q)' /\ ~active' /\ ~done'
    <2>1. PICK q : q = req_q
      OBVIOUS
    <2>2. req_q' = q
      BY <2>1 DEF CacheEdge, Cache
    <2> QED
      BY <1>2, <2>2, QuietEngine, FollowRequest
  <1> QED
    BY <1>1, <1>2, <1>3
       DEF IInv, CacheEdge, Cache, Quiet, Latched, Searching,
           InIdle, InCache, InStart, InWait, InReduce, InFinalize, InRespond

LEMMA SearchStartKeeps == ASSUME IInv, SearchStartEdge PROVE IInv'
  <1>1. CoreTypeOK'
    BY SearchStartType DEF IInv, SearchStartEdge
  <1>2. /\ Quiet /\ Engine /\ ~rsp_valid /\ Searching
        /\ cbest = NoBest /\ rk = 0 /\ lane_done_seen = {}
    BY DEF IInv, InStart, SearchStartEdge, SearchStart
  <1>3. SearchInv(req_q)' /\ ~active' /\ ~done'
    <2>1. PICK q : q = req_q
      OBVIOUS
    <2>2. req_q' = q
      BY <2>1 DEF SearchStartEdge, SearchStart
    <2> QED
      BY <1>2, <2>2, QuietEngine, FollowRequest
  <1> QED
    BY <1>1, <1>2, <1>3
       DEF IInv, SearchStartEdge, SearchStart, Latched, Searching,
           InIdle, InCache, InStart, InWait, InReduce, InFinalize, InRespond

(* The context on the search's inputs while the core waits is that of the   *)
(* one request.                                                             *)
LEMMA WaitContext ==
    ASSUME IInv, state = "SEARCH_WAIT"
    PROVE  /\ req_q \in Request /\ CoreContext = ContextOf(req_q)
           /\ CandidateCount = Count[req_q] /\ Count[req_q] \in Nat /\ Count[req_q] > 0
           /\ ContextOf(req_q) \in ContextRecord
  <1>1. Searching
    BY DEF IInv, InWait
  <1>2. req_q \in Request \ Invalid /\ req_q # NoRequest /\ heights_q = req_q
    BY <1>1, RequestAssumption DEF Searching, Latched
  <1> QED
    BY <1>2, RequestAssumption, ContextOfIsRecord DEF CoreContext, ContextOf, CandidateCount

LEMMA SearchWaitKeeps == ASSUME IInv, SearchWaitEdge PROVE IInv'
  <1> DEFINE q == req_q
  <1>0. /\ state = "SEARCH_WAIT" /\ ~rsp_valid /\ Engine /\ SearchInv(req_q) /\ Searching
        /\ cbest = NoBest /\ rk = 0 /\ lane_done_seen = {}
    BY DEF IInv, InWait, SearchWaitEdge, SearchWait
  <1>1. CoreTypeOK'
    <2>1. LaneDone \in SUBSET Lane /\ LaneBest \in [Lane -> Best]
      BY DEF LaneDone, LaneBest, IInv, SearchInv, SearchTypeOK
    <2> QED
      BY <2>1, SearchWaitType DEF IInv, SearchWaitEdge
  <1>2. /\ UNCHANGED <<req_q, heights_q, err_q, rk, rsp_valid, rsp, cbest>>
        /\ ~search_start'
    BY OneLane DEF SearchWaitEdge, SearchWait
  <1>3. CASE ~done
    <2>1. LaneDone = {} /\ ~AllDone(LaneDone)
      BY <1>0, <1>3, OneLane DEF LaneDone, AllDone
    <2>2. state' = "SEARCH_WAIT" /\ lane_done_seen' = {}
      BY <1>0, <2>1 DEF SearchWaitEdge, SearchWait
    <2>3. /\ SearchInv(req_q)'
          /\ \/ active' /\ ~done'
             \/ ~active' /\ done' /\ HasWinner'
      <3>1. PICK r \in Request : r = req_q
        BY WaitContext, <1>0
      <3>2. req_q' = r
        BY <1>2, <3>1
      <3>3. CASE search_start /\ ~active
        <4>1. SearchEdge(TRUE, ContextOf(r), Count[r])
          <5>1. search_start = TRUE
            BY <3>3 DEF IInv, CoreTypeOK
          <5> QED
            BY <5>1, <1>0, <3>1, WaitContext DEF Engine
        <4>2. SearchInv(r)' /\ active' /\ ~done'
          BY <4>1, <3>1, <3>3, <1>0, WaitContext, StartEdgeInv
        <4> QED
          BY <4>2, <3>2, FollowRequest
      <3>4. CASE ~search_start /\ active
        <4>1. SearchEdge(search_start, ContextOf(r), Count[r])
          BY <1>0, <3>1, WaitContext DEF Engine
        <4>2. /\ SearchInv(r)'
              /\ done' => /\ ~active' /\ best' = Winner[r]
                          /\ IsWinner(best', Results(r))
              /\ active' <=> ~done'
          BY <4>1, <3>1, <3>4, <1>0, WaitContext, RunningEdge
        <4>3. done' => HasWinner'
          BY <4>2, <3>2 DEF HasWinner, IsWinner, Results
        <4> QED
          BY <4>2, <4>3, <3>2, FollowRequest
      <3> QED
        BY <3>3, <3>4, <1>0, <1>3 DEF IInv, InWait
    <2> QED
      BY <1>0, <1>1, <1>2, <2>2, <2>3
         DEF IInv, Latched, Searching,
             InIdle, InCache, InStart, InWait, InReduce, InFinalize, InRespond
  <1>4. CASE done
    <2>0. ~active /\ ~search_start /\ HasWinner
      <3>1. \/ search_start /\ ~active /\ ~done
            \/ ~search_start /\ active /\ ~done
            \/ ~search_start /\ ~active /\ done /\ HasWinner
        BY <1>0 DEF IInv, InWait
      <3> QED
        BY <3>1, <1>4
    <2>1. LaneDone = Lane /\ AllDone(LaneDone)
      BY <1>0, <1>4, OneLane DEF LaneDone, AllDone
    <2>2. state' = "REDUCE"
      BY <2>1, OneLane DEF SearchWaitEdge, SearchWait
    <2>3. SearchInv(req_q)' /\ ~active' /\ ~done' /\ best' = best
      <3>1. PICK r : r = req_q
        OBVIOUS
      <3>2. req_q' = r
        BY <3>1, <1>2
      <3> QED
        BY <1>0, <2>0, <3>2, StoppedEngine, FollowRequest
    <2>4. HasWinner'
      BY <2>0, <2>3, <1>2 DEF HasWinner, IsWinner, Results
    <2> QED
      BY <1>0, <1>1, <1>2, <2>2, <2>3, <2>4
         DEF IInv, Latched, Searching, Quiet,
             InIdle, InCache, InStart, InWait, InReduce, InFinalize, InRespond
  <1> QED
    BY <1>3, <1>4

LEMMA ReduceKeeps == ASSUME IInv, ReduceEdge PROVE IInv'
  <1>0. /\ state = "REDUCE" /\ ~rsp_valid /\ Engine /\ Quiet /\ Searching
        /\ cbest = NoBest /\ rk = 0 /\ HasWinner
    BY DEF IInv, InReduce, ReduceEdge, Reduce
  <1>1. CoreTypeOK'
    <2>1. LaneBest \in [Lane -> Best]
      BY DEF LaneBest, IInv, SearchInv, SearchTypeOK
    <2> QED
      BY <2>1, <1>0, RkFacts, ReduceType DEF IInv, ReduceEdge
  <1>2. cbest' = Winner[req_q]
    <2>1. LaneBest[0] = best
      BY OneLane DEF LaneBest
    <2>2. Merge(NoBest, best) = best
      BY <1>0, MergeIntoNothing DEF HasWinner
    <2> QED
      BY <2>1, <2>2, <1>0 DEF ReduceEdge, Reduce, HasWinner
  <1>3. state' = "FINALIZE"
    BY <1>0, OneLane DEF ReduceEdge, Reduce
  <1>4. SearchInv(req_q)' /\ ~active' /\ ~done'
    <2>1. PICK q : q = req_q
      OBVIOUS
    <2>2. req_q' = q
      BY <2>1 DEF ReduceEdge, Reduce
    <2> QED
      BY <1>0, <2>2, QuietEngine, FollowRequest
  <1> QED
    BY <1>0, <1>1, <1>2, <1>3, <1>4
       DEF IInv, ReduceEdge, Reduce, Latched, Searching, Quiet,
           InIdle, InCache, InStart, InWait, InReduce, InFinalize, InRespond

LEMMA FinalizeKeeps == ASSUME IInv, FinalizeEdge PROVE IInv'
  <1>0. /\ state = "FINALIZE" /\ Engine /\ Quiet /\ Latched
    BY DEF IInv, InFinalize, FinalizeEdge, Finalize
  <1>1. CoreTypeOK'
    BY FinalizeType DEF IInv, FinalizeEdge
  <1>2. rsp' = Decision[req_q] /\ rsp' # NoResponse
    <2>1. rsp' \in Response
      BY DecisionType DEF FinalizeEdge, Finalize, IInv, CoreTypeOK
    <2> QED
      BY <2>1, FinalizeDecides, CoreAssumption DEF FinalizeEdge, IInv, InFinalize, Finalize
  <1>3. SearchInv(req_q)' /\ ~active' /\ ~done'
    <2>1. PICK q : q = req_q
      OBVIOUS
    <2>2. req_q' = q
      BY <2>1 DEF FinalizeEdge, Finalize
    <2> QED
      BY <1>0, <2>2, QuietEngine, FollowRequest
  <1> QED
    BY <1>0, <1>1, <1>2, <1>3
       DEF IInv, FinalizeEdge, Finalize, Latched, Quiet,
           InIdle, InCache, InStart, InWait, InReduce, InFinalize, InRespond

LEMMA StutterKeeps == ASSUME IInv, UNCHANGED vars PROVE IInv'
  <1>1. UNCHANGED coreVars /\ UNCHANGED searchVars
    BY DEF vars
  <1>2. CoreTypeOK'
    BY <1>1 DEF IInv, CoreTypeOK, coreVars
  <1>3. SearchInv(req_q)'
    <2>1. PICK q : q = req_q
      OBVIOUS
    <2>2. req_q' = q /\ SearchInv(q)
      BY <2>1, <1>1 DEF coreVars, IInv
    <2>3. SearchInv(q)'
      BY <2>2, <1>1, StutterSearchInv
    <2> QED
      BY <2>2, <2>3, FollowRequest
  <1> QED
    BY <1>1, <1>2, <1>3
       DEF IInv, coreVars, searchVars, Latched, Searching, Quiet, HasWinner, IsWinner, Results,
           InIdle, InCache, InStart, InWait, InReduce, InFinalize, InRespond

LEMMA Inductive == ASSUME IInv, [Next]_vars PROVE IInv'
  <1>1. CASE ResetEdge
    BY <1>1, ResetKeeps
  <1>2. CASE IdleEdge \/ HoldEdge \/ ConsumeEdge
    BY <1>2, RestKeeps
  <1>3. CASE \E r \in Request : AcceptEdge(r)
    BY <1>3, AcceptKeeps
  <1>4. CASE CacheEdge
    BY <1>4, CacheKeeps
  <1>5. CASE SearchStartEdge
    BY <1>5, SearchStartKeeps
  <1>6. CASE SearchWaitEdge
    BY <1>6, SearchWaitKeeps
  <1>7. CASE ReduceEdge
    BY <1>7, ReduceKeeps
  <1>8. CASE FinalizeEdge
    BY <1>8, FinalizeKeeps
  <1>9. CASE UNCHANGED vars
    BY <1>9, StutterKeeps
  <1> QED
    BY <1>1, <1>2, <1>3, <1>4, <1>5, <1>6, <1>7, <1>8, <1>9 DEF Next

(* The inductive invariant holds in every reachable state.                  *)
THEOREM Invariance == Spec => []IInv
  BY InitIInv, Inductive, PTL DEF Spec

-----------------------------------------------------------------------------
(* The registers of the core and of the search keep their types.            *)
THEOREM TypeCorrect == Spec => []TypeOK
  <1>1. IInv => TypeOK
    BY DEF IInv, TypeOK, SearchInv
  <1> QED
    BY <1>1, Invariance, PTL

(* Whenever the core can accept a request, the search is idle, its pipeline *)
(* is empty and no pulse is pending (tetris_core.sv:105,133).               *)
THEOREM CoreQuietWhenIdle == Spec => []QuietWhenIdle
  <1>1. IInv => QuietWhenIdle
    <2> SUFFICES ASSUME IInv, state = "IDLE" PROVE QuietWhenIdle
      BY DEF QuietWhenIdle
    <2>1. Quiet /\ ~rsp_valid
      BY DEF IInv, InIdle
    <2>2. InFlight = {}
      BY <2>1 DEF IInv, SearchInv, Resting, Quiet
    <2> QED
      BY <2>1, <2>2 DEF QuietWhenIdle, Quiet
  <1> QED
    BY <1>1, Invariance, PTL

(* Only a core in SEARCH_WAIT sees a start, running or done search.         *)
LEMMA WaitOnly ==
    ASSUME IInv
    PROVE  /\ active \/ done \/ search_start => state = "SEARCH_WAIT"
           /\ state = "SEARCH_WAIT" => Searching /\ (search_start => ~active)
           /\ ~active => InFlight = {}
  <1>1. state # "SEARCH_WAIT" => Quiet
    BY DEF IInv, CoreTypeOK, State, InIdle, InCache, InStart, InReduce, InFinalize, InRespond
  <1>2. state = "SEARCH_WAIT" => Searching /\ (search_start => ~active)
    BY DEF IInv, InWait
  <1>3. ~active => InFlight = {}
    BY DEF IInv, SearchInv, Resting
  <1> QED
    BY <1>1, <1>2, <1>3 DEF Quiet

(* Every token in flight is built from the one latched request: the piece,  *)
(* height and board registers do not change under a running search          *)
(* (docs/design_a2.md, section 3).                                          *)
THEOREM ContextOwned == Spec => []OwnedContext
  <1>1. IInv => OwnedContext
    <2> SUFFICES ASSUME IInv, NEW i \in InFlight
                 PROVE  /\ req_q \in Request /\ heights_q = req_q
                        /\ bank[i].piece = req_q /\ bank[i].heights = req_q
                        /\ i >= MERGE => bank[i].board = req_q
      BY DEF OwnedContext
    <2>1. Searching
      BY WaitOnly
    <2>2. BuiltFrom(req_q)
      BY DEF IInv, SearchInv
    <2> QED
      BY <2>1, <2>2 DEF Searching, Latched, BuiltFrom
  <1> QED
    BY <1>1, Invariance, PTL

(* The search is started only when idle and empty, and runs and finishes    *)
(* only under a core that waits for it.                                     *)
THEOREM StartDoneSafe == Spec => []StartDoneProtocol
  <1>1. IInv => StartDoneProtocol
    <2> SUFFICES ASSUME IInv PROVE StartDoneProtocol
      OBVIOUS
    <2> QED
      BY WaitOnly DEF StartDoneProtocol
  <1> QED
    BY <1>1, Invariance, PTL

-----------------------------------------------------------------------------
(* The refinement: initial states to initial states, every edge to a step   *)
(* of the abstract engine or to a stutter.                                  *)
LEMMA InitRefines == Init => Client!Init
  BY DEF Init, CoreInit, Client!Init, Outstanding, Offered

LEMMA AcceptRefines ==
    ASSUME IInv, NEW r \in Request, AcceptEdge(r) PROVE Client!Accept(r)
  BY AcceptOffers DEF Client!Accept, IInv, InIdle, AcceptEdge, Accept

LEMMA FinalizeRefines == ASSUME IInv, FinalizeEdge PROVE Client!Answer
  <1>1. Latched /\ (~err_q => cbest = Winner[req_q]) /\ ~rsp_valid /\ Finalize
    BY DEF FinalizeEdge, Finalize, IInv, InFinalize
  <1>2. rsp' = Decision[req_q] /\ req_q \in Request
    BY <1>1, FinalizeDecides
  <1> QED
    BY <1>1, <1>2, FinalizeOffers DEF Client!Answer

LEMMA ConsumeRefines == ASSUME IInv, ConsumeEdge PROVE Client!Consume
  BY ConsumeOffers DEF Client!Consume, IInv, InRespond, ConsumeEdge, Consume

LEMMA ResetRefines == ASSUME IInv, ResetEdge PROVE Client!Cancel \/ UNCHANGED Client!vars
  <1>1. state = "IDLE" => ~rsp_valid
    BY DEF IInv, InIdle
  <1>2. state # "IDLE" => req_q \in Request
    BY DEF IInv, CoreTypeOK, State, InCache, InStart, InWait, InReduce, InFinalize,
           InRespond, Searching, Latched
  <1> QED
    BY <1>1, <1>2, ResetOffers DEF ResetEdge, Client!Cancel, Client!vars

LEMMA InnerRefines ==
    ASSUME IdleEdge \/ HoldEdge \/ CacheEdge \/ SearchStartEdge \/ SearchWaitEdge \/ ReduceEdge
           \/ UNCHANGED vars
    PROVE  UNCHANGED Client!vars
  <1>1. CASE SearchWaitEdge \/ ReduceEdge
    BY <1>1, SearchOffers DEF SearchWaitEdge, ReduceEdge, Client!vars
  <1>2. CASE ~(SearchWaitEdge \/ ReduceEdge)
    BY <1>2, RestOffers DEF IdleEdge, HoldEdge, CacheEdge, SearchStartEdge, vars, Client!vars
  <1> QED
    BY <1>1, <1>2

(* The core answers every request it accepts with the decision the rules    *)
(* give it, once, and holds the answer until it is consumed or cancelled.   *)
THEOREM CoreImplementsEngine == Spec => AnswersAreDecisions
  <1>1. IInv /\ [Next]_vars => [Client!Next]_(Client!vars)
    <2> SUFFICES ASSUME IInv, [Next]_vars PROVE Client!Next \/ UNCHANGED Client!vars
      OBVIOUS
    <2>1. CASE ResetEdge
      BY <2>1, ResetRefines DEF Client!Next
    <2>2. CASE \E r \in Request : AcceptEdge(r)
      BY <2>2, AcceptRefines DEF Client!Next
    <2>3. CASE FinalizeEdge
      BY <2>3, FinalizeRefines DEF Client!Next
    <2>4. CASE ConsumeEdge
      BY <2>4, ConsumeRefines DEF Client!Next
    <2>5. CASE \/ IdleEdge \/ HoldEdge \/ CacheEdge \/ SearchStartEdge \/ SearchWaitEdge
              \/ ReduceEdge \/ UNCHANGED vars
      BY <2>5, InnerRefines
    <2> QED
      BY <2>1, <2>2, <2>3, <2>4, <2>5 DEF Next
  <1> QED
    BY <1>1, InitRefines, Invariance, PTL DEF Spec, AnswersAreDecisions, Client!Promise

-----------------------------------------------------------------------------
(* The golden token model in closed form: after edge e bank i holds the     *)
(* token issued i edges before, and a token has been transferred BANKS      *)
(* edges after its issue.                                                   *)
GoldenPipe(n, e) == [i \in Bank |-> IF i <= e THEN Golden!IssuedAt(n, e - i) ELSE Bubble]
GoldenRetired(n, e) ==
    IF e < BANKS + 4 THEN 0 ELSE IF e < BANKS + 4 + n THEN e - BANKS - 3 ELSE n

LEMMA GoldenFacts ==
    /\ BANKS \in Nat /\ BANKS >= 2 /\ Bubble \notin Nat
    /\ Golden!LastBank = LastBank /\ LastBank = BANKS-1 /\ Bank = 0 .. LastBank
    /\ Golden!Empty = [i \in Bank |-> Bubble]
  BY PipeAssumption, A2Assumption DEF Golden!LastBank, LastBank, Bank, Golden!Empty

(* Every set of natural numbers has a least one.                            *)
LEMMA LeastNatural ==
    ASSUME NEW T \in SUBSET Nat, T # {}
    PROVE  \E m \in T : \A k \in T : m <= k
  <1>1. PICK m \in T : \A k \in T : ~(<<k, m>> \in OpToRel(<, Nat))
    BY NatLessThanWellFounded, WFMin, Zenon
  <1>2. \A k \in T : ~(k < m)
    BY <1>1 DEF OpToRel
  <1> QED
    BY <1>2

LEMMA IssuedValues ==
    ASSUME NEW n \in Nat, NEW e \in Int
    PROVE  /\ e \in 4 .. n + 3 => Golden!IssuedAt(n, e) = e - 4
           /\ e \notin 4 .. n + 3 => Golden!IssuedAt(n, e) = Bubble
           /\ Golden!IssuedAt(n, e) = Bubble <=> e \notin 4 .. n + 3
  <1>1. Golden!IssuedAt(n, e) = IF e \in 4 .. n + 3 THEN e - 4 ELSE Bubble
    <2>1. 4 .. 4 + n - 1 = 4 .. n + 3
      OBVIOUS
    <2> QED
      BY <2>1 DEF Golden!IssuedAt, Golden!FIRST_ISSUE
  <1>2. e \in 4 .. n + 3 => e - 4 \in Nat
    OBVIOUS
  <1>3. e \in 4 .. n + 3 => e - 4 # Bubble
    BY <1>2, GoldenFacts
  <1> QED
    BY <1>1, <1>3, Zenon

(* One edge of the closed form.                                             *)
LEMMA GoldenStarts ==
    ASSUME NEW n \in Nat
    PROVE  /\ Golden!Step(Golden!Empty, Golden!IssuedAt(n, 0), TRUE, FALSE) = GoldenPipe(n, 0)
           /\ Golden!Empty[Golden!LastBank] = Bubble /\ GoldenRetired(n, 0) = 0
  <1>1. Golden!IssuedAt(n, 0) = Bubble
    BY IssuedValues
  <1>2. \A i \in Bank : i # 0 => i-1 \in Bank /\ ~(i <= 0)
    BY BankFacts, GoldenFacts
  <1>3. GoldenPipe(n, 0) = [i \in Bank |-> Bubble]
    <2>1. \A i \in Bank : (IF i <= 0 THEN Golden!IssuedAt(n, 0 - i) ELSE Bubble) = Bubble
      BY <1>1, <1>2
    <2> QED
      BY <2>1 DEF GoldenPipe
  <1> QED
    BY <1>1, <1>2, <1>3, GoldenFacts DEF Golden!Step, Golden!Advance, GoldenRetired

LEMMA GoldenSteps ==
    ASSUME NEW n \in Nat, NEW e \in Nat, e > 0
    PROVE  /\ Golden!Step(GoldenPipe(n, e-1), Golden!IssuedAt(n, e), TRUE, FALSE) = GoldenPipe(n, e)
           /\ GoldenRetired(n, e)
                = IF GoldenPipe(n, e-1)[Golden!LastBank] = Bubble THEN GoldenRetired(n, e-1)
                                                                   ELSE GoldenRetired(n, e-1) + 1
  <1>1. ASSUME NEW i \in Bank
        PROVE  (IF i = 0 THEN Golden!IssuedAt(n, e) ELSE GoldenPipe(n, e-1)[i-1])
                 = IF i <= e THEN Golden!IssuedAt(n, e - i) ELSE Bubble
    <2>1. CASE i = 0
      BY <2>1
    <2>2. CASE i # 0
      <3>1. i-1 \in Bank /\ i \in Int /\ (i-1 <= e-1 <=> i <= e) /\ (e-1) - (i-1) = e - i
        BY <2>2, BankFacts
      <3> QED
        BY <2>2, <3>1 DEF GoldenPipe
    <2> QED
      BY <2>1, <2>2
  <1>2. Golden!Step(GoldenPipe(n, e-1), Golden!IssuedAt(n, e), TRUE, FALSE)
          = [i \in Bank |-> IF i = 0 THEN Golden!IssuedAt(n, e) ELSE GoldenPipe(n, e-1)[i-1]]
    BY GoldenFacts DEF Golden!Step, Golden!Advance
  <1>3. GoldenPipe(n, e-1)[LastBank] = Bubble <=> ~(e >= BANKS + 4 /\ e <= BANKS + 3 + n)
    <2>1. GoldenPipe(n, e-1)[LastBank]
            = IF LastBank <= e-1 THEN Golden!IssuedAt(n, (e-1) - LastBank) ELSE Bubble
      BY BankFacts DEF GoldenPipe
    <2>2. Golden!IssuedAt(n, (e-1) - LastBank) = Bubble <=> (e-1) - LastBank \notin 4 .. n + 3
      BY IssuedValues, GoldenFacts
    <2> QED
      BY <2>1, <2>2, GoldenFacts
  <1>4. Golden!Step(GoldenPipe(n, e-1), Golden!IssuedAt(n, e), TRUE, FALSE) = GoldenPipe(n, e)
    BY <1>1, <1>2 DEF GoldenPipe
  <1>5. GoldenRetired(n, e) = IF e >= BANKS + 4 /\ e <= BANKS + 3 + n THEN GoldenRetired(n, e-1) + 1
                                                                      ELSE GoldenRetired(n, e-1)
    BY GoldenFacts DEF GoldenRetired
  <1> QED
    BY <1>3, <1>4, <1>5, GoldenFacts

(* So that is what the recursion of the model computes.                     *)
LEMMA SimulatedClosed ==
    ASSUME NEW n \in Nat, NEW e \in Nat
    PROVE  Golden!Simulated(n, e) = [pipe |-> GoldenPipe(n, e), retired |-> GoldenRetired(n, e)]
  <1> DEFINE Before(f, t) == IF t = 0 THEN [pipe |-> Golden!Empty, retired |-> 0] ELSE f[t-1]
             Body(f, t) ==
                 [pipe |-> Golden!Step(Before(f, t).pipe, Golden!IssuedAt(n, t), TRUE, FALSE),
                  retired |-> IF Before(f, t).pipe[Golden!LastBank] = Bubble THEN Before(f, t).retired
                              ELSE Before(f, t).retired + 1]
             Run == CHOOSE f : f = [t \in 0 .. e |-> Body(f, t)]
             Closed == [t \in 0 .. e |-> [pipe |-> GoldenPipe(n, t), retired |-> GoldenRetired(n, t)]]
  <1>1. Golden!Simulated(n, e) = Run[e]
    BY DEF Golden!Simulated
  <1>2. ASSUME NEW f, NEW t \in 0 .. e, t > 0 => f[t-1] = Closed[t-1]
        PROVE  Body(f, t) = Closed[t]
    <2>1. CASE t = 0
      BY <2>1, GoldenStarts
    <2>2. CASE t # 0
      <3>1. t \in Nat /\ t > 0 /\ t-1 \in 0 .. e
        BY <2>2
      <3>2. Before(f, t) = [pipe |-> GoldenPipe(n, t-1), retired |-> GoldenRetired(n, t-1)]
        BY <1>2, <2>2, <3>1
      <3>3. /\ Body(f, t).pipe = GoldenPipe(n, t)
            /\ Body(f, t).retired = GoldenRetired(n, t)
        <4> HIDE DEF Before
        <4>1. /\ Before(f, t).pipe = GoldenPipe(n, t-1)
              /\ Before(f, t).retired = GoldenRetired(n, t-1)
          BY <3>2
        <4> QED
          BY <3>1, <4>1, GoldenSteps
      <3> QED
        BY <3>3
    <2> QED
      BY <2>1, <2>2
  <1> HIDE DEF Body
  <1>3. Closed = [t \in 0 .. e |-> Body(Closed, t)]
    BY <1>2
  <1>4. Run = [t \in 0 .. e |-> Body(Run, t)]
    BY <1>3, Zenon
  <1>5. \A t \in 0 .. e : Run[t] = Closed[t]
    <2> DEFINE T == {t \in 0 .. e : Run[t] # Closed[t]}
    <2> HIDE DEF Run, Closed
    <2>1. SUFFICES ASSUME T # {} PROVE FALSE
      OBVIOUS
    <2>2. T \in SUBSET Nat
      OBVIOUS
    <2>3. PICK m \in T : \A k \in T : m <= k
      BY <2>1, <2>2, LeastNatural
    <2>4. m > 0 => m-1 \in 0 .. e /\ m-1 \notin T
      BY <2>3
    <2>5. Body(Run, m) = Closed[m]
      BY <1>2, <2>4
    <2>6. Run[m] = Body(Run, m)
      BY <1>4
    <2> QED
      BY <2>5, <2>6
  <1> QED
    BY <1>1, <1>5

-----------------------------------------------------------------------------
(* The edge counter in each state of a search over n candidates, and what   *)
(* the search does on that edge.                                            *)
OnSchedule(n) ==
    /\ Tags = GoldenPipe(n, cyc)
    /\ state = "CACHE" => cyc = 0
    /\ state = "SEARCH_START" => cyc = 1
    /\ state = "SEARCH_WAIT" =>
           /\ cyc \in 2 .. Golden!ReducerDone(n)
           /\ search_start <=> cyc = 2
           /\ done <=> cyc = Golden!ReducerDone(n)
           /\ active => j = IF cyc - 3 < n THEN cyc - 3 ELSE n
    /\ state = "REDUCE" => cyc = Golden!ReducerDone(n) + 1
    /\ state = "FINALIZE" => cyc = Golden!ReducerDone(n) + 2

CycleIInv ==
    /\ state \notin {"IDLE", "RESPOND"} /\ req_q \notin Invalid => OnSchedule(Count[req_q])
    /\ state = "CACHE" => cyc = 0
    /\ state = "FINALIZE" /\ req_q \in Invalid => cyc = 1
    /\ rsp_valid => cycles_o = IF req_q \in Invalid THEN 2 ELSE Golden!DecisionCycles(Count[req_q])

(* The counter is wide enough for every request (2^32 in the code).         *)
CountsSuffice == CYC > 2 /\ \A r \in Request \ Invalid : Golden!DecisionCycles(Count[r]) < CYC

-----------------------------------------------------------------------------
LEMMA ScheduleFacts ==
    ASSUME NEW n \in Nat
    PROVE  /\ Golden!ReducerDone(n) = n + BANKS + 3
           /\ Golden!ReducerDone(n) \in Nat /\ Golden!ReducerDone(n) > 4
           /\ Golden!CoreReduce(n) = Golden!ReducerDone(n) + 1
           /\ Golden!DecisionCycles(n) = Golden!ReducerDone(n) + 3
           /\ Golden!Formula(n) = Golden!ReducerDone(n) + 3
  BY GoldenFacts
     DEF Golden!ReducerDone, Golden!LastVisible, Golden!LastIssue, Golden!FIRST_ISSUE,
         Golden!CoreReduce, Golden!CoreFinalize, Golden!DecisionCycles, Golden!Formula

(* Before the first issue and after the last retirement the banks are empty. *)
LEMMA GoldenEmpty ==
    ASSUME NEW n \in Nat, NEW e \in Nat, e < 4 \/ e >= Golden!ReducerDone(n)
    PROVE  GoldenPipe(n, e) = [i \in Bank |-> Bubble]
  <1>1. ASSUME NEW i \in Bank
        PROVE  e - i \in Int /\ e - i \notin 4 .. n + 3
    BY ScheduleFacts, GoldenFacts
  <1>2. \A i \in Bank : Golden!IssuedAt(n, e - i) = Bubble
    BY <1>1, IssuedValues
  <1> QED
    BY <1>2 DEF GoldenPipe

LEMMA EmptyTags == ASSUME InFlight = {} PROVE Tags = [i \in Bank |-> Bubble]
  BY DEF InFlight, Tags

LEMMA GoldenMoves ==
    ASSUME NEW n \in Nat, NEW e \in Nat
    PROVE  GoldenPipe(n, e+1)
             = [i \in Bank |-> IF i = 0 THEN Golden!IssuedAt(n, e+1) ELSE GoldenPipe(n, e)[i-1]]
  <1>1. e+1 \in Nat /\ e+1 > 0 /\ (e+1) - 1 = e
    OBVIOUS
  <1>2. Golden!Step(GoldenPipe(n, e), Golden!IssuedAt(n, e+1), TRUE, FALSE) = GoldenPipe(n, e+1)
    BY <1>1, GoldenSteps
  <1> QED
    BY <1>2, GoldenFacts DEF Golden!Step, Golden!Advance

(* The banks of the code move as those of the model.                        *)
LEMMA TagsMove ==
    ASSUME SearchTypeOK, NEW c \in ContextRecord, NEW start, NEW m, SearchEdge(start, c, m)
    PROVE  Tags' = [i \in Bank |-> IF i = 0 THEN (IF Issuing THEN j ELSE Bubble) ELSE Tags[i-1]]
  <1> DEFINE in == IF Issuing THEN Issue(c, j, IsLast) ELSE Bubble
  <1>1. bank' = [i \in Bank |-> Load(i, in, c)]
    BY DEF SearchEdge, PipeEdge, Advance
  <1>2. Issuing => in \in Token /\ in.tag = j
    BY RequestAssumption DEF Issue, IsLast, Token, ContextRecord, Context, SearchTypeOK
  <1>3. in \in Token \cup {Bubble} /\ PipeTypeOK
    BY <1>2 DEF SearchTypeOK
  <1>4. ASSUME NEW i \in Bank
        PROVE  (IF bank'[i] # Bubble THEN bank'[i].tag ELSE Bubble)
                 = IF i = 0 THEN (IF Issuing THEN j ELSE Bubble) ELSE Tags[i-1]
    <2> DEFINE t == IF i = 0 THEN in ELSE bank[i-1]
    <2>1. /\ bank'[i] = Bubble <=> t = Bubble
          /\ bank'[i] # Bubble => bank'[i].tag = t.tag
      <3> HIDE DEF in
      <3> QED
        BY <1>1, <1>3, LoadToken
    <2>2. CASE i = 0
      BY <2>1, <2>2, <1>2, BubbleIsNoToken
    <2>3. CASE i # 0
      BY <2>1, <2>3, BankFacts DEF Tags, Valid
    <2> QED
      BY <2>2, <2>3
  <1> QED
    BY <1>4 DEF Tags, Valid

(* The last token retires on the model's edge.                              *)
LEMMA LastRetires ==
    ASSUME NEW r \in Request, SearchInv(r), active, NEW e \in Nat, Tags = GoldenPipe(Count[r], e)
    PROVE  LastRetiring <=> e + 1 = Golden!ReducerDone(Count[r])
  <1> DEFINE n == Count[r]
  <1>1. n \in Nat /\ n_q = n /\ n > 0 /\ SearchTypeOK
    BY RequestAssumption DEF SearchInv, Progressing
  <1>2. LastBank \in Bank /\ e - LastBank \in Int /\ (e < LastBank => e - LastBank \notin 4 .. n + 3)
    BY GoldenFacts, BankFacts, <1>1
  <1>3. Tags[LastBank] = IF LastBank <= e THEN Golden!IssuedAt(n, e - LastBank) ELSE Bubble
    BY <1>2 DEF GoldenPipe
  <1>4. /\ e - LastBank \in 4 .. n + 3 => Tags[LastBank] = e - LastBank - 4
        /\ e - LastBank \notin 4 .. n + 3 => Tags[LastBank] = Bubble
    BY <1>1, <1>2, <1>3, IssuedValues, GoldenFacts
  <1>5. Valid(LastBank) <=> Tags[LastBank] # Bubble
    <2>1. Valid(LastBank) => bank[LastBank].tag \in Nat
      BY <1>1, <1>2 DEF Valid, SearchTypeOK, PipeTypeOK, Token
    <2> QED
      BY <2>1, <1>2, GoldenFacts DEF Tags
  <1>6. Valid(LastBank) => Tags[LastBank] = bank[LastBank].tag /\ LastBank \in InFlight
    BY <1>2 DEF Tags, InFlight
  <1>7. LastRetiring <=> Valid(LastBank) /\ Tags[LastBank] = n - 1
    BY <1>1, <1>6 DEF LastRetiring, Retiring, MValid, SearchInv, LastMarked
  <1>8. Tags[LastBank] = n - 1 => Tags[LastBank] # Bubble
    BY <1>1, GoldenFacts
  <1>9. LastRetiring <=> e - LastBank \in 4 .. n + 3 /\ e - LastBank - 4 = n - 1
    BY <1>4, <1>5, <1>7, <1>8
  <1>10. e - LastBank \in 4 .. n + 3 /\ e - LastBank - 4 = n - 1 <=> e + 1 = n + BANKS + 3
    <2> HIDE DEF n
    <2> QED
      BY <1>1, GoldenFacts
  <1>11. Golden!ReducerDone(n) = n + BANKS + 3
    BY <1>1, ScheduleFacts
  <1> QED
    BY <1>9, <1>10, <1>11, Zenon

-----------------------------------------------------------------------------
(* One lemma per kind of edge: the counter keeps pace with the model.       *)
LEMMA CycleInit == Init => CycleIInv
  BY DEF Init, CoreInit, CycleIInv

(* What the latched request of a search counts, in all its states.          *)
LEMMA SearchCounts ==
    ASSUME IInv, state \notin {"IDLE", "RESPOND"}
    PROVE  /\ req_q \in Request /\ Count[req_q] \in Nat /\ err_q = (req_q \in Invalid)
           /\ cyc \in Nat
           /\ state \in {"CACHE", "SEARCH_START", "SEARCH_WAIT", "REDUCE", "FINALIZE"}
           /\ state \in {"SEARCH_START", "SEARCH_WAIT", "REDUCE"} => req_q \notin Invalid
           /\ ~active => InFlight = {}
  <1>1. state \in {"CACHE", "SEARCH_START", "SEARCH_WAIT", "REDUCE", "FINALIZE"}
    BY DEF IInv, CoreTypeOK, State
  <1>2. Latched /\ (state \in {"SEARCH_START", "SEARCH_WAIT", "REDUCE"} => ~err_q)
    BY <1>1 DEF IInv, InCache, InStart, InWait, InReduce, InFinalize, Searching
  <1>3. cyc \in Nat
    BY CoreAssumption DEF IInv, CoreTypeOK
  <1> QED
    BY <1>1, <1>2, <1>3, RequestAssumption DEF Latched, IInv, SearchInv, Resting

(* An edge into a state without a running search.                           *)
LEMMA EmptyOnEdge ==
    ASSUME IInv', ~active', NEW n \in Nat, NEW e \in Nat, e < 4 \/ e >= Golden!ReducerDone(n)
    PROVE  Tags' = GoldenPipe(n, e)
  <1>1. InFlight' = {}
    BY DEF IInv, SearchInv, Resting
  <1>2. Tags' = [i \in Bank |-> Bubble]
    BY <1>1 DEF InFlight, Tags
  <1> QED
    BY <1>2, GoldenEmpty

LEMMA RestPaces ==
    ASSUME CycleIInv, ResetEdge \/ IdleEdge \/ HoldEdge \/ ConsumeEdge \/ UNCHANGED vars
    PROVE  CycleIInv'
  <1>1. CASE ResetEdge
    BY <1>1 DEF ResetEdge, CoreReset, CycleIInv
  <1>2. CASE IdleEdge \/ HoldEdge \/ ConsumeEdge
    BY <1>2 DEF IdleEdge, HoldEdge, ConsumeEdge, Idle, Hold, Consume, CycleIInv
  <1>3. CASE UNCHANGED vars
    BY <1>3 DEF vars, coreVars, searchVars, CycleIInv, OnSchedule, Tags, Valid
  <1> QED
    BY <1>1, <1>2, <1>3

LEMMA AcceptPaces ==
    ASSUME IInv, IInv', CycleIInv, NEW r \in Request, AcceptEdge(r)
    PROVE  CycleIInv'
  <1>1. /\ state = "IDLE" /\ state' = "CACHE" /\ req_q' = r /\ cyc' = 0 /\ rsp_valid' = rsp_valid
        /\ ~rsp_valid
    BY DEF AcceptEdge, Accept, IInv, InIdle
  <1>2. Count[r] \in Nat
    BY RequestAssumption
  <1>3. ~active'
    BY <1>1 DEF IInv, InCache, Quiet
  <1>4. Tags' = GoldenPipe(Count[r], 0)
    BY <1>2, <1>3, EmptyOnEdge
  <1> QED
    BY <1>1, <1>4 DEF CycleIInv, OnSchedule

LEMMA TickCounts ==
    ASSUME NEW n \in Nat, cyc \in Nat, cyc + 1 <= n, n < CYC, CYC \in Nat
    PROVE  Tick = cyc + 1
  BY DEF Tick

LEMMA CachePaces ==
    ASSUME CountsSuffice, IInv, IInv', CycleIInv, CacheEdge
    PROVE  CycleIInv'
  <1>1. /\ state = "CACHE" /\ req_q' = req_q /\ cyc' = Tick /\ ~rsp_valid'
        /\ state' = IF err_q THEN "FINALIZE" ELSE "SEARCH_START"
    BY DEF CacheEdge, Cache, IInv, InCache
  <1>2. req_q \in Request /\ Count[req_q] \in Nat /\ err_q = (req_q \in Invalid)
    BY <1>1, SearchCounts
  <1>3. cyc' = 1
    BY <1>1, CoreAssumption, TickCounts DEF CycleIInv, CountsSuffice, Tick
  <1>4. ~active'
    BY <1>1 DEF IInv, InStart, InFinalize, Quiet
  <1>5. Tags' = GoldenPipe(Count[req_q], 1)
    BY <1>2, <1>4, EmptyOnEdge
  <1> QED
    BY <1>1, <1>2, <1>3, <1>5 DEF CycleIInv, OnSchedule

LEMMA SearchStartPaces ==
    ASSUME CountsSuffice, IInv, IInv', CycleIInv, SearchStartEdge
    PROVE  CycleIInv'
  <1>1. /\ state = "SEARCH_START" /\ req_q' = req_q /\ cyc' = Tick /\ ~rsp_valid'
        /\ state' = "SEARCH_WAIT" /\ search_start'
    BY DEF SearchStartEdge, SearchStart, IInv
  <1>2. req_q \in Request /\ Count[req_q] \in Nat /\ req_q \notin Invalid
    BY <1>1, SearchCounts
  <1>3. cyc' = 2
    BY <1>1, <1>2, CoreAssumption DEF CycleIInv, CountsSuffice, Tick, OnSchedule
  <1>4. ~active' /\ ~done'
    BY <1>1 DEF IInv, InWait
  <1>5. Tags' = GoldenPipe(Count[req_q], 2)
    BY <1>2, <1>4, EmptyOnEdge
  <1>6. Golden!ReducerDone(Count[req_q]) > 2
    BY <1>2, ScheduleFacts
  <1>7. 2 \in 2 .. Golden!ReducerDone(Count[req_q])
    BY <1>2, <1>6, ScheduleFacts
  <1> HIDE DEF Tags
  <1> QED
    BY <1>1, <1>2, <1>3, <1>4, <1>5, <1>6, <1>7 DEF CycleIInv, OnSchedule

LEMMA ReducePaces ==
    ASSUME CountsSuffice, IInv, IInv', CycleIInv, ReduceEdge
    PROVE  CycleIInv'
  <1>1. /\ state = "REDUCE" /\ req_q' = req_q /\ cyc' = Tick /\ ~rsp_valid'
        /\ state' = "FINALIZE"
    BY OneLane DEF ReduceEdge, Reduce, IInv, InReduce
  <1>2. req_q \in Request /\ Count[req_q] \in Nat /\ req_q \notin Invalid
    BY <1>1, SearchCounts
  <1> DEFINE last == Golden!ReducerDone(Count[req_q])
  <1>3. last \in Nat /\ last + 3 < CYC /\ cyc = last + 1
    <2>1. last \in Nat /\ Golden!DecisionCycles(Count[req_q]) = last + 3
      BY <1>2, ScheduleFacts
    <2> QED
      BY <1>1, <1>2, <2>1 DEF CycleIInv, CountsSuffice, OnSchedule
  <1>4. cyc' = last + 2
    <2> HIDE DEF last
    <2> QED
      BY <1>1, <1>3, CoreAssumption DEF Tick
  <1>5. ~active'
    BY <1>1 DEF IInv, InFinalize, Quiet
  <1>6. Tags' = GoldenPipe(Count[req_q], last + 2)
    BY <1>2, <1>3, <1>5, EmptyOnEdge
  <1> QED
    BY <1>1, <1>2, <1>4, <1>6 DEF CycleIInv, OnSchedule

LEMMA FinalizePaces ==
    ASSUME CountsSuffice, IInv, IInv', CycleIInv, FinalizeEdge
    PROVE  CycleIInv'
  <1>1. /\ state = "FINALIZE" /\ req_q' = req_q /\ cycles_o' = Tick /\ state' = "RESPOND"
    BY DEF FinalizeEdge, Finalize
  <1>2. req_q \in Request /\ Count[req_q] \in Nat
    BY <1>1, SearchCounts
  <1>3. CASE req_q \in Invalid
    <2>1. Tick = 2
      BY <1>1, <1>3, CoreAssumption DEF CycleIInv, CountsSuffice, Tick
    <2> QED
      BY <1>1, <1>3, <2>1 DEF CycleIInv
  <1>4. CASE req_q \notin Invalid
    <2> DEFINE last == Golden!ReducerDone(Count[req_q])
    <2>1. last \in Nat /\ last + 3 < CYC /\ cyc = last + 2 /\ Golden!DecisionCycles(Count[req_q]) = last + 3
      <3>1. last \in Nat /\ Golden!DecisionCycles(Count[req_q]) = last + 3
        BY <1>2, ScheduleFacts
      <3> QED
        BY <1>1, <1>2, <1>4, <3>1 DEF CycleIInv, CountsSuffice, OnSchedule
    <2>2. Tick = last + 3
      <3> HIDE DEF last
      <3> QED
        BY <2>1, CoreAssumption DEF Tick
    <2> QED
      BY <1>1, <1>4, <2>1, <2>2 DEF CycleIInv
  <1> QED
    BY <1>3, <1>4

LEMMA SearchWaitPaces ==
    ASSUME CountsSuffice, IInv, IInv', CycleIInv, SearchWaitEdge
    PROVE  CycleIInv'
  <1>1. /\ state = "SEARCH_WAIT" /\ req_q' = req_q /\ cyc' = Tick /\ ~rsp_valid' /\ ~search_start'
        /\ Engine /\ SearchInv(req_q)
    BY DEF SearchWaitEdge, SearchWait, IInv
  <1>2. PICK r \in Request : req_q = r /\ r \notin Invalid
    BY <1>1, SearchCounts
  <1> DEFINE n == Count[r]
             last == Golden!ReducerDone(n)
  <1>3. /\ n \in Nat /\ n > 0 /\ last = n + BANKS + 3 /\ last + 3 < CYC /\ BANKS >= 2 /\ BANKS \in Nat
        /\ CoreContext = ContextOf(r) /\ CandidateCount = n /\ ContextOf(r) \in ContextRecord
    BY <1>1, <1>2, WaitContext, ScheduleFacts, GoldenFacts DEF CountsSuffice
  <1>4. /\ Tags = GoldenPipe(n, cyc) /\ cyc \in 2 .. last
        /\ search_start <=> cyc = 2
        /\ done <=> cyc = last
        /\ active => j = IF cyc - 3 < n THEN cyc - 3 ELSE n
    BY <1>1, <1>2 DEF CycleIInv, OnSchedule
  <1>5. cyc' = cyc + 1 /\ cyc \in Nat
    <2> HIDE DEF last, n
    <2> QED
      BY <1>1, <1>3, <1>4, CoreAssumption DEF Tick
  <1>6. CASE done
    <2>1. LaneDone = Lane /\ AllDone(LaneDone)
      BY <1>1, <1>6, OneLane DEF LaneDone, AllDone, IInv, InWait
    <2>2. state' = "REDUCE"
      BY <2>1, OneLane DEF SearchWaitEdge, SearchWait
    <2>3. ~active'
      BY <2>2 DEF IInv, InReduce, Quiet
    <2>4. Tags' = GoldenPipe(n, last + 1)
      BY <1>3, <2>3, EmptyOnEdge
    <2> QED
      BY <1>1, <1>2, <1>4, <1>5, <1>6, <2>2, <2>4 DEF CycleIInv, OnSchedule
  <1>7. CASE ~done
    <2>1. LaneDone = {} /\ ~AllDone(LaneDone)
      BY <1>1, <1>7, OneLane DEF LaneDone, AllDone, IInv, InWait
    <2>2. state' = "SEARCH_WAIT"
      BY <1>1, <2>1 DEF SearchWaitEdge, SearchWait
    <2>3. \/ search_start /\ ~active
          \/ ~search_start /\ active
      BY <1>1, <1>7 DEF IInv, InWait
    <2>4. SearchEdge(search_start, ContextOf(r), n) /\ SearchTypeOK /\ SearchInv(r)
      BY <1>1, <1>2, <1>3 DEF Engine, SearchInv
    <2>5. active => n_q = n
      BY <2>4 DEF SearchInv, Progressing
    <2>6. (IF Issuing THEN j ELSE Bubble) = Golden!IssuedAt(n, cyc + 1)
      <3>1. CASE ~active
        <4>1. cyc = 2 /\ ~Issuing
          BY <1>4, <2>3, <3>1 DEF Issuing
        <4> QED
          BY <4>1, <1>3, IssuedValues
      <3>2. CASE active
        <4>1. cyc >= 3 /\ (Issuing <=> cyc - 3 < n) /\ (Issuing => j = cyc - 3)
          <5> HIDE DEF last, n
          <5> QED
            BY <1>3, <1>4, <1>5, <2>3, <2>5, <3>2 DEF Issuing
        <4>2. cyc + 1 \in Int /\ (cyc + 1 \in 4 .. n + 3 <=> Issuing) /\ (cyc + 1) - 4 = cyc - 3
          <5> HIDE DEF last, n
          <5> QED
            BY <4>1, <1>3, <1>5
        <4> QED
          BY <4>1, <4>2, <1>3, IssuedValues
      <3> QED
        BY <3>1, <3>2
    <2>7. Tags' = GoldenPipe(n, cyc + 1)
      <3>1. Tags' = [i \in Bank |-> IF i = 0 THEN (IF Issuing THEN j ELSE Bubble) ELSE Tags[i-1]]
        BY <2>4, <1>3, TagsMove
      <3> QED
        BY <3>1, <2>6, <1>3, <1>4, <1>5, GoldenMoves
    <2>8. done' <=> cyc + 1 = last
      <3>1. done' = LastRetiring
        BY <2>4 DEF SearchEdge
      <3>2. CASE active
        BY <3>1, <3>2, <2>4, <1>4, <1>5, LastRetires
      <3>3. CASE ~active
        <4>1. cyc = 2 /\ InFlight = {}
          BY <1>4, <2>3, <2>4, <3>3 DEF SearchInv, Resting
        <4>2. ~LastRetiring
          BY <4>1, BankFacts DEF LastRetiring, Retiring, MValid, InFlight
        <4> HIDE DEF last, n
        <4> QED
          BY <3>1, <4>1, <4>2, <1>3
      <3> QED
        BY <3>2, <3>3
    <2>9. active' => j' = IF (cyc + 1) - 3 < n THEN (cyc + 1) - 3 ELSE n
      <3>1. j' = IF Issuing THEN j + 1 ELSE IF AcceptStart(search_start) THEN 0 ELSE j
        BY <2>4 DEF SearchEdge
      <3>2. CASE active
        <4> HIDE DEF last, n
        <4> QED
          BY <3>1, <3>2, <1>3, <1>4, <1>5, <2>3, <2>5 DEF Issuing, AcceptStart
      <3>3. CASE ~active
        <4>1. cyc = 2 /\ ~Issuing /\ AcceptStart(search_start)
          BY <1>4, <2>3, <3>3 DEF Issuing, AcceptStart
        <4>2. j' = 0
          BY <3>1, <4>1
        <4> HIDE DEF last, n
        <4> QED
          BY <4>1, <4>2, <1>3
      <3> QED
        BY <3>2, <3>3
    <2>10. cyc + 1 \in 2 .. last /\ cyc + 1 # 2
      <3> HIDE DEF last, n
      <3> QED
        BY <1>3, <1>4, <1>5, <1>7
    <2> HIDE DEF Tags
    <2> QED
      BY <1>1, <1>2, <1>5, <2>2, <2>7, <2>8, <2>9, <2>10 DEF CycleIInv, OnSchedule
  <1> QED
    BY <1>6, <1>7

LEMMA CycleStep ==
    ASSUME CountsSuffice, IInv, IInv', CycleIInv, [Next]_vars
    PROVE  CycleIInv'
  BY RestPaces, AcceptPaces, CachePaces, SearchStartPaces, SearchWaitPaces, ReducePaces, FinalizePaces
     DEF Next

(* The core keeps the schedule of the golden token model on every edge of   *)
(* every search, for any number of banks and candidates: its banks hold the *)
(* tags the model has, the last token retires and the answer comes on the   *)
(* model's edge, whatever was answered or reset before                      *)
(* (docs/design_a2.md, 8), as long as the cycle counter is wide enough.     *)
THEOREM ScheduleIsGolden ==
    ASSUME CountsSuffice
    PROVE  Spec => []CycleContract
  <1>1. ASSUME IInv, CycleIInv PROVE CycleContract
    <2>1. ASSUME state \notin {"IDLE", "RESPOND"}, req_q \notin Invalid
          PROVE  LET golden == Golden!Simulated(Count[req_q], cyc)
                 IN  /\ Tags = golden.pipe
                     /\ done <=> cyc = Golden!ReducerDone(Count[req_q])
                     /\ state = "REDUCE" => cyc = Golden!CoreReduce(Count[req_q])
                     /\ cyc >= Golden!ReducerDone(Count[req_q]) => golden.retired = Count[req_q]
      <3> DEFINE n == Count[req_q]
                 last == Golden!ReducerDone(n)
      <3>1. n \in Nat /\ cyc \in Nat /\ OnSchedule(n)
        BY <1>1, <2>1, SearchCounts DEF CycleIInv
      <3>2. last = n + BANKS + 3 /\ Golden!CoreReduce(n) = last + 1
        BY <3>1, ScheduleFacts
      <3>3. Golden!Simulated(n, cyc) = [pipe |-> GoldenPipe(n, cyc), retired |-> GoldenRetired(n, cyc)]
        BY <3>1, SimulatedClosed
      <3>4. done <=> cyc = last
        <4>1. state # "SEARCH_WAIT" => ~done
          BY <1>1, <2>1, SearchCounts DEF IInv, InCache, InStart, InReduce, InFinalize, Quiet
        <4>2. state # "SEARCH_WAIT" => cyc # last
          <5>1. state \in {"CACHE", "SEARCH_START", "SEARCH_WAIT", "REDUCE", "FINALIZE"}
            BY <1>1, <2>1, SearchCounts
          <5>2. last \in Nat /\ last > 1
            BY <3>1, <3>2, GoldenFacts
          <5> HIDE DEF last, n
          <5> QED
            BY <3>1, <5>1, <5>2 DEF OnSchedule, last
        <4>3. state = "SEARCH_WAIT" => (done <=> cyc = last)
          BY <3>1 DEF OnSchedule
        <4> QED
          BY <4>1, <4>2, <4>3
      <3>5. cyc >= last => GoldenRetired(n, cyc) = n
        <4> HIDE DEF n, last
        <4> QED
          BY <3>1, <3>2, GoldenFacts DEF GoldenRetired
      <3> QED
        BY <3>1, <3>2, <3>3, <3>4, <3>5 DEF OnSchedule
    <2>2. \A r \in Request \ Invalid : Golden!DecisionCycles(Count[r]) = Golden!Formula(Count[r])
      BY RequestAssumption, ScheduleFacts
    <2> QED
      BY <1>1, <2>1, <2>2 DEF CycleContract, CycleIInv
  <1> QED
    BY <1>1, InitIInv, Inductive, CycleInit, CycleStep, PTL DEF Spec
=============================================================================
