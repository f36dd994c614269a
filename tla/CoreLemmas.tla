----------------------------- MODULE CoreLemmas -----------------------------
(***************************************************************************)
(* What the proofs about the engines and their compositions share: facts   *)
(* about the order candidates are compared by, about what a reducer that   *)
(* takes results one at a time or merges bests ends up with, and about     *)
(* what the edges of the core's own state machine do to its registers.     *)
(***************************************************************************)
EXTENDS TetrisCore, TLAPS

-----------------------------------------------------------------------------
(* The order the reducers compare by, and what a reducer that takes one     *)
(* result at a time ends up with: facts about Better, Take, Merge and       *)
(* Winner, for every score and every candidate list.                        *)

(* Taking one more result keeps the best the winner, whatever the order the *)
(* results come in.                                                         *)
LEMMA TakeWins ==
    ASSUME NEW S \in SUBSET Result, NEW c \in Result, NEW b,
           IsWinner(b, S)
    PROVE  IsWinner(Take(b, c), S \cup {c})
  <1>1. CASE ~c.legal
    BY <1>1 DEF IsWinner, Take
  <1>2. CASE c.legal /\ ~(\E d \in S : d.legal)
    <2>1. Take(b, c) = AsBest(c)
      BY <1>2 DEF IsWinner, Take, NoBest
    <2>2. ~Better(c, c)
      BY DEF Better, Result
    <2> QED
      BY <1>2, <2>1, <2>2 DEF IsWinner
  <1>3. CASE c.legal /\ \E d \in S : d.legal
    <2>1. PICK w \in S : /\ w.legal /\ b = AsBest(w)
                         /\ \A d \in S : d.legal => ~Better(d, w)
      BY <1>3 DEF IsWinner
    <2>2. b.valid /\ (Better(c, b) <=> Better(c, w))
      BY <2>1 DEF AsBest, Better
    <2>3. CASE Better(c, w)
      <3>1. Take(b, c) = AsBest(c)
        BY <1>3, <2>2, <2>3 DEF Take
      <3>2. ASSUME NEW d \in S \cup {c}, d.legal PROVE ~Better(d, c)
        <4>1. d \in S => ~Better(d, w)
          BY <2>1, <3>2
        <4> QED
          BY <4>1, <2>3, <2>1 DEF Better, Result
      <3> QED
        BY <1>3, <3>1, <3>2 DEF IsWinner
    <2>4. CASE ~Better(c, w)
      <3>1. Take(b, c) = b
        BY <2>2, <2>4 DEF Take
      <3> QED
        BY <2>1, <2>4, <3>1 DEF IsWinner
    <2> QED
      BY <2>3, <2>4
  <1> QED
    BY <1>1, <1>2, <1>3

LEMMA NoBestType == NoBest \in Best
  <1>1. FALSE \in BOOLEAN /\ 0 \in Nat /\ 0 \in Int
    OBVIOUS
  <1> QED
    BY <1>1, Zenon DEF NoBest, Best

LEMMA TakeType ==
    ASSUME NEW b \in Best, NEW c \in Result
    PROVE  Take(b, c) \in Best
  <1>1. AsBest(c) \in Best
    <2>1. c.id \in Nat /\ c.score \in Int /\ c.y \in Nat /\ TRUE \in BOOLEAN
      BY DEF Result
    <2> QED
      BY <2>1, Zenon DEF AsBest, Best
  <1> QED
    BY <1>1 DEF Take

LEMMA NothingWinsNothing == IsWinner(NoBest, {})
  BY DEF IsWinner

(* The first n results, and one more.                                       *)
LEMMA FirstAndNext ==
    ASSUME NEW r \in Request, NEW n \in Nat, n < Count[r]
    PROVE  /\ FirstResults(r, n) \in SUBSET Result
           /\ Outcome[r][n] \in Result
           /\ FirstResults(r, n+1) = FirstResults(r, n) \cup {Outcome[r][n]}
  <1>1. Outcome[r] \in [0 .. Count[r]-1 -> Result] /\ Count[r] \in Nat
    BY OutcomeAssumption, RequestAssumption
  <1>2. 0 .. (n+1)-1 = (0 .. n-1) \cup {n}
    OBVIOUS
  <1>3. 0 .. n-1 \subseteq 0 .. Count[r]-1 /\ n \in 0 .. Count[r]-1
    BY <1>1
  <1> QED
    BY <1>1, <1>2, <1>3 DEF FirstResults

LEMMA NoneWins == ASSUME NEW r \in Request PROVE IsWinner(NoBest, FirstResults(r, 0))
  <1>1. FirstResults(r, 0) = {}
    BY DEF FirstResults
  <1> QED
    BY <1>1, NothingWinsNothing

(* Among results with different ids there is one winner, the one the rule   *)
(* chooses.                                                                 *)
LEMMA OneWinner ==
    ASSUME NEW S \in SUBSET Result, \A c, d \in S : c.id = d.id => c = d,
           NEW a, NEW b, IsWinner(a, S), IsWinner(b, S)
    PROVE  a = b
  <1>1. CASE ~(\E c \in S : c.legal)
    BY <1>1 DEF IsWinner
  <1>2. CASE \E c \in S : c.legal
    <2>1. PICK c \in S : c.legal /\ a = AsBest(c) /\ \A e \in S : e.legal => ~Better(e, c)
      BY <1>2 DEF IsWinner
    <2>2. PICK d \in S : d.legal /\ b = AsBest(d) /\ \A e \in S : e.legal => ~Better(e, d)
      BY <1>2 DEF IsWinner
    <2>3. ~Better(c, d) /\ ~Better(d, c)
      BY <2>1, <2>2
    <2>4. c.id \in Nat /\ d.id \in Nat /\ c.score \in Int /\ d.score \in Int
      BY DEF Result
    <2>5. c.id = d.id
      BY <2>3, <2>4 DEF Better
    <2> QED
      BY <2>1, <2>2, <2>5
  <1> QED
    BY <1>1, <1>2

LEMMA ChosenWinner ==
    ASSUME NEW S \in SUBSET Result, \A c, d \in S : c.id = d.id => c = d,
           NEW b, IsWinner(b, S)
    PROVE  b = CHOOSE x \in {NoBest} \cup {AsBest(c) : c \in S} : IsWinner(x, S)
  <1> DEFINE Among == {NoBest} \cup {AsBest(c) : c \in S}
             chosen == CHOOSE x \in Among : IsWinner(x, S)
  <1>1. b \in Among
    BY DEF IsWinner
  <1> HIDE DEF Among
  <1>2. IsWinner(chosen, S)
    BY <1>1
  <1> QED
    BY <1>2, OneWinner DEF Among

(* The candidates of a request have different ids.                          *)
LEMMA DistinctIds ==
    ASSUME NEW r \in Request
    PROVE  /\ Results(r) \in SUBSET Result
           /\ \A c, d \in Results(r) : c.id = d.id => c = d
  <1>1. \A j \in 0 .. Count[r]-1 : Outcome[r][j] \in Result
    BY OutcomeAssumption
  <1>2. ASSUME NEW j \in 0 .. Count[r]-1, NEW k \in 0 .. Count[r]-1,
               Outcome[r][j].id = Outcome[r][k].id
        PROVE  j = k
    <2>1. Outcome[r][j].id \in Nat /\ Outcome[r][k].id \in Nat
      BY <1>1 DEF Result
    <2>2. ~(j < k) /\ ~(k < j)
      BY <1>2, <2>1, OutcomeAssumption
    <2> QED
      BY <2>2
  <1> QED
    BY <1>1, <1>2 DEF Results

(* Whoever has the winner of all results of a request has Winner[r].        *)
LEMMA WinnerOfAll ==
    ASSUME NEW r \in Request, NEW b, IsWinner(b, Results(r))
    PROVE  b = Winner[r]
  <1>1. b = CHOOSE x \in {NoBest} \cup {AsBest(c) : c \in Results(r)} : IsWinner(x, Results(r))
    BY DistinctIds, ChosenWinner
  <1> QED
    BY <1>1 DEF Winner

(* Merging a winner into nothing leaves the winner.                         *)
LEMMA MergeIntoNothing ==
    ASSUME NEW S, NEW b, IsWinner(b, S)
    PROVE  Merge(NoBest, b) = b
  <1>1. b.valid \/ b = NoBest
    BY DEF IsWinner, AsBest
  <1> QED
    BY <1>1 DEF Merge, NoBest

LEMMA FirstIsAll == ASSUME NEW r \in Request PROVE FirstResults(r, Count[r]) = Results(r)
  BY DEF FirstResults, Results
-----------------------------------------------------------------------------
(* Merging: a reducer that has the winner of S and merges the winner of T   *)
(* has the winner of both.                                                  *)
LEMMA MergeWins ==
    ASSUME NEW S \in SUBSET Result, NEW T \in SUBSET Result, NEW a, NEW b,
           IsWinner(a, S), IsWinner(b, T)
    PROVE  IsWinner(Merge(a, b), S \cup T)
  <1>1. CASE ~(\E d \in T : d.legal)
    <2>1. Merge(a, b) = a
      BY <1>1 DEF IsWinner, Merge, NoBest
    <2> QED
      BY <1>1, <2>1 DEF IsWinner
  <1>2. CASE \E d \in T : d.legal
    <2>1. PICK t \in T : /\ t.legal /\ b = AsBest(t)
                        /\ \A d \in T : d.legal => ~Better(d, t)
      BY <1>2 DEF IsWinner
    <2>2. CASE ~(\E d \in S : d.legal)
      <3>1. Merge(a, b) = b
        BY <2>1, <2>2 DEF IsWinner, Merge, NoBest, AsBest
      <3> QED
        BY <2>1, <2>2, <3>1 DEF IsWinner
    <2>3. CASE \E d \in S : d.legal
      <3>1. PICK s \in S : /\ s.legal /\ a = AsBest(s)
                          /\ \A d \in S : d.legal => ~Better(d, s)
        BY <2>3 DEF IsWinner
      <3>2. a.valid /\ b.valid /\ (Better(b, a) <=> Better(t, s))
        BY <2>1, <3>1 DEF AsBest, Better
      <3>3. CASE Better(t, s)
        <4>1. Merge(a, b) = AsBest(t)
          BY <2>1, <3>2, <3>3 DEF Merge
        <4>2. ASSUME NEW d \in S, d.legal PROVE ~Better(d, t)
          <5>1. ~Better(d, s)
            BY <3>1, <4>2
          <5> QED
            BY <5>1, <3>3, <2>1, <3>1 DEF Better, Result
        <4> QED
          BY <2>1, <4>1, <4>2 DEF IsWinner
      <3>4. CASE ~Better(t, s)
        <4>1. Merge(a, b) = AsBest(s)
          BY <3>1, <3>2, <3>4 DEF Merge
        <4>2. ASSUME NEW d \in T, d.legal PROVE ~Better(d, s)
          <5>1. ~Better(d, t)
            BY <2>1, <4>2
          <5> QED
            BY <5>1, <3>4, <2>1, <3>1 DEF Better, Result
        <4> QED
          BY <3>1, <4>1, <4>2 DEF IsWinner
      <3> QED
        BY <3>3, <3>4
    <2> QED
      BY <2>2, <2>3
  <1> QED
    BY <1>1, <1>2

LEMMA MergeType == ASSUME NEW a \in Best, NEW b \in Best PROVE Merge(a, b) \in Best
  BY DEF Merge

-----------------------------------------------------------------------------
(* The registers of the core keep their types on every edge, whatever the   *)
(* number of lanes and the depth.                                           *)
LEMMA RkFacts == 0 \in Lane /\ Lane \subseteq 0 .. RkRange-1 /\ RkRange \in Nat \ {0}
  BY CoreAssumption DEF Lane, RkRange

LEMMA DecisionType == ASSUME NEW e \in BOOLEAN, NEW b \in Best PROVE Respond(e, b) \in Response
  <1>1. /\ b.id \in Nat /\ b.y \in Nat /\ b.score \in Int /\ b.valid \in BOOLEAN
        /\ 0 \in Nat /\ 0 \in Int
    BY DEF Best
  <1>2. (~e /\ ~b.valid) \in BOOLEAN
    BY <1>1
  <1> QED
    BY <1>1, <1>2, Zenon DEF Respond, Response

LEMMA TickType == ASSUME CoreTypeOK PROVE Tick \in 0 .. CYC-1
  BY CoreAssumption DEF CoreTypeOK, Tick

LEMMA CoreInitType == ASSUME CoreInit PROVE CoreTypeOK
  <1>1. err_q \in BOOLEAN /\ search_start \in BOOLEAN /\ rsp_valid \in BOOLEAN
    BY Zenon DEF CoreInit
  <1>2. cbest \in Best
    BY NoBestType DEF CoreInit
  <1>3. cyc \in 0 .. CYC-1 /\ cycles_o \in 0 .. CYC-1
    BY CoreAssumption DEF CoreInit
  <1>4. rk \in 0 .. RkRange-1
    BY RkFacts DEF CoreInit
  <1> QED
    BY <1>1, <1>2, <1>3, <1>4 DEF CoreTypeOK, CoreInit, State

LEMMA ResetType == ASSUME CoreReset PROVE CoreTypeOK'
  <1>1. err_q' \in BOOLEAN /\ search_start' \in BOOLEAN /\ rsp_valid' \in BOOLEAN
    BY Zenon DEF CoreReset
  <1>2. cbest' \in Best
    BY NoBestType DEF CoreReset
  <1>3. cyc' \in 0 .. CYC-1 /\ cycles_o' \in 0 .. CYC-1
    BY CoreAssumption DEF CoreReset
  <1>4. rk' \in 0 .. RkRange-1
    BY RkFacts DEF CoreReset
  <1> QED
    BY <1>1, <1>2, <1>3, <1>4 DEF CoreTypeOK, CoreReset, State

LEMMA AcceptType ==
    ASSUME CoreTypeOK, NEW r \in Request, Accept(r) PROVE CoreTypeOK'
  <1>1. err_q' \in BOOLEAN /\ search_start' \in BOOLEAN
    <2>1. (r \in Invalid) \in BOOLEAN /\ FALSE \in BOOLEAN
      OBVIOUS
    <2> QED
      BY <2>1, Zenon DEF Accept
  <1>2. cbest' \in Best
    BY NoBestType DEF Accept
  <1>3. cyc' \in 0 .. CYC-1
    BY CoreAssumption DEF Accept
  <1>4. rk' \in 0 .. RkRange-1
    BY RkFacts DEF Accept
  <1> QED
    BY <1>1, <1>2, <1>3, <1>4 DEF CoreTypeOK, Accept, State

LEMMA CacheType == ASSUME CoreTypeOK, Cache PROVE CoreTypeOK'
  <1>1. search_start' \in BOOLEAN
    BY Zenon DEF Cache
  <1>2. cyc' \in 0 .. CYC-1
    BY TickType DEF Cache
  <1> QED
    BY <1>1, <1>2 DEF CoreTypeOK, Cache, State

LEMMA SearchStartType == ASSUME CoreTypeOK, SearchStart PROVE CoreTypeOK'
  <1>1. search_start' \in BOOLEAN
    BY Zenon DEF SearchStart
  <1>2. cyc' \in 0 .. CYC-1
    BY TickType DEF SearchStart
  <1> QED
    BY <1>1, <1>2 DEF CoreTypeOK, SearchStart, State

LEMMA SearchWaitType ==
    ASSUME CoreTypeOK, NEW d \in SUBSET Lane, NEW lb \in [Lane -> Best], SearchWait(d, lb)
    PROVE  CoreTypeOK'
  <1>1. search_start' \in BOOLEAN
    BY Zenon DEF SearchWait
  <1>2. cyc' \in 0 .. CYC-1
    BY TickType DEF SearchWait
  <1>3. cbest' \in Best
    BY RkFacts DEF SearchWait, CoreTypeOK
  <1> QED
    BY <1>1, <1>2, <1>3 DEF CoreTypeOK, SearchWait, State

LEMMA ReduceType ==
    ASSUME CoreTypeOK, rk \in Lane, NEW lb \in [Lane -> Best], Reduce(lb) PROVE CoreTypeOK'
  <1>1. search_start' \in BOOLEAN
    BY Zenon DEF Reduce
  <1>2. cyc' \in 0 .. CYC-1
    BY TickType DEF Reduce
  <1>3. rk' \in 0 .. RkRange-1
    BY CoreAssumption DEF Reduce, CoreTypeOK, RkRange
  <1>4. cbest' \in Best
    BY MergeType DEF Reduce, CoreTypeOK
  <1> QED
    BY <1>1, <1>2, <1>3, <1>4 DEF CoreTypeOK, Reduce, State

LEMMA FinalizeType == ASSUME CoreTypeOK, Finalize PROVE CoreTypeOK' /\ rsp' \in Response
  <1>1. search_start' \in BOOLEAN /\ rsp_valid' \in BOOLEAN
    BY Zenon DEF Finalize
  <1>2. cyc' \in 0 .. CYC-1 /\ cycles_o' \in 0 .. CYC-1
    BY TickType DEF Finalize
  <1>3. rsp' \in Response
    BY DecisionType DEF Finalize, CoreTypeOK
  <1> QED
    BY <1>1, <1>2, <1>3 DEF CoreTypeOK, Finalize, State

LEMMA RestType == ASSUME CoreTypeOK, Idle \/ Hold \/ Consume PROVE CoreTypeOK'
  <1>1. search_start' \in BOOLEAN
    BY Zenon DEF Idle, Hold, Consume
  <1>2. rsp_valid' \in BOOLEAN
    BY Zenon DEF Idle, Hold, Consume, CoreTypeOK
  <1> QED
    BY <1>1, <1>2 DEF CoreTypeOK, Idle, Hold, Consume, State

-----------------------------------------------------------------------------
(* The request registers from the edge that accepted a request on.          *)
Latched == req_q \in Request /\ err_q = (req_q \in Invalid)

(* And while a search may read them.                                        *)
Searching == Latched /\ ~err_q /\ heights_q = req_q

(* With the winner in the global best (a depth-one search), what FINALIZE   *)
(* writes is the decision of the latched request.                           *)
LEMMA FinalizeDecides ==
    ASSUME Latched, ~err_q => cbest = Winner[req_q], Finalize
    PROVE  rsp' = Decision[req_q] /\ req_q \in Request
  <1>1. rsp' = Respond(err_q, cbest)
    BY DEF Finalize
  <1>2. Decision[req_q] = Respond(req_q \in Invalid,
                                  IF req_q \in Invalid THEN NoBest ELSE Winner[req_q])
    BY DEF Decision, Latched
  <1>3. CASE err_q
    BY <1>1, <1>2, <1>3 DEF Latched, Respond
  <1>4. CASE ~err_q
    BY <1>1, <1>2, <1>4 DEF Latched, Respond
  <1> QED
    BY <1>3, <1>4 DEF Latched

-----------------------------------------------------------------------------
(* The client's view of the edges.  A composition that knows when a         *)
(* response is on offer knows what each edge does to outstanding request    *)
(* and answer; those between accepting and answering do nothing to them.    *)
LEMMA AcceptOffers ==
    ASSUME ~rsp_valid, NEW r, Accept(r)
    PROVE  Outstanding = NoRequest /\ Outstanding' = r /\ UNCHANGED Offered
  BY DEF Accept, Outstanding, Offered

LEMMA FinalizeOffers ==
    ASSUME ~rsp_valid, req_q \in Request, Finalize
    PROVE  /\ Outstanding = req_q /\ Outstanding # NoRequest /\ UNCHANGED Outstanding
           /\ Offered = NoResponse /\ Offered' = rsp'
  BY RequestAssumption DEF Finalize, Outstanding, Offered

LEMMA ConsumeOffers ==
    ASSUME rsp_valid, rsp # NoResponse, Consume
    PROVE  Offered # NoResponse /\ Outstanding' = NoRequest /\ Offered' = NoResponse
  BY DEF Consume, Outstanding, Offered

LEMMA ResetOffers ==
    ASSUME state = "IDLE" => ~rsp_valid, state # "IDLE" => req_q \in Request, CoreReset
    PROVE  /\ Outstanding # NoRequest \/ UNCHANGED <<Outstanding, Offered>>
           /\ Outstanding' = NoRequest /\ Offered' = NoResponse
  BY RequestAssumption DEF CoreReset, Outstanding, Offered

LEMMA RestOffers ==
    ASSUME Idle \/ Hold \/ Cache \/ SearchStart \/ UNCHANGED coreVars
    PROVE  UNCHANGED <<Outstanding, Offered>>
  BY DEF Idle, Hold, Cache, SearchStart, coreVars, Outstanding, Offered

LEMMA SearchOffers ==
    ASSUME NEW d, NEW lb, SearchWait(d, lb) \/ Reduce(lb)
    PROVE  UNCHANGED <<Outstanding, Offered>>
  BY DEF SearchWait, Reduce, Outstanding, Offered
=============================================================================
