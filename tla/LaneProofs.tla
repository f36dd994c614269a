----------------------------- MODULE LaneProofs -----------------------------
(***************************************************************************)
(* The core with one, two or four evaluator lanes implements the abstract  *)
(* decision engine, whatever the latencies of the evaluators, every set of *)
(* requests and every candidate list: what MCLanes checks for four lanes   *)
(* and three latencies.                                                    *)
(*                                                                         *)
(* The inductive invariant follows each lane through its own states: while *)
(* it runs it has the winner of the part of its share it has passed, and   *)
(* its evaluator works on, or has delivered, the candidate it stands at.   *)
(* In SEARCH_WAIT every lane runs, pulses done, or has been seen; in       *)
(* REDUCE the global best is the winner of the shares merged so far.       *)
(***************************************************************************)
EXTENDS TetrisLanes, CoreLemmas, FiniteSetTheorems

ResultsOf(q, I) == {Outcome[q][i] : i \in I}

(* The part of the share of lane k below index n.                           *)
Passed(q, k, n) == ShareBelow(k, n) \cap (0 .. Count[q]-1)

(* The lane stands before index j of its share of the candidates of q.      *)
Running(k, q) ==
    /\ lane[k].board = q /\ lane[k].heights = q /\ lane[k].count = Count[q]
    /\ lane[k].j % LANES = k
    /\ lane[k].evaluated = Cardinality(Passed(q, k, lane[k].j))
    /\ IsWinner(lane[k].best, ResultsOf(q, Passed(q, k, lane[k].j)))

(* Neither the evaluator of lane k nor the wires between them do anything.  *)
Still(k) == ~lane[k].ev_start /\ ev[k].left = 0 /\ ~ev[k].done

(* The evaluator has been, or is being, asked for the candidate at j.       *)
Asking(k, q) == lane[k].j < Count[q] /\ lane[k].cand_id_q = Outcome[q][lane[k].j].id
Delivered(k, q) == ev[k].out = Outcome[q][lane[k].j]
Waiting(k, q) ==
    \/ lane[k].ev_start /\ ev[k].left = 0 /\ ~ev[k].done
    \/ /\ ~lane[k].ev_start /\ ev[k].left # 0 /\ ~ev[k].done
       /\ ev[k].job = [board |-> q, heights |-> q, index |-> lane[k].j]
       /\ ev[k].left = 1 => Delivered(k, q)
    \/ ~lane[k].ev_start /\ ev[k].left = 0 /\ ev[k].done /\ Delivered(k, q)

(* What holds in each state of a lane that works on q.                      *)
AtNext(k, q) == lane[k].state = "NEXT" /\ Still(k)
AtStart(k, q) == lane[k].state = "EVAL_START" /\ Still(k) /\ lane[k].j < Count[q]
AtWait(k, q) == lane[k].state = "EVAL_WAIT" /\ Asking(k, q) /\ Waiting(k, q)
AtUpdate(k, q) == lane[k].state = "UPDATE" /\ Still(k) /\ Asking(k, q) /\ Delivered(k, q)
AtFinish(k, q) == lane[k].state = "FINISH" /\ Still(k) /\ lane[k].j >= Count[q]

Works(k, q) ==
    /\ ~lane[k].done /\ Running(k, q)
    /\ AtNext(k, q) \/ AtStart(k, q) \/ AtWait(k, q) \/ AtUpdate(k, q) \/ AtFinish(k, q)

(* An idle lane, and one that has finished its share of q.                  *)
AtRest(k) == lane[k].state = "IDLE" /\ Still(k)
Finished(k, q) ==
    /\ lane[k].evaluated = Cardinality(ShareBelow(k, Count[q]))
    /\ IsWinner(lane[k].best, ResultsOf(q, ShareBelow(k, Count[q])))

AllQuiet == ~search_start /\ \A k \in Lane : AtRest(k) /\ ~lane[k].done

(* Lane k as the waiting core sees it.                                      *)
Collected(k, q) ==
    \/ k \notin lane_done_seen /\ Works(k, q)
    \/ k \notin lane_done_seen /\ AtRest(k) /\ lane[k].done /\ Finished(k, q)
    \/ k \in lane_done_seen /\ AtRest(k) /\ ~lane[k].done /\ Finished(k, q)

(* The results of the first n lanes' shares.                                *)
MergedResults(q, n) == ResultsOf(q, {i \in 0 .. Count[q]-1 : i % LANES < n})

(* What holds in each state of the core.                                    *)
InIdle == state = "IDLE" => AllQuiet /\ ~rsp_valid
InCache == state = "CACHE" => /\ AllQuiet /\ Latched /\ cbest = NoBest
                             /\ rk = 0 /\ lane_done_seen = {}
InStart == state = "SEARCH_START" => /\ AllQuiet /\ Searching /\ cbest = NoBest
                                    /\ rk = 0 /\ lane_done_seen = {}
InWait ==
    state = "SEARCH_WAIT" =>
        /\ Searching /\ cbest = NoBest /\ rk = 0
        /\ \/ search_start /\ lane_done_seen = {} /\ \A k \in Lane : AtRest(k) /\ ~lane[k].done
           \/ ~search_start /\ \A k \in Lane : Collected(k, req_q)
InReduce ==
    state = "REDUCE" => /\ AllQuiet /\ Searching /\ \A k \in Lane : Finished(k, req_q)
                        /\ rk \in Lane /\ IsWinner(cbest, MergedResults(req_q, rk))
InFinalize == state = "FINALIZE" => AllQuiet /\ Latched /\ (~err_q => cbest = Winner[req_q])
InRespond == state = "RESPOND" => /\ AllQuiet /\ Latched
                                 /\ rsp_valid /\ rsp = Decision[req_q] /\ rsp # NoResponse

IInv ==
    /\ CoreTypeOK /\ LaneTypeOK
    /\ InIdle /\ InCache /\ InStart /\ InWait /\ InReduce /\ InFinalize /\ InRespond
    /\ rsp_valid => state = "RESPOND"

-----------------------------------------------------------------------------
(* One edge of an evaluator: it latches a job, or moves on with its own.    *)
LEMMA LegalResult ==
    ASSUME NEW i \in Nat, NEW s \in Int, NEW y \in Nat
    PROVE  [id |-> i, legal |-> TRUE, score |-> s, y |-> y] \in Result
  <1>1. TRUE \in BOOLEAN
    OBVIOUS
  <1> QED
    BY <1>1, Zenon DEF Result

LEMMA EvaluatedType == ASSUME NEW job \in Job PROVE Evaluated(job) \in Result
  <1>1. Corrupt \in Result
    BY LegalResult, SMT DEF Corrupt
  <1>2. ASSUME job.board \in Request, job.index < Count[job.board]
        PROVE  Outcome[job.board][job.index] \in Result
    <2>1. job.index \in 0 .. Count[job.board]-1
      BY <1>2, RequestAssumption DEF Job
    <2> QED
      BY <1>2, <2>1, OutcomeAssumption
  <1> QED
    BY <1>1, <1>2 DEF Evaluated

LEMMA EvaluatorStep ==
    ASSUME LaneTypeOK, NEW start, LanesEdge(start), NEW k \in Lane
    PROVE  /\ lane[k].ev_start /\ ev[k].left = 0 =>
                /\ ev'[k].left \in Latency /\ ev'[k].job = JobOf(lane[k])
                /\ ev'[k].done = FALSE /\ ev'[k].out = ev[k].out
           /\ ~lane[k].ev_start \/ ev[k].left # 0 =>
                /\ ev'[k].left = IF ev[k].left = 0 THEN 0 ELSE ev[k].left - 1
                /\ ev'[k].job = ev[k].job
                /\ ev'[k].out = IF ev[k].left = 2 THEN Evaluated(ev[k].job) ELSE ev[k].out
                /\ ev'[k].done <=> ev[k].left = 1
           /\ ev'[k] \in EvRegs
  <1>1. PICK t \in [Starting -> Latency] :
            ev' = [m \in Lane |-> EvNext(ev[m], lane[m].ev_start, JobOf(lane[m]),
                                         IF m \in Starting THEN t[m] ELSE 0, Evaluated(ev[m].job))]
    BY DEF LanesEdge
  <1>2. ev[k] \in EvRegs /\ lane[k] \in LaneRegs
    BY DEF LaneTypeOK
  <1>3. JobOf(lane[k]) \in Job /\ ev[k].job \in Job /\ Evaluated(ev[k].job) \in Result
    BY <1>2, EvaluatedType DEF JobOf, Job, LaneRegs, EvRegs
  <1>4. ev'[k] = EvNext(ev[k], lane[k].ev_start, JobOf(lane[k]),
                        IF k \in Starting THEN t[k] ELSE 0, Evaluated(ev[k].job))
    BY <1>1
  <1>5. CASE lane[k].ev_start /\ ev[k].left = 0
    <2>1. k \in Starting /\ t[k] \in Latency
      BY <1>5 DEF Starting, EvStarting, EvBusy
    <2>2. ev'[k] = [ev[k] EXCEPT !.left = t[k], !.job = JobOf(lane[k]), !.done = FALSE]
      BY <1>4, <1>5, <2>1 DEF EvNext, EvStarting, EvBusy
    <2>3. t[k] \in 0 .. MaxEval
      BY <2>1, MaxEvalAssumption DEF Latency
    <2> QED
      BY <1>2, <1>3, <1>5, <2>1, <2>2, <2>3 DEF EvRegs
  <1>6. CASE ~(lane[k].ev_start /\ ev[k].left = 0)
    <2>1. ev'[k] = [ev[k] EXCEPT !.left = IF @ = 0 THEN 0 ELSE @ - 1,
                                 !.out = IF ev[k].left = 2 THEN Evaluated(ev[k].job) ELSE @,
                                 !.done = (ev[k].left = 1)]
      BY <1>4, <1>6 DEF EvNext, EvStarting, EvBusy
    <2>2. (IF ev[k].left = 0 THEN 0 ELSE ev[k].left - 1) \in 0 .. MaxEval
      BY <1>2, MaxEvalAssumption DEF EvRegs
    <2> QED
      BY <1>2, <1>3, <1>6, <2>1, <2>2 DEF EvRegs
  <1> QED
    BY <1>5, <1>6

-----------------------------------------------------------------------------
(* One edge of a lane, by the state it is in.                               *)
LEMMA LaneStep ==
    ASSUME NEW start, LanesEdge(start), NEW k \in Lane
    PROVE  lane'[k] = LaneNext(k, start)
  BY DEF LanesEdge

LEMMA CandIdType ==
    ASSUME NEW l \in LaneRegs
    PROVE  CandId(l) \in Nat
  <1>1. CASE l.board \in Request /\ l.j < Count[l.board]
    <2>1. l.j \in 0 .. Count[l.board]-1
      BY <1>1, RequestAssumption DEF LaneRegs
    <2>2. Outcome[l.board][l.j] \in Result
      BY <1>1, <2>1, OutcomeAssumption
    <2> QED
      BY <1>1, <2>2 DEF CandId, Result
  <1>2. CASE ~(l.board \in Request /\ l.j < Count[l.board])
    BY <1>2 DEF CandId
  <1> QED
    BY <1>1, <1>2

LEMMA LaneNextType ==
    ASSUME CoreTypeOK, LaneTypeOK, NEW start \in BOOLEAN, NEW k \in Lane
    PROVE  LaneNext(k, start) \in LaneRegs
  <1> DEFINE l == lane[k]
             e == ev[k]
  <1>1. l \in LaneRegs /\ e \in EvRegs
    BY DEF LaneTypeOK
  <1>2. l.state \in LaneState
    BY <1>1 DEF LaneRegs
  <1>3. Settled(l) \in LaneRegs
    BY <1>1 DEF Settled, LaneRegs
  <1>4. CASE l.state = "IDLE"
    <2>1. k \in Nat /\ CandidateCount \in Nat /\ NoBest \in Best
      BY NoBestType, CoreAssumption, RequestAssumption DEF Lane, CandidateCount, CoreTypeOK
    <2>2. Started(l, k) \in LaneRegs
      BY <1>3, <2>1 DEF Started, LaneRegs, LaneState, CoreTypeOK, Context
    <2> QED
      BY <1>3, <1>4, <2>2 DEF LaneNext
  <1>5. CASE l.state \in {"NEXT", "EVAL_WAIT", "FINISH"}
    BY <1>3, <1>5 DEF LaneNext, LaneRegs, LaneState
  <1>6. CASE l.state = "EVAL_START"
    BY <1>1, <1>3, <1>6, CandIdType DEF LaneNext, LaneRegs, LaneState
  <1>7. CASE l.state = "UPDATE"
    <2> DEFINE c == [e.out EXCEPT !.id = l.cand_id_q]
    <2>1. c \in Result
      BY <1>1 DEF LaneRegs, EvRegs, Result
    <2>2. Take(l.best, c) \in Best
      BY <1>1, <2>1, TakeType DEF LaneRegs
    <2>3. l.j + LANES \in Nat /\ l.evaluated + 1 \in Nat
          /\ (IF c.legal THEN l.legal + 1 ELSE l.legal) \in Nat
      BY <1>1, CoreAssumption DEF LaneRegs
    <2>4. Updated(l, e) \in LaneRegs
      BY <1>3, <2>2, <2>3 DEF Updated, LaneRegs, LaneState, Settled
    <2> QED
      BY <1>7, <2>4 DEF LaneNext
  <1> QED
    BY <1>2, <1>4, <1>5, <1>6, <1>7 DEF LaneState

LEMMA LanesEdgeType ==
    ASSUME CoreTypeOK, LaneTypeOK, LanesEdge(search_start) PROVE LaneTypeOK'
  <1>1. search_start \in BOOLEAN
    BY DEF CoreTypeOK
  <1>2. \A k \in Lane : LaneNext(k, search_start) \in LaneRegs
    BY <1>1, LaneNextType
  <1>3. lane' \in [Lane -> LaneRegs]
    BY <1>2 DEF LanesEdge
  <1>4. \A k \in Lane : ev'[k] \in EvRegs
    BY EvaluatorStep
  <1>5. ev' = [k \in Lane |-> ev'[k]]
    BY DEF LanesEdge
  <1>6. ev' \in [Lane -> EvRegs]
    BY <1>4, <1>5
  <1> QED
    BY <1>3, <1>6 DEF LaneTypeOK

-----------------------------------------------------------------------------
(* The strided shares.  From index j of its share a lane's next one is      *)
(* j + LANES: nothing between the two belongs to it.                        *)
LEMMA StrideKeepsShare ==
    ASSUME NEW k \in Lane, NEW j \in Nat, j % LANES = k
    PROVE  /\ (j + LANES) % LANES = k
           /\ \A i \in j+1 .. j+LANES-1 : i % LANES # k
  <1>1. CASE LANES = 1
    BY <1>1 DEF Lane
  <1>2. CASE LANES = 2
    BY <1>2 DEF Lane
  <1>3. CASE LANES = 4
    BY <1>3 DEF Lane
  <1> QED
    BY <1>1, <1>2, <1>3, CoreAssumption

LEMMA FirstOfShare ==
    ASSUME NEW k \in Lane
    PROVE  k \in Nat /\ k % LANES = k /\ (\A i \in 0 .. k-1 : i % LANES # k)
  <1>1. CASE LANES = 1
    BY <1>1 DEF Lane
  <1>2. CASE LANES = 2
    BY <1>2 DEF Lane
  <1>3. CASE LANES = 4
    BY <1>3 DEF Lane
  <1> QED
    BY <1>1, <1>2, <1>3, CoreAssumption

LEMMA PassedFinite ==
    ASSUME NEW q \in Request, NEW k, NEW n
    PROVE  IsFiniteSet(Passed(q, k, n)) /\ Passed(q, k, n) \subseteq 0 .. Count[q]-1
  <1>1. IsFiniteSet(0 .. Count[q]-1)
    BY FS_Interval, RequestAssumption
  <1>2. Passed(q, k, n) \subseteq 0 .. Count[q]-1
    BY DEF Passed
  <1> QED
    BY <1>1, <1>2, FS_Subset

LEMMA PassedNone ==
    ASSUME NEW q \in Request, NEW k \in Lane
    PROVE  /\ Passed(q, k, k) = {} /\ Cardinality(Passed(q, k, k)) = 0
           /\ IsWinner(NoBest, ResultsOf(q, Passed(q, k, k)))
  <1>1. Passed(q, k, k) = {}
    BY FirstOfShare DEF Passed, ShareBelow
  <1>2. ResultsOf(q, {}) = {}
    BY DEF ResultsOf
  <1> QED
    BY <1>1, <1>2, FS_EmptySet, NothingWinsNothing

LEMMA PassedNext ==
    ASSUME NEW q \in Request, NEW k \in Lane, NEW j \in Nat, j % LANES = k, j < Count[q]
    PROVE  /\ Passed(q, k, j + LANES) = Passed(q, k, j) \cup {j}
           /\ Cardinality(Passed(q, k, j + LANES)) = Cardinality(Passed(q, k, j)) + 1
           /\ ResultsOf(q, Passed(q, k, j + LANES)) =
                  ResultsOf(q, Passed(q, k, j)) \cup {Outcome[q][j]}
  <1>1. LANES \in Nat \ {0} /\ Count[q] \in Nat
    BY CoreAssumption, RequestAssumption
  <1>2. Passed(q, k, j + LANES) = Passed(q, k, j) \cup {j}
    <2>1. ASSUME NEW i \in Passed(q, k, j + LANES) PROVE i \in Passed(q, k, j) \cup {j}
      <3>1. i \in 0 .. j+LANES-1 /\ i % LANES = k /\ i \in 0 .. Count[q]-1
        BY <1>1 DEF Passed, ShareBelow
      <3>2. ~(i \in j+1 .. j+LANES-1)
        BY <3>1, StrideKeepsShare
      <3>3. i = j \/ i \in 0 .. j-1
        BY <3>1, <3>2, <1>1
      <3> QED
        BY <3>1, <3>3 DEF Passed, ShareBelow
    <2>2. ASSUME NEW i \in Passed(q, k, j) \cup {j} PROVE i \in Passed(q, k, j + LANES)
      <3>1. i \in 0 .. Count[q]-1 /\ i \in 0 .. j+LANES-1 /\ i % LANES = k
        BY <1>1, <2>2 DEF Passed, ShareBelow
      <3> QED
        BY <3>1, <1>1 DEF Passed, ShareBelow
    <2> QED
      BY <2>1, <2>2
  <1>3. j \notin Passed(q, k, j)
    BY DEF Passed, ShareBelow
  <1>4. Cardinality(Passed(q, k, j) \cup {j}) = Cardinality(Passed(q, k, j)) + 1
    BY <1>3, PassedFinite, FS_AddElement
  <1>5. ResultsOf(q, Passed(q, k, j) \cup {j}) = ResultsOf(q, Passed(q, k, j)) \cup {Outcome[q][j]}
    BY DEF ResultsOf
  <1> QED
    BY <1>2, <1>4, <1>5

LEMMA PassedAll ==
    ASSUME NEW q \in Request, NEW k \in Lane, NEW j \in Nat, j >= Count[q]
    PROVE  Passed(q, k, j) = ShareBelow(k, Count[q])
  <1>1. Count[q] \in Nat
    BY RequestAssumption
  <1>2. (0 .. j-1) \cap (0 .. Count[q]-1) = 0 .. Count[q]-1
    BY <1>1
  <1> QED
    BY <1>2 DEF Passed, ShareBelow

LEMMA ResultsOfType ==
    ASSUME NEW q \in Request, NEW I \in SUBSET (0 .. Count[q]-1)
    PROVE  ResultsOf(q, I) \in SUBSET Result
  <1>1. \A i \in I : Outcome[q][i] \in Result
    BY OutcomeAssumption
  <1> QED
    BY <1>1 DEF ResultsOf

(* The shares of all lanes together are the candidates.                     *)
LEMMA MergedNone == ASSUME NEW q \in Request PROVE MergedResults(q, 0) = {}
  <1>1. Count[q] \in Nat /\ LANES \in {1, 2, 4}
    BY RequestAssumption, CoreAssumption
  <1>2. ASSUME NEW i \in 0 .. Count[q]-1 PROVE ~(i % LANES < 0)
    BY <1>1
  <1> QED
    BY <1>2 DEF MergedResults, ResultsOf

LEMMA MergedNext ==
    ASSUME NEW q \in Request, NEW n \in Lane
    PROVE  MergedResults(q, n+1) = MergedResults(q, n) \cup ResultsOf(q, ShareBelow(n, Count[q]))
  <1>1. Count[q] \in Nat /\ LANES \in {1, 2, 4}
    BY RequestAssumption, CoreAssumption
  <1>2. ASSUME NEW i \in 0 .. Count[q]-1 PROVE i % LANES < n+1 <=> i % LANES < n \/ i % LANES = n
    <2>1. i % LANES \in Int /\ n \in Int
      BY <1>1 DEF Lane
    <2> QED
      BY <2>1
  <1>3. {i \in 0 .. Count[q]-1 : i % LANES < n+1} =
            {i \in 0 .. Count[q]-1 : i % LANES < n} \cup ShareBelow(n, Count[q])
    BY <1>2 DEF ShareBelow
  <1> QED
    BY <1>3 DEF MergedResults, ResultsOf

LEMMA MergedAll == ASSUME NEW q \in Request PROVE MergedResults(q, LANES) = Results(q)
  <1>1. Count[q] \in Nat /\ LANES \in {1, 2, 4}
    BY RequestAssumption, CoreAssumption
  <1>2. ASSUME NEW i \in 0 .. Count[q]-1 PROVE i % LANES < LANES
    BY <1>1
  <1>3. {i \in 0 .. Count[q]-1 : i % LANES < LANES} = 0 .. Count[q]-1
    BY <1>2
  <1> QED
    BY <1>3 DEF MergedResults, ResultsOf, Results

-----------------------------------------------------------------------------
(* What one edge does to a lane, by its state: first the registers a        *)
(* transaction leaves alone, then each state.                               *)
Kept(k) ==
    /\ lane'[k].board = lane[k].board /\ lane'[k].heights = lane[k].heights
    /\ lane'[k].count = lane[k].count /\ lane'[k].j = lane[k].j
    /\ lane'[k].best = lane[k].best /\ lane'[k].evaluated = lane[k].evaluated

LEMMA KeptRunning ==
    ASSUME NEW k, NEW q, Running(k, q), Kept(k) PROVE Running(k, q)'
  BY DEF Kept, Running, IsWinner, ResultsOf, Passed, ShareBelow

LEMMA IdleEvaluator ==
    ASSUME LaneTypeOK, NEW start, LanesEdge(start), NEW k \in Lane,
           ~lane[k].ev_start, ev[k].left = 0
    PROVE  ev'[k].left = 0 /\ ~ev'[k].done /\ ev'[k].out = ev[k].out
  <1>1. /\ ev'[k].left = IF ev[k].left = 0 THEN 0 ELSE ev[k].left - 1
        /\ ev'[k].out = IF ev[k].left = 2 THEN Evaluated(ev[k].job) ELSE ev[k].out
        /\ ev'[k].done <=> ev[k].left = 1
    BY EvaluatorStep
  <1>2. ev[k].left # 2 /\ ev[k].left # 1
    OBVIOUS
  <1> QED
    BY <1>1, <1>2

LEMMA StillStaysStill ==
    ASSUME LaneTypeOK, NEW start, LanesEdge(start), NEW k \in Lane, Still(k)
    PROVE  ev'[k].left = 0 /\ ~ev'[k].done /\ ev'[k].out = ev[k].out
  BY IdleEvaluator DEF Still

LEMMA RestKeepsLane ==
    ASSUME LaneTypeOK, LanesEdge(search_start), ~search_start, NEW k \in Lane, AtRest(k)
    PROVE  AtRest(k)' /\ ~lane'[k].done /\ Kept(k)
  <1>1. lane[k] \in LaneRegs
    BY DEF LaneTypeOK
  <1>2. lane'[k] = Settled(lane[k])
    <2>1. LaneNext(k, search_start) = Settled(lane[k])
      BY DEF LaneNext, AtRest
    <2> QED
      BY <2>1, LaneStep
  <1>3. /\ lane'[k].state = "IDLE" /\ ~lane'[k].ev_start /\ ~lane'[k].done
        /\ Kept(k)
    BY <1>1, <1>2 DEF Settled, LaneRegs, AtRest, Kept
  <1>4. ev'[k].left = 0 /\ ~ev'[k].done
    BY StillStaysStill DEF AtRest
  <1> QED
    BY <1>3, <1>4 DEF AtRest, Still

LEMMA StartWorks ==
    ASSUME LaneTypeOK, LanesEdge(search_start), search_start, Searching,
           NEW k \in Lane, AtRest(k), NEW q \in Request, q = req_q
    PROVE  Works(k, q)'
  <1>1. lane[k] \in LaneRegs
    BY DEF LaneTypeOK
  <1>2. lane'[k] = Started(lane[k], k)
    BY LaneStep DEF LaneNext, AtRest
  <1>3. CandidateCount = Count[q]
    BY RequestAssumption DEF CandidateCount
  <1>4. /\ lane'[k].state = "NEXT" /\ ~lane'[k].ev_start /\ ~lane'[k].done
        /\ lane'[k].board = q /\ lane'[k].heights = q /\ lane'[k].count = Count[q]
        /\ lane'[k].j = k /\ lane'[k].best = NoBest /\ lane'[k].evaluated = 0
    BY <1>1, <1>2, <1>3 DEF Started, Settled, LaneRegs, Searching
  <1>5. ev'[k].left = 0 /\ ~ev'[k].done
    BY StillStaysStill DEF AtRest
  <1>6. Running(k, q)'
    BY <1>4, FirstOfShare, PassedNone DEF Running, IsWinner, ResultsOf, Passed, ShareBelow
  <1> QED
    BY <1>4, <1>5, <1>6 DEF Works, AtNext, Still

LEMMA NextWorks ==
    ASSUME LaneTypeOK, NEW start, LanesEdge(start), NEW k \in Lane, NEW q \in Request,
           Running(k, q), AtNext(k, q)
    PROVE  Works(k, q)'
  <1>1. lane[k] \in LaneRegs
    BY DEF LaneTypeOK
  <1>2. lane'[k] = [Settled(lane[k]) EXCEPT !.state = IF lane[k].j < lane[k].count
                                                      THEN "EVAL_START" ELSE "FINISH"]
    BY LaneStep DEF LaneNext, AtNext
  <1>3. /\ lane'[k].state = IF lane[k].j < Count[q] THEN "EVAL_START" ELSE "FINISH"
        /\ ~lane'[k].ev_start /\ ~lane'[k].done /\ Kept(k)
    BY <1>1, <1>2 DEF Settled, LaneRegs, Kept, Running
  <1>4. ev'[k].left = 0 /\ ~ev'[k].done
    BY StillStaysStill DEF AtNext
  <1>5. Running(k, q)'
    BY <1>3, KeptRunning
  <1>6. lane[k].j \in Nat /\ Count[q] \in Nat
    BY <1>1, RequestAssumption DEF LaneRegs
  <1> QED
    BY <1>3, <1>4, <1>5, <1>6 DEF Works, AtStart, AtFinish, Still, Kept

LEMMA EvalStartWorks ==
    ASSUME LaneTypeOK, NEW start, LanesEdge(start), NEW k \in Lane, NEW q \in Request,
           Running(k, q), AtStart(k, q)
    PROVE  Works(k, q)'
  <1>1. lane[k] \in LaneRegs
    BY DEF LaneTypeOK
  <1>2. lane'[k] = [Settled(lane[k]) EXCEPT !.state = "EVAL_WAIT", !.ev_start = TRUE,
                                            !.cand_id_q = CandId(lane[k])]
    BY LaneStep DEF LaneNext, AtStart
  <1>3. CandId(lane[k]) = Outcome[q][lane[k].j].id
    BY DEF CandId, Running, AtStart
  <1>4. /\ lane'[k].state = "EVAL_WAIT" /\ lane'[k].ev_start /\ ~lane'[k].done /\ Kept(k)
        /\ lane'[k].cand_id_q = Outcome[q][lane[k].j].id
    BY <1>1, <1>2, <1>3 DEF Settled, LaneRegs, Kept
  <1>5. ev'[k].left = 0 /\ ~ev'[k].done
    BY StillStaysStill DEF AtStart
  <1>6. Running(k, q)'
    BY <1>4, KeptRunning
  <1> QED
    BY <1>4, <1>5, <1>6 DEF Works, AtStart, AtWait, Asking, Waiting, Kept

LEMMA EvalWaitWorks ==
    ASSUME LaneTypeOK, NEW start, LanesEdge(start), NEW k \in Lane, NEW q \in Request,
           Running(k, q), AtWait(k, q)
    PROVE  Works(k, q)'
  <1>1. lane[k] \in LaneRegs /\ ev[k] \in EvRegs
    BY DEF LaneTypeOK
  <1>2. lane'[k] = [Settled(lane[k]) EXCEPT !.state = IF ev[k].done THEN "UPDATE"
                                                      ELSE "EVAL_WAIT"]
    BY LaneStep DEF LaneNext, AtWait
  <1>3. /\ lane'[k].state = IF ev[k].done THEN "UPDATE" ELSE "EVAL_WAIT"
        /\ ~lane'[k].ev_start /\ ~lane'[k].done /\ Kept(k)
        /\ lane'[k].cand_id_q = lane[k].cand_id_q
    BY <1>1, <1>2 DEF Settled, LaneRegs, Kept
  <1>4. Running(k, q)' /\ Asking(k, q)'
    BY <1>3, KeptRunning DEF Asking, AtWait, Kept
  <1>5. JobOf(lane[k]) = [board |-> q, heights |-> q, index |-> lane[k].j]
    BY DEF JobOf, Running
  <1>6. CASE lane[k].ev_start /\ ev[k].left = 0 /\ ~ev[k].done
    <2>1. ev'[k].left \in Latency /\ ev'[k].job = JobOf(lane[k]) /\ ~ev'[k].done
      BY <1>6, EvaluatorStep
    <2>2. ev'[k].left # 0 /\ ev'[k].left # 1
      BY <2>1, MaxEvalAssumption DEF Latency
    <2> QED
      BY <1>3, <1>4, <1>5, <1>6, <2>1, <2>2 DEF Works, AtWait, Waiting, Kept
  <1>7. CASE /\ ~lane[k].ev_start /\ ev[k].left # 0 /\ ~ev[k].done
             /\ ev[k].job = [board |-> q, heights |-> q, index |-> lane[k].j]
             /\ ev[k].left = 1 => Delivered(k, q)
    <2>1. /\ ev'[k].left = ev[k].left - 1 /\ ev'[k].job = ev[k].job
          /\ ev'[k].out = IF ev[k].left = 2 THEN Evaluated(ev[k].job) ELSE ev[k].out
          /\ ev'[k].done <=> ev[k].left = 1
      BY <1>7, EvaluatorStep
    <2>2. Evaluated(ev[k].job) = Outcome[q][lane[k].j]
      BY <1>7 DEF Evaluated, AtWait, Asking
    <2>3. ev[k].left \in Nat
      BY <1>1 DEF EvRegs
    <2>4. CASE ev[k].left = 1
      <3>1. ev'[k].left = 0 /\ ev'[k].done /\ ev'[k].out = Outcome[q][lane[k].j]
        BY <2>1, <2>4, <1>7 DEF Delivered
      <3> QED
        BY <1>3, <1>4, <1>7, <3>1 DEF Works, AtWait, Waiting, Delivered, Kept
    <2>5. CASE ev[k].left # 1
      <3>1. ev'[k].left # 0 /\ ~ev'[k].done /\ (ev'[k].left = 1 => ev[k].left = 2)
        BY <2>1, <2>3, <2>5, <1>7
      <3> QED
        BY <1>3, <1>4, <1>7, <2>1, <2>2, <3>1 DEF Works, AtWait, Waiting, Delivered, Kept
    <2> QED
      BY <2>4, <2>5
  <1>8. CASE ~lane[k].ev_start /\ ev[k].left = 0 /\ ev[k].done /\ Delivered(k, q)
    <2>1. ev'[k].left = 0 /\ ~ev'[k].done /\ ev'[k].out = ev[k].out
      BY <1>8, IdleEvaluator
    <2> QED
      BY <1>3, <1>4, <1>8, <2>1 DEF Works, AtUpdate, Still, Delivered, Kept
  <1> QED
    BY <1>6, <1>7, <1>8 DEF AtWait, Waiting

LEMMA UpdateWorks ==
    ASSUME LaneTypeOK, NEW start, LanesEdge(start), NEW k \in Lane, NEW q \in Request,
           Running(k, q), AtUpdate(k, q)
    PROVE  Works(k, q)'
  <1> DEFINE j == lane[k].j
             c == [ev[k].out EXCEPT !.id = lane[k].cand_id_q]
  <1>1. lane[k] \in LaneRegs /\ ev[k] \in EvRegs /\ j \in Nat
    BY DEF LaneTypeOK, LaneRegs
  <1>2. lane'[k] = Updated(lane[k], ev[k])
    BY LaneStep DEF LaneNext, AtUpdate
  <1>3. c = Outcome[q][j] /\ Outcome[q][j] \in Result
    <2>1. j \in 0 .. Count[q]-1
      BY <1>1, RequestAssumption DEF AtUpdate, Asking
    <2>2. Outcome[q][j] \in Result
      BY <2>1, OutcomeAssumption
    <2> QED
      BY <2>2 DEF Result, AtUpdate, Asking, Delivered
  <1>4. /\ lane'[k].state = "NEXT" /\ ~lane'[k].ev_start /\ ~lane'[k].done
        /\ lane'[k].board = lane[k].board /\ lane'[k].heights = lane[k].heights
        /\ lane'[k].count = lane[k].count /\ lane'[k].j = j + LANES
        /\ lane'[k].evaluated = lane[k].evaluated + 1
        /\ lane'[k].best = Take(lane[k].best, c)
    BY <1>1, <1>2 DEF Updated, Settled, LaneRegs
  <1>5. ev'[k].left = 0 /\ ~ev'[k].done
    BY StillStaysStill DEF AtUpdate
  <1>6. j < Count[q] /\ j % LANES = k
    BY DEF AtUpdate, Asking, Running
  <1>7. IsWinner(lane'[k].best, ResultsOf(q, Passed(q, k, j + LANES)))
    <2>1. ResultsOf(q, Passed(q, k, j)) \in SUBSET Result
      BY PassedFinite, ResultsOfType
    <2>2. IsWinner(lane[k].best, ResultsOf(q, Passed(q, k, j)))
      BY DEF Running
    <2>3. IsWinner(Take(lane[k].best, c), ResultsOf(q, Passed(q, k, j)) \cup {c})
      BY <1>3, <2>1, <2>2, TakeWins
    <2>4. ResultsOf(q, Passed(q, k, j + LANES)) = ResultsOf(q, Passed(q, k, j)) \cup {c}
      BY <1>1, <1>3, <1>6, PassedNext
    <2>5. lane'[k].best = Take(lane[k].best, c)
      BY <1>4
    <2> HIDE DEF c, j
    <2> QED
      BY <2>3, <2>4, <2>5
  <1>8. lane'[k].evaluated = Cardinality(Passed(q, k, j + LANES))
    BY <1>1, <1>4, <1>6, PassedNext DEF Running
  <1>9. (j + LANES) % LANES = k
    BY <1>1, <1>6, StrideKeepsShare
  <1>10. Running(k, q)'
    BY <1>4, <1>7, <1>8, <1>9 DEF Running, IsWinner, ResultsOf, Passed, ShareBelow
  <1> QED
    BY <1>4, <1>5, <1>10 DEF Works, AtNext, Still

LEMMA FinishRests ==
    ASSUME LaneTypeOK, NEW start, LanesEdge(start), NEW k \in Lane, NEW q \in Request,
           Running(k, q), AtFinish(k, q)
    PROVE  AtRest(k)' /\ lane'[k].done /\ Finished(k, q)'
  <1>1. lane[k] \in LaneRegs
    BY DEF LaneTypeOK
  <1>2. lane'[k] = [Settled(lane[k]) EXCEPT !.state = "IDLE", !.done = TRUE]
    BY LaneStep DEF LaneNext, AtFinish
  <1>3. /\ lane'[k].state = "IDLE" /\ ~lane'[k].ev_start /\ lane'[k].done /\ Kept(k)
    BY <1>1, <1>2 DEF Settled, LaneRegs, Kept
  <1>4. ev'[k].left = 0 /\ ~ev'[k].done
    BY StillStaysStill DEF AtFinish
  <1>5. Finished(k, q)
    BY <1>1, PassedAll DEF LaneRegs, Running, AtFinish, Finished
  <1>6. Finished(k, q)'
    BY <1>3, <1>5 DEF Kept, Finished, IsWinner, ResultsOf, ShareBelow
  <1> QED
    BY <1>3, <1>4, <1>6 DEF AtRest, Still

(* A lane that works goes on, or finishes with a pulse.                     *)
LEMMA WorkingLane ==
    ASSUME LaneTypeOK, NEW start, LanesEdge(start), NEW k \in Lane, NEW q \in Request,
           Works(k, q)
    PROVE  Works(k, q)' \/ (AtRest(k)' /\ lane'[k].done /\ Finished(k, q)')
  BY NextWorks, EvalStartWorks, EvalWaitWorks, UpdateWorks, FinishRests DEF Works

-----------------------------------------------------------------------------
(* What was shown for the request q holds for the latched one, if it is q.  *)
LEMMA FollowCollected ==
    ASSUME NEW q, req_q' = q, NEW k, Collected(k, q)' PROVE Collected(k, req_q)'
  BY DEF Collected, Works, Running, AtRest, AtNext, AtStart, AtWait, AtUpdate, AtFinish, Still,
         Asking, Delivered, Waiting, Finished, IsWinner, ResultsOf, Passed, ShareBelow

LEMMA FollowFinished ==
    ASSUME NEW q, req_q' = q, NEW k, Finished(k, q)' PROVE Finished(k, req_q)'
  BY DEF Finished, IsWinner, ResultsOf, ShareBelow

LEMMA KeptFinished ==
    ASSUME NEW k, NEW q, Finished(k, q), Kept(k) PROVE Finished(k, q)'
  BY DEF Finished, Kept, IsWinner, ResultsOf, ShareBelow

(* An edge leaves quiet lanes quiet, and their bests alone.                 *)
LEMMA QuietLanes ==
    ASSUME IInv, AllQuiet, Engine
    PROVE  LaneTypeOK' /\ \A k \in Lane : AtRest(k)' /\ ~lane'[k].done /\ Kept(k)
  <1>1. CoreTypeOK /\ LaneTypeOK /\ LanesEdge(search_start)
    BY DEF IInv, Engine
  <1>2. ~search_start /\ \A k \in Lane : AtRest(k)
    BY DEF AllQuiet
  <1> QED
    BY <1>1, <1>2, LanesEdgeType, RestKeepsLane

-----------------------------------------------------------------------------
LEMMA ResetQuiet == ASSUME NEW k \in Lane PROVE
    /\ LaneReset \in LaneRegs /\ EvReset(NoJob, NoResult) \in EvRegs
    /\ LaneReset.state = "IDLE" /\ ~LaneReset.ev_start /\ ~LaneReset.done
    /\ EvReset(NoJob, NoResult).left = 0 /\ ~EvReset(NoJob, NoResult).done
  <1>1. FALSE \in BOOLEAN /\ 0 \in Nat /\ 0 \in Int /\ 0 \in 0 .. MaxEval
    BY MaxEvalAssumption
  <1>2. "IDLE" \in LaneState /\ NoRequest \in Context /\ NoBest \in Best
    BY NoBestType DEF LaneState, Context
  <1>3. LaneReset \in LaneRegs
    BY <1>1, <1>2, Zenon DEF LaneReset, LaneRegs
  <1>4. NoJob \in Job /\ NoResult \in Result
    BY <1>1, <1>2, Zenon DEF NoJob, Job, NoResult, Result
  <1>5. EvReset(NoJob, NoResult) \in EvRegs
    BY <1>1, <1>4, Zenon DEF EvReset, EvRegs
  <1>6. /\ LaneReset.state = "IDLE" /\ LaneReset.ev_start = FALSE /\ LaneReset.done = FALSE
        /\ EvReset(NoJob, NoResult).left = 0 /\ EvReset(NoJob, NoResult).done = FALSE
    BY DEF LaneReset, EvReset
  <1> QED
    BY <1>3, <1>5, <1>6

LEMMA InitIInv == Init => IInv
  <1> SUFFICES ASSUME Init PROVE IInv
    OBVIOUS
  <1>1. CoreTypeOK
    BY CoreInitType DEF Init
  <1>2. lane = [k \in Lane |-> LaneReset] /\ ev = [k \in Lane |-> EvReset(NoJob, NoResult)]
    BY DEF Init, LanesInit
  <1>3. LaneTypeOK
    BY <1>2, ResetQuiet DEF LaneTypeOK
  <1>4. \A k \in Lane : AtRest(k) /\ ~lane[k].done
    BY <1>2, ResetQuiet DEF AtRest, Still
  <1> QED
    BY <1>1, <1>3, <1>4 DEF IInv, Init, CoreInit, AllQuiet, InIdle, InCache, InStart, InWait,
                            InReduce, InFinalize, InRespond

-----------------------------------------------------------------------------
(* One lemma per edge: it keeps the invariant.                              *)
LEMMA ResetKeeps == ASSUME IInv, ResetEdge PROVE IInv'
  <1>1. CoreTypeOK'
    BY ResetType DEF ResetEdge
  <1>2. lane' = [k \in Lane |-> LaneReset] /\ ev' = [k \in Lane |-> EvReset(NoJob, NoResult)]
    BY DEF ResetEdge, LanesReset
  <1>3. LaneTypeOK'
    BY <1>2, ResetQuiet DEF LaneTypeOK
  <1>4. \A k \in Lane : AtRest(k)' /\ ~lane'[k].done
    BY <1>2, ResetQuiet DEF AtRest, Still
  <1> QED
    BY <1>1, <1>3, <1>4
       DEF IInv, ResetEdge, CoreReset, AllQuiet, InIdle, InCache, InStart, InWait, InReduce,
           InFinalize, InRespond

LEMMA RestKeeps == ASSUME IInv, IdleEdge \/ HoldEdge \/ ConsumeEdge PROVE IInv'
  <1>1. CoreTypeOK'
    BY RestType DEF IInv, IdleEdge, HoldEdge, ConsumeEdge
  <1>2. AllQuiet /\ Engine
    BY DEF IInv, InIdle, InRespond, IdleEdge, HoldEdge, ConsumeEdge, Idle, Hold, Consume
  <1>3. LaneTypeOK' /\ \A k \in Lane : AtRest(k)' /\ ~lane'[k].done
    BY <1>2, QuietLanes
  <1> QED
    BY <1>1, <1>3
       DEF IInv, IdleEdge, HoldEdge, ConsumeEdge, Idle, Hold, Consume, AllQuiet, Latched,
           InIdle, InCache, InStart, InWait, InReduce, InFinalize, InRespond

LEMMA AcceptKeeps == ASSUME IInv, NEW r \in Request, AcceptEdge(r) PROVE IInv'
  <1>1. CoreTypeOK'
    BY AcceptType DEF IInv, AcceptEdge
  <1>2. AllQuiet /\ Engine /\ ~rsp_valid
    BY DEF IInv, InIdle, AcceptEdge, Accept
  <1>3. LaneTypeOK' /\ \A k \in Lane : AtRest(k)' /\ ~lane'[k].done
    BY <1>2, QuietLanes
  <1> QED
    BY <1>1, <1>2, <1>3
       DEF IInv, AcceptEdge, Accept, AllQuiet, Latched,
           InIdle, InCache, InStart, InWait, InReduce, InFinalize, InRespond

LEMMA CacheKeeps == ASSUME IInv, CacheEdge PROVE IInv'
  <1>1. CoreTypeOK'
    BY CacheType DEF IInv, CacheEdge
  <1>2. /\ AllQuiet /\ Engine /\ ~rsp_valid /\ Latched
        /\ cbest = NoBest /\ rk = 0 /\ lane_done_seen = {}
    BY DEF IInv, InCache, CacheEdge, Cache
  <1>3. LaneTypeOK' /\ \A k \in Lane : AtRest(k)' /\ ~lane'[k].done
    BY <1>2, QuietLanes
  <1> QED
    BY <1>1, <1>2, <1>3
       DEF IInv, CacheEdge, Cache, AllQuiet, Latched, Searching,
           InIdle, InCache, InStart, InWait, InReduce, InFinalize, InRespond

LEMMA SearchStartKeeps == ASSUME IInv, SearchStartEdge PROVE IInv'
  <1>1. CoreTypeOK'
    BY SearchStartType DEF IInv, SearchStartEdge
  <1>2. /\ AllQuiet /\ Engine /\ ~rsp_valid /\ Searching
        /\ cbest = NoBest /\ rk = 0 /\ lane_done_seen = {}
    BY DEF IInv, InStart, SearchStartEdge, SearchStart
  <1>3. LaneTypeOK' /\ \A k \in Lane : AtRest(k)' /\ ~lane'[k].done
    BY <1>2, QuietLanes
  <1> QED
    BY <1>1, <1>2, <1>3
       DEF IInv, SearchStartEdge, SearchStart, Latched, Searching,
           InIdle, InCache, InStart, InWait, InReduce, InFinalize, InRespond

LEMMA LaneBestType == ASSUME LaneTypeOK PROVE LaneBest \in [Lane -> Best] /\ LaneDone \in SUBSET Lane
  <1>1. \A k \in Lane : lane[k].best \in Best
    BY DEF LaneTypeOK, LaneRegs
  <1> QED
    BY <1>1 DEF LaneBest, LaneDone

(* One lane under a waiting core: a pulse is remembered on the edge after   *)
(* it, a lane without one works on.                                         *)
LEMMA CollectingLane ==
    ASSUME LaneTypeOK, LanesEdge(search_start), ~search_start, NEW k \in Lane, NEW q \in Request,
           Collected(k, q), lane_done_seen' = lane_done_seen \cup LaneDone
    PROVE  /\ Collected(k, q)'
           /\ k \in lane_done_seen' =>
                 AtRest(k)' /\ ~lane'[k].done /\ Finished(k, q)'
  <1>1. k \in LaneDone <=> lane[k].done
    BY DEF LaneDone
  <1>2. CASE k \notin lane_done_seen /\ Works(k, q)
    <2>1. ~lane[k].done
      BY <1>2 DEF Works
    <2>2. k \notin lane_done_seen'
      BY <1>1, <1>2, <2>1
    <2> QED
      BY <1>2, <2>2, WorkingLane DEF Collected
  <1>3. CASE (k \in lane_done_seen \/ lane[k].done) /\ AtRest(k) /\ Finished(k, q)
    <2>1. k \in lane_done_seen'
      BY <1>1, <1>3
    <2>2. AtRest(k)' /\ ~lane'[k].done /\ Finished(k, q)'
      BY <1>3, RestKeepsLane, KeptFinished
    <2> QED
      BY <2>1, <2>2 DEF Collected
  <1> QED
    BY <1>2, <1>3 DEF Collected

LEMMA SearchWaitKeeps == ASSUME IInv, SearchWaitEdge PROVE IInv'
  <1>0. /\ state = "SEARCH_WAIT" /\ ~rsp_valid /\ Searching /\ cbest = NoBest /\ rk = 0
        /\ LaneTypeOK /\ LanesEdge(search_start)
    BY DEF IInv, InWait, SearchWaitEdge, SearchWait, Engine
  <1>1. CoreTypeOK'
    BY <1>0, LaneBestType, SearchWaitType DEF IInv, SearchWaitEdge
  <1>2. LaneTypeOK'
    BY <1>0, LanesEdgeType DEF IInv
  <1>3. /\ UNCHANGED <<req_q, heights_q, err_q, rk, rsp_valid, rsp, cbest>>
        /\ ~search_start' /\ lane_done_seen' = lane_done_seen \cup LaneDone
        /\ state' = IF AllDone(LaneDone) THEN "REDUCE" ELSE "SEARCH_WAIT"
    BY <1>0, LanesAssumption DEF SearchWaitEdge, SearchWait
  <1>4. PICK q \in Request : q = req_q
    BY <1>0 DEF Searching, Latched
  <1>5. Searching' /\ req_q' = q
    BY <1>0, <1>3, <1>4 DEF Searching, Latched
  <1>6. CASE search_start
    <2>1. lane_done_seen = {} /\ \A k \in Lane : AtRest(k) /\ ~lane[k].done
      BY <1>0, <1>6 DEF IInv, InWait
    <2>2. LaneDone = {} /\ Lane # {}
      BY <2>1, RkFacts DEF LaneDone
    <2>3. lane_done_seen' = {} /\ state' = "SEARCH_WAIT"
      BY <1>3, <2>1, <2>2, LanesAssumption DEF AllDone
    <2>4. \A k \in Lane : Works(k, q)'
      BY <1>0, <1>4, <1>6, <2>1, StartWorks
    <2>5. \A k \in Lane : Collected(k, q)'
      BY <2>3, <2>4 DEF Collected
    <2>6. \A k \in Lane : Collected(k, req_q)'
      BY <1>5, <2>5, FollowCollected
    <2> QED
      BY <1>0, <1>1, <1>2, <1>3, <1>5, <2>3, <2>6
         DEF IInv, InIdle, InCache, InStart, InWait, InReduce, InFinalize, InRespond
  <1>7. CASE ~search_start
    <2>1. \A k \in Lane : Collected(k, q)
      BY <1>0, <1>4, <1>7 DEF IInv, InWait
    <2>2. \A k \in Lane : Collected(k, q)' /\ (k \in lane_done_seen' =>
                              AtRest(k)' /\ ~lane'[k].done /\ Finished(k, q)')
      BY <1>0, <1>3, <1>7, <2>1, CollectingLane
    <2>3. CASE AllDone(LaneDone)
      <3>1. state' = "REDUCE" /\ lane_done_seen' = Lane
        BY <1>3, <2>3, LanesAssumption DEF AllDone
      <3>2. \A k \in Lane : AtRest(k)' /\ ~lane'[k].done /\ Finished(k, req_q)'
        BY <3>1, <2>2, <1>5, FollowFinished
      <3>3. (rk \in Lane)' /\ IsWinner(cbest, MergedResults(req_q, rk))'
        <4>1. IsWinner(NoBest, MergedResults(q, 0))
          BY MergedNone, NothingWinsNothing
        <4>2. rk' = 0 /\ cbest' = NoBest
          BY <1>0, <1>3
        <4>3. IsWinner(cbest', MergedResults(req_q', rk'))
          BY <4>1, <4>2, <1>5
        <4> QED
          BY <4>2, <4>3, RkFacts DEF IsWinner, MergedResults, ResultsOf
      <3> QED
        BY <1>0, <1>1, <1>2, <1>3, <1>5, <3>1, <3>2, <3>3
           DEF IInv, AllQuiet, InIdle, InCache, InStart, InWait, InReduce, InFinalize, InRespond
    <2>4. CASE ~AllDone(LaneDone)
      <3>1. state' = "SEARCH_WAIT"
        BY <1>3, <2>4
      <3>2. \A k \in Lane : Collected(k, req_q)'
        BY <2>2, <1>5, FollowCollected
      <3> QED
        BY <1>0, <1>1, <1>2, <1>3, <1>5, <3>1, <3>2
           DEF IInv, InIdle, InCache, InStart, InWait, InReduce, InFinalize, InRespond
    <2> QED
      BY <2>3, <2>4
  <1> QED
    BY <1>6, <1>7

(* REDUCE merges the best of one more share; after the last, the best of    *)
(* every candidate is there.                                                *)
LEMMA ReduceMerges ==
    ASSUME IInv, ReduceEdge, NEW q \in Request, q = req_q
    PROVE  /\ IsWinner(cbest', MergedResults(q, rk+1))
           /\ rk = LANES-1 => cbest' = Winner[q]
  <1>0. rk \in Lane /\ Finished(rk, q) /\ IsWinner(cbest, MergedResults(q, rk))
    BY DEF IInv, InReduce, ReduceEdge, Reduce
  <1>1. cbest' = Merge(cbest, lane[rk].best)
    BY <1>0 DEF ReduceEdge, Reduce, LaneBest
  <1> DEFINE S == MergedResults(q, rk)
             T == ResultsOf(q, ShareBelow(rk, Count[q]))
  <1>2. S \in SUBSET Result
    BY ResultsOfType DEF MergedResults
  <1>3. T \in SUBSET Result
    BY ResultsOfType DEF ShareBelow
  <1>4. IsWinner(lane[rk].best, T)
    BY <1>0 DEF Finished
  <1>5. MergedResults(q, rk+1) = S \cup T
    BY <1>0, MergedNext
  <1> HIDE DEF S, T
  <1>6. IsWinner(Merge(cbest, lane[rk].best), S \cup T)
    BY <1>0, <1>2, <1>3, <1>4, MergeWins DEF S
  <1>7. IsWinner(cbest', MergedResults(q, rk+1))
    BY <1>1, <1>5, <1>6
  <1>8. ASSUME rk = LANES-1 PROVE cbest' = Winner[q]
    <2>1. rk + 1 = LANES
      BY <1>8, CoreAssumption
    <2>2. IsWinner(cbest', Results(q))
      BY <1>7, <2>1, MergedAll
    <2> QED
      BY <2>2, WinnerOfAll
  <1> QED
    BY <1>7, <1>8

LEMMA ReduceKeeps == ASSUME IInv, ReduceEdge PROVE IInv'
  <1>0. /\ state = "REDUCE" /\ ~rsp_valid /\ Engine /\ AllQuiet /\ Searching /\ rk \in Lane
        /\ \A k \in Lane : Finished(k, req_q)
    BY DEF IInv, InReduce, ReduceEdge, Reduce
  <1>1. CoreTypeOK'
    BY <1>0, LaneBestType, ReduceType DEF IInv, ReduceEdge
  <1>2. LaneTypeOK' /\ \A k \in Lane : AtRest(k)' /\ ~lane'[k].done /\ Kept(k)
    BY <1>0, QuietLanes
  <1>3. /\ UNCHANGED <<req_q, heights_q, err_q, rsp_valid, rsp, lane_done_seen>>
        /\ ~search_start' /\ rk' = (rk + 1) % RkRange
        /\ state' = IF rk = LANES-1 THEN "FINALIZE" ELSE "REDUCE"
    BY DEF ReduceEdge, Reduce
  <1>4. PICK q \in Request : q = req_q
    BY <1>0 DEF Searching, Latched
  <1>5. req_q' = q /\ Searching' /\ Latched'
    BY <1>0, <1>3, <1>4 DEF Searching, Latched
  <1>6. AllQuiet'
    BY <1>2, <1>3 DEF AllQuiet
  <1>7. CASE rk = LANES-1
    <2>1. state' = "FINALIZE" /\ cbest' = Winner[req_q']
      BY <1>3, <1>4, <1>5, <1>7, ReduceMerges
    <2> QED
      BY <1>0, <1>1, <1>2, <1>3, <1>5, <1>6, <2>1
         DEF IInv, InIdle, InCache, InStart, InWait, InReduce, InFinalize, InRespond
  <1>8. CASE rk # LANES-1
    <2>1. rk' = rk + 1 /\ rk + 1 \in Lane
      BY <1>0, <1>3, <1>8, CoreAssumption DEF Lane, RkRange
    <2>2. IsWinner(cbest', MergedResults(req_q', rk'))
      BY <1>4, <1>5, <2>1, ReduceMerges
    <2>3. IsWinner(cbest, MergedResults(req_q, rk))' /\ (rk \in Lane)'
      BY <2>1, <2>2 DEF IsWinner, MergedResults, ResultsOf
    <2>4. \A k \in Lane : Finished(k, req_q)'
      BY <1>0, <1>2, <1>4, <1>5, KeptFinished, FollowFinished
    <2>5. state' = "REDUCE"
      BY <1>3, <1>8
    <2> QED
      BY <1>0, <1>1, <1>2, <1>3, <1>5, <1>6, <2>3, <2>4, <2>5
         DEF IInv, InIdle, InCache, InStart, InWait, InReduce, InFinalize, InRespond
  <1> QED
    BY <1>7, <1>8

LEMMA FinalizeKeeps == ASSUME IInv, FinalizeEdge PROVE IInv'
  <1>0. /\ state = "FINALIZE" /\ Engine /\ AllQuiet /\ Latched
    BY DEF IInv, InFinalize, FinalizeEdge, Finalize
  <1>1. CoreTypeOK' /\ rsp' \in Response
    BY FinalizeType DEF IInv, FinalizeEdge
  <1>2. rsp' = Decision[req_q] /\ rsp' # NoResponse
    BY <1>1, FinalizeDecides, CoreAssumption DEF FinalizeEdge, IInv, InFinalize, Finalize
  <1>3. LaneTypeOK' /\ \A k \in Lane : AtRest(k)' /\ ~lane'[k].done
    BY <1>0, QuietLanes
  <1> QED
    BY <1>0, <1>1, <1>2, <1>3
       DEF IInv, FinalizeEdge, Finalize, Latched, AllQuiet,
           InIdle, InCache, InStart, InWait, InReduce, InFinalize, InRespond

LEMMA StutterKeeps == ASSUME IInv, UNCHANGED vars PROVE IInv'
  <1>1. UNCHANGED coreVars /\ UNCHANGED laneVars
    BY DEF vars
  <1>2. CoreTypeOK'
    BY <1>1 DEF IInv, CoreTypeOK, coreVars
  <1>3. LaneTypeOK'
    BY <1>1 DEF IInv, LaneTypeOK, laneVars
  <1>4. UNCHANGED <<AllQuiet, Latched, Searching, lane_done_seen, rk, cbest, req_q>>
    BY <1>1 DEF AllQuiet, Latched, Searching, AtRest, Still, coreVars, laneVars
  <1>5. \A k \in Lane : /\ Finished(k, req_q) => Finished(k, req_q)'
                        /\ Collected(k, req_q) => Collected(k, req_q)'
                        /\ AtRest(k) => AtRest(k)'
    BY <1>1 DEF Collected, Works, Running, AtRest, AtNext, AtStart, AtWait, AtUpdate, AtFinish,
                Still, Asking, Delivered, Waiting, Finished, IsWinner, ResultsOf, Passed,
                ShareBelow, coreVars, laneVars
  <1>6. IsWinner(cbest, MergedResults(req_q, rk)) => IsWinner(cbest, MergedResults(req_q, rk))'
    BY <1>1 DEF coreVars, IsWinner, MergedResults, ResultsOf
  <1> QED
    BY <1>1, <1>2, <1>3, <1>4, <1>5, <1>6
       DEF IInv, coreVars, laneVars, InIdle, InCache, InStart, InWait, InReduce, InFinalize,
           InRespond

LEMMA Inductive == ASSUME IInv, [Next]_vars PROVE IInv'
  <1>1. CASE ResetEdge
    BY <1>1, ResetKeeps
  <1>2. CASE IdleEdge \/ HoldEdge \/ ConsumeEdge
    BY <1>2, RestKeeps
  <1>3. CASE \E r \in Request : AcceptEdge(r)
    BY <1>3, AcceptKeeps
  <1>4. CASE CacheEdge
    BY <1>4, CacheKeeps
  <1>5. CASE SearchStartEdge
    BY <1>5, SearchStartKeeps
  <1>6. CASE SearchWaitEdge
    BY <1>6, SearchWaitKeeps
  <1>7. CASE ReduceEdge
    BY <1>7, ReduceKeeps
  <1>8. CASE FinalizeEdge
    BY <1>8, FinalizeKeeps
  <1>9. CASE UNCHANGED vars
    BY <1>9, StutterKeeps
  <1> QED
    BY <1>1, <1>2, <1>3, <1>4, <1>5, <1>6, <1>7, <1>8, <1>9 DEF Next

(* The inductive invariant holds in every reachable state.                  *)
THEOREM LanesInvariance == Spec => []IInv
  BY InitIInv, Inductive, PTL DEF Spec

-----------------------------------------------------------------------------
(* The registers of the core, the lanes and the evaluators keep their types. *)
THEOREM LanesTypeCorrect == Spec => []TypeOK
  <1>1. IInv => TypeOK
    BY DEF IInv, TypeOK
  <1> QED
    BY <1>1, LanesInvariance, PTL

(* Outside SEARCH_WAIT no lane runs and no pulse is pending.                *)
LEMMA QuietOutsideWait ==
    ASSUME IInv, state # "SEARCH_WAIT" PROVE AllQuiet
  BY DEF IInv, CoreTypeOK, State, InIdle, InCache, InStart, InReduce, InFinalize, InRespond

(* A running lane's best is the winner of the part of its share it has      *)
(* passed, each candidate evaluated once and for the latched request, and   *)
(* under REDUCE every share is complete (lane_player.sv:101,112,119).       *)
THEOREM LaneBestsWin == Spec => []LaneBestOfShare
  <1>1. IInv => LaneBestOfShare
    <2> SUFFICES ASSUME IInv, NEW k \in Lane
                 PROVE  /\ lane[k].state # "IDLE" => Running(k, req_q)
                        /\ state = "REDUCE" => AtRest(k) /\ Finished(k, req_q)
      BY DEF LaneBestOfShare, Running, AtRest, Still, Finished, Passed, ResultsOf, EvBusy
    <2>1. ASSUME lane[k].state # "IDLE" PROVE Running(k, req_q)
      <3>1. ~AtRest(k)
        BY <2>1 DEF AtRest
      <3>2. state = "SEARCH_WAIT"
        BY <3>1, QuietOutsideWait DEF AllQuiet
      <3>3. Works(k, req_q)
        BY <3>1, <3>2 DEF IInv, InWait, Collected
      <3> QED
        BY <3>3 DEF Works
    <2>2. ASSUME state = "REDUCE" PROVE AtRest(k) /\ Finished(k, req_q)
      BY <2>2 DEF IInv, InReduce, AllQuiet
    <2> QED
      BY <2>1, <2>2
  <1> QED
    BY <1>1, LanesInvariance, PTL

(* A done pulse comes only while the core collects pulses and has not seen  *)
(* it before; an idle core has no lane running (tetris_core.sv:105,188).    *)
THEOREM NoPulseIsLost == Spec => []PulsesCollected
  <1>1. IInv => PulsesCollected
    <2> SUFFICES ASSUME IInv, NEW k \in Lane
                 PROVE  /\ lane[k].done => state = "SEARCH_WAIT" /\ k \notin lane_done_seen
                        /\ state = "IDLE" => AtRest(k)
      BY DEF PulsesCollected, AtRest, Still, EvBusy
    <2>1. ASSUME lane[k].done PROVE state = "SEARCH_WAIT" /\ k \notin lane_done_seen
      <3>1. state = "SEARCH_WAIT"
        BY <2>1, QuietOutsideWait DEF AllQuiet
      <3> QED
        BY <2>1, <3>1 DEF IInv, InWait, Collected, Works
    <2>2. ASSUME state = "IDLE" PROVE AtRest(k)
      BY <2>2 DEF IInv, InIdle, AllQuiet
    <2> QED
      BY <2>1, <2>2
  <1> QED
    BY <1>1, LanesInvariance, PTL

-----------------------------------------------------------------------------
(* The refinement: initial states to initial states, every edge to a step   *)
(* of the abstract engine or to a stutter.                                  *)
LEMMA InitRefines == Init => Client!Init
  BY DEF Init, CoreInit, Client!Init, Outstanding, Offered

LEMMA AcceptRefines ==
    ASSUME IInv, NEW r \in Request, AcceptEdge(r) PROVE Client!Accept(r)
  BY AcceptOffers DEF Client!Accept, IInv, InIdle, AcceptEdge, Accept

LEMMA FinalizeRefines == ASSUME IInv, FinalizeEdge PROVE Client!Answer
  <1>1. Latched /\ (~err_q => cbest = Winner[req_q]) /\ ~rsp_valid /\ Finalize
    BY DEF FinalizeEdge, Finalize, IInv, InFinalize
  <1>2. rsp' = Decision[req_q] /\ req_q \in Request
    BY <1>1, FinalizeDecides
  <1> QED
    BY <1>1, <1>2, FinalizeOffers DEF Client!Answer

LEMMA ConsumeRefines == ASSUME IInv, ConsumeEdge PROVE Client!Consume
  BY ConsumeOffers DEF Client!Consume, IInv, InRespond, ConsumeEdge, Consume

LEMMA ResetRefines == ASSUME IInv, ResetEdge PROVE Client!Cancel \/ UNCHANGED Client!vars
  <1>1. state = "IDLE" => ~rsp_valid
    BY DEF IInv, InIdle
  <1>2. state # "IDLE" => req_q \in Request
    BY DEF IInv, CoreTypeOK, State, InCache, InStart, InWait, InReduce, InFinalize,
           InRespond, Searching, Latched
  <1> QED
    BY <1>1, <1>2, ResetOffers DEF ResetEdge, Client!Cancel, Client!vars

LEMMA InnerRefines ==
    ASSUME IdleEdge \/ HoldEdge \/ CacheEdge \/ SearchStartEdge \/ SearchWaitEdge \/ ReduceEdge
           \/ UNCHANGED vars
    PROVE  UNCHANGED Client!vars
  <1>1. CASE SearchWaitEdge \/ ReduceEdge
    BY <1>1, SearchOffers DEF SearchWaitEdge, ReduceEdge, Client!vars
  <1>2. CASE ~(SearchWaitEdge \/ ReduceEdge)
    BY <1>2, RestOffers DEF IdleEdge, HoldEdge, CacheEdge, SearchStartEdge, vars, Client!vars
  <1> QED
    BY <1>1, <1>2

(* The lanes together answer every accepted request with the decision the   *)
(* rules give it, once, whichever lane finishes first, and the core holds   *)
(* the answer until it is consumed or cancelled.                            *)
THEOREM LanesImplementEngine == Spec => AnswersAreDecisions
  <1>1. IInv /\ [Next]_vars => [Client!Next]_(Client!vars)
    <2> SUFFICES ASSUME IInv, [Next]_vars PROVE Client!Next \/ UNCHANGED Client!vars
      OBVIOUS
    <2>1. CASE ResetEdge
      BY <2>1, ResetRefines DEF Client!Next
    <2>2. CASE \E r \in Request : AcceptEdge(r)
      BY <2>2, AcceptRefines DEF Client!Next
    <2>3. CASE FinalizeEdge
      BY <2>3, FinalizeRefines DEF Client!Next
    <2>4. CASE ConsumeEdge
      BY <2>4, ConsumeRefines DEF Client!Next
    <2>5. CASE \/ IdleEdge \/ HoldEdge \/ CacheEdge \/ SearchStartEdge \/ SearchWaitEdge
              \/ ReduceEdge \/ UNCHANGED vars
      BY <2>5, InnerRefines
    <2> QED
      BY <2>1, <2>2, <2>3, <2>4, <2>5 DEF Next
  <1> QED
    BY <1>1, InitRefines, LanesInvariance, PTL DEF Spec, AnswersAreDecisions, Client!Promise
=============================================================================
