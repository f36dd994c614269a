------------------------------ MODULE D2Proofs ------------------------------
(***************************************************************************)
(* The core with the two-piece lookahead implements the abstract decision  *)
(* engine for the two-piece rule, for every set of requests, every list of *)
(* roots and leaves, every weight of a line and every latency of the       *)
(* shared evaluator: what MCD2 checks on two roots with two leaves each.   *)
(*                                                                         *)
(* The inductive invariant follows the nested search state by state: surv  *)
(* and fb are the winners over the roots passed, while leaves are searched *)
(* the branch registers hold the best of those visited of the one root the *)
(* registered board belongs to, and the evaluator works on the candidate   *)
(* of the list and the board that the two indices stand at.                *)
(***************************************************************************)
EXTENDS TetrisD2, CoreLemmas

(* The predicates on the search are about its registers l and those of its  *)
(* evaluator e, so that they read the same before and after an edge.        *)
Root(q, l) == Outcome[q][l.jr]

(* The roots below jr are done, for the surviving value and for one move.   *)
RootsPassed(q, l) ==
    /\ l.root_board = <<q>> /\ l.root_heights = <<q>>
    /\ l.jr <= Count[q] /\ Branches(q, l.jr) \subseteq Result
    /\ IsWinner(l.surv, Branches(q, l.jr))
    /\ IsWinner(l.fb, FirstResults(q, l.jr))

(* The registers of the root under search and of its board.                 *)
Rooted(q, l) ==
    /\ l.jr < Count[q] /\ Root(q, l).legal
    /\ l.root_id = Root(q, l).id /\ l.s1 = Root(q, l).score /\ l.root_y = Root(q, l).y
    /\ l.l1 = Lines[q][l.jr]
    /\ l.b1_board = <<q, l.jr>>

(* The branch value is that of the leaves below jl, visited on that board.  *)
IsHighest(m, S) == m \in S /\ \A s \in S : s <= m

BranchOf(l, S) == IF l.branch_valid THEN IsHighest(l.branch_score, S) ELSE S = {}

LeavesVisited(q, l) ==
    /\ Rooted(q, l) /\ l.leaf_phase /\ l.b1_heights = <<q, l.jr>>
    /\ l.jl <= NextCount[q]
    /\ BranchOf(l, Seconds(q, l.jr, l.jl))

(* The evaluator and the wires to it do nothing.                            *)
Still(l, e) == ~l.ev_start /\ e.left = 0 /\ ~e.done

(* The evaluator is being asked for the result res of job, works on it, or  *)
(* delivers it.                                                             *)
Asked(l, e, job, res) ==
    \/ l.ev_start /\ e.left = 0 /\ ~e.done
    \/ /\ ~l.ev_start /\ e.left # 0 /\ ~e.done /\ e.job = job
       /\ e.left = 1 => e.out = res
    \/ ~l.ev_start /\ e.left = 0 /\ e.done /\ e.out = res

RootJob(q, j) == [board |-> <<q>>, heights |-> <<q>>, leaf |-> FALSE, index |-> j]
LeafJob(q, j, i) == [board |-> <<q, j>>, heights |-> <<q, j>>, leaf |-> TRUE, index |-> i]

(* What holds in each state of the search for q.                            *)
AtRootNext(q, l, e) == l.state = "ROOT_NEXT" /\ Still(l, e)
AtRootStart(q, l, e) ==
    l.state = "ROOT_START" /\ Still(l, e) /\ l.jr < Count[q] /\ ~l.leaf_phase
AtRootWait(q, l, e) ==
    /\ l.state = "ROOT_WAIT" /\ l.jr < Count[q] /\ ~l.leaf_phase /\ l.root_id = Root(q, l).id
    /\ Asked(l, e, RootJob(q, l.jr), RootResult(q, l.jr))
AtB1Cache(q, l, e) ==
    l.state = "B1_CACHE" /\ Still(l, e) /\ Rooted(q, l) /\ l.jl = 0 /\ ~l.branch_valid
AtLeafNext(q, l, e) == l.state = "LEAF_NEXT" /\ Still(l, e) /\ LeavesVisited(q, l)
AtLeafStart(q, l, e) ==
    l.state = "LEAF_START" /\ Still(l, e) /\ LeavesVisited(q, l) /\ l.jl < NextCount[q]
AtLeafWait(q, l, e) ==
    /\ l.state = "LEAF_WAIT" /\ LeavesVisited(q, l) /\ l.jl < NextCount[q]
    /\ Asked(l, e, LeafJob(q, l.jr, l.jl), LeafResult(q, l.jr, l.jl))
AtRootUpdate(q, l, e) ==
    l.state = "ROOT_UPDATE" /\ Still(l, e) /\ LeavesVisited(q, l) /\ l.jl = NextCount[q]
AtFinish(q, l, e) == l.state = "FINISH" /\ Still(l, e) /\ l.jr = Count[q]

Works(q, l, e) ==
    /\ ~l.done /\ RootsPassed(q, l)
    /\ \/ AtRootNext(q, l, e) \/ AtRootStart(q, l, e) \/ AtRootWait(q, l, e) \/ AtB1Cache(q, l, e)
       \/ AtLeafNext(q, l, e) \/ AtLeafStart(q, l, e) \/ AtLeafWait(q, l, e)
       \/ AtRootUpdate(q, l, e) \/ AtFinish(q, l, e)

AtRest(l, e) == l.state = "IDLE" /\ Still(l, e)
Done(q, l, e) == AtRest(l, e) /\ l.done /\ l.best = TwoPieceWinner(q)
Quiet == ~search_start /\ AtRest(look, ev) /\ ~look.done

(* What holds in each state of the core.                                    *)
InIdle == state = "IDLE" => Quiet /\ ~rsp_valid
InCache == state = "CACHE" => Quiet /\ Latched
InStart == state = "SEARCH_START" => Quiet /\ Searching
InWait ==
    state = "SEARCH_WAIT" =>
        /\ Searching
        /\ \/ search_start /\ AtRest(look, ev) /\ ~look.done
           \/ ~search_start /\ Works(req_q, look, ev)
           \/ ~search_start /\ Done(req_q, look, ev)
InFinalize == state = "FINALIZE" => Quiet /\ Latched /\ (~err_q => cbest = TwoPieceWinner(req_q))
InRespond == state = "RESPOND" => /\ Quiet /\ Latched
                                 /\ rsp_valid /\ rsp = TwoPieceDecision[req_q] /\ rsp # NoResponse

IInv ==
    /\ CoreTypeOK /\ LookTypeOK /\ state # "REDUCE"
    /\ InIdle /\ InCache /\ InStart /\ InWait /\ InFinalize /\ InRespond
    /\ rsp_valid => state = "RESPOND"

-----------------------------------------------------------------------------
(* The candidates of a request and their results.                           *)
LEMMA ListTypes ==
    ASSUME NEW q \in Request
    PROVE  /\ Count[q] \in Nat /\ NextCount[q] \in Nat /\ WL \in Nat
           /\ \A j \in 0 .. Count[q]-1 :
                /\ Outcome[q][j] \in Result /\ Lines[q][j] \in 0 .. 4
                /\ \A i \in 0 .. NextCount[q]-1 : Leaf[q][j][i] \in Result
  <1>1. Count[q] \in Nat /\ NextCount[q] \in Nat /\ WL \in Nat
    BY RequestAssumption, LookaheadAssumption
  <1>2. ASSUME NEW j \in 0 .. Count[q]-1
        PROVE  /\ Outcome[q][j] \in Result /\ Lines[q][j] \in 0 .. 4
               /\ Leaf[q][j] \in [0 .. NextCount[q]-1 -> Result]
    BY OutcomeAssumption, LookaheadAssumption
  <1> QED
    BY <1>1, <1>2

LEMMA Boards ==
    ASSUME NEW q \in Context, NEW j \in Nat
    PROVE  <<q>> \in Board /\ <<q, j>> \in Board /\ NoBoard \in Board
  BY DEF Board, NoBoard

LEMMA RootJobs ==
    ASSUME NEW q \in Request, NEW j \in 0 .. Count[q]-1
    PROVE  /\ RootJob(q, j) \in Job /\ RootResult(q, j) \in EvResult
           /\ Evaluated(RootJob(q, j)) = RootResult(q, j)
  <1>1. j \in Nat /\ Outcome[q][j] \in Result /\ Lines[q][j] \in 0 .. 4
    BY ListTypes
  <1>2. <<q>> \in Board /\ <<q, j>> \in Board /\ NoBoard \in Board
    BY <1>1, Boards DEF Context
  <1>3. RootJob(q, j) \in Job
    <2>1. FALSE \in BOOLEAN
      OBVIOUS
    <2> QED
      BY <1>1, <1>2, <2>1, Zenon DEF RootJob, Job
  <1>4. RootResult(q, j) \in EvResult
    BY <1>1, <1>2 DEF RootResult, EvResult, Result
  <1>5. Evaluated(RootJob(q, j)) = RootResult(q, j)
    BY DEF Evaluated, RootJob
  <1> QED
    BY <1>3, <1>4, <1>5

LEMMA LeafJobs ==
    ASSUME NEW q \in Request, NEW j \in 0 .. Count[q]-1, NEW i \in 0 .. NextCount[q]-1
    PROVE  /\ LeafJob(q, j, i) \in Job /\ LeafResult(q, j, i) \in EvResult
           /\ Evaluated(LeafJob(q, j, i)) = LeafResult(q, j, i)
  <1>1. j \in Nat /\ i \in Nat /\ Leaf[q][j][i] \in Result
    BY ListTypes
  <1>2. <<q, j>> \in Board /\ NoBoard \in Board
    BY <1>1, Boards DEF Context
  <1>3. LeafJob(q, j, i) \in Job
    <2>1. TRUE \in BOOLEAN
      OBVIOUS
    <2> QED
      BY <1>1, <1>2, <2>1, Zenon DEF LeafJob, Job
  <1>4. LeafResult(q, j, i) \in EvResult
    BY <1>1, <1>2 DEF LeafResult, EvResult, Result
  <1>5. Evaluated(LeafJob(q, j, i)) = LeafResult(q, j, i)
    BY DEF Evaluated, LeafJob
  <1> QED
    BY <1>3, <1>4, <1>5

-----------------------------------------------------------------------------
(* One edge of the evaluator, idle or asked for a job.                      *)
LEMMA IdleEvaluator ==
    ASSUME LookTypeOK, NEW start, LookaheadEdge(start), Still(look, ev)
    PROVE  ev' \in EvRegs /\ ev'.left = 0 /\ ~ev'.done
  <1>1. PICK t : ev' = EvNext(ev, look.ev_start, JobNow, t, Evaluated(ev.job))
    BY DEF LookaheadEdge
  <1>2. ev \in EvRegs
    BY DEF LookTypeOK
  <1>3. ev' = [ev EXCEPT !.left = IF @ = 0 THEN 0 ELSE @ - 1,
                         !.out = IF ev.left = 2 THEN Evaluated(ev.job) ELSE @,
                         !.done = (ev.left = 1)]
    BY <1>1 DEF EvNext, EvStarting, Still
  <1>4. ev.left = 0 /\ ev.left # 2 /\ ev.left # 1
    BY DEF Still
  <1>5. (IF ev.left = 0 THEN 0 ELSE ev.left - 1) \in 0 .. MaxEval
    BY <1>4, MaxEvalAssumption
  <1>6. ev' \in EvRegs /\ ev'.left = 0 /\ (ev'.done <=> ev.left = 1)
    BY <1>2, <1>3, <1>4, <1>5 DEF EvRegs
  <1> QED
    BY <1>4, <1>6

LEMMA AskedEvaluator ==
    ASSUME LookTypeOK, NEW start, LookaheadEdge(start), ~look'.ev_start,
           NEW job \in Job, NEW res \in EvResult, Evaluated(job) = res,
           Asked(look, ev, job, res), look.ev_start => JobNow = job
    PROVE  /\ ev' \in EvRegs
           /\ ev.done => ev.out = res /\ ev'.left = 0 /\ ~ev'.done
           /\ ~ev.done => \/ /\ ev'.left # 0 /\ ~ev'.done /\ ev'.job = job
                             /\ ev'.left = 1 => ev'.out = res
                          \/ ev'.left = 0 /\ ev'.done /\ ev'.out = res
  <1>1. PICK t \in (IF EvStarting(ev, look.ev_start) THEN Latency ELSE {0}) :
            ev' = EvNext(ev, look.ev_start, JobNow, t, Evaluated(ev.job))
    BY DEF LookaheadEdge
  <1>2. ev \in EvRegs
    BY DEF LookTypeOK
  <1>3. CASE look.ev_start /\ ev.left = 0 /\ ~ev.done
    <2>1. t \in Latency /\ ev' = [ev EXCEPT !.left = t, !.job = job, !.done = FALSE]
      BY <1>1, <1>3 DEF EvNext, EvStarting, EvBusy
    <2>2. t \in 0 .. MaxEval /\ t # 0 /\ t # 1
      BY <2>1, MaxEvalAssumption DEF Latency
    <2> QED
      BY <1>2, <1>3, <2>1, <2>2 DEF EvRegs
  <1>4. CASE /\ ~look.ev_start /\ ev.left # 0 /\ ~ev.done /\ ev.job = job
             /\ ev.left = 1 => ev.out = res
    <2>1. ev' = [ev EXCEPT !.left = ev.left - 1,
                           !.out = IF ev.left = 2 THEN res ELSE @,
                           !.done = (ev.left = 1)]
      BY <1>1, <1>4 DEF EvNext, EvStarting
    <2>2. ev.left \in Nat /\ ev.left - 1 \in 0 .. MaxEval
      BY <1>2, <1>4, MaxEvalAssumption DEF EvRegs
    <2>3. CASE ev.left = 1
      <3>1. /\ ev' \in EvRegs /\ ev'.left = ev.left - 1 /\ (ev'.done <=> ev.left = 1)
            /\ ev'.out = IF ev.left = 2 THEN res ELSE ev.out
        BY <1>2, <2>1, <2>2 DEF EvRegs
      <3> QED
        BY <1>4, <2>3, <3>1
    <2>4. CASE ev.left # 1
      <3>1. ev' = [ev EXCEPT !.left = ev.left - 1, !.out = IF ev.left = 2 THEN res ELSE @,
                             !.done = FALSE]
        BY <2>1, <2>4
      <3>2. /\ ev' \in EvRegs /\ ev'.left = ev.left - 1 /\ ev'.job = job /\ ev'.done = FALSE
            /\ ev'.out = IF ev.left = 2 THEN res ELSE ev.out
        BY <1>2, <1>4, <2>2, <3>1 DEF EvRegs
      <3>3. ev'.left # 0 /\ (ev'.left = 1 => ev.left = 2)
        BY <2>2, <2>4, <3>2, <1>4
      <3> QED
        BY <1>4, <3>2, <3>3
    <2> QED
      BY <2>3, <2>4
  <1>5. CASE ~look.ev_start /\ ev.left = 0 /\ ev.done /\ ev.out = res
    <2>1. ev' = [ev EXCEPT !.left = IF @ = 0 THEN 0 ELSE @ - 1,
                           !.out = IF ev.left = 2 THEN Evaluated(ev.job) ELSE @,
                           !.done = (ev.left = 1)]
      BY <1>1, <1>5 DEF EvNext, EvStarting
    <2>2. ev.left # 2 /\ ev.left # 1
      BY <1>5
    <2>3. (IF ev.left = 0 THEN 0 ELSE ev.left - 1) \in 0 .. MaxEval
      BY <1>5, MaxEvalAssumption
    <2>4. ev' \in EvRegs /\ ev'.left = 0 /\ (ev'.done <=> ev.left = 1)
      BY <1>2, <1>5, <2>1, <2>2, <2>3 DEF EvRegs
    <2> QED
      BY <1>5, <2>2, <2>4
  <1> QED
    BY <1>3, <1>4, <1>5 DEF Asked

-----------------------------------------------------------------------------
(* The two-piece rule, root by root and leaf by leaf.                       *)
LEMMA SecondsNone == ASSUME NEW q, NEW j PROVE Seconds(q, j, 0) = {}
  BY DEF Seconds

LEMMA SecondsNext ==
    ASSUME NEW q, NEW j, NEW n \in Nat
    PROVE  Seconds(q, j, n+1) =
               IF Leaf[q][j][n].legal
               THEN Seconds(q, j, n) \cup {Leaf[q][j][n].score + WL * Lines[q][j]}
               ELSE Seconds(q, j, n)
  <1>1. 0 .. (n+1)-1 = (0 .. n-1) \cup {n}
    OBVIOUS
  <1> QED
    BY <1>1 DEF Seconds

LEMMA SecondsType ==
    ASSUME NEW q \in Request, NEW j \in 0 .. Count[q]-1, NEW n \in Nat, n <= NextCount[q]
    PROVE  Seconds(q, j, n) \subseteq Int
  <1>1. ASSUME NEW i \in 0 .. n-1 PROVE Leaf[q][j][i].score + WL * Lines[q][j] \in Int
    <2>1. Leaf[q][j][i] \in Result /\ Lines[q][j] \in Nat /\ WL \in Nat
      BY ListTypes
    <2> QED
      BY <2>1 DEF Result
  <1> QED
    BY <1>1 DEF Seconds

LEMMA HighestIs ==
    ASSUME NEW S \in SUBSET Int, NEW m, IsHighest(m, S)
    PROVE  Highest(S) = m
  <1> DEFINE h == Highest(S)
  <1>1. h \in S /\ \A s \in S : s <= h
    BY DEF IsHighest, Highest
  <1>2. m \in S /\ \A s \in S : s <= m
    BY DEF IsHighest
  <1> HIDE DEF h
  <1>3. h \in Int /\ m \in Int /\ h <= m /\ m <= h
    BY <1>1, <1>2
  <1>4. h = m
    BY <1>3
  <1> QED
    BY <1>4 DEF h

LEMMA BranchesNone == ASSUME NEW q PROVE Branches(q, 0) = {}
  BY DEF Branches, Survivors, LegalRoots

(* A root without a legal second move adds nothing, another one its value.  *)
LEMMA LegalRootsNext ==
    ASSUME NEW q, NEW n \in Nat
    PROVE  LegalRoots(q, n+1) = LegalRoots(q, n) \cup {j \in {n} : Outcome[q][j].legal}
  <1>1. 0 .. (n+1)-1 = (0 .. n-1) \cup {n}
    OBVIOUS
  <1> QED
    BY <1>1 DEF LegalRoots

LEMMA BranchesSame ==
    ASSUME NEW q, NEW n \in Nat, ~Outcome[q][n].legal \/ Seconds(q, n, NextCount[q]) = {}
    PROVE  Branches(q, n+1) = Branches(q, n)
  <1>1. Survivors(q, n+1) = Survivors(q, n)
    BY LegalRootsNext DEF Survivors
  <1> QED
    BY <1>1 DEF Branches

(* Root candidate n with the value m of its branch.                         *)
Valued(q, n, m) == [Outcome[q][n] EXCEPT !.score = m]

LEMMA BranchesGrow ==
    ASSUME NEW q \in Request, NEW n \in 0 .. Count[q]-1, Outcome[q][n].legal,
           NEW m, IsHighest(m, Seconds(q, n, NextCount[q]))
    PROVE  /\ Branches(q, n+1) = Branches(q, n) \cup {Valued(q, n, m)}
           /\ Valued(q, n, m) \in Result
           /\ Valued(q, n, m) = [id |-> Outcome[q][n].id, legal |-> TRUE, score |-> m,
                                 y |-> Outcome[q][n].y]
  <1>1. n \in Nat /\ Outcome[q][n] \in Result /\ Seconds(q, n, NextCount[q]) \subseteq Int
    BY ListTypes, SecondsType
  <1>2. m \in Int /\ Highest(Seconds(q, n, NextCount[q])) = m /\ Seconds(q, n, NextCount[q]) # {}
    BY <1>1, HighestIs DEF IsHighest
  <1>3. Survivors(q, n+1) = Survivors(q, n) \cup {n}
    BY <1>1, <1>2, LegalRootsNext DEF Survivors
  <1>4. Branches(q, n+1) =
            Branches(q, n) \cup {Valued(q, n, Highest(Seconds(q, n, NextCount[q])))}
    BY <1>3 DEF Branches, Valued
  <1>5. /\ Valued(q, n, m) \in Result /\ Valued(q, n, m).id = Outcome[q][n].id
        /\ Valued(q, n, m).legal = Outcome[q][n].legal
        /\ Valued(q, n, m).score = m /\ Valued(q, n, m).y = Outcome[q][n].y
    BY <1>1, <1>2 DEF Result, Valued
  <1>6. ASSUME NEW c \in Result, c.legal
        PROVE  c = [id |-> c.id, legal |-> TRUE, score |-> c.score, y |-> c.y]
    BY <1>6 DEF Result
  <1>7. Valued(q, n, m) = [id |-> Outcome[q][n].id, legal |-> TRUE, score |-> m,
                           y |-> Outcome[q][n].y]
    BY <1>5, <1>6
  <1> QED
    BY <1>2, <1>4, <1>5, <1>7

(* Branches are legal, and differ in their ids.                             *)
LEMMA BranchesDiffer ==
    ASSUME NEW q \in Request
    PROVE  /\ \A c \in Branches(q, Count[q]) : c.legal
           /\ \A c, d \in Branches(q, Count[q]) : c.id = d.id => c = d
  <1> DEFINE B(j) == [Outcome[q][j] EXCEPT !.score = Highest(Seconds(q, j, NextCount[q]))]
  <1>1. ASSUME NEW j \in Survivors(q, Count[q])
        PROVE  /\ j \in 0 .. Count[q]-1 /\ Outcome[q][j] \in Result
               /\ B(j).legal /\ B(j).id = Outcome[q][j].id
    <2>1. j \in 0 .. Count[q]-1 /\ Outcome[q][j].legal
      BY DEF Survivors, LegalRoots
    <2>2. Outcome[q][j] \in Result
      BY <2>1, ListTypes
    <2> QED
      BY <2>1, <2>2 DEF Result
  <1>2. ASSUME NEW i \in Survivors(q, Count[q]), NEW j \in Survivors(q, Count[q]), B(i).id = B(j).id
        PROVE  i = j
    <2>1. Outcome[q][i].id \in Nat /\ Outcome[q][i].id = Outcome[q][j].id
      BY <1>1, <1>2 DEF Result
    <2>2. ~(i < j) /\ ~(j < i)
      BY <1>1, <2>1, OutcomeAssumption
    <2> QED
      BY <1>1, <2>2
  <1>3. Branches(q, Count[q]) = {B(j) : j \in Survivors(q, Count[q])}
    BY DEF Branches
  <1> HIDE DEF B
  <1> QED
    BY <1>1, <1>2, <1>3

(* FINISH chooses what the rule chooses.                                    *)
LEMMA FinishDecides ==
    ASSUME NEW q \in Request, NEW surv, NEW fb,
           Branches(q, Count[q]) \subseteq Result,
           IsWinner(surv, Branches(q, Count[q])), IsWinner(fb, Results(q))
    PROVE  (IF surv.valid THEN surv ELSE fb) = TwoPieceWinner(q)
  <1>1. CASE Survivors(q, Count[q]) # {}
    <2>1. surv.valid
      <3>1. \E c \in Branches(q, Count[q]) : c.legal
        <4>1. Branches(q, Count[q]) # {}
          BY <1>1 DEF Branches
        <4> QED
          BY <4>1, BranchesDiffer
      <3> QED
        BY <3>1 DEF IsWinner, AsBest
    <2>2. surv = CHOOSE b \in {NoBest} \cup {AsBest(c) : c \in Branches(q, Count[q])} :
                     IsWinner(b, Branches(q, Count[q]))
      BY BranchesDiffer, ChosenWinner
    <2> QED
      BY <1>1, <2>1, <2>2 DEF TwoPieceWinner
  <1>2. CASE Survivors(q, Count[q]) = {}
    <2>1. ~surv.valid
      <3>1. Branches(q, Count[q]) = {}
        BY <1>2 DEF Branches
      <3> QED
        BY <3>1 DEF IsWinner, NoBest
    <2>2. fb = CHOOSE b \in {NoBest} \cup {AsBest(c) : c \in Results(q)} : IsWinner(b, Results(q))
      BY DistinctIds, ChosenWinner
    <2> QED
      BY <1>2, <2>1, <2>2 DEF TwoPieceWinner
  <1> QED
    BY <1>1, <1>2

-----------------------------------------------------------------------------
(* One edge of the search, by the state it is in.                           *)
Goes(q) == LookTypeOK' /\ (Works(q, look', ev') \/ Done(q, look', ev'))

(* What the states that only move on leave alone.                           *)
Kept ==
    /\ look'.done = FALSE
    /\ look'.root_board = look.root_board /\ look'.root_heights = look.root_heights
    /\ look'.jr = look.jr /\ look'.surv = look.surv /\ look'.fb = look.fb

KeptRoot ==
    /\ Kept /\ look'.b1_board = look.b1_board /\ look'.b1_heights = look.b1_heights
    /\ look'.jl = look.jl /\ look'.leaf_phase = look.leaf_phase
    /\ look'.root_id = look.root_id /\ look'.root_y = look.root_y
    /\ look'.s1 = look.s1 /\ look'.l1 = look.l1
    /\ look'.branch_valid = look.branch_valid /\ look'.branch_score = look.branch_score

LEMMA KeptRootsPassed ==
    ASSUME NEW q, Kept, RootsPassed(q, look) PROVE ~look'.done /\ RootsPassed(q, look')
  BY DEF Kept, RootsPassed

LEMMA KeptLeavesVisited ==
    ASSUME NEW q, KeptRoot, LeavesVisited(q, look) PROVE LeavesVisited(q, look')
  BY DEF KeptRoot, Kept, LeavesVisited, Rooted, Root, BranchOf

LEMMA SettledType == ASSUME LookTypeOK PROVE Settled \in LookRegs
  BY DEF LookTypeOK, Settled, LookRegs

LEMMA Counts ==
    ASSUME NEW q \in Request, q = req_q
    PROVE  RootCount = Count[q] /\ LeafCount = NextCount[q]
  BY RequestAssumption DEF RootCount, CandidateCount, LeafCount

LEMMA LookStep == ASSUME NEW start, LookaheadEdge(start) PROVE look' = LookNext(start)
  BY DEF LookaheadEdge

LEMMA RestStays ==
    ASSUME LookTypeOK, LookaheadEdge(search_start), ~search_start, AtRest(look, ev)
    PROVE  LookTypeOK' /\ AtRest(look', ev') /\ ~look'.done
  <1>1. look \in LookRegs
    BY DEF LookTypeOK
  <1>2. look' = Settled
    <2>1. LookNext(search_start) = Settled
      BY DEF LookNext, AtRest
    <2> QED
      BY <2>1, LookStep
  <1>3. look'.state = "IDLE" /\ look'.ev_start = FALSE /\ look'.done = FALSE
    BY <1>1, <1>2 DEF Settled, LookRegs, AtRest
  <1>4. ev' \in EvRegs /\ ev'.left = 0 /\ ~ev'.done
    BY IdleEvaluator DEF AtRest
  <1> QED
    BY <1>2, <1>3, <1>4, SettledType DEF LookTypeOK, AtRest, Still

LEMMA StartGoes ==
    ASSUME LookTypeOK, CoreTypeOK, LookaheadEdge(search_start), search_start, Searching,
           AtRest(look, ev), NEW q \in Request, q = req_q
    PROVE  Goes(q)
  <1>1. look' = Started
    <2>1. LookNext(search_start) = Started
      BY DEF LookNext, AtRest
    <2> QED
      BY <2>1, LookStep
  <1>2. Settled \in LookRegs /\ <<q>> \in Board /\ NoBest \in Best /\ Count[q] \in Nat
    BY SettledType, Boards, NoBestType, ListTypes DEF Context
  <1>3. Started = [Settled EXCEPT !.state = "ROOT_NEXT",
                    !.root_board = <<q>>, !.root_heights = <<q>>,
                    !.jr = 0, !.leaf_phase = FALSE, !.surv = NoBest, !.fb = NoBest,
                    !.root_candidates = 0, !.leaf_candidates = 0]
    BY DEF Started, Searching
  <1>4. look' \in LookRegs
    BY <1>1, <1>2, <1>3 DEF LookRegs, LookState
  <1>5. /\ look'.state = "ROOT_NEXT" /\ look'.ev_start = FALSE /\ look'.done = FALSE
        /\ look'.root_board = <<q>> /\ look'.root_heights = <<q>>
        /\ look'.jr = 0 /\ look'.surv = NoBest /\ look'.fb = NoBest
    <2>1. look \in LookRegs
      BY DEF LookTypeOK
    <2> QED
      BY <1>1, <1>3, <2>1 DEF Settled, LookRegs
  <1>6. ev' \in EvRegs /\ ev'.left = 0 /\ ~ev'.done
    BY IdleEvaluator DEF AtRest
  <1>7. RootsPassed(q, look')
    BY <1>2, <1>5, BranchesNone, NoneWins, NothingWinsNothing DEF RootsPassed
  <1> QED
    BY <1>4, <1>5, <1>6, <1>7 DEF Goes, LookTypeOK, Works, AtRootNext, Still

LEMMA RootNextGoes ==
    ASSUME LookTypeOK, NEW start, LookaheadEdge(start), NEW q \in Request, q = req_q,
           RootsPassed(q, look), AtRootNext(q, look, ev)
    PROVE  Goes(q)
  <1>1. look \in LookRegs /\ Settled \in LookRegs /\ look.jr \in Nat /\ Count[q] \in Nat
    BY SettledType, ListTypes DEF LookTypeOK, LookRegs
  <1>2. look' = RootNext
    BY LookStep DEF LookNext, AtRootNext
  <1>3. RootNext = [Settled EXCEPT !.leaf_phase = FALSE,
                            !.state = IF look.jr < Count[q] THEN "ROOT_START" ELSE "FINISH"]
    BY Counts DEF RootNext
  <1>4. look' \in LookRegs
    BY <1>1, <1>2, <1>3 DEF LookRegs, LookState
  <1>5. /\ look'.state = IF look.jr < Count[q] THEN "ROOT_START" ELSE "FINISH"
        /\ look'.ev_start = FALSE /\ look'.leaf_phase = FALSE /\ Kept
    BY <1>1, <1>2, <1>3 DEF Settled, LookRegs, Kept
  <1>6. ev' \in EvRegs /\ ev'.left = 0 /\ ~ev'.done
    BY IdleEvaluator DEF AtRootNext
  <1>7. ~look'.done /\ RootsPassed(q, look')
    BY <1>5, KeptRootsPassed
  <1>8. look'.jr = look.jr /\ look.jr <= Count[q]
    BY <1>5 DEF Kept, RootsPassed
  <1>9. CASE look.jr < Count[q]
    BY <1>4, <1>5, <1>6, <1>7, <1>8, <1>9 DEF Goes, LookTypeOK, Works, AtRootStart, Still
  <1>10. CASE ~(look.jr < Count[q])
    <2>1. look.jr = Count[q]
      BY <1>1, <1>8, <1>10
    <2> QED
      BY <2>1, <1>4, <1>5, <1>6, <1>7, <1>8, <1>10 DEF Goes, LookTypeOK, Works, AtFinish, Still
  <1> QED
    BY <1>9, <1>10

LEMMA RootStartGoes ==
    ASSUME LookTypeOK, NEW start, LookaheadEdge(start), NEW q \in Request, q = req_q,
           RootsPassed(q, look), AtRootStart(q, look, ev)
    PROVE  Goes(q)
  <1>1. look \in LookRegs /\ Settled \in LookRegs
    BY SettledType DEF LookTypeOK
  <1>2. look' = [Settled EXCEPT !.ev_start = TRUE, !.root_id = Outcome[q][look.jr].id,
                                !.state = "ROOT_WAIT"]
    BY LookStep DEF LookNext, AtRootStart, RootStart
  <1>3. Outcome[q][look.jr].id \in Nat
    <2>1. look.jr \in 0 .. Count[q]-1
      BY <1>1, ListTypes DEF AtRootStart, LookRegs
    <2> QED
      BY <2>1, ListTypes DEF Result
  <1>4. look' \in LookRegs
    BY <1>1, <1>2, <1>3 DEF LookRegs, LookState
  <1>5. /\ look'.state = "ROOT_WAIT" /\ look'.ev_start = TRUE /\ Kept
        /\ look'.leaf_phase = look.leaf_phase /\ look'.root_id = Root(q, look').id
    BY <1>1, <1>2 DEF Settled, LookRegs, Kept, Root
  <1>6. ev' \in EvRegs /\ ev'.left = 0 /\ ~ev'.done
    BY IdleEvaluator DEF AtRootStart
  <1>7. ~look'.done /\ RootsPassed(q, look')
    BY <1>5, KeptRootsPassed
  <1> QED
    BY <1>4, <1>5, <1>6, <1>7
       DEF Goes, LookTypeOK, Works, AtRootStart, AtRootWait, Asked, Kept

(* A waiting search settles; nothing but the evaluator moves.               *)
LEMMA WaitsOn ==
    ASSUME LookTypeOK, look' = Settled
    PROVE  /\ look' \in LookRegs /\ look'.state = look.state /\ look'.ev_start = FALSE
           /\ KeptRoot
  <1>1. look \in LookRegs
    BY DEF LookTypeOK
  <1> QED
    BY <1>1, SettledType DEF Settled, LookRegs, KeptRoot, Kept

LEMMA RootWaitGoes ==
    ASSUME LookTypeOK, NEW start, LookaheadEdge(start), NEW q \in Request, q = req_q,
           RootsPassed(q, look), AtRootWait(q, look, ev)
    PROVE  Goes(q)
  <1> DEFINE j == look.jr
             res == RootResult(q, j)
  <1>1. look \in LookRegs /\ Settled \in LookRegs /\ ev \in EvRegs
    BY SettledType DEF LookTypeOK
  <1>2. j \in 0 .. Count[q]-1 /\ j \in Nat /\ Count[q] \in Nat
    BY <1>1, ListTypes DEF AtRootWait, LookRegs
  <1>3. look' = IF ev.done THEN RootDone ELSE Settled
    BY LookStep DEF LookNext, AtRootWait
  <1>4. ~look'.ev_start
    <2>1. Settled.ev_start = FALSE /\ RootDone.ev_start = FALSE
      BY <1>1 DEF Settled, RootDone, LookRegs
    <2> QED
      BY <1>3, <2>1
  <1>5. JobNow = RootJob(q, j)
    BY DEF JobNow, RootJob, AtRootWait, RootsPassed
  <1>6. /\ ev' \in EvRegs
        /\ ev.done => ev.out = res /\ ev'.left = 0 /\ ~ev'.done
        /\ ~ev.done => \/ /\ ev'.left # 0 /\ ~ev'.done /\ ev'.job = RootJob(q, j)
                          /\ ev'.left = 1 => ev'.out = res
                       \/ ev'.left = 0 /\ ev'.done /\ ev'.out = res
    <2>1. /\ RootJob(q, j) \in Job /\ res \in EvResult /\ Evaluated(RootJob(q, j)) = res
          /\ Asked(look, ev, RootJob(q, j), res)
      BY <1>2, RootJobs DEF AtRootWait
    <2> HIDE DEF res, j
    <2> QED
      BY <2>1, <1>4, <1>5, AskedEvaluator
  <1>7. CASE ~ev.done
    <2>1. look' \in LookRegs /\ look'.state = "ROOT_WAIT" /\ KeptRoot
      BY <1>3, <1>7, WaitsOn DEF AtRootWait
    <2>2. ~look'.done /\ RootsPassed(q, look') /\ look'.jr = j
      BY <2>1, KeptRootsPassed DEF KeptRoot, Kept
    <2>3. Asked(look', ev', RootJob(q, j), res)
      BY <1>4, <1>6, <1>7 DEF Asked
    <2> QED
      BY <2>1, <2>2, <2>3, <1>6 DEF Goes, LookTypeOK, Works, AtRootWait, KeptRoot, Root
  <1>8. CASE ev.done /\ Outcome[q][j].legal
    <2>1. /\ res.id = Root(q, look).id /\ res.legal /\ res.score = Root(q, look).score
          /\ res.y = Root(q, look).y /\ res.lines = Lines[q][j] /\ res.board = <<q, j>>
      BY <1>8 DEF RootResult, Root
    <2>2. /\ res.score \in Int /\ res.y \in Nat /\ res.lines \in 0 .. 4 /\ res.board \in Board
      BY <1>2, RootJobs DEF EvResult
    <2>3. ev.out = res
      BY <1>6, <1>8
    <2> HIDE DEF res
    <2>4. look' = [Settled EXCEPT !.b1_board = res.board, !.l1 = res.lines,
                         !.s1 = res.score, !.root_y = res.y,
                         !.root_candidates = @ + 1,
                         !.branch_valid = FALSE, !.branch_score = 0, !.jl = 0,
                         !.state = "B1_CACHE"]
      BY <1>3, <1>8, <2>1, <2>3 DEF RootDone
    <2>5. look' \in LookRegs
      <3>1. Settled.root_candidates + 1 \in Nat /\ 0 \in Nat /\ 0 \in Int
        BY <1>1 DEF LookRegs
      <3> QED
        BY <1>1, <2>2, <2>4, <3>1 DEF LookRegs, LookState
    <2>6. /\ look'.state = "B1_CACHE" /\ Kept /\ look'.jl = 0 /\ look'.branch_valid = FALSE
          /\ look'.root_id = look.root_id /\ look'.b1_board = <<q, j>>
          /\ look'.l1 = Lines[q][j] /\ look'.s1 = Root(q, look).score
          /\ look'.root_y = Root(q, look).y
      BY <1>1, <2>1, <2>4 DEF Settled, LookRegs, Kept
    <2>7. ~look'.done /\ RootsPassed(q, look')
      BY <2>6, KeptRootsPassed
    <2>8. Rooted(q, look')
      BY <1>8, <2>6 DEF Rooted, Root, AtRootWait, Kept
    <2> QED
      BY <1>4, <1>6, <1>8, <2>5, <2>6, <2>7, <2>8 DEF Goes, LookTypeOK, Works, AtB1Cache, Still
  <1>9. CASE ev.done /\ ~Outcome[q][j].legal
    <2>1. ~ev.out.legal
      BY <1>6, <1>9 DEF RootResult
    <2>2. look' = [Settled EXCEPT !.jr = @ + 1, !.state = "ROOT_NEXT"]
      BY <1>3, <1>9, <2>1 DEF RootDone
    <2>3. look' \in LookRegs
      <3>1. Settled.jr + 1 \in Nat
        BY <1>1 DEF LookRegs
      <3> QED
        BY <1>1, <2>2, <3>1 DEF LookRegs, LookState
    <2>4. /\ look'.state = "ROOT_NEXT" /\ look'.done = FALSE /\ look'.jr = j + 1
          /\ look'.surv = look.surv /\ look'.fb = look.fb
          /\ look'.root_board = look.root_board /\ look'.root_heights = look.root_heights
      BY <1>1, <2>2 DEF Settled, LookRegs
    <2>5. RootsPassed(q, look')
      <3>1. /\ FirstResults(q, j) \in SUBSET Result /\ Outcome[q][j] \in Result
            /\ FirstResults(q, j+1) = FirstResults(q, j) \cup {Outcome[q][j]}
            /\ Branches(q, j+1) = Branches(q, j)
        BY <1>2, <1>9, FirstAndNext, BranchesSame
      <3>2. IsWinner(Take(look.fb, Outcome[q][j]), FirstResults(q, j+1))
        BY <3>1, TakeWins DEF RootsPassed
      <3>3. Take(look.fb, Outcome[q][j]) = look.fb
        BY <1>9 DEF Take
      <3>4. j + 1 <= Count[q]
        BY <1>2
      <3> QED
        BY <2>4, <3>1, <3>2, <3>3, <3>4 DEF RootsPassed
    <2> QED
      BY <1>4, <1>6, <1>9, <2>3, <2>4, <2>5 DEF Goes, LookTypeOK, Works, AtRootNext, Still
  <1> QED
    BY <1>7, <1>8, <1>9

LEMMA B1CacheGoes ==
    ASSUME LookTypeOK, NEW start, LookaheadEdge(start), NEW q \in Request, q = req_q,
           RootsPassed(q, look), AtB1Cache(q, look, ev)
    PROVE  Goes(q)
  <1>1. look \in LookRegs /\ Settled \in LookRegs
    BY SettledType DEF LookTypeOK
  <1>2. look' = [Settled EXCEPT !.b1_heights = look.b1_board, !.leaf_phase = TRUE,
                                !.state = "LEAF_NEXT"]
    BY LookStep DEF LookNext, AtB1Cache, B1Cache
  <1>3. look' \in LookRegs
    BY <1>1, <1>2 DEF LookRegs, LookState
  <1>4. /\ look'.state = "LEAF_NEXT" /\ look'.ev_start = FALSE /\ look'.leaf_phase = TRUE /\ Kept
        /\ look'.b1_heights = look.b1_board /\ look'.b1_board = look.b1_board
        /\ look'.jl = look.jl /\ look'.branch_valid = look.branch_valid
        /\ look'.root_id = look.root_id /\ look'.root_y = look.root_y
        /\ look'.s1 = look.s1 /\ look'.l1 = look.l1
    BY <1>1, <1>2 DEF Settled, LookRegs, Kept
  <1>5. ev' \in EvRegs /\ ev'.left = 0 /\ ~ev'.done
    BY IdleEvaluator DEF AtB1Cache
  <1>6. ~look'.done /\ RootsPassed(q, look')
    BY <1>4, KeptRootsPassed
  <1>7. LeavesVisited(q, look')
    BY <1>4, ListTypes, SecondsNone
       DEF AtB1Cache, LeavesVisited, Rooted, Root, BranchOf, Kept
  <1> QED
    BY <1>3, <1>4, <1>5, <1>6, <1>7 DEF Goes, LookTypeOK, Works, AtLeafNext, Still

LEMMA LeafNextGoes ==
    ASSUME LookTypeOK, NEW start, LookaheadEdge(start), NEW q \in Request, q = req_q,
           RootsPassed(q, look), AtLeafNext(q, look, ev)
    PROVE  Goes(q)
  <1>1. look \in LookRegs /\ Settled \in LookRegs /\ look.jl \in Nat /\ NextCount[q] \in Nat
    BY SettledType, ListTypes DEF LookTypeOK, LookRegs
  <1>2. look' = [Settled EXCEPT !.state = IF look.jl < NextCount[q]
                                          THEN "LEAF_START" ELSE "ROOT_UPDATE"]
    BY LookStep, Counts DEF LookNext, AtLeafNext, LeafNext
  <1>3. look' \in LookRegs
    BY <1>1, <1>2 DEF LookRegs, LookState
  <1>4. /\ look'.state = IF look.jl < NextCount[q] THEN "LEAF_START" ELSE "ROOT_UPDATE"
        /\ look'.ev_start = FALSE /\ KeptRoot
    BY <1>1, <1>2 DEF Settled, LookRegs, KeptRoot, Kept
  <1>5. ev' \in EvRegs /\ ev'.left = 0 /\ ~ev'.done
    BY IdleEvaluator DEF AtLeafNext
  <1>6. ~look'.done /\ RootsPassed(q, look') /\ LeavesVisited(q, look') /\ look'.jl = look.jl
    BY <1>4, KeptRootsPassed, KeptLeavesVisited DEF KeptRoot, AtLeafNext
  <1>7. look.jl <= NextCount[q]
    BY DEF AtLeafNext, LeavesVisited
  <1>8. CASE look.jl < NextCount[q]
    BY <1>3, <1>4, <1>5, <1>6, <1>8 DEF Goes, LookTypeOK, Works, AtLeafStart, Still
  <1>9. CASE ~(look.jl < NextCount[q])
    <2>1. look.jl = NextCount[q]
      BY <1>1, <1>7, <1>9
    <2> QED
      BY <1>3, <1>4, <1>5, <1>6, <1>9, <2>1 DEF Goes, LookTypeOK, Works, AtRootUpdate, Still
  <1> QED
    BY <1>8, <1>9

LEMMA LeafStartGoes ==
    ASSUME LookTypeOK, NEW start, LookaheadEdge(start), NEW q \in Request, q = req_q,
           RootsPassed(q, look), AtLeafStart(q, look, ev)
    PROVE  Goes(q)
  <1>1. look \in LookRegs /\ Settled \in LookRegs
    BY SettledType DEF LookTypeOK
  <1>2. look' = [Settled EXCEPT !.ev_start = TRUE, !.state = "LEAF_WAIT"]
    BY LookStep DEF LookNext, AtLeafStart, LeafStart
  <1>3. look' \in LookRegs
    BY <1>1, <1>2 DEF LookRegs, LookState
  <1>4. look'.state = "LEAF_WAIT" /\ look'.ev_start = TRUE /\ KeptRoot
    BY <1>1, <1>2 DEF Settled, LookRegs, KeptRoot, Kept
  <1>5. ev' \in EvRegs /\ ev'.left = 0 /\ ~ev'.done
    BY IdleEvaluator DEF AtLeafStart
  <1>6. ~look'.done /\ RootsPassed(q, look') /\ LeavesVisited(q, look') /\ look'.jl = look.jl
    BY <1>4, KeptRootsPassed, KeptLeavesVisited DEF KeptRoot, AtLeafStart
  <1> QED
    BY <1>3, <1>4, <1>5, <1>6 DEF Goes, LookTypeOK, Works, AtLeafStart, AtLeafWait, Asked

(* One more leaf into the branch value.                                     *)
LEMMA BranchTakes ==
    ASSUME NEW l, NEW m, NEW S \in SUBSET Int, NEW v \in Int, BranchOf(l, S), m.branch_valid,
           m.branch_score = IF ~l.branch_valid \/ v > l.branch_score THEN v ELSE l.branch_score
    PROVE  BranchOf(m, S \cup {v})
  <1>1. CASE ~l.branch_valid
    <2>1. m.branch_score = v /\ S = {}
      BY <1>1 DEF BranchOf
    <2> QED
      BY <2>1 DEF BranchOf, IsHighest
  <1>2. CASE l.branch_valid
    <2>1. /\ l.branch_score \in S /\ l.branch_score \in Int
          /\ \A s \in S : s \in Int /\ s <= l.branch_score
          /\ m.branch_score = IF v > l.branch_score THEN v ELSE l.branch_score
      BY <1>2 DEF BranchOf, IsHighest
    <2>2. m.branch_score \in S \cup {v}
      BY <2>1
    <2>3. ASSUME NEW s \in S \cup {v} PROVE s <= m.branch_score
      <3>1. s \in Int /\ (s <= l.branch_score \/ s = v)
        BY <2>1
      <3> QED
        BY <2>1, <3>1
    <2> QED
      BY <2>2, <2>3 DEF BranchOf, IsHighest
  <1> QED
    BY <1>1, <1>2

LEMMA LeafWaitGoes ==
    ASSUME LookTypeOK, NEW start, LookaheadEdge(start), NEW q \in Request, q = req_q,
           RootsPassed(q, look), AtLeafWait(q, look, ev)
    PROVE  Goes(q)
  <1> DEFINE j == look.jr
             i == look.jl
             res == LeafResult(q, j, i)
             v == Leaf[q][j][i].score + WL * Lines[q][j]
             S == Seconds(q, j, i)
  <1>1. look \in LookRegs /\ Settled \in LookRegs /\ ev \in EvRegs
    BY SettledType DEF LookTypeOK
  <1>2. /\ j \in 0 .. Count[q]-1 /\ i \in 0 .. NextCount[q]-1 /\ i \in Nat
        /\ Count[q] \in Nat /\ NextCount[q] \in Nat
    BY <1>1, ListTypes DEF AtLeafWait, LeavesVisited, Rooted, LookRegs
  <1>3. look' = IF ev.done THEN LeafDone ELSE Settled
    BY LookStep DEF LookNext, AtLeafWait
  <1>4. ~look'.ev_start
    <2>1. Settled.ev_start = FALSE /\ LeafDone.ev_start = FALSE
      BY <1>1 DEF Settled, LeafDone, LookRegs
    <2> QED
      BY <1>3, <2>1
  <1>5. JobNow = LeafJob(q, j, i)
    BY DEF JobNow, LeafJob, AtLeafWait, LeavesVisited, Rooted
  <1>6. /\ ev' \in EvRegs
        /\ ev.done => ev.out = res /\ ev'.left = 0 /\ ~ev'.done
        /\ ~ev.done => \/ /\ ev'.left # 0 /\ ~ev'.done /\ ev'.job = LeafJob(q, j, i)
                          /\ ev'.left = 1 => ev'.out = res
                       \/ ev'.left = 0 /\ ev'.done /\ ev'.out = res
    <2>1. /\ LeafJob(q, j, i) \in Job /\ res \in EvResult /\ Evaluated(LeafJob(q, j, i)) = res
          /\ Asked(look, ev, LeafJob(q, j, i), res)
      BY <1>2, LeafJobs DEF AtLeafWait
    <2> HIDE DEF res, i, j
    <2> QED
      BY <2>1, <1>4, <1>5, AskedEvaluator
  <1>7. CASE ~ev.done
    <2>1. look' \in LookRegs /\ look'.state = "LEAF_WAIT" /\ KeptRoot
      BY <1>3, <1>7, WaitsOn DEF AtLeafWait
    <2>2. ~look'.done /\ RootsPassed(q, look') /\ LeavesVisited(q, look')
          /\ look'.jr = j /\ look'.jl = i
      BY <2>1, KeptRootsPassed, KeptLeavesVisited DEF KeptRoot, Kept, AtLeafWait
    <2>3. Asked(look', ev', LeafJob(q, j, i), res)
      BY <1>4, <1>6, <1>7 DEF Asked
    <2> QED
      BY <2>1, <2>2, <2>3, <1>2, <1>6 DEF Goes, LookTypeOK, Works, AtLeafWait
  <1>8. CASE ev.done
    <2> DEFINE legal == Leaf[q][j][i].legal
               better == legal /\ (~look.branch_valid \/ v > look.branch_score)
    <2>1. ev.out.legal = legal /\ ev.out.score = Leaf[q][j][i].score
      BY <1>6, <1>8 DEF LeafResult
    <2>2. S2 = v /\ v \in Int
      <3>1. look.l1 = Lines[q][j] /\ Lines[q][j] \in Nat /\ WL \in Nat
        BY <1>2, ListTypes DEF AtLeafWait, LeavesVisited, Rooted
      <3>2. Leaf[q][j][i].score \in Int
        BY <1>2, ListTypes DEF Result
      <3> QED
        BY <2>1, <3>1, <3>2 DEF S2, Bonus
    <2>3. /\ look' \in LookRegs
          /\ look'.state = "LEAF_NEXT"
          /\ look'.jl = i + 1 /\ (look'.branch_valid <=> look.branch_valid \/ better)
          /\ look'.branch_score = IF better THEN v ELSE look.branch_score
      <3> DEFINE b == ev.out.legal /\ (~look.branch_valid \/ S2 > look.branch_score)
                 n == IF ev.out.legal THEN Settled.leaf_candidates + 1
                                      ELSE Settled.leaf_candidates
                 valid == Settled.branch_valid \/ b
                 score == IF b THEN S2 ELSE Settled.branch_score
      <3>1. look' = [Settled EXCEPT !.leaf_candidates = n, !.branch_valid = valid,
                        !.branch_score = score, !.jl = @ + 1, !.state = "LEAF_NEXT"]
        BY <1>3, <1>8 DEF LeafDone
      <3>2. n \in Nat /\ Settled.jl + 1 \in Nat /\ score \in Int /\ valid \in BOOLEAN
        BY <1>1, <2>2 DEF LookRegs
      <3>3. /\ b <=> better
            /\ Settled.branch_valid = look.branch_valid /\ Settled.jl = i
            /\ Settled.branch_score = look.branch_score
        BY <1>1, <2>1, <2>2 DEF Settled, LookRegs
      <3>4. /\ valid <=> look.branch_valid \/ better
            /\ score = IF better THEN v ELSE look.branch_score
        BY <2>2, <3>3
      <3> HIDE DEF b, better, n, valid, score
      <3>5. look' \in LookRegs
        BY <1>1, <3>1, <3>2 DEF LookRegs, LookState
      <3>6. /\ look'.state = "LEAF_NEXT" /\ look'.jl = i + 1
            /\ look'.branch_valid = valid /\ look'.branch_score = score
        BY <1>1, <3>1, <3>3 DEF LookRegs
      <3> QED
        BY <3>4, <3>5, <3>6
    <2>4. /\ Kept /\ look'.b1_board = look.b1_board /\ look'.b1_heights = look.b1_heights
          /\ look'.leaf_phase = look.leaf_phase
          /\ look'.root_id = look.root_id /\ look'.root_y = look.root_y
          /\ look'.s1 = look.s1 /\ look'.l1 = look.l1
      BY <1>1, <1>3, <1>8 DEF LeafDone, Settled, LookRegs, Kept
    <2>5. ~look'.done /\ RootsPassed(q, look')
      BY <2>4, KeptRootsPassed
    <2>6. BranchOf(look', Seconds(q, j, i + 1))
      <3>1. S \in SUBSET Int /\ BranchOf(look, S)
        BY <1>2, SecondsType DEF AtLeafWait, LeavesVisited
      <3>2. CASE legal
        <4>1. Seconds(q, j, i + 1) = S \cup {v}
          BY <1>2, <3>2, SecondsNext
        <4>2. look'.branch_valid /\ look'.branch_score =
                IF ~look.branch_valid \/ v > look.branch_score THEN v ELSE look.branch_score
          BY <2>3, <3>2
        <4> HIDE DEF v, S
        <4> QED
          BY <2>2, <3>1, <4>1, <4>2, BranchTakes
      <3>3. CASE ~legal
        <4>1. Seconds(q, j, i + 1) = S
          BY <1>2, <3>3, SecondsNext
        <4> QED
          BY <2>3, <3>1, <3>3, <4>1 DEF BranchOf
      <3> QED
        BY <3>2, <3>3
    <2>7. LeavesVisited(q, look')
      <3>1. look'.jr = j /\ look'.jl = i + 1 /\ i + 1 <= NextCount[q]
        BY <1>2, <2>3, <2>4 DEF Kept
      <3> QED
        BY <2>4, <2>6, <3>1 DEF AtLeafWait, LeavesVisited, Rooted, Root
    <2> QED
      BY <1>4, <1>6, <1>8, <2>3, <2>5, <2>7 DEF Goes, LookTypeOK, Works, AtLeafNext, Still
  <1> QED
    BY <1>7, <1>8

LEMMA RootUpdateGoes ==
    ASSUME LookTypeOK, NEW start, LookaheadEdge(start), NEW q \in Request, q = req_q,
           RootsPassed(q, look), AtRootUpdate(q, look, ev)
    PROVE  Goes(q)
  <1> DEFINE j == look.jr
             c == Outcome[q][j]
             d == RootRecord(look.branch_score)
  <1>1. look \in LookRegs /\ Settled \in LookRegs
    BY SettledType DEF LookTypeOK
  <1>2. j \in 0 .. Count[q]-1 /\ j \in Nat /\ Count[q] \in Nat /\ c \in Result /\ c.legal
    BY <1>1, ListTypes DEF AtRootUpdate, LeavesVisited, Rooted, Root, LookRegs
  <1>3. /\ RootRecord(look.s1) = c
        /\ d = [id |-> c.id, legal |-> TRUE, score |-> look.branch_score, y |-> c.y]
    <2>1. c = [id |-> c.id, legal |-> TRUE, score |-> c.score, y |-> c.y]
      BY <1>2 DEF Result
    <2>2. look.root_id = c.id /\ look.s1 = c.score /\ look.root_y = c.y
      BY DEF AtRootUpdate, LeavesVisited, Rooted, Root
    <2> HIDE DEF c
    <2> QED
      BY <2>1, <2>2 DEF RootRecord
  <1>4. look' = [Settled EXCEPT
                    !.surv = IF look.branch_valid THEN Take(@, d) ELSE @,
                    !.fb = Take(@, c), !.jr = @ + 1, !.state = "ROOT_NEXT"]
    BY <1>3, LookStep DEF LookNext, AtRootUpdate, RootUpdate
  <1> HIDE DEF d
  <1>5. /\ IsWinner(look.surv, Branches(q, j)) /\ IsWinner(look.fb, FirstResults(q, j))
        /\ Branches(q, j) \in SUBSET Result /\ BranchOf(look, Seconds(q, j, NextCount[q]))
    BY DEF RootsPassed, AtRootUpdate, LeavesVisited
  <1>6. FirstResults(q, j) \in SUBSET Result /\ FirstResults(q, j+1) = FirstResults(q, j) \cup {c}
    BY <1>2, FirstAndNext
  <1>7. IsWinner(Take(look.fb, c), FirstResults(q, j+1))
    BY <1>2, <1>5, <1>6, TakeWins
  <1>8. /\ Branches(q, j+1) \subseteq Result /\ (look.branch_valid => d \in Result)
        /\ IsWinner(IF look.branch_valid THEN Take(look.surv, d) ELSE look.surv, Branches(q, j+1))
    <2>1. CASE look.branch_valid
      <3>1. IsHighest(look.branch_score, Seconds(q, j, NextCount[q]))
        BY <1>5, <2>1 DEF BranchOf
      <3>2. d \in Result /\ Branches(q, j+1) = Branches(q, j) \cup {d}
        <4> DEFINE v == Valued(q, j, look.branch_score)
        <4>1. /\ Branches(q, j+1) = Branches(q, j) \cup {v} /\ v \in Result
              /\ v = [id |-> c.id, legal |-> TRUE, score |-> look.branch_score, y |-> c.y]
          BY <1>2, <3>1, BranchesGrow
        <4> HIDE DEF v
        <4> QED
          BY <1>3, <4>1
      <3> QED
        BY <1>5, <2>1, <3>2, TakeWins
    <2>2. CASE ~look.branch_valid
      <3>1. Branches(q, j+1) = Branches(q, j)
        BY <1>2, <1>5, <2>2, BranchesSame DEF BranchOf
      <3> QED
        BY <1>5, <2>2, <3>1
    <2> QED
      BY <2>1, <2>2
  <1>9. look' \in LookRegs
    <2>1. /\ Settled.surv = look.surv /\ Settled.fb = look.fb
          /\ look.surv \in Best /\ look.fb \in Best /\ Settled.jr + 1 \in Nat
      BY <1>1 DEF Settled, LookRegs
    <2>2. /\ (IF look.branch_valid THEN Take(look.surv, d) ELSE look.surv) \in Best
          /\ Take(look.fb, c) \in Best
      BY <1>2, <1>8, <2>1, TakeType
    <2> QED
      BY <1>1, <1>4, <2>1, <2>2 DEF LookRegs, LookState
  <1>10. /\ look'.state = "ROOT_NEXT" /\ look'.ev_start = FALSE /\ look'.done = FALSE
         /\ look'.root_board = look.root_board /\ look'.root_heights = look.root_heights
         /\ look'.surv = IF look.branch_valid THEN Take(look.surv, d) ELSE look.surv
         /\ look'.fb = Take(look.fb, c) /\ look'.jr = j + 1
    BY <1>1, <1>4 DEF Settled, LookRegs
  <1>11. ev' \in EvRegs /\ ev'.left = 0 /\ ~ev'.done
    BY IdleEvaluator DEF AtRootUpdate
  <1>12. RootsPassed(q, look')
    <2>1. j + 1 <= Count[q]
      BY <1>2
    <2>2. look.root_board = <<q>> /\ look.root_heights = <<q>>
      BY DEF RootsPassed
    <2> HIDE DEF j, c
    <2> QED
      BY <1>7, <1>8, <1>10, <2>1, <2>2 DEF RootsPassed
  <1> QED
    BY <1>9, <1>10, <1>11, <1>12 DEF Goes, LookTypeOK, Works, AtRootNext, Still

LEMMA FinishGoes ==
    ASSUME LookTypeOK, NEW start, LookaheadEdge(start), NEW q \in Request, q = req_q,
           RootsPassed(q, look), AtFinish(q, look, ev)
    PROVE  Goes(q)
  <1>1. look \in LookRegs /\ Settled \in LookRegs
    BY SettledType DEF LookTypeOK
  <1>2. look' = [Settled EXCEPT !.best = IF look.surv.valid THEN look.surv ELSE look.fb,
                                !.done = TRUE, !.state = "IDLE"]
    BY LookStep DEF LookNext, AtFinish, Finish
  <1>3. look' \in LookRegs
    <2>1. (IF look.surv.valid THEN look.surv ELSE look.fb) \in Best
      BY <1>1 DEF LookRegs
    <2> QED
      BY <1>1, <1>2, <2>1 DEF LookRegs, LookState
  <1>4. /\ look'.state = "IDLE" /\ look'.ev_start = FALSE /\ look'.done = TRUE
        /\ look'.best = IF look.surv.valid THEN look.surv ELSE look.fb
    BY <1>1, <1>2 DEF Settled, LookRegs
  <1>5. ev' \in EvRegs /\ ev'.left = 0 /\ ~ev'.done
    BY IdleEvaluator DEF AtFinish
  <1>6. look'.best = TwoPieceWinner(q)
    <2>1. /\ Branches(q, Count[q]) \subseteq Result
          /\ IsWinner(look.surv, Branches(q, Count[q])) /\ IsWinner(look.fb, Results(q))
      BY FirstIsAll DEF AtFinish, RootsPassed
    <2> QED
      BY <1>4, <2>1, FinishDecides
  <1> QED
    BY <1>3, <1>4, <1>5, <1>6 DEF Goes, LookTypeOK, Done, AtRest, Still

(* A working search goes on, or is done with the winner.                    *)
LEMMA WorkGoes ==
    ASSUME LookTypeOK, NEW start, LookaheadEdge(start), NEW q \in Request, q = req_q,
           Works(q, look, ev)
    PROVE  Goes(q)
  BY RootNextGoes, RootStartGoes, RootWaitGoes, B1CacheGoes, LeafNextGoes, LeafStartGoes,
     LeafWaitGoes, RootUpdateGoes, FinishGoes DEF Works

(* What is said of the registers after an edge is said of the next state.   *)
LEMMA FollowWorks ==
    ASSUME NEW q, q = req_q', Works(q, look', ev') PROVE Works(req_q, look, ev)'
  <1>1. Works(req_q', look', ev')
    OBVIOUS
  <1> QED
  BY <1>1 DEF Works, RootsPassed, AtRootNext, AtRootStart, AtRootWait, AtB1Cache, AtLeafNext,
         AtLeafStart, AtLeafWait, AtRootUpdate, AtFinish, LeavesVisited, Rooted, Root, BranchOf,
         IsHighest, Still, Asked, RootJob, LeafJob, RootResult, LeafResult, IsWinner, Branches,
         Survivors, LegalRoots, Seconds, FirstResults

LEMMA FollowDone ==
    ASSUME NEW q, q = req_q', Done(q, look', ev') PROVE Done(req_q, look, ev)'
  <1>1. Done(req_q', look', ev')
    OBVIOUS
  <1> QED
  BY <1>1 DEF Done, AtRest, Still, TwoPieceWinner, Branches, Survivors, LegalRoots, Seconds, Results,
         IsWinner

LEMMA QuietSearch ==
    ASSUME LookTypeOK, Quiet, Engine, ~search_start' PROVE LookTypeOK' /\ Quiet'
  <1>1. LookTypeOK' /\ AtRest(look', ev') /\ ~look'.done
    BY RestStays DEF Quiet, Engine
  <1> QED
    BY <1>1 DEF Quiet, AtRest, Still

-----------------------------------------------------------------------------
LEMMA ResetQuiet ==
    /\ LookReset \in LookRegs /\ EvReset(NoJob, NoResult) \in EvRegs
    /\ AtRest(LookReset, EvReset(NoJob, NoResult)) /\ ~LookReset.done
  <1>1. FALSE \in BOOLEAN /\ 0 \in Nat /\ 0 \in Int /\ 0 \in 0 .. MaxEval /\ 0 \in 0 .. 4
    BY MaxEvalAssumption
  <1>2. "IDLE" \in LookState /\ NoBoard \in Board /\ NoBest \in Best
    BY NoBestType DEF LookState, Board
  <1>3. LookReset \in LookRegs
    BY <1>1, <1>2, Zenon DEF LookReset, LookRegs
  <1>4. NoJob \in Job /\ NoResult \in EvResult
    BY <1>1, <1>2, Zenon DEF NoJob, Job, NoResult, EvResult
  <1>5. EvReset(NoJob, NoResult) \in EvRegs
    BY <1>1, <1>4, Zenon DEF EvReset, EvRegs
  <1>6. /\ LookReset.state = "IDLE" /\ LookReset.ev_start = FALSE /\ LookReset.done = FALSE
        /\ EvReset(NoJob, NoResult).left = 0 /\ EvReset(NoJob, NoResult).done = FALSE
    BY DEF LookReset, EvReset
  <1> QED
    BY <1>3, <1>5, <1>6 DEF AtRest, Still

LEMMA InitIInv == Init => IInv
  <1> SUFFICES ASSUME Init PROVE IInv
    OBVIOUS
  <1>1. CoreTypeOK
    BY CoreInitType DEF Init
  <1>2. LookTypeOK /\ AtRest(look, ev) /\ ~look.done
    BY ResetQuiet DEF Init, LookInit, LookTypeOK
  <1> QED
    BY <1>1, <1>2 DEF IInv, Init, CoreInit, Quiet, InIdle, InCache, InStart, InWait,
                      InFinalize, InRespond

-----------------------------------------------------------------------------
(* One lemma per edge: it keeps the invariant.                              *)
LEMMA ResetKeeps == ASSUME IInv, ResetEdge PROVE IInv'
  <1>1. CoreTypeOK'
    BY ResetType DEF ResetEdge
  <1>2. LookTypeOK' /\ AtRest(look', ev') /\ ~look'.done
    BY ResetQuiet DEF ResetEdge, LookaheadReset, LookTypeOK
  <1> QED
    BY <1>1, <1>2
       DEF IInv, ResetEdge, CoreReset, Quiet, AtRest, Still, InIdle, InCache, InStart, InWait,
           InFinalize, InRespond

LEMMA RestKeeps == ASSUME IInv, IdleEdge \/ HoldEdge \/ ConsumeEdge PROVE IInv'
  <1>1. CoreTypeOK'
    BY RestType DEF IInv, IdleEdge, HoldEdge, ConsumeEdge
  <1>2. LookTypeOK /\ Quiet /\ Engine /\ ~search_start'
    BY DEF IInv, InIdle, InRespond, IdleEdge, HoldEdge, ConsumeEdge, Idle, Hold, Consume
  <1>3. LookTypeOK' /\ Quiet'
    BY <1>2, QuietSearch
  <1>4. CASE HoldEdge
    <2>1. InRespond' /\ (rsp_valid => state = "RESPOND")'
      BY <1>3, <1>4 DEF IInv, HoldEdge, Hold, Latched, InRespond, TwoPieceDecision
    <2> QED
      BY <1>1, <1>3, <1>4, <2>1
         DEF IInv, HoldEdge, Hold, InIdle, InCache, InStart, InWait, InFinalize
  <1>5. CASE IdleEdge \/ ConsumeEdge
    BY <1>1, <1>3, <1>5
       DEF IInv, IdleEdge, ConsumeEdge, Idle, Consume, InIdle, InCache, InStart, InWait,
           InFinalize, InRespond
  <1> QED
    BY <1>4, <1>5

LEMMA AcceptKeeps == ASSUME IInv, NEW r \in Request, AcceptEdge(r) PROVE IInv'
  <1>1. CoreTypeOK'
    BY AcceptType DEF IInv, AcceptEdge
  <1>2. LookTypeOK /\ Quiet /\ Engine /\ ~search_start' /\ ~rsp_valid
    BY DEF IInv, InIdle, AcceptEdge, Accept
  <1>3. LookTypeOK' /\ Quiet'
    BY <1>2, QuietSearch
  <1> QED
    BY <1>1, <1>2, <1>3
       DEF IInv, AcceptEdge, Accept, Latched, InIdle, InCache, InStart, InWait,
           InFinalize, InRespond

LEMMA CacheKeeps == ASSUME IInv, CacheEdge PROVE IInv'
  <1>1. CoreTypeOK'
    BY CacheType DEF IInv, CacheEdge
  <1>2. LookTypeOK /\ Quiet /\ Engine /\ ~search_start' /\ ~rsp_valid /\ Latched
    BY DEF IInv, InCache, CacheEdge, Cache
  <1>3. LookTypeOK' /\ Quiet'
    BY <1>2, QuietSearch
  <1> QED
    BY <1>1, <1>2, <1>3
       DEF IInv, CacheEdge, Cache, Latched, Searching, InIdle, InCache, InStart, InWait,
           InFinalize, InRespond

LEMMA SearchStartKeeps == ASSUME IInv, SearchStartEdge PROVE IInv'
  <1>1. CoreTypeOK'
    BY SearchStartType DEF IInv, SearchStartEdge
  <1>2. LookTypeOK /\ Quiet /\ LookaheadEdge(search_start) /\ ~rsp_valid /\ Searching
    BY DEF IInv, InStart, SearchStartEdge, SearchStart, Engine
  <1>3. LookTypeOK' /\ AtRest(look', ev') /\ ~look'.done
    BY <1>2, RestStays DEF Quiet
  <1> QED
    BY <1>1, <1>2, <1>3
       DEF IInv, SearchStartEdge, SearchStart, Latched, Searching, AtRest, Still,
           InIdle, InCache, InStart, InWait, InFinalize, InRespond

LEMMA SearchWaitKeeps == ASSUME IInv, SearchWaitEdge PROVE IInv'
  <1>0. /\ state = "SEARCH_WAIT" /\ ~rsp_valid /\ Searching /\ CoreTypeOK /\ LookTypeOK
        /\ LookaheadEdge(search_start)
    BY DEF IInv, InWait, SearchWaitEdge, SearchWait, Engine
  <1>1. CoreTypeOK'
    <2>1. SearchDone \in SUBSET Lane /\ SearchBest \in [Lane -> Best]
      BY <1>0 DEF SearchDone, SearchBest, LookTypeOK, LookRegs
    <2> QED
      BY <1>0, <2>1, SearchWaitType DEF SearchWaitEdge
  <1>2. AllDone(SearchDone) <=> look.done
    <2>1. Lane # {} /\ DEPTH = 2
      BY RkFacts, LookaheadAssumption
    <2> QED
      BY <2>1 DEF AllDone, SearchDone
  <1>3. /\ UNCHANGED <<req_q, heights_q, err_q, rsp_valid, rsp>> /\ ~search_start'
        /\ state' = IF look.done THEN "FINALIZE" ELSE "SEARCH_WAIT"
        /\ look.done => cbest' = look.best
    <2>1. DEPTH = 2 /\ SearchBest[0] = look.best
      BY RkFacts, LookaheadAssumption DEF SearchBest
    <2> QED
      BY <1>0, <1>2, <2>1 DEF SearchWaitEdge, SearchWait
  <1>4. PICK q \in Request : q = req_q
    BY <1>0 DEF Searching, Latched
  <1>5. Searching' /\ Latched' /\ q = req_q'
    BY <1>0, <1>3, <1>4 DEF Searching, Latched
  <1>6. CASE ~look.done
    <2>1. Goes(q)
      <3>1. CASE search_start
        <4>1. AtRest(look, ev)
          BY <1>0, <3>1 DEF IInv, InWait
        <4> QED
          BY <1>0, <1>4, <3>1, <4>1, StartGoes
      <3>2. CASE ~search_start
        <4>1. Works(q, look, ev)
          BY <1>0, <1>4, <1>6, <3>2 DEF IInv, InWait, Done
        <4> QED
          BY <1>0, <1>4, <4>1, WorkGoes
      <3> QED
        BY <3>1, <3>2
    <2>2. LookTypeOK' /\ (Works(req_q, look, ev)' \/ Done(req_q, look, ev)')
      BY <1>5, <2>1, FollowWorks, FollowDone DEF Goes
    <2>3. InWait'
      BY <1>3, <1>5, <2>2 DEF InWait
    <2> QED
      BY <1>0, <1>1, <1>3, <1>6, <2>2, <2>3
         DEF IInv, InIdle, InCache, InStart, InFinalize, InRespond
  <1>7. CASE look.done
    <2>1. ~search_start /\ AtRest(look, ev) /\ look.best = TwoPieceWinner(q)
      BY <1>0, <1>4, <1>7 DEF IInv, InWait, Works, Done
    <2>2. LookTypeOK' /\ AtRest(look', ev') /\ ~look'.done
      BY <1>0, <2>1, RestStays
    <2>3. Quiet'
      BY <1>3, <2>2 DEF Quiet, AtRest, Still
    <2>4. (cbest = TwoPieceWinner(req_q))'
      BY <1>3, <1>5, <1>7, <2>1
    <2> QED
      BY <1>0, <1>1, <1>3, <1>5, <1>7, <2>2, <2>3, <2>4
         DEF IInv, InIdle, InCache, InStart, InWait, InFinalize, InRespond
  <1> QED
    BY <1>6, <1>7

(* What FINALIZE writes is the decision of the two-piece rule.              *)
LEMMA FinalizeTwoPiece ==
    ASSUME Latched, ~err_q => cbest = TwoPieceWinner(req_q), Finalize
    PROVE  rsp' = TwoPieceDecision[req_q] /\ req_q \in Request
  <1>1. rsp' = Respond(err_q, cbest)
    BY DEF Finalize
  <1>2. TwoPieceDecision[req_q] =
            Respond(req_q \in Invalid, IF req_q \in Invalid THEN NoBest ELSE TwoPieceWinner(req_q))
    BY DEF TwoPieceDecision, Latched
  <1>3. CASE err_q
    BY <1>1, <1>2, <1>3 DEF Latched, Respond
  <1>4. CASE ~err_q
    BY <1>1, <1>2, <1>4 DEF Latched, Respond
  <1> QED
    BY <1>3, <1>4 DEF Latched

LEMMA FinalizeKeeps == ASSUME IInv, FinalizeEdge PROVE IInv'
  <1>0. /\ state = "FINALIZE" /\ Engine /\ Quiet /\ Latched /\ Finalize /\ LookTypeOK
        /\ (~err_q => cbest = TwoPieceWinner(req_q))
    BY DEF IInv, InFinalize, FinalizeEdge, Finalize
  <1>1. CoreTypeOK' /\ rsp' \in Response
    BY <1>0, FinalizeType DEF IInv
  <1>2. rsp' = TwoPieceDecision[req_q] /\ rsp' # NoResponse
    BY <1>0, <1>1, FinalizeTwoPiece, CoreAssumption
  <1>3. LookTypeOK' /\ Quiet'
    BY <1>0, QuietSearch DEF Finalize
  <1>4. state' = "RESPOND" /\ rsp_valid' /\ req_q' = req_q /\ Latched'
    BY <1>0, Zenon DEF Finalize, Latched
  <1>5. (rsp = TwoPieceDecision[req_q])'
    BY <1>2, <1>4 DEF TwoPieceDecision
  <1> QED
    BY <1>1, <1>2, <1>3, <1>4, <1>5
       DEF IInv, InIdle, InCache, InStart, InWait, InFinalize, InRespond

LEMMA StutterKeeps == ASSUME IInv, UNCHANGED vars PROVE IInv'
  <1>1. UNCHANGED coreVars /\ UNCHANGED <<look, ev>>
    BY DEF vars, lookVars
  <1>2. CoreTypeOK' /\ LookTypeOK'
    BY <1>1 DEF IInv, CoreTypeOK, coreVars, LookTypeOK
  <1>3. /\ Quiet => Quiet'
        /\ AtRest(look, ev) => AtRest(look, ev)'
    BY <1>1 DEF Quiet, AtRest, Still, coreVars
  <1>4. UNCHANGED <<Latched, Searching, state, search_start, rsp_valid, rsp, err_q, cbest, req_q>>
    BY <1>1 DEF Latched, Searching, coreVars
  <1>5. /\ Works(req_q, look, ev) => Works(req_q, look, ev)'
        /\ Done(req_q, look, ev) => Done(req_q, look, ev)'
    BY <1>1, <1>4, FollowWorks, FollowDone
  <1> QED
    BY <1>1, <1>2, <1>3, <1>4, <1>5
       DEF IInv, InIdle, InCache, InStart, InWait, InFinalize, InRespond, TwoPieceDecision

LEMMA Inductive == ASSUME IInv, [Next]_vars PROVE IInv'
  <1>1. CASE ResetEdge
    BY <1>1, ResetKeeps
  <1>2. CASE IdleEdge \/ HoldEdge \/ ConsumeEdge
    BY <1>2, RestKeeps
  <1>3. CASE \E r \in Request : AcceptEdge(r)
    BY <1>3, AcceptKeeps
  <1>4. CASE CacheEdge
    BY <1>4, CacheKeeps
  <1>5. CASE SearchStartEdge
    BY <1>5, SearchStartKeeps
  <1>6. CASE SearchWaitEdge
    BY <1>6, SearchWaitKeeps
  <1>7. CASE FinalizeEdge
    BY <1>7, FinalizeKeeps
  <1>8. CASE UNCHANGED vars
    BY <1>8, StutterKeeps
  <1> QED
    BY <1>1, <1>2, <1>3, <1>4, <1>5, <1>6, <1>7, <1>8 DEF Next

(* The inductive invariant holds in every reachable state.                  *)
THEOREM LookaheadInvariance == Spec => []IInv
  BY InitIInv, Inductive, PTL DEF Spec

-----------------------------------------------------------------------------
(* The registers of the core, the lookahead and its evaluator keep their    *)
(* types.                                                                   *)
THEOREM LookaheadTypeCorrect == Spec => []TypeOK
  <1>1. IInv => TypeOK
    BY DEF IInv, TypeOK
  <1> QED
    BY <1>1, LookaheadInvariance, PTL

(* A search that runs, or an evaluator that is asked or busy, serves the    *)
(* latched request under SEARCH_WAIT.                                       *)
LEMMA WorkingSearch ==
    ASSUME IInv, look.state # "IDLE" \/ look.ev_start \/ EvBusy(ev)
    PROVE  Works(req_q, look, ev)
  <1>1. ~AtRest(look, ev)
    BY DEF AtRest, Still, EvBusy
  <1>2. state = "SEARCH_WAIT"
    BY <1>1 DEF IInv, CoreTypeOK, State, InIdle, InCache, InStart, InFinalize, InRespond, Quiet
  <1> QED
    BY <1>1, <1>2 DEF IInv, InWait, Done

(* The shared evaluator is never asked for, and never works on, a board     *)
(* with another board's heights, a leaf on another root's board, or a root  *)
(* on another request's (search_depth2.sv:153,160,170).                     *)
THEOREM OneJobAtATime == Spec => []JobsAreConsistent
  <1>1. IInv => JobsAreConsistent
    <2> DEFINE job == IF EvBusy(ev) THEN ev.job ELSE JobNow
    <2> SUFFICES ASSUME IInv, EvBusy(ev) \/ look.ev_start
                 PROVE  /\ job.board = job.heights
                        /\ job.board = IF job.leaf THEN <<req_q, look.jr>> ELSE <<req_q>>
      BY DEF JobsAreConsistent
    <2>1. Works(req_q, look, ev)
      BY WorkingSearch
    <2>2. CASE AtRootWait(req_q, look, ev)
      <3>1. /\ look.root_board = <<req_q>> /\ look.root_heights = <<req_q>>
            /\ look.leaf_phase = FALSE
        BY <2>1, <2>2 DEF Works, RootsPassed, AtRootWait, IInv, LookTypeOK, LookRegs
      <3>2. /\ job.board = <<req_q>> /\ job.heights = <<req_q>> /\ ~job.leaf
        BY <2>2, <3>1 DEF AtRootWait, Asked, RootJob, JobNow, EvBusy
      <3> QED
        BY <3>2
    <2>3. CASE AtLeafWait(req_q, look, ev)
      <3>1. /\ look.b1_board = <<req_q, look.jr>> /\ look.b1_heights = <<req_q, look.jr>>
            /\ look.leaf_phase
        BY <2>3 DEF AtLeafWait, LeavesVisited, Rooted
      <3>2. /\ job.board = <<req_q, look.jr>> /\ job.heights = <<req_q, look.jr>> /\ job.leaf
        BY <2>3, <3>1 DEF AtLeafWait, Asked, LeafJob, JobNow, EvBusy
      <3> QED
        BY <3>2
    <2>4. CASE Still(look, ev)
      BY <2>4 DEF Still, EvBusy
    <2> QED
      BY <2>1, <2>2, <2>3, <2>4
         DEF Works, AtRootNext, AtRootStart, AtB1Cache, AtLeafNext, AtLeafStart, AtRootUpdate,
             AtFinish
  <1> QED
    BY <1>1, LookaheadInvariance, PTL

(* While a search runs, surv and fb are the winners over the finished roots *)
(* and the branch registers those of the leaves visited: nothing of another *)
(* root, leaf or request reaches them (search_depth2.sv:200,222,236).       *)
THEOREM BestsAreOfFinishedRoots == Spec => []BestsOfFinishedRoots
  <1>1. IInv => BestsOfFinishedRoots
    <2> SUFFICES ASSUME IInv, look.state # "IDLE"
                 PROVE  /\ IsWinner(look.surv, Branches(req_q, look.jr))
                        /\ IsWinner(look.fb, FirstResults(req_q, look.jr))
                        /\ look.state \in {"LEAF_NEXT", "LEAF_START", "LEAF_WAIT", "ROOT_UPDATE"}
                               => BranchOfVisited
      BY DEF BestsOfFinishedRoots
    <2>1. Works(req_q, look, ev)
      BY WorkingSearch
    <2>2. req_q \in Request /\ look \in LookRegs
      <3>1. state = "SEARCH_WAIT"
        BY DEF IInv, CoreTypeOK, State, InIdle, InCache, InStart, InFinalize, InRespond, Quiet,
               AtRest
      <3> QED
        BY <3>1 DEF IInv, InWait, Searching, Latched, LookTypeOK
    <2>3. ASSUME look.state \in {"LEAF_NEXT", "LEAF_START", "LEAF_WAIT", "ROOT_UPDATE"}
          PROVE  BranchOfVisited
      <3> DEFINE S == Seconds(req_q, look.jr, look.jl)
      <3>1. LeavesVisited(req_q, look)
        BY <2>1, <2>3
           DEF Works, AtRootNext, AtRootStart, AtRootWait, AtB1Cache, AtLeafNext, AtLeafStart,
               AtLeafWait, AtRootUpdate, AtFinish
      <3>2. /\ look.jr \in 0 .. Count[req_q]-1 /\ look.jl \in Nat
            /\ look.jl <= NextCount[req_q] /\ BranchOf(look, S)
        BY <2>2, <3>1, ListTypes DEF LeavesVisited, Rooted, LookRegs
      <3>3. S \in SUBSET Int
        BY <2>2, <3>2, SecondsType
      <3>4. CASE look.branch_valid
        <4>1. S # {} /\ look.branch_score = Highest(S)
          BY <3>2, <3>3, <3>4, HighestIs DEF BranchOf, IsHighest
        <4> QED
          BY <3>1, <3>4, <4>1 DEF BranchOfVisited, LeavesVisited, Rooted, Root
      <3>5. CASE ~look.branch_valid
        <4>1. S = {}
          BY <3>2, <3>5 DEF BranchOf
        <4> QED
          BY <3>1, <3>5, <4>1 DEF BranchOfVisited, LeavesVisited, Rooted, Root
      <3> QED
        BY <3>4, <3>5
    <2> QED
      BY <2>1, <2>3 DEF Works, RootsPassed
  <1> QED
    BY <1>1, LookaheadInvariance, PTL

-----------------------------------------------------------------------------
(* The refinement: initial states to initial states, every edge to a step   *)
(* of the abstract engine or to a stutter.                                  *)
LEMMA InitRefines == Init => Client!Init
  BY DEF Init, CoreInit, Client!Init, Outstanding, Offered

LEMMA AcceptRefines ==
    ASSUME IInv, NEW r \in Request, AcceptEdge(r) PROVE Client!Accept(r)
  BY AcceptOffers DEF Client!Accept, IInv, InIdle, AcceptEdge, Accept

LEMMA FinalizeRefines == ASSUME IInv, FinalizeEdge PROVE Client!Answer
  <1>1. Latched /\ (~err_q => cbest = TwoPieceWinner(req_q)) /\ ~rsp_valid /\ Finalize
    BY DEF FinalizeEdge, Finalize, IInv, InFinalize
  <1>2. rsp' = TwoPieceDecision[req_q] /\ req_q \in Request
    BY <1>1, FinalizeTwoPiece
  <1> QED
    BY <1>1, <1>2, FinalizeOffers DEF Client!Answer

LEMMA ConsumeRefines == ASSUME IInv, ConsumeEdge PROVE Client!Consume
  BY ConsumeOffers DEF Client!Consume, IInv, InRespond, ConsumeEdge, Consume

LEMMA ResetRefines == ASSUME IInv, ResetEdge PROVE Client!Cancel \/ UNCHANGED Client!vars
  <1>1. state = "IDLE" => ~rsp_valid
    BY DEF IInv, InIdle
  <1>2. state # "IDLE" => req_q \in Request
    BY DEF IInv, CoreTypeOK, State, InCache, InStart, InWait, InFinalize, InRespond,
           Searching, Latched
  <1> QED
    BY <1>1, <1>2, ResetOffers DEF ResetEdge, Client!Cancel, Client!vars

LEMMA InnerRefines ==
    ASSUME IdleEdge \/ HoldEdge \/ CacheEdge \/ SearchStartEdge \/ SearchWaitEdge
           \/ UNCHANGED vars
    PROVE  UNCHANGED Client!vars
  <1>1. CASE SearchWaitEdge
    BY <1>1, SearchOffers DEF SearchWaitEdge, Client!vars
  <1>2. CASE ~SearchWaitEdge
    BY <1>2, RestOffers DEF IdleEdge, HoldEdge, CacheEdge, SearchStartEdge, vars, Client!vars
  <1> QED
    BY <1>1, <1>2

(* The lookahead core answers every accepted request with the decision the  *)
(* two-piece rule gives it, once, and holds the answer until it is consumed *)
(* or cancelled.                                                            *)
THEOREM LookaheadImplementsEngine == Spec => AnswersAreTwoPieceDecisions
  <1>1. IInv /\ [Next]_vars => [Client!Next]_(Client!vars)
    <2> SUFFICES ASSUME IInv, [Next]_vars PROVE Client!Next \/ UNCHANGED Client!vars
      OBVIOUS
    <2>1. CASE ResetEdge
      BY <2>1, ResetRefines DEF Client!Next
    <2>2. CASE \E r \in Request : AcceptEdge(r)
      BY <2>2, AcceptRefines DEF Client!Next
    <2>3. CASE FinalizeEdge
      BY <2>3, FinalizeRefines DEF Client!Next
    <2>4. CASE ConsumeEdge
      BY <2>4, ConsumeRefines DEF Client!Next
    <2>5. CASE \/ IdleEdge \/ HoldEdge \/ CacheEdge \/ SearchStartEdge \/ SearchWaitEdge
              \/ UNCHANGED vars
      BY <2>5, InnerRefines
    <2> QED
      BY <2>1, <2>2, <2>3, <2>4, <2>5 DEF Next
  <1> QED
    BY <1>1, InitRefines, LookaheadInvariance, PTL
       DEF Spec, AnswersAreTwoPieceDecisions, Client!Promise
=============================================================================
