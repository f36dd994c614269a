--------------------------- MODULE HardwareProofs ---------------------------
(***************************************************************************)
(* Theorems about the two sequential machines around a candidate.          *)
(*                                                                         *)
(* rtl/candidate_eval.sv: its units in step, its cycles, its results, and  *)
(* its agreement with the token pipeline and model/fast.py, and that it    *)
(* implements the evaluator of module Evaluator, on which the lanes and    *)
(* the lookahead are built.  The inductive invariant has four parts:       *)
(* UnitsIInv (the control: which unit runs in which state), PaceIInv (the  *)
(* edges: how far each unit has come), ResultIInv (the data: what each     *)
(* unit holds of the current job) and JobGiven (the job is one that was    *)
(* asked).                                                                 *)
(*                                                                         *)
(* rtl/stream_wrapper.sv: it implements the packet server, for every set   *)
(* of field contents and every decision table, with the abstract decision  *)
(* engine inside, which A2Proofs, LaneProofs and D2Proofs show each core   *)
(* to implement.  Its inductive invariant follows one packet: the core     *)
(* works on the registered words exactly while the wrapper waits, an answer*)
(* on offer then is the answer to those words, and what is being           *)
(* transmitted is that answer, with at least one of its three words still  *)
(* to leave.                                                               *)
(***************************************************************************)
EXTENDS CandidateEval, RulesProofs, StreamWrapper, SequenceTheorems

-----------------------------------------------------------------------------
(* The control of the evaluator, for every build, board and job.  A unit    *)
(* that is awaited has just been given its start pulse, or runs, or pulses  *)
(* done; any other unit is at rest.                                         *)
InStep(awaited, pulsed, busy, done) ==
    IF awaited THEN \/ pulsed /\ ~busy /\ ~done
                    \/ ~pulsed /\ busy /\ ~done
                    \/ ~pulsed /\ ~busy /\ done
    ELSE ~pulsed /\ ~busy /\ ~done

DropInStep == InStep(st = "DROP_WAIT", go = "drop", DropBusy, drop.done)
MergeInStep == InStep(st = "MERGE_WAIT", go = "merge", MergeBusy, merge.done)
ClearInStep == InStep(st = "CLEAR_WAIT", go = "clear", ClearBusy, clear.done)
FeatInStep == InStep(st = "FEAT_WAIT", go = "feat", FeatBusy, feat.done)
ScoreInStep == InStep(st = "SCORE_WAIT", go = "score", FALSE, score.valid)

(* The control registers of the units.                                      *)
DropControl == ARCH = 0 => /\ {"st", "done"} \subseteq DOMAIN drop
                           /\ drop.st \in {"IDLE", "CHECK", "DESCEND", "FINISH"}
MergeControl == ARCH = 0 => /\ {"st", "done"} \subseteq DOMAIN merge
                            /\ merge.st \in {"IDLE", "WRITE", "FINISH"}
ClearControl == /\ {"st", "done"} \subseteq DOMAIN clear
                /\ clear.st \in {"IDLE", "SCAN", "FINISH"}
FeatControl == IF ARCH = 0 THEN /\ {"st", "done"} \subseteq DOMAIN feat
                                /\ feat.st \in {"IDLE", "SCAN", "REDUCE", "FINISH"}
               ELSE {"s1", "done"} \subseteq DOMAIN feat

UnitControl == DropControl /\ MergeControl /\ ClearControl /\ FeatControl

UnitsIInv ==
    /\ build \in {0, 1} \X {0, 1}
    /\ go \in {"none", "drop", "merge", "clear", "feat", "score"}
    /\ UnitControl
    /\ DropInStep /\ MergeInStep /\ ClearInStep /\ FeatInStep /\ ScoreInStep

(* What an edge does to a unit that is at rest, pulsed, running or done.    *)
UnitStep(pulsed, busy, done, busyNext, doneNext) ==
    /\ ~pulsed /\ ~busy => ~busyNext /\ ~doneNext
    /\ pulsed /\ ~busy /\ ~done => InStep(TRUE, FALSE, busyNext, doneNext)
    /\ ~pulsed /\ busy => InStep(TRUE, FALSE, busyNext, doneNext)

LEMMA ArchIsBit ==
    ASSUME build \in {0, 1} \X {0, 1}
    PROVE  ARCH \in {0, 1}
  BY DEF ARCH

LEMMA DropStep ==
    ASSUME build \in {0, 1} \X {0, 1}, UNCHANGED build, DropControl, UnitsEdge
    PROVE  DropControl' /\ UnitStep(go = "drop", DropBusy, drop.done, DropBusy', drop'.done)
  <1>1. CASE ARCH = 0
    <2>1. ARCH' = 0
      BY <1>1 DEF ARCH
    <2>2. drop' = DropEdge(drop, go = "drop", job.rows, ShapeRom(job), job.x)
      BY <1>1 DEF UnitsEdge
    <2>3. /\ {"st", "done"} \subseteq DOMAIN drop
          /\ drop.st \in {"IDLE", "CHECK", "DESCEND", "FINISH"}
      BY <1>1 DEF DropControl
    <2>4. CASE drop.st = "IDLE"
      BY <1>1, <2>1, <2>2, <2>3, <2>4 DEF DropEdge, DropControl, DropBusy, UnitStep, InStep
    <2>5. CASE drop.st = "CHECK"
      BY <1>1, <2>1, <2>2, <2>3, <2>5 DEF DropEdge, DropControl, DropBusy, UnitStep, InStep
    <2>6. CASE drop.st = "DESCEND"
      BY <1>1, <2>1, <2>2, <2>3, <2>6 DEF DropEdge, DropControl, DropBusy, UnitStep, InStep
    <2>7. CASE drop.st = "FINISH"
      BY <1>1, <2>1, <2>2, <2>3, <2>7 DEF DropEdge, DropControl, DropBusy, UnitStep, InStep
    <2> QED
      BY <2>3, <2>4, <2>5, <2>6, <2>7
  <1>2. CASE ARCH = 1
    <2>1. ARCH' = 1
      BY <1>2 DEF ARCH
    <2>2. drop' = FastDropEdge(drop, go = "drop", job.heights, ShapeRom(job), job.x)
      BY <1>2 DEF UnitsEdge
    <2>3. (drop'.s1 <=> go = "drop") /\ (drop'.done <=> drop.s1)
      BY <2>2 DEF FastDropEdge
    <2> QED
      BY <1>2, <2>1, <2>3 DEF DropControl, DropBusy, UnitStep, InStep
  <1> QED
    BY <1>1, <1>2, ArchIsBit

LEMMA MergeStep ==
    ASSUME build \in {0, 1} \X {0, 1}, UNCHANGED build, MergeControl, UnitsEdge
    PROVE  MergeControl' /\ UnitStep(go = "merge", MergeBusy, merge.done, MergeBusy', merge'.done)
  <1>1. CASE ARCH = 0
    <2>1. ARCH' = 0
      BY <1>1 DEF ARCH
    <2>2. merge' = MergeEdge(merge, go = "merge", job.rows, ShapeRom(job), job.x, drop.yo)
      BY <1>1 DEF UnitsEdge
    <2>3. /\ {"st", "done"} \subseteq DOMAIN merge
          /\ merge.st \in {"IDLE", "WRITE", "FINISH"}
      BY <1>1 DEF MergeControl
    <2>4. CASE merge.st = "IDLE"
      BY <1>1, <2>1, <2>2, <2>3, <2>4 DEF MergeEdge, MergeControl, MergeBusy, UnitStep, InStep
    <2>5. CASE merge.st = "WRITE"
      BY <1>1, <2>1, <2>2, <2>3, <2>5 DEF MergeEdge, MergeControl, MergeBusy, UnitStep, InStep
    <2>6. CASE merge.st = "FINISH"
      BY <1>1, <2>1, <2>2, <2>3, <2>6 DEF MergeEdge, MergeControl, MergeBusy, UnitStep, InStep
    <2> QED
      BY <2>3, <2>4, <2>5, <2>6
  <1>2. CASE ARCH = 1
    <2>1. ARCH' = 1
      BY <1>2 DEF ARCH
    <2>2. merge' = FastMergeEdge(merge, go = "merge", job.rows, ShapeRom(job), job.x, drop.yo)
      BY <1>2 DEF UnitsEdge
    <2>3. merge'.done <=> go = "merge"
      BY <2>2 DEF FastMergeEdge
    <2> QED
      BY <1>2, <2>1, <2>3 DEF MergeControl, MergeBusy, UnitStep, InStep
  <1> QED
    BY <1>1, <1>2, ArchIsBit

LEMMA ClearStep ==
    ASSUME ClearControl, UnitsEdge
    PROVE  ClearControl' /\ UnitStep(go = "clear", ClearBusy, clear.done, ClearBusy', clear'.done)
  <1>1. clear' = ClearEdge(clear, go = "clear", merge.rows)
    BY DEF UnitsEdge
  <1>2. CASE clear.st = "IDLE"
    BY <1>1, <1>2 DEF ClearEdge, ClearControl, ClearBusy, UnitStep, InStep
  <1>3. CASE clear.st = "SCAN"
    BY <1>1, <1>3 DEF ClearEdge, Scanned, ClearControl, ClearBusy, UnitStep, InStep
  <1>4. CASE clear.st = "FINISH"
    BY <1>1, <1>4 DEF ClearEdge, ClearControl, ClearBusy, UnitStep, InStep
  <1> QED
    BY <1>2, <1>3, <1>4 DEF ClearControl

LEMMA FeatStep ==
    ASSUME build \in {0, 1} \X {0, 1}, UNCHANGED build, FeatControl, UnitsEdge
    PROVE  FeatControl' /\ UnitStep(go = "feat", FeatBusy, feat.done, FeatBusy', feat'.done)
  <1>1. CASE ARCH = 0
    <2>1. ARCH' = 0
      BY <1>1 DEF ARCH
    <2>2. feat' = ScanEdge(feat, go = "feat", clear.rows)
      BY <1>1 DEF UnitsEdge
    <2>3. /\ {"st", "done"} \subseteq DOMAIN feat
          /\ feat.st \in {"IDLE", "SCAN", "REDUCE", "FINISH"}
      BY <1>1 DEF FeatControl
    <2>4. CASE feat.st = "IDLE"
      BY <1>1, <2>1, <2>2, <2>3, <2>4
         DEF ScanEdge, ScanReset, FeatControl, FeatBusy, UnitStep, InStep
    <2>5. CASE feat.st = "SCAN"
      BY <1>1, <2>1, <2>2, <2>3, <2>5
         DEF ScanEdge, CellScanned, FeatControl, FeatBusy, UnitStep, InStep
    <2>6. CASE feat.st = "REDUCE"
      BY <1>1, <2>1, <2>2, <2>3, <2>6
         DEF ScanEdge, ColumnReduced, FeatControl, FeatBusy, UnitStep, InStep
    <2>7. CASE feat.st = "FINISH"
      BY <1>1, <2>1, <2>2, <2>3, <2>7 DEF ScanEdge, FeatControl, FeatBusy, UnitStep, InStep
    <2> QED
      BY <2>3, <2>4, <2>5, <2>6, <2>7
  <1>2. CASE ARCH = 1
    <2>1. ARCH' = 1
      BY <1>2 DEF ARCH
    <2>2. feat' = FastScanEdge(feat, go = "feat", clear.rows)
      BY <1>2 DEF UnitsEdge
    <2>3. {"s1", "done"} \subseteq DOMAIN feat
      BY <1>2 DEF FeatControl
    <2>4. /\ {"s1", "done"} \subseteq DOMAIN feat'
          /\ (feat'.s1 <=> go = "feat") /\ (feat'.done <=> feat.s1)
      BY <2>2, <2>3 DEF FastScanEdge, Summed, Counted
    <2> QED
      BY <1>2, <2>1, <2>4 DEF FeatControl, FeatBusy, UnitStep, InStep
  <1> QED
    BY <1>1, <1>2, ArchIsBit

LEMMA ScoreStep ==
    ASSUME UnitsEdge
    PROVE  UnitStep(go = "score", FALSE, score.valid, FALSE, score'.valid)
  BY DEF UnitsEdge, ScoreEdge, UnitStep, InStep

(* All five at once.                                                        *)
UnitsStep ==
    /\ UnitStep(go = "drop", DropBusy, drop.done, DropBusy', drop'.done)
    /\ UnitStep(go = "merge", MergeBusy, merge.done, MergeBusy', merge'.done)
    /\ UnitStep(go = "clear", ClearBusy, clear.done, ClearBusy', clear'.done)
    /\ UnitStep(go = "feat", FeatBusy, feat.done, FeatBusy', feat'.done)
    /\ UnitStep(go = "score", FALSE, score.valid, FALSE, score'.valid)

LEMMA AllUnitsStep ==
    ASSUME build \in {0, 1} \X {0, 1}, UNCHANGED build, UnitControl, UnitsEdge
    PROVE  UnitControl' /\ UnitsStep
  BY DropStep, MergeStep, ClearStep, FeatStep, ScoreStep DEF UnitControl, UnitsStep

LEMMA UnitsInit == Init => UnitsIInv
  <1> SUFFICES ASSUME Init PROVE UnitsIInv
    OBVIOUS
  <1>1. build \in {0, 1} \X {0, 1}
    BY EvalAssumption DEF Init
  <1> QED
    BY <1>1
       DEF Init, UnitsIInv, UnitControl, DropControl, MergeControl, ClearControl, FeatControl,
           DropInStep, MergeInStep, ClearInStep, FeatInStep, ScoreInStep, InStep, NoGo,
           DropBusy, MergeBusy, ClearBusy, FeatBusy, DropReset, FastDropReset, MergeReset,
           FastMergeReset, ClearReset, ScanReset, FastScanReset, ScoreReset

LEMMA ResetKeepsUnits ==
    ASSUME UnitsIInv, Reset, UNCHANGED build
    PROVE  UnitsIInv'
  <1>1. ARCH' = ARCH
    BY DEF ARCH
  <1> QED
    BY <1>1
       DEF Reset, UnitsIInv, UnitControl, DropControl, MergeControl, ClearControl, FeatControl,
           DropInStep, MergeInStep, ClearInStep, FeatInStep, ScoreInStep, InStep, NoGo,
           DropBusy, MergeBusy, ClearBusy, FeatBusy, DropReset, FastDropReset, MergeReset,
           FastMergeReset, ClearReset, ScanReset, FastScanReset, ScoreReset

(* Between jobs and in the states without a unit of their own.              *)
LEMMA IdleKeepsUnits ==
    ASSUME UnitsIInv, UNCHANGED build, Idle \/ \E j \in Jobs : Start(j)
    PROVE  UnitsIInv'
  <1>1. UnitControl' /\ UnitsStep
    BY AllUnitsStep DEF UnitsIInv, Idle, Start
  <1>2. st = "IDLE" /\ st' \in {"IDLE", "DECODE"} /\ go' = "none"
    BY DEF Idle, Start, NoGo
  <1> QED
    BY <1>1, <1>2
       DEF UnitsIInv, UnitsStep, UnitStep, InStep, DropInStep, MergeInStep, ClearInStep,
           FeatInStep, ScoreInStep

LEMMA BusyKeepsUnits ==
    ASSUME UnitsIInv, UNCHANGED build, BusyEdge
    PROVE  UnitsIInv'
  <1>1. UnitControl' /\ UnitsStep
    <2>1. UnitsEdge
      BY DEF BusyEdge, Decode, Profiling, DropStart, DropAwait, DropLegal, DropIllegal,
             MergeStart, MergeWait, ClearStart, ClearWait, FeatStart, FeatWait, ScoreStart,
             ScoreAwait, ScoreDone, Finish, Busy
    <2> QED
      BY <2>1, AllUnitsStep DEF UnitsIInv
  <1> USE DEF Busy, NoGo
  <1>2. \/ /\ st \in {"DECODE", "PROFILE", "FINISH"}
           /\ st' \in {"PROFILE", "DROP_START", "IDLE"} /\ go' = "none"
        \/ st = "DROP_START" /\ st' = "DROP_WAIT" /\ go' = "drop"
        \/ /\ st = "DROP_WAIT" /\ go' = "none"
           /\ st' \in IF drop.done THEN {"MERGE_START", "FINISH"} ELSE {"DROP_WAIT"}
        \/ st = "MERGE_START" /\ st' = "MERGE_WAIT" /\ go' = "merge"
        \/ /\ st = "MERGE_WAIT" /\ go' = "none"
           /\ st' = IF merge.done THEN "CLEAR_START" ELSE "MERGE_WAIT"
        \/ st = "CLEAR_START" /\ st' = "CLEAR_WAIT" /\ go' = "clear"
        \/ /\ st = "CLEAR_WAIT" /\ go' = "none"
           /\ st' = IF clear.done THEN "FEAT_START" ELSE "CLEAR_WAIT"
        \/ st = "FEAT_START" /\ st' = "FEAT_WAIT" /\ go' = "feat"
        \/ /\ st = "FEAT_WAIT" /\ go' = "none"
           /\ st' = IF feat.done THEN "SCORE_START" ELSE "FEAT_WAIT"
        \/ st = "SCORE_START" /\ st' = "SCORE_WAIT" /\ go' = "score"
        \/ /\ st = "SCORE_WAIT" /\ go' = "none"
           /\ st' = IF score.valid THEN "FINISH" ELSE "SCORE_WAIT"
    BY DEF BusyEdge, Decode, Profiling, DropStart, DropAwait, DropLegal, DropIllegal,
           MergeStart, MergeWait, ClearStart, ClearWait, FeatStart, FeatWait, ScoreStart,
           ScoreAwait, ScoreDone, Finish
  <1>3. DropInStep'
    BY <1>1, <1>2 DEF UnitsIInv, UnitsStep, UnitStep, InStep, DropInStep
  <1>4. MergeInStep'
    BY <1>1, <1>2 DEF UnitsIInv, UnitsStep, UnitStep, InStep, MergeInStep
  <1>5. ClearInStep'
    BY <1>1, <1>2 DEF UnitsIInv, UnitsStep, UnitStep, InStep, ClearInStep
  <1>6. FeatInStep'
    BY <1>1, <1>2 DEF UnitsIInv, UnitsStep, UnitStep, InStep, FeatInStep
  <1>7. ScoreInStep'
    BY <1>1, <1>2 DEF UnitsIInv, UnitsStep, UnitStep, InStep, ScoreInStep
  <1> QED
    BY <1>1, <1>2, <1>3, <1>4, <1>5, <1>6, <1>7 DEF UnitsIInv

LEMMA UnitsNext == UnitsIInv /\ [Next]_vars => UnitsIInv'
  <1> SUFFICES ASSUME UnitsIInv, [Next]_vars PROVE UnitsIInv'
    OBVIOUS
  <1>1. CASE UNCHANGED vars
    BY <1>1
       DEF vars, units, UnitsIInv, UnitControl, DropControl, MergeControl, ClearControl,
           FeatControl, DropInStep, MergeInStep, ClearInStep, FeatInStep, ScoreInStep,
           DropBusy, MergeBusy, ClearBusy, FeatBusy, ARCH
  <1> QED
    BY <1>1, ResetKeepsUnits, IdleKeepsUnits, BusyKeepsUnits DEF Next

(* A unit is started only when it is idle and pulses done only while the    *)
(* FSM waits for it, whatever has been reset half way: for every build,     *)
(* board, job and numeric profile.                                          *)
THEOREM UnitsKeepStep == Spec => []UnitsInStep
  <1>1. ASSUME UnitsIInv PROVE UnitsInStep
    <2>1. (go = "drop" => ~DropBusy) /\ (drop.done => st = "DROP_WAIT")
      BY <1>1 DEF UnitsIInv, DropInStep, InStep
    <2>2. (go = "merge" => ~MergeBusy) /\ (merge.done => st = "MERGE_WAIT")
      BY <1>1 DEF UnitsIInv, MergeInStep, InStep
    <2>3. (go = "clear" => ~ClearBusy) /\ (clear.done => st = "CLEAR_WAIT")
      BY <1>1 DEF UnitsIInv, ClearInStep, InStep
    <2>4. (go = "feat" => ~FeatBusy) /\ (feat.done => st = "FEAT_WAIT")
      BY <1>1 DEF UnitsIInv, FeatInStep, InStep
    <2>5. score.valid => st = "SCORE_WAIT"
      BY <1>1 DEF UnitsIInv, ScoreInStep, InStep
    <2>6. st = "IDLE" => go = NoGo /\ ~DropBusy /\ ~MergeBusy /\ ~ClearBusy /\ ~FeatBusy
      BY <1>1 DEF UnitsIInv, DropInStep, MergeInStep, ClearInStep, FeatInStep, ScoreInStep,
                  InStep, NoGo
    <2> QED
      BY <2>1, <2>2, <2>3, <2>4, <2>5, <2>6 DEF UnitsInStep
  <1> QED
    BY <1>1, UnitsInit, UnitsNext, PTL DEF Spec

-----------------------------------------------------------------------------
(* The pace of the evaluator.  Each unit counts down to its done pulse; the *)
(* edges of a job so far and the count of the unit it waits for give the    *)
(* edge at which the stage ends.  The counters of the evaluator, sixteen    *)
(* bits, and of the compactor, five, hold what the board needs.             *)
CountersSuffice == H <= 32 /\ W * (H + 1) + 2 * H + 27 < 65536

(* Edges from the start pulse of a unit to its done pulse.                  *)
MergeCycles == IF ARCH = 0 THEN 6 ELSE 1
ClearCycles == H + 2
FeatCycles == IF ARCH = 0 THEN W * (H + 1) + 2 ELSE 2

LandingRow(j) == PhysicalLanding(j.rows, ShapeRom(j).cells, j.x)

DropLeft ==
    IF go = "drop" THEN DropCycles(job) - 1
    ELSE IF ARCH = 1 THEN IF drop.s1 THEN 1 ELSE 0
    ELSE CASE drop.st = "CHECK" -> DropCycles(job) - 2
           [] drop.st = "DESCEND" -> drop.y - LandingRow(job) + 2
           [] drop.st = "FINISH" -> 1
           [] OTHER -> 0
MergeLeft ==
    IF go = "merge" THEN MergeCycles
    ELSE IF ARCH = 1 THEN 0
    ELSE CASE merge.st = "WRITE" -> 5 - merge.k
           [] merge.st = "FINISH" -> 1
           [] OTHER -> 0
ClearLeft ==
    IF go = "clear" THEN ClearCycles
    ELSE CASE clear.st = "SCAN" -> H + 1 - clear.step
           [] clear.st = "FINISH" -> 1
           [] OTHER -> 0
FeatLeft ==
    IF go = "feat" THEN FeatCycles
    ELSE IF ARCH = 1 THEN IF feat.s1 THEN 1 ELSE 0
    ELSE CASE feat.st = "SCAN" -> (W - feat.sx) * H + W + 2 - H + feat.sy
           [] feat.st = "REDUCE" -> W + 1 - feat.rx
           [] feat.st = "FINISH" -> 1
           [] OTHER -> 0
ScoreLeft == IF go = "score" THEN 1 ELSE 0

(* The edge of a job at which each unit it waits for pulses done.           *)
DropAt == IF ARCH = 1 /\ BOARD_REPR = 0 THEN 2 ELSE 1
DropEnd == DropAt + DropCycles(job)
MergeEnd == DropEnd + 2 + MergeCycles
ClearEnd == MergeEnd + 2 + ClearCycles
FeatEnd == ClearEnd + 2 + FeatCycles
ScoreEnd == FeatEnd + 3

Pace ==
    /\ st = "DECODE" => waited = 0
    /\ st = "PROFILE" => ARCH = 1 /\ BOARD_REPR = 0 /\ waited = 1
    /\ st = "DROP_START" => waited = DropAt
    /\ st = "DROP_WAIT" => DropLeft \in Nat /\ waited + DropLeft = DropEnd
    /\ st = "MERGE_START" => waited = DropEnd + 1
    /\ st = "MERGE_WAIT" => MergeLeft \in Nat /\ waited + MergeLeft = MergeEnd
    /\ st = "CLEAR_START" => waited = MergeEnd + 1
    /\ st = "CLEAR_WAIT" => ClearLeft \in Nat /\ waited + ClearLeft = ClearEnd
    /\ st = "FEAT_START" => waited = ClearEnd + 1
    /\ st = "FEAT_WAIT" => FeatLeft \in Nat /\ waited + FeatLeft = FeatEnd
    /\ st = "SCORE_START" => waited = FeatEnd + 1
    /\ st = "SCORE_WAIT" => ScoreLeft \in Nat /\ waited + ScoreLeft = ScoreEnd
    /\ st = "FINISH" => waited + 1 = Latency(job)

(* What the count of a unit rests on: the job it has latched and how far it *)
(* has come.                                                                *)
Latched == drop.rows = job.rows /\ drop.shape = ShapeRom(job) /\ drop.x = job.x
DropHolds ==
    IF ARCH = 0
    THEN /\ drop.st # "IDLE" => Latched
         /\ drop.st = "CHECK" => drop.y = H
         /\ drop.st = "DESCEND" => GeometryOk(ShapeRom(job), job.x) /\ drop.y \in LandingRow(job) .. H
         /\ drop.st = "FINISH" /\ GeometryOk(ShapeRom(job), job.x) => drop.y = LandingRow(job)
         /\ drop.done => (drop.legal <=> IsLegal(job))
    ELSE /\ drop.s1 => /\ drop.ok <=> GeometryOk(ShapeRom(job), job.x)
                       /\ drop.height = Height(ShapeRom(job).cells)
                       /\ drop.ok => LandingOf(drop.d) = LandingRow(job)
         /\ drop.done => (drop.legal <=> IsLegal(job))
DropData == st = "DROP_WAIT" /\ go # "drop" => DropHolds
DropDomain == ARCH = 0 => {"st", "done", "rows", "shape", "x", "y", "legal"} \subseteq DOMAIN drop
MergeData == ARCH = 0 => {"st", "done", "k"} \subseteq DOMAIN merge /\ merge.k \in 0 .. 3
ClearData == /\ {"st", "done", "step"} \subseteq DOMAIN clear
             /\ clear.st = "SCAN" => clear.step \in 0 .. H-1
FeatData ==
    ARCH = 0 => /\ {"st", "done", "sx", "sy", "rx"} \subseteq DOMAIN feat
                /\ feat.st = "SCAN" => feat.sx \in Column /\ feat.sy \in Row /\ feat.rx = 0
                /\ feat.st = "REDUCE" => feat.rx \in Column
JobOk ==
    job \in [rows : Board, heights : [Column -> 0 .. H], p : PieceId, r : 0 .. 3, x : 0 .. 9]
JobData ==
    /\ st # "IDLE" =>
           /\ JobOk
           /\ BOARD_REPR = 1 => job.heights = ColumnHeights(job.rows)
    /\ ARCH = 1 /\ st \in {"DROP_START", "DROP_WAIT"} => job.heights = ColumnHeights(job.rows)
    /\ st \in {"MERGE_START", "MERGE_WAIT", "CLEAR_START", "CLEAR_WAIT", "FEAT_START", "FEAT_WAIT",
               "SCORE_START", "SCORE_WAIT"} => IsLegal(job)

Reported ==
    /\ st # "IDLE" => cyc = waited /\ waited \in Nat
    /\ {"done", "cycles"} \subseteq DOMAIN out
    /\ out.done => st = "IDLE" /\ waited = Latency(job) /\ out.cycles = waited

StateOk ==
    st \in {"IDLE", "DECODE", "PROFILE", "DROP_START", "DROP_WAIT", "MERGE_START", "MERGE_WAIT",
           "CLEAR_START", "CLEAR_WAIT", "FEAT_START", "FEAT_WAIT", "SCORE_START", "SCORE_WAIT", "FINISH"}

PaceIInv ==
    /\ StateOk /\ DropDomain /\ MergeData /\ ClearData /\ FeatData /\ DropData
    /\ JobData /\ Pace /\ Reported

LEMMA RomFacts ==
    ASSUME JobOk
    PROVE  /\ ShapeRom(job) \in ShapeSet /\ job.x \in Nat /\ job.rows \in Board
           /\ job.p \in PieceId /\ job.r \in 0 .. 3
           /\ LandingRow(job) \in 0 .. H
           /\ Stops(job.rows, ShapeRom(job).cells, job.x, LandingRow(job))
  <1>1. job.x \in Nat /\ job.rows \in Board /\ job.p \in PieceId /\ job.r \in 0 .. 3
    BY DEF JobOk
  <1>2. ShapeRom(job) \in ShapeSet
    <2>1. NoShape \in ShapeSet
      <3>1. <<0, 0>> \in (0 .. 3) \X (0 .. 3)
        OBVIOUS
      <3> QED
        BY <3>1 DEF NoShape, ShapeSet
    <2>2. CASE job.r < Len(Rotations[job.p])
      <3>1. Shape(job.p, job.r) \in (SUBSET ((0 .. 3) \X (0 .. 3))) \ {{}}
        BY <1>1, <2>2, RomAssumption
      <3>2. ShapeRom(job) = [valid |-> TRUE, cells |-> Shape(job.p, job.r)]
        BY <2>2 DEF ShapeRom
      <3> QED
        BY <3>1, <3>2 DEF ShapeSet
    <2> QED
      BY <2>1, <2>2 DEF ShapeRom
  <1>3. Stops(job.rows, ShapeRom(job).cells, job.x, LandingRow(job))
    BY LandingStops DEF LandingRow
  <1> QED
    BY <1>1, <1>2, <1>3 DEF Stops

LEMMA CycleFacts ==
    ASSUME build \in {0, 1} \X {0, 1}, JobOk, CountersSuffice
    PROVE  /\ DropAt \in 1 .. 2
           /\ DropCycles(job) \in 3 .. H + 5
           /\ ARCH = 1 => DropCycles(job) = 3
           /\ ARCH = 0 => DropCycles(job) = IF GeometryOk(ShapeRom(job), job.x)
                                            THEN H - LandingRow(job) + 5 ELSE 4
           /\ IsLegal(job) <=> /\ GeometryOk(ShapeRom(job), job.x)
                               /\ LandingRow(job) + Height(ShapeRom(job).cells) <= H
           /\ MergeCycles \in {1, 6} /\ ClearCycles = H + 2
           /\ FeatCycles \in Nat /\ FeatCycles >= 2
           /\ FeatCycles + 2 * H + 25 < 65536
           /\ H \in 1 .. 32
  <1>1. LandingRow(job) \in 0 .. H /\ H \in Nat /\ H > 0 /\ W \in Nat
    BY RomFacts, SizeFacts
  <1>2. W * (H + 1) \in Nat
    BY <1>1
  <1> DEFINE N == W * (H + 1)
  <1>3. FeatCycles = IF ARCH = 0 THEN N + 2 ELSE 2
    BY DEF FeatCycles
  <1>4. N + 2 * H + 27 < 65536 /\ H <= 32 /\ N \in Nat
    BY <1>2 DEF CountersSuffice
  <1> HIDE DEF N
  <1>5. FeatCycles \in Nat /\ FeatCycles >= 2 /\ FeatCycles + 2 * H + 25 < 65536
    BY <1>1, <1>3, <1>4
  <1>6. ARCH = 1 \/ ARCH = 0
    BY ArchIsBit
  <1>7. /\ ARCH = 1 => DropCycles(job) = 3
        /\ ARCH = 0 => DropCycles(job) = IF GeometryOk(ShapeRom(job), job.x)
                                         THEN H - LandingRow(job) + 5 ELSE 4
    BY DEF DropCycles, LandingRow
  <1>8. DropCycles(job) \in 3 .. H + 5
    <2>1. CASE ARCH = 1
      BY <2>1, <1>1, <1>7
    <2>2. CASE ARCH = 0
      BY <2>2, <1>1, <1>7
    <2> QED
      BY <2>1, <2>2, <1>6
  <1>9. IsLegal(job) <=> /\ GeometryOk(ShapeRom(job), job.x)
                         /\ LandingRow(job) + Height(ShapeRom(job).cells) <= H
    BY DEF IsLegal, LandsInside, GeometryOk, LandingRow
  <1> QED
    BY <1>1, <1>4, <1>5, <1>7, <1>8, <1>9 DEF DropAt, MergeCycles, ClearCycles

(* The latency is the end of the last stage and the two edges of FINISH.    *)
LEMMA LatencyIsEnd ==
    ASSUME build \in {0, 1} \X {0, 1}, JobOk, CountersSuffice
    PROVE  /\ Latency(job) = (IF IsLegal(job) THEN ScoreEnd ELSE DropEnd) + 2
           /\ DropEnd \in Nat /\ DropEnd >= 4 /\ DropEnd + 2 <= MergeEnd /\ MergeEnd \in Nat
           /\ ClearEnd \in Nat /\ MergeEnd + 2 <= ClearEnd
           /\ FeatEnd \in Nat /\ ClearEnd + 2 <= FeatEnd
           /\ ScoreEnd = FeatEnd + 3
           /\ DropEnd + 2 < 65536 /\ ScoreEnd + 2 < 65536
  <1> DEFINE N == W * (H + 1)  D == DropCycles(job)
  <1>1. FeatCycles = IF ARCH = 0 THEN N + 2 ELSE 2
    BY DEF FeatCycles
  <1>2. Latency(job) = (IF ARCH = 1 /\ BOARD_REPR = 0 THEN 4 ELSE 3) + D
            + IF ~IsLegal(job) THEN 0
              ELSE IF ARCH = 0 THEN 6 + 7 + (H + 3) + (N + 3)
              ELSE 6 + 2 + (H + 3) + 3
    BY DEF Latency
  <1>3. N \in Nat
    BY SizeFacts
  <1>4. D \in 3 .. H + 5 /\ DropEnd = DropAt + D
    BY CycleFacts DEF DropEnd
  <1> HIDE DEF N, D
  <1>5. ARCH \in {0, 1} /\ H \in 1 .. 32
    BY CycleFacts, ArchIsBit
  <1>6. Latency(job) = (IF IsLegal(job) THEN ScoreEnd ELSE DropEnd) + 2
    BY <1>1, <1>2, <1>3, <1>4, <1>5
       DEF DropAt, MergeCycles, ClearCycles, MergeEnd, ClearEnd, FeatEnd, ScoreEnd
  <1>7. /\ DropAt \in 1 .. 2 /\ MergeCycles \in {1, 6} /\ ClearCycles = H + 2
        /\ FeatCycles \in Nat /\ FeatCycles >= 2 /\ FeatCycles + 2 * H + 25 < 65536
    BY CycleFacts
  <1>8. DropAt + MergeCycles <= 7
    BY <1>5 DEF DropAt, MergeCycles
  <1> QED
    BY <1>4, <1>5, <1>6, <1>7, <1>8 DEF MergeEnd, ClearEnd, FeatEnd, ScoreEnd

(* A job in the pace is within its latency.                                 *)
LEMMA PaceInTime ==
    ASSUME UnitsIInv, PaceIInv, CountersSuffice, st # "IDLE"
    PROVE  waited \in Nat /\ waited < Latency(job) /\ Latency(job) < 65536
  <1>1. build \in {0, 1} \X {0, 1} /\ JobOk /\ waited \in Nat /\ Pace /\ JobData
    BY DEF UnitsIInv, PaceIInv, JobData, Reported
  <1>2. /\ DropAt \in 1 .. 2
        /\ DropEnd \in Nat /\ DropEnd >= 4 /\ DropEnd + 2 <= MergeEnd /\ MergeEnd \in Nat
        /\ ClearEnd \in Nat /\ MergeEnd + 2 <= ClearEnd
        /\ FeatEnd \in Nat /\ ClearEnd + 2 <= FeatEnd
        /\ ScoreEnd = FeatEnd + 3
        /\ Latency(job) = (IF IsLegal(job) THEN ScoreEnd ELSE DropEnd) + 2
        /\ DropEnd + 2 < 65536 /\ ScoreEnd + 2 < 65536
    BY <1>1, CycleFacts, LatencyIsEnd
  <1>3. st \in {"DECODE", "PROFILE", "DROP_START", "DROP_WAIT"} => waited <= DropEnd
    BY <1>1, <1>2 DEF Pace
  <1>4. st \in {"MERGE_START", "MERGE_WAIT", "CLEAR_START", "CLEAR_WAIT", "FEAT_START", "FEAT_WAIT",
               "SCORE_START", "SCORE_WAIT"} => IsLegal(job) /\ waited <= ScoreEnd
    BY <1>1, <1>2 DEF Pace, JobData
  <1>5. st = "FINISH" => waited < Latency(job)
    BY <1>1, <1>2 DEF Pace
  <1>6. st \in {"DECODE", "PROFILE", "DROP_START", "DROP_WAIT", "MERGE_START", "MERGE_WAIT",
                "CLEAR_START", "CLEAR_WAIT", "FEAT_START", "FEAT_WAIT", "SCORE_START", "SCORE_WAIT",
                "FINISH"}
    BY DEF PaceIInv, StateOk
  <1> QED
    BY <1>1, <1>2, <1>3, <1>4, <1>5, <1>6

LEMMA SameJob ==
    ASSUME UNCHANGED build, job'.rows = job.rows, job'.p = job.p, job'.r = job.r, job'.x = job.x
    PROVE  /\ ARCH' = ARCH /\ BOARD_REPR' = BOARD_REPR
           /\ ShapeRom(job)' = ShapeRom(job) /\ LandingRow(job)' = LandingRow(job)
           /\ (IsLegal(job)' <=> IsLegal(job))
           /\ DropCycles(job)' = DropCycles(job) /\ Latency(job)' = Latency(job)
           /\ MergeCycles' = MergeCycles /\ FeatCycles' = FeatCycles
           /\ DropAt' = DropAt /\ DropEnd' = DropEnd /\ MergeEnd' = MergeEnd /\ ClearEnd' = ClearEnd
           /\ FeatEnd' = FeatEnd /\ ScoreEnd' = ScoreEnd
  <1>1. ARCH' = ARCH /\ BOARD_REPR' = BOARD_REPR
    BY DEF ARCH, BOARD_REPR
  <1>2. ShapeRom(job)' = ShapeRom(job)
    BY DEF ShapeRom
  <1>3. LandingRow(job)' = LandingRow(job)
    BY <1>2 DEF LandingRow
  <1>4. IsLegal(job)' <=> IsLegal(job)
    BY <1>2 DEF IsLegal
  <1>5. DropCycles(job)' = DropCycles(job)
    BY <1>1, <1>2 DEF DropCycles
  <1>6. Latency(job)' = Latency(job)
    BY <1>1, <1>4, <1>5 DEF Latency
  <1>7. MergeCycles' = MergeCycles /\ FeatCycles' = FeatCycles /\ DropAt' = DropAt
    BY <1>1 DEF MergeCycles, FeatCycles, DropAt
  <1>8. DropEnd' = DropEnd
    BY <1>5, <1>7 DEF DropEnd
  <1>9. MergeEnd' = MergeEnd
    BY <1>7, <1>8 DEF MergeEnd
  <1>10. ClearEnd' = ClearEnd
    BY <1>9 DEF ClearEnd, ClearCycles
  <1>11. FeatEnd' = FeatEnd
    BY <1>7, <1>10 DEF FeatEnd
  <1> QED
    BY <1>1, <1>2, <1>3, <1>4, <1>5, <1>6, <1>7, <1>8, <1>9, <1>10, <1>11 DEF ScoreEnd

(* One cell of the serial scan.                                             *)
ScanSteps ==
    /\ {"st", "done", "sx", "sy", "rx"} \subseteq DOMAIN feat'
    /\ ~feat'.done /\ feat'.rx = feat.rx
    /\ feat'.sy = IF feat.sy = 0 THEN H-1 ELSE feat.sy - 1
    /\ feat'.sx = IF feat.sy = 0 THEN feat.sx + 1 ELSE feat.sx
    /\ feat'.st = IF feat.sy = 0 /\ feat.sx = W-1 THEN "REDUCE" ELSE "SCAN"

(* The registers the counts are read from, after any edge.                  *)
LEMMA CountersKept ==
    ASSUME UnitsIInv, UNCHANGED build, UnitsEdge,
           DropDomain, MergeData, ClearData, FeatData
    PROVE  DropDomain' /\ MergeData' /\ ClearData' /\ FeatData'
  <1>1. ARCH' = ARCH /\ ARCH \in {0, 1}
    BY ArchIsBit DEF ARCH, UnitsIInv
  <1>2. DropDomain'
    <2>1. CASE ARCH = 0
      <3>1. drop' = DropEdge(drop, go = "drop", job.rows, ShapeRom(job), job.x)
        BY <2>1 DEF UnitsEdge
      <3>2. drop.st \in {"IDLE", "CHECK", "DESCEND", "FINISH"}
        BY <2>1 DEF UnitsIInv, UnitControl, DropControl
      <3>3. DOMAIN drop' = DOMAIN drop
        BY <3>1, <3>2 DEF DropEdge
      <3> QED
        BY <2>1, <3>3 DEF DropDomain
    <2> QED
      BY <1>1, <2>1 DEF DropDomain
  <1>3. MergeData'
    <2>1. CASE ARCH = 0
      <3>1. merge' = MergeEdge(merge, go = "merge", job.rows, ShapeRom(job), job.x, drop.yo)
        BY <2>1 DEF UnitsEdge
      <3>2. merge.st \in {"IDLE", "WRITE", "FINISH"} /\ {"st", "done", "k"} \subseteq DOMAIN merge
            /\ merge.k \in 0 .. 3
        BY <2>1 DEF UnitsIInv, UnitControl, MergeControl, MergeData
      <3>3. DOMAIN merge' = DOMAIN merge /\ merge'.k \in {0, merge.k, (merge.k + 1) % 4}
        BY <3>1, <3>2 DEF MergeEdge
      <3> QED
        BY <2>1, <3>2, <3>3 DEF MergeData
    <2> QED
      BY <1>1, <2>1 DEF MergeData
  <1>4. ClearData'
    <2>1. clear' = ClearEdge(clear, go = "clear", merge.rows)
      BY DEF UnitsEdge
    <2>2. clear.st \in {"IDLE", "SCAN", "FINISH"} /\ {"st", "done", "step"} \subseteq DOMAIN clear
          /\ (clear.st = "SCAN" => clear.step \in 0 .. H-1)
      BY DEF UnitsIInv, UnitControl, ClearControl, ClearData
    <2>3. DOMAIN clear' = DOMAIN clear
      BY <2>1, <2>2 DEF ClearEdge, Scanned
    <2>4. clear'.st = "SCAN" => clear'.step \in 0 .. H-1
      <3>1. CASE clear.st = "IDLE"
        BY <3>1, <2>1, <2>2, SizeFacts DEF ClearEdge
      <3>2. CASE clear.st = "SCAN"
        <4>1. clear'.step = (clear.step + 1) % 32
              /\ clear'.st = IF clear.step = H-1 THEN "FINISH" ELSE "SCAN"
          BY <3>2, <2>1, <2>2 DEF ClearEdge, Scanned
        <4> QED
          BY <4>1, <3>2, <2>2, SizeFacts
      <3>3. CASE clear.st = "FINISH"
        BY <3>3, <2>1, <2>2 DEF ClearEdge
      <3> QED
        BY <2>2, <3>1, <3>2, <3>3
    <2> QED
      BY <2>2, <2>3, <2>4 DEF ClearData
  <1>5. FeatData'
    <2>1. CASE ARCH = 0
      <3>1. feat' = ScanEdge(feat, go = "feat", clear.rows)
        BY <2>1 DEF UnitsEdge
      <3>2. feat.st \in {"IDLE", "SCAN", "REDUCE", "FINISH"}
            /\ {"st", "done", "sx", "sy", "rx"} \subseteq DOMAIN feat
            /\ (feat.st = "SCAN" => feat.sx \in Column /\ feat.sy \in Row /\ feat.rx = 0)
            /\ (feat.st = "REDUCE" => feat.rx \in Column)
        BY <2>1 DEF UnitsIInv, UnitControl, FeatControl, FeatData
      <3>3. CASE feat.st = "IDLE"
        BY <2>1, <3>1, <3>2, <3>3, SizeFacts DEF ScanEdge, ScanReset, FeatData, Row, Column
      <3>4. CASE feat.st = "SCAN"
        <4>1. ScanSteps
          BY <3>1, <3>2, <3>4 DEF ScanEdge, CellScanned, ScanSteps
        <4> QED
          BY <4>1, <3>2, <3>4, SizeFacts DEF ScanSteps, FeatData, Row, Column
      <3>5. CASE feat.st = "REDUCE"
        <4>1. /\ {"st", "done", "sx", "sy", "rx"} \subseteq DOMAIN feat'
              /\ feat'.rx = feat.rx + 1 /\ feat'.st = IF feat.rx = W-1 THEN "FINISH" ELSE "REDUCE"
          BY <3>1, <3>2, <3>5 DEF ScanEdge, ColumnReduced
        <4> QED
          BY <4>1, <3>2, <3>5, SizeFacts DEF FeatData, Row, Column
      <3>6. CASE feat.st = "FINISH"
        BY <2>1, <3>1, <3>2, <3>6 DEF ScanEdge, FeatData
      <3> QED
        BY <3>2, <3>3, <3>4, <3>5, <3>6
    <2> QED
      BY <1>1, <2>1 DEF FeatData
  <1> QED
    BY <1>2, <1>3, <1>4, <1>5

(* One edge while the unit is awaited: its count goes down by one, and it   *)
(* is zero exactly when the unit pulses done.                               *)
CountsDown(left, leftNext, done) ==
    /\ done => left = 0
    /\ ~done => left \in Nat /\ left > 0 /\ leftNext = left - 1

LEMMA DropCounts ==
    ASSUME CountersSuffice, UnitsIInv, DropDomain, DropData, JobData, UnitsEdge,
           UNCHANGED <<build, job>>, st = "DROP_WAIT", go' = "none"
    PROVE  /\ DropHolds'
           /\ CountsDown(DropLeft, DropLeft', drop.done)
           /\ drop.done => (drop.legal <=> IsLegal(job))
  <1> DEFINE L == LandingRow(job)  s == ShapeRom(job)
  <1>1. /\ ARCH' = ARCH /\ ShapeRom(job)' = s /\ LandingRow(job)' = L
        /\ (IsLegal(job)' <=> IsLegal(job)) /\ DropCycles(job)' = DropCycles(job)
    BY SameJob
  <1>2. build \in {0, 1} \X {0, 1} /\ ARCH \in {0, 1} /\ JobOk
    BY ArchIsBit DEF UnitsIInv, JobData
  <1>3. /\ ARCH = 1 => DropCycles(job) = 3
        /\ ARCH = 0 => DropCycles(job) = IF GeometryOk(s, job.x) THEN H - L + 5 ELSE 4
        /\ IsLegal(job) <=> GeometryOk(s, job.x) /\ L + Height(s.cells) <= H
        /\ H \in 1 .. 32
    BY <1>2, CycleFacts
  <1>4. /\ s \in ShapeSet /\ job.x \in Nat /\ job.rows \in Board /\ L \in 0 .. H
        /\ L = PhysicalLanding(job.rows, s.cells, job.x)
    BY <1>2, RomFacts DEF LandingRow
  <1>5. InStep(TRUE, go = "drop", DropBusy, drop.done)
    BY DEF UnitsIInv, DropInStep
  <1> HIDE DEF L, s
  <1>6. CASE ARCH = 0
    <2>1. drop' = DropEdge(drop, go = "drop", job.rows, s, job.x)
      BY <1>6 DEF UnitsEdge, s
    <2>2. /\ {"st", "done", "rows", "shape", "x", "y", "legal"} \subseteq DOMAIN drop
          /\ drop.st \in {"IDLE", "CHECK", "DESCEND", "FINISH"}
          /\ DropBusy <=> drop.st # "IDLE"
      BY <1>6 DEF UnitsIInv, UnitControl, DropControl, DropDomain, DropBusy
    <2>3. DropLeft' = CASE drop'.st = "CHECK" -> DropCycles(job) - 2
                        [] drop'.st = "DESCEND" -> drop'.y - L + 2
                        [] drop'.st = "FINISH" -> 1
                        [] OTHER -> 0
      BY <1>1, <1>6 DEF DropLeft
    <2>4. DropHolds' <=> /\ drop'.st # "IDLE" => drop'.rows = job.rows /\ drop'.shape = s /\ drop'.x = job.x
                         /\ drop'.st = "CHECK" => drop'.y = H
                         /\ drop'.st = "DESCEND" => GeometryOk(s, job.x) /\ drop'.y \in L .. H
                         /\ drop'.st = "FINISH" /\ GeometryOk(s, job.x) => drop'.y = L
                         /\ drop'.done => (drop'.legal <=> IsLegal(job))
      BY <1>1, <1>6 DEF DropHolds, Latched
    <2>5. CASE go = "drop"
      <3>1. drop.st = "IDLE" /\ ~drop.done
        BY <1>5, <2>2, <2>5 DEF InStep
      <3>2. /\ drop'.st = "CHECK" /\ drop'.rows = job.rows /\ drop'.shape = s /\ drop'.x = job.x
            /\ drop'.y = H /\ ~drop'.done
        BY <2>1, <2>2, <2>5, <3>1 DEF DropEdge
      <3>3. DropLeft = DropCycles(job) - 1 /\ DropLeft' = DropCycles(job) - 2
        BY <2>3, <2>5, <3>2 DEF DropLeft
      <3>4. DropCycles(job) \in Nat /\ DropCycles(job) >= 4
        BY <1>3, <1>4, <1>6
      <3> QED
        BY <2>4, <3>1, <3>2, <3>3, <3>4 DEF CountsDown
    <2>6. CASE go # "drop"
      <3>1. DropHolds
        BY <2>6 DEF DropData
      <3>2. /\ drop.st # "IDLE" => drop.rows = job.rows /\ drop.shape = s /\ drop.x = job.x
            /\ drop.st = "CHECK" => drop.y = H
            /\ drop.st = "DESCEND" => GeometryOk(s, job.x) /\ drop.y \in L .. H
            /\ drop.st = "FINISH" /\ GeometryOk(s, job.x) => drop.y = L
            /\ drop.done => (drop.legal <=> IsLegal(job))
        BY <1>6, <3>1 DEF DropHolds, Latched, L, s
      <3>3. DropLeft = CASE drop.st = "CHECK" -> DropCycles(job) - 2
                         [] drop.st = "DESCEND" -> drop.y - L + 2
                         [] drop.st = "FINISH" -> 1
                         [] OTHER -> 0
        BY <1>6, <2>6 DEF DropLeft, L
      <3>4. drop.done <=> drop.st = "IDLE"
        BY <1>5, <2>2, <2>6 DEF InStep
      <3>5. CASE drop.st = "IDLE"
        <4>1. drop'.st = "IDLE" /\ ~drop'.done
          BY <2>1, <2>2, <2>6, <3>5 DEF DropEdge
        <4> QED
          BY <2>4, <3>2, <3>3, <3>4, <3>5, <4>1 DEF CountsDown
      <3>6. CASE drop.st = "CHECK"
        <4>1. /\ drop'.st = IF GeometryOk(s, job.x) THEN "DESCEND" ELSE "FINISH"
              /\ drop'.rows = job.rows /\ drop'.shape = s /\ drop'.x = job.x
              /\ drop'.y = H /\ ~drop'.done
          BY <2>1, <2>2, <3>2, <3>6 DEF DropEdge
        <4>2. H \in L .. H
          BY <1>3, <1>4
        <4>3. DropHolds'
          BY <2>4, <4>1, <4>2
        <4>4. DropLeft = DropCycles(job) - 2 /\ DropLeft' = IF GeometryOk(s, job.x) THEN H - L + 2 ELSE 1
          BY <2>3, <3>3, <3>6, <4>1
        <4> QED
          BY <1>3, <1>4, <1>6, <3>4, <3>6, <4>3, <4>4 DEF CountsDown
      <3>7. CASE drop.st = "DESCEND"
        <4>1. Landed(drop) <=> drop.y = L
          BY <1>4, <3>2, <3>7, SerialLanding
        <4>2. /\ drop'.st = IF drop.y = L THEN "FINISH" ELSE "DESCEND"
              /\ drop'.y = IF drop.y = L THEN drop.y ELSE drop.y - 1
              /\ drop'.rows = job.rows /\ drop'.shape = s /\ drop'.x = job.x /\ ~drop'.done
          BY <2>1, <2>2, <3>2, <3>7, <4>1 DEF DropEdge
        <4>3. drop.y \in L .. H /\ (drop.y # L => drop.y - 1 \in L .. H)
          BY <1>3, <1>4, <3>2, <3>7
        <4>4. DropHolds'
          BY <2>4, <3>2, <3>7, <4>2, <4>3
        <4>5. DropLeft = drop.y - L + 2 /\ DropLeft' = IF drop.y = L THEN 1 ELSE drop.y - 1 - L + 2
          BY <2>3, <3>3, <3>7, <4>2
        <4> QED
          BY <1>3, <1>4, <3>4, <3>7, <4>3, <4>4, <4>5 DEF CountsDown
      <3>8. CASE drop.st = "FINISH"
        <4>1. drop'.st = "IDLE" /\ drop'.done /\ drop'.legal = InBoard(drop)
          BY <2>1, <2>2, <3>8 DEF DropEdge
        <4>2. InBoard(drop) <=> IsLegal(job)
          BY <1>3, <3>2, <3>8 DEF InBoard
        <4> QED
          BY <2>3, <2>4, <3>3, <3>4, <3>8, <4>1, <4>2 DEF CountsDown
      <3> QED
        BY <2>2, <3>5, <3>6, <3>7, <3>8
    <2> QED
      BY <2>5, <2>6
  <1>7. CASE ARCH = 1
    <2>1. drop' = FastDropEdge(drop, go = "drop", job.heights, s, job.x)
      BY <1>7 DEF UnitsEdge, s
    <2>2. (drop'.s1 <=> go = "drop") /\ (drop'.done <=> drop.s1) /\ (DropBusy <=> drop.s1)
      <3>1. (drop'.s1 <=> go = "drop") /\ (drop'.done <=> drop.s1)
        BY <2>1 DEF FastDropEdge
      <3>2. DropBusy <=> drop.s1
        BY <1>7 DEF DropBusy
      <3> QED
        BY <3>1, <3>2
    <2>3. DropLeft' = (IF drop'.s1 THEN 1 ELSE 0)
      BY <1>1, <1>7 DEF DropLeft
    <2>4. DropHolds' <=> /\ drop'.s1 => /\ drop'.ok <=> GeometryOk(s, job.x)
                                        /\ drop'.height = Height(s.cells)
                                        /\ drop'.ok => LandingOf(drop'.d) = L
                         /\ drop'.done => (drop'.legal <=> IsLegal(job))
      BY <1>1, <1>7 DEF DropHolds
    <2>5. CASE go = "drop"
      <3>1. ~drop.s1 /\ ~drop.done
        BY <1>5, <2>2, <2>5 DEF InStep
      <3>2. /\ drop'.ok = GeometryOk(s, job.x) /\ drop'.height = Height(s.cells)
            /\ drop'.d = [k \in 0 .. 3 |-> Difference(job.heights, s, job.x, k)]
        BY <2>1, <2>5 DEF FastDropEdge
      <3>3. job.heights = ColumnHeights(job.rows)
        BY <1>7 DEF JobData
      <3>4. GeometryOk(s, job.x) => LandingOf(drop'.d) = L
        BY <1>4, <3>2, <3>3, FastLanding
      <3>5. DropLeft = 2
        BY <1>3, <1>7, <2>5 DEF DropLeft
      <3> QED
        BY <2>2, <2>3, <2>4, <2>5, <3>1, <3>2, <3>4, <3>5 DEF CountsDown
    <2>6. CASE go # "drop"
      <3>1. /\ drop.s1 => /\ drop.ok <=> GeometryOk(s, job.x)
                          /\ drop.height = Height(s.cells)
                          /\ drop.ok => LandingOf(drop.d) = L
            /\ drop.done => (drop.legal <=> IsLegal(job))
        BY <1>7, <2>6 DEF DropData, DropHolds, L, s
      <3>2. DropLeft = IF drop.s1 THEN 1 ELSE 0
        BY <1>7, <2>6 DEF DropLeft
      <3>3. drop.done <=> ~drop.s1
        BY <1>5, <2>2, <2>6 DEF InStep
      <3>4. drop.s1 => (drop'.legal <=> drop.ok /\ LandingOf(drop.d) + drop.height <= H)
        BY <2>1 DEF FastDropEdge
      <3>5. drop'.done => (drop'.legal <=> IsLegal(job))
        BY <1>3, <2>2, <3>1, <3>4
      <3> QED
        BY <2>2, <2>3, <2>4, <2>6, <3>1, <3>2, <3>3, <3>5 DEF CountsDown
    <2> QED
      BY <2>5, <2>6
  <1> QED
    BY <1>2, <1>6, <1>7

LEMMA MergeCounts ==
    ASSUME UnitsIInv, MergeData, UnitsEdge, UNCHANGED build, st = "MERGE_WAIT", go' = "none"
    PROVE  CountsDown(MergeLeft, MergeLeft', merge.done)
  <1>1. ARCH' = ARCH /\ ARCH \in {0, 1}
    BY ArchIsBit DEF ARCH, UnitsIInv
  <1>2. InStep(TRUE, go = "merge", MergeBusy, merge.done)
    BY DEF UnitsIInv, MergeInStep
  <1>3. CASE ARCH = 0
    <2>1. merge' = MergeEdge(merge, go = "merge", job.rows, ShapeRom(job), job.x, drop.yo)
      BY <1>3 DEF UnitsEdge
    <2>2. /\ {"st", "done", "k"} \subseteq DOMAIN merge /\ merge.k \in 0 .. 3
          /\ merge.st \in {"IDLE", "WRITE", "FINISH"} /\ (MergeBusy <=> merge.st # "IDLE")
      BY <1>3 DEF UnitsIInv, UnitControl, MergeControl, MergeData, MergeBusy
    <2>3. MergeLeft' = CASE merge'.st = "WRITE" -> 5 - merge'.k
                         [] merge'.st = "FINISH" -> 1
                         [] OTHER -> 0
      BY <1>1, <1>3 DEF MergeLeft
    <2>4. CASE go = "merge"
      <3>1. merge.st = "IDLE" /\ ~merge.done
        BY <1>2, <2>2, <2>4 DEF InStep
      <3>2. merge'.st = "WRITE" /\ merge'.k = 0
        BY <2>1, <2>2, <2>4, <3>1 DEF MergeEdge
      <3>3. MergeLeft = 6
        BY <1>3, <2>4 DEF MergeLeft, MergeCycles
      <3> QED
        BY <2>3, <3>1, <3>2, <3>3 DEF CountsDown
    <2>5. CASE go # "merge"
      <3>1. MergeLeft = CASE merge.st = "WRITE" -> 5 - merge.k
                          [] merge.st = "FINISH" -> 1
                          [] OTHER -> 0
        BY <1>3, <2>5 DEF MergeLeft
      <3>2. merge.done <=> merge.st = "IDLE"
        BY <1>2, <2>2, <2>5 DEF InStep
      <3>3. CASE merge.st = "WRITE"
        <4>1. merge'.st = (IF merge.k = 3 THEN "FINISH" ELSE "WRITE") /\ merge'.k = (merge.k + 1) % 4
          BY <2>1, <2>2, <3>3 DEF MergeEdge
        <4> QED
          BY <2>2, <2>3, <3>1, <3>2, <3>3, <4>1 DEF CountsDown
      <3>4. CASE merge.st = "FINISH"
        <4>1. merge'.st = "IDLE"
          BY <2>1, <2>2, <3>4 DEF MergeEdge
        <4> QED
          BY <2>3, <3>1, <3>2, <3>4, <4>1 DEF CountsDown
      <3> QED
        BY <2>2, <3>1, <3>2, <3>3, <3>4 DEF CountsDown
    <2> QED
      BY <2>4, <2>5
  <1>4. CASE ARCH = 1
    <2>1. ~MergeBusy /\ MergeLeft' = 0
      BY <1>1, <1>4 DEF MergeBusy, MergeLeft
    <2>2. MergeLeft = IF go = "merge" THEN 1 ELSE 0
      BY <1>4 DEF MergeLeft, MergeCycles
    <2> QED
      BY <1>2, <2>1, <2>2 DEF CountsDown, InStep
  <1> QED
    BY <1>1, <1>3, <1>4

LEMMA ClearCounts ==
    ASSUME CountersSuffice, UnitsIInv, ClearData, UnitsEdge, st = "CLEAR_WAIT", go' = "none"
    PROVE  CountsDown(ClearLeft, ClearLeft', clear.done)
  <1>1. clear' = ClearEdge(clear, go = "clear", merge.rows)
    BY DEF UnitsEdge
  <1>2. InStep(TRUE, go = "clear", ClearBusy, clear.done)
    BY DEF UnitsIInv, ClearInStep
  <1>3. /\ {"st", "done", "step"} \subseteq DOMAIN clear
        /\ clear.st = "SCAN" => clear.step \in 0 .. H-1
        /\ clear.st \in {"IDLE", "SCAN", "FINISH"} /\ (ClearBusy <=> clear.st # "IDLE")
        /\ H \in 1 .. 32
    BY SizeFacts DEF UnitsIInv, UnitControl, ClearControl, ClearData, ClearBusy, CountersSuffice
  <1>4. ClearLeft' = CASE clear'.st = "SCAN" -> H + 1 - clear'.step
                       [] clear'.st = "FINISH" -> 1
                       [] OTHER -> 0
    BY DEF ClearLeft
  <1>5. CASE go = "clear"
    <2>1. clear.st = "IDLE" /\ ~clear.done
      BY <1>2, <1>3, <1>5 DEF InStep
    <2>2. clear'.st = "SCAN" /\ clear'.step = 0
      BY <1>1, <1>3, <1>5, <2>1 DEF ClearEdge
    <2>3. ClearLeft = H + 2
      BY <1>5 DEF ClearLeft, ClearCycles
    <2> QED
      BY <1>3, <1>4, <2>1, <2>2, <2>3 DEF CountsDown
  <1>6. CASE go # "clear"
    <2>1. ClearLeft = CASE clear.st = "SCAN" -> H + 1 - clear.step
                        [] clear.st = "FINISH" -> 1
                        [] OTHER -> 0
      BY <1>6 DEF ClearLeft
    <2>2. clear.done <=> clear.st = "IDLE"
      BY <1>2, <1>3, <1>6 DEF InStep
    <2>3. CASE clear.st = "SCAN"
      <3>1. clear'.st = (IF clear.step = H-1 THEN "FINISH" ELSE "SCAN") /\ clear'.step = (clear.step + 1) % 32
        BY <1>1, <1>3, <2>3 DEF ClearEdge, Scanned
      <3> QED
        BY <1>3, <1>4, <2>1, <2>2, <2>3, <3>1 DEF CountsDown
    <2>4. CASE clear.st = "FINISH"
      <3>1. clear'.st = "IDLE"
        BY <1>1, <1>3, <2>4 DEF ClearEdge
      <3> QED
        BY <1>4, <2>1, <2>2, <2>4, <3>1 DEF CountsDown
    <2> QED
      BY <1>3, <2>1, <2>2, <2>3, <2>4 DEF CountsDown
  <1> QED
    BY <1>5, <1>6

LEMMA FeatCounts ==
    ASSUME UnitsIInv, FeatData, UnitsEdge, UNCHANGED build, st = "FEAT_WAIT", go' = "none"
    PROVE  CountsDown(FeatLeft, FeatLeft', feat.done)
  <1>1. ARCH' = ARCH /\ ARCH \in {0, 1}
    BY ArchIsBit DEF ARCH, UnitsIInv
  <1>2. InStep(TRUE, go = "feat", FeatBusy, feat.done)
    BY DEF UnitsIInv, FeatInStep
  <1>3. CASE ARCH = 0
    <2>1. feat' = ScanEdge(feat, go = "feat", clear.rows)
      BY <1>3 DEF UnitsEdge
    <2>2. /\ {"st", "done", "sx", "sy", "rx"} \subseteq DOMAIN feat
          /\ feat.st = "SCAN" => feat.sx \in 0 .. W-1 /\ feat.sy \in 0 .. H-1 /\ feat.rx = 0
          /\ feat.st = "REDUCE" => feat.rx \in 0 .. W-1
          /\ feat.st \in {"IDLE", "SCAN", "REDUCE", "FINISH"} /\ (FeatBusy <=> feat.st # "IDLE")
      BY <1>3 DEF UnitsIInv, UnitControl, FeatControl, FeatData, FeatBusy, Row, Column
    <2>3. FeatLeft' = CASE feat'.st = "SCAN" -> (W - feat'.sx) * H + W + 2 - H + feat'.sy
                        [] feat'.st = "REDUCE" -> W + 1 - feat'.rx
                        [] feat'.st = "FINISH" -> 1
                        [] OTHER -> 0
      BY <1>1, <1>3 DEF FeatLeft
    <2>4. CASE go = "feat"
      <3>1. feat.st = "IDLE" /\ ~feat.done
        BY <1>2, <2>2, <2>4 DEF InStep
      <3>2. feat'.st = "SCAN" /\ feat'.sx = 0 /\ feat'.sy = H-1
        BY <2>1, <2>4, <3>1 DEF ScanEdge, ScanReset
      <3>3. FeatLeft = W * (H + 1) + 2
        BY <1>3, <2>4 DEF FeatLeft, FeatCycles
      <3>4. (W - 0) * H = W * H /\ W * (H + 1) = W * H + W /\ W * H \in Nat
        BY SizeFacts
      <3>5. FeatLeft' = W * H + W + 2 - H + (H - 1)
        BY <2>3, <3>2, <3>4
      <3> DEFINE N == W * H
      <3>6. FeatLeft = N + W + 2 /\ FeatLeft' = N + W + 2 - H + (H - 1) /\ N \in Nat
        BY <3>3, <3>4, <3>5
      <3> HIDE DEF N
      <3> QED
        BY <3>1, <3>6, SizeFacts DEF CountsDown
    <2>5. CASE go # "feat"
      <3>1. FeatLeft = CASE feat.st = "SCAN" -> (W - feat.sx) * H + W + 2 - H + feat.sy
                         [] feat.st = "REDUCE" -> W + 1 - feat.rx
                         [] feat.st = "FINISH" -> 1
                         [] OTHER -> 0
        BY <1>3, <2>5 DEF FeatLeft
      <3>2. feat.done <=> feat.st = "IDLE"
        BY <1>2, <2>2, <2>5 DEF InStep
      <3>3. CASE feat.st = "SCAN"
        <4>1. ScanSteps
          BY <2>1, <2>2, <3>3 DEF ScanEdge, CellScanned, ScanSteps
        <4>2. PICK i \in 0 .. W-1, j \in 0 .. H-1 : i = feat.sx /\ j = feat.sy
          BY <2>2, <3>3
        <4>3. /\ (W - i) * H \in Nat /\ (W - i) * H >= H
              /\ (W - (i + 1)) * H = (W - i) * H - H
              /\ i = W-1 => (W - i) * H = H
          <5>1. PICK d \in Nat : d = W - i /\ d > 0
            BY SizeFacts
          <5>2. d * H \in Nat /\ (d - 1) * H = d * H - H /\ (d - 1) * H \in Nat
            BY <5>1, SizeFacts
          <5>3. d * H >= H
            BY <5>2, SizeFacts
          <5>4. W - (i + 1) = d - 1 /\ (i = W-1 => d = 1)
            BY <5>1, SizeFacts
          <5> QED
            BY <5>1, <5>2, <5>3, <5>4, SizeFacts
        <4> DEFINE P == (W - i) * H
        <4>4. FeatLeft = P + W + 2 - H + j
          BY <3>1, <3>3, <4>2
        <4>5. CASE j > 0
          <5>1. feat'.st = "SCAN" /\ feat'.sx = i /\ feat'.sy = j - 1
            BY <4>1, <4>2, <4>5 DEF ScanSteps
          <5>2. FeatLeft' = P + W + 2 - H + (j - 1)
            BY <2>3, <5>1
          <5>3. P \in Nat /\ P >= H
            BY <4>3
          <5> HIDE DEF P
          <5> QED
            BY <3>2, <3>3, <4>4, <5>2, <5>3, SizeFacts DEF CountsDown
        <4>6. CASE j = 0 /\ i # W-1
          <5>1. feat'.st = "SCAN" /\ feat'.sx = i + 1 /\ feat'.sy = H - 1
            BY <4>1, <4>2, <4>6 DEF ScanSteps
          <5>2. FeatLeft' = P - H + W + 2 - H + (H - 1)
            BY <2>3, <4>3, <5>1
          <5>3. P \in Nat /\ P >= H
            BY <4>3
          <5> HIDE DEF P
          <5> QED
            BY <3>2, <3>3, <4>4, <4>6, <5>2, <5>3, SizeFacts DEF CountsDown
        <4>7. CASE j = 0 /\ i = W-1
          <5>1. feat'.st = "REDUCE" /\ feat'.rx = 0
            BY <2>2, <3>3, <4>1, <4>2, <4>7 DEF ScanSteps
          <5>2. FeatLeft' = W + 1 /\ P = H
            BY <2>3, <4>3, <4>7, <5>1, SizeFacts
          <5> HIDE DEF P
          <5> QED
            BY <3>2, <3>3, <4>4, <4>7, <5>2, SizeFacts DEF CountsDown
        <4> QED
          BY <4>2, <4>5, <4>6, <4>7
      <3>4. CASE feat.st = "REDUCE"
        <4>1. feat'.st = (IF feat.rx = W-1 THEN "FINISH" ELSE "REDUCE") /\ feat'.rx = feat.rx + 1
          BY <2>1, <2>2, <3>4 DEF ScanEdge, ColumnReduced
        <4> QED
          BY <2>2, <2>3, <3>1, <3>2, <3>4, <4>1, SizeFacts DEF CountsDown
      <3>5. CASE feat.st = "FINISH"
        <4>1. feat'.st = "IDLE"
          BY <2>1, <2>2, <3>5 DEF ScanEdge
        <4> QED
          BY <2>3, <3>1, <3>2, <3>5, <4>1 DEF CountsDown
      <3> QED
        BY <2>2, <3>1, <3>2, <3>3, <3>4, <3>5 DEF CountsDown
    <2> QED
      BY <2>4, <2>5
  <1>4. CASE ARCH = 1
    <2>1. feat' = FastScanEdge(feat, go = "feat", clear.rows)
      BY <1>4 DEF UnitsEdge
    <2>2. {"s1", "done"} \subseteq DOMAIN feat
      BY <1>4 DEF UnitsIInv, UnitControl, FeatControl
    <2>3. feat'.s1 <=> go = "feat"
      BY <2>1, <2>2 DEF FastScanEdge, Summed, Counted
    <2>4. /\ (FeatBusy <=> feat.s1) /\ FeatLeft' = (IF feat'.s1 THEN 1 ELSE 0)
          /\ FeatLeft = IF go = "feat" THEN 2 ELSE IF feat.s1 THEN 1 ELSE 0
      BY <1>1, <1>4 DEF FeatBusy, FeatLeft, FeatCycles
    <2> QED
      BY <1>2, <2>3, <2>4 DEF CountsDown, InStep
  <1> QED
    BY <1>1, <1>3, <1>4

LEMMA ScoreCounts ==
    ASSUME UnitsIInv, UnitsEdge, st = "SCORE_WAIT", go' = "none"
    PROVE  CountsDown(ScoreLeft, ScoreLeft', score.valid)
  <1>1. InStep(TRUE, go = "score", FALSE, score.valid)
    BY DEF UnitsIInv, ScoreInStep
  <1> QED
    BY <1>1 DEF InStep, CountsDown, ScoreLeft

(* Every busy edge counts one more cycle.                                   *)
LEMMA BusyCounts ==
    ASSUME CountersSuffice, UnitsIInv, PaceIInv, UNCHANGED build, BusyEdge
    PROVE  /\ UnitsEdge /\ st # "IDLE" /\ StateOk' /\ waited \in Nat
           /\ waited' = waited + 1 /\ cyc' = waited + 1 /\ waited + 1 <= Latency(job)
           /\ go' \in {"none", "drop", "merge", "clear", "feat", "score"}
           /\ JobOk /\ build \in {0, 1} \X {0, 1}
           /\ job'.rows = job.rows /\ job'.p = job.p /\ job'.r = job.r /\ job'.x = job.x
           /\ (st # "PROFILE" => job' = job)
           /\ (st = "PROFILE" => job' = [job EXCEPT !.heights = ProfileHeights(job.rows)])
           /\ DropDomain' /\ MergeData' /\ ClearData' /\ FeatData'
  <1>1. UnitsEdge /\ st # "IDLE" /\ StateOk' /\ waited' = waited + 1 /\ cyc' = (cyc + 1) % 65536
    BY DEF BusyEdge, Decode, Profiling, DropStart, DropAwait, DropLegal, DropIllegal,
           MergeStart, MergeWait, ClearStart, ClearWait, FeatStart, FeatWait, ScoreStart,
           ScoreAwait, ScoreDone, Finish, Busy, StateOk
  <1>2. go' \in {"none", "drop", "merge", "clear", "feat", "score"}
    BY DEF BusyEdge, Decode, Profiling, DropStart, DropAwait, DropLegal, DropIllegal,
           MergeStart, MergeWait, ClearStart, ClearWait, FeatStart, FeatWait, ScoreStart,
           ScoreAwait, ScoreDone, Finish, Busy, NoGo
  <1>3. IF st = "PROFILE" THEN job' = [job EXCEPT !.heights = ProfileHeights(job.rows)]
                          ELSE job' = job
    BY DEF BusyEdge, Decode, Profiling, DropStart, DropAwait, DropLegal, DropIllegal,
           MergeStart, MergeWait, ClearStart, ClearWait, FeatStart, FeatWait, ScoreStart,
           ScoreAwait, ScoreDone, Finish, Busy
  <1>4. JobOk /\ build \in {0, 1} \X {0, 1} /\ cyc = waited
    BY <1>1 DEF PaceIInv, JobData, UnitsIInv, Reported
  <1>5. job'.rows = job.rows /\ job'.p = job.p /\ job'.r = job.r /\ job'.x = job.x
    BY <1>3, <1>4 DEF JobOk
  <1>6. waited \in Nat /\ waited < Latency(job) /\ Latency(job) < 65536
    BY <1>1, PaceInTime
  <1>7. Latency(job) \in Int
    BY <1>4, LatencyIsEnd, CycleFacts
  <1>8. cyc' = waited + 1 /\ waited + 1 <= Latency(job)
    BY <1>1, <1>4, <1>6, <1>7
  <1>9. DropDomain' /\ MergeData' /\ ClearData' /\ FeatData'
    BY <1>1, CountersKept DEF PaceIInv
  <1> QED
    BY <1>1, <1>2, <1>3, <1>4, <1>5, <1>6, <1>8, <1>9

LEMMA BusyKeepsJob ==
    ASSUME CountersSuffice, UnitsIInv, PaceIInv, UNCHANGED build, BusyEdge
    PROVE  JobData'
  <1>1. /\ st # "IDLE" /\ JobOk
        /\ job'.rows = job.rows /\ job'.p = job.p /\ job'.r = job.r /\ job'.x = job.x
        /\ (st # "PROFILE" => job' = job)
        /\ (st = "PROFILE" => job' = [job EXCEPT !.heights = ProfileHeights(job.rows)])
    BY BusyCounts
  <1>2. /\ ARCH' = ARCH /\ BOARD_REPR' = BOARD_REPR /\ (IsLegal(job)' <=> IsLegal(job))
        /\ build \in {0, 1} \X {0, 1} /\ JobData /\ Pace /\ DropData
    BY <1>1, SameJob DEF UnitsIInv, PaceIInv
  <1>3. JobOk' /\ (st = "PROFILE" => job'.heights = ColumnHeights(job.rows))
    <2>1. CASE st # "PROFILE"
      BY <1>1, <2>1 DEF JobOk
    <2>2. CASE st = "PROFILE"
      BY <1>1, <2>2, HeightsTyped DEF JobOk
    <2> QED
      BY <2>1, <2>2
  <1>4. BOARD_REPR' = 1 => job'.heights = ColumnHeights(job'.rows)
    BY <1>1, <1>2, <1>3 DEF JobData, Pace
  <1>5. ARCH' = 1 /\ st' \in {"DROP_START", "DROP_WAIT"} => job'.heights = ColumnHeights(job'.rows)
    <2>1. SUFFICES ASSUME ARCH = 1, st' \in {"DROP_START", "DROP_WAIT"}
                   PROVE  job'.heights = ColumnHeights(job'.rows)
      BY <1>2
    <2>2. st \in {"PROFILE", "DROP_START", "DROP_WAIT"} \/ (st = "DECODE" /\ BOARD_REPR # 0)
      BY <2>1 DEF BusyEdge, Decode, Profiling, DropStart, DropAwait, DropLegal, DropIllegal,
           MergeStart, MergeWait, ClearStart, ClearWait, FeatStart, FeatWait, ScoreStart,
           ScoreAwait, ScoreDone, Finish, Busy
    <2>3. BOARD_REPR \in {0, 1}
      BY <1>2 DEF BOARD_REPR
    <2> QED
      BY <1>1, <1>2, <1>3, <2>1, <2>2, <2>3 DEF JobData
  <1>6. st' \in {"MERGE_START", "MERGE_WAIT", "CLEAR_START", "CLEAR_WAIT", "FEAT_START", "FEAT_WAIT",
                 "SCORE_START", "SCORE_WAIT"} => IsLegal(job)'
    <2>1. SUFFICES ASSUME st' \in {"MERGE_START", "MERGE_WAIT", "CLEAR_START", "CLEAR_WAIT",
                                   "FEAT_START", "FEAT_WAIT", "SCORE_START", "SCORE_WAIT"}
                   PROVE  IsLegal(job)
      BY <1>2
    <2>2. \/ st \in {"MERGE_START", "MERGE_WAIT", "CLEAR_START", "CLEAR_WAIT", "FEAT_START", "FEAT_WAIT",
                     "SCORE_START", "SCORE_WAIT"}
          \/ st = "DROP_WAIT" /\ drop.done /\ drop.legal /\ UnitsEdge /\ go' = "none" /\ job' = job
      BY <2>1 DEF BusyEdge, Decode, Profiling, DropStart, DropAwait, DropLegal, DropIllegal,
           MergeStart, MergeWait, ClearStart, ClearWait, FeatStart, FeatWait, ScoreStart,
           ScoreAwait, ScoreDone, Finish, Busy, NoGo
    <2>3. CASE st = "DROP_WAIT" /\ drop.done /\ drop.legal /\ UnitsEdge /\ go' = "none" /\ job' = job
      BY <2>3, DropCounts DEF PaceIInv
    <2> QED
      BY <1>2, <2>2, <2>3 DEF JobData
  <1> QED
    BY <1>3, <1>4, <1>5, <1>6 DEF JobData

LEMMA BusyKeepsPace ==
    ASSUME CountersSuffice, UnitsIInv, PaceIInv, UNCHANGED build, BusyEdge
    PROVE  Pace' /\ DropData'
  <1> DEFINE L == Latency(job)
  <1>1. /\ UnitsEdge /\ waited \in Nat /\ waited' = waited + 1 /\ JobOk /\ build \in {0, 1} \X {0, 1}
        /\ job'.rows = job.rows /\ job'.p = job.p /\ job'.r = job.r /\ job'.x = job.x
        /\ (st # "PROFILE" => job' = job) /\ Pace /\ JobData
    BY BusyCounts DEF PaceIInv
  <1>2. /\ ARCH' = ARCH /\ BOARD_REPR' = BOARD_REPR /\ Latency(job)' = Latency(job)
        /\ MergeCycles' = MergeCycles /\ FeatCycles' = FeatCycles
        /\ DropAt' = DropAt /\ DropEnd' = DropEnd /\ MergeEnd' = MergeEnd /\ ClearEnd' = ClearEnd
        /\ FeatEnd' = FeatEnd /\ ScoreEnd' = ScoreEnd /\ DropCycles(job)' = DropCycles(job)
    BY <1>1, SameJob
  <1>3. /\ DropAt \in 1 .. 2 /\ DropCycles(job) \in 3 .. H + 5 /\ MergeCycles \in {1, 6}
        /\ ClearCycles = H + 2 /\ FeatCycles \in Nat /\ FeatCycles >= 2 /\ H \in 1 .. 32
        /\ ARCH \in {0, 1} /\ BOARD_REPR \in {0, 1}
    BY <1>1, CycleFacts, ArchIsBit DEF BOARD_REPR
  <1>4. /\ DropEnd = DropAt + DropCycles(job) /\ MergeEnd = DropEnd + 2 + MergeCycles
        /\ ClearEnd = MergeEnd + 2 + ClearCycles /\ FeatEnd = ClearEnd + 2 + FeatCycles
        /\ ScoreEnd = FeatEnd + 3
        /\ Latency(job) = (IF IsLegal(job) THEN ScoreEnd ELSE DropEnd) + 2
    BY <1>1, LatencyIsEnd DEF DropEnd, MergeEnd, ClearEnd, FeatEnd, ScoreEnd
  <1>5. /\ DropEnd \in Nat /\ MergeEnd \in Nat /\ ClearEnd \in Nat /\ FeatEnd \in Nat
    BY <1>1, LatencyIsEnd
  <1> USE DEF Busy, NoGo
  <1>6. CASE Decode
    <2>1. st' = IF ARCH = 1 /\ BOARD_REPR = 0 THEN "PROFILE" ELSE "DROP_START"
      BY <1>6 DEF Decode
    <2>2. waited' = 1
      BY <1>1, <1>6 DEF Decode, Pace
    <2> QED
      BY <1>2, <2>1, <2>2 DEF Pace, DropData, DropAt
  <1>7. CASE Profiling
    <2>1. st' = "DROP_START" /\ waited' = 2 /\ ARCH = 1 /\ BOARD_REPR = 0
      BY <1>1, <1>7 DEF Profiling, Pace
    <2> QED
      BY <1>2, <2>1 DEF Pace, DropData, DropAt
  <1>8. CASE DropStart
    <2>1. st' = "DROP_WAIT" /\ go' = "drop" /\ waited' = DropAt + 1
      BY <1>1, <1>8 DEF DropStart, Pace
    <2>2. DropLeft' = DropCycles(job) - 1
      BY <1>2, <2>1 DEF DropLeft
    <2> QED
      BY <1>2, <1>3, <1>4, <2>1, <2>2 DEF Pace, DropData
  <1>9. CASE DropAwait
    <2>1. st = "DROP_WAIT" /\ st' = "DROP_WAIT" /\ go' = "none" /\ ~drop.done
      BY <1>9 DEF DropAwait
    <2>2. DropHolds' /\ CountsDown(DropLeft, DropLeft', drop.done)
      BY <1>1, <2>1, DropCounts DEF PaceIInv
    <2> QED
      BY <1>1, <1>2, <1>4, <1>5, <2>1, <2>2 DEF Pace, DropData, CountsDown
  <1>10. CASE DropLegal \/ DropIllegal
    <2>1. /\ st = "DROP_WAIT" /\ go' = "none" /\ drop.done
          /\ st' = IF drop.legal THEN "MERGE_START" ELSE "FINISH"
      BY <1>10 DEF DropLegal, DropIllegal
    <2>2. (drop.legal <=> IsLegal(job)) /\ CountsDown(DropLeft, DropLeft', drop.done)
      BY <1>1, <2>1, DropCounts DEF PaceIInv
    <2>3. waited = DropEnd
      BY <1>1, <2>1, <2>2 DEF Pace, CountsDown
    <2>4. CASE drop.legal
      BY <1>1, <1>2, <2>1, <2>3, <2>4 DEF Pace, DropData
    <2>5. CASE ~drop.legal
      BY <1>1, <1>2, <1>4, <1>5, <2>1, <2>2, <2>3, <2>5 DEF Pace, DropData
    <2> QED
      BY <2>4, <2>5
  <1>11. CASE MergeStart
    <2>1. st' = "MERGE_WAIT" /\ go' = "merge" /\ waited' = DropEnd + 2
      BY <1>1, <1>5, <1>11 DEF MergeStart, Pace
    <2>2. MergeLeft' = MergeCycles
      BY <1>2, <2>1 DEF MergeLeft
    <2> QED
      BY <1>2, <1>3, <1>4, <2>1, <2>2 DEF Pace, DropData
  <1>12. CASE MergeWait
    <2>1. st = "MERGE_WAIT" /\ go' = "none" /\ st' = IF merge.done THEN "CLEAR_START" ELSE "MERGE_WAIT"
      BY <1>12 DEF MergeWait
    <2>2. CountsDown(MergeLeft, MergeLeft', merge.done)
      BY <1>1, <2>1, MergeCounts DEF PaceIInv
    <2> QED
      BY <1>1, <1>2, <1>5, <2>1, <2>2 DEF Pace, DropData, CountsDown
  <1>13. CASE ClearStart
    <2>1. st' = "CLEAR_WAIT" /\ go' = "clear" /\ waited' = MergeEnd + 2
      BY <1>1, <1>5, <1>13 DEF ClearStart, Pace
    <2>2. ClearLeft' = ClearCycles
      BY <2>1 DEF ClearLeft, ClearCycles
    <2> QED
      BY <1>2, <1>3, <1>4, <2>1, <2>2 DEF Pace, DropData
  <1>14. CASE ClearWait
    <2>1. st = "CLEAR_WAIT" /\ go' = "none" /\ st' = IF clear.done THEN "FEAT_START" ELSE "CLEAR_WAIT"
      BY <1>14 DEF ClearWait
    <2>2. CountsDown(ClearLeft, ClearLeft', clear.done)
      BY <1>1, <2>1, ClearCounts DEF PaceIInv
    <2> QED
      BY <1>1, <1>2, <1>5, <2>1, <2>2 DEF Pace, DropData, CountsDown
  <1>15. CASE FeatStart
    <2>1. st' = "FEAT_WAIT" /\ go' = "feat" /\ waited' = ClearEnd + 2
      BY <1>1, <1>5, <1>15 DEF FeatStart, Pace
    <2>2. FeatLeft' = FeatCycles
      BY <1>2, <2>1 DEF FeatLeft
    <2> QED
      BY <1>2, <1>3, <1>4, <2>1, <2>2 DEF Pace, DropData
  <1>16. CASE FeatWait
    <2>1. st = "FEAT_WAIT" /\ go' = "none" /\ st' = IF feat.done THEN "SCORE_START" ELSE "FEAT_WAIT"
      BY <1>16 DEF FeatWait
    <2>2. CountsDown(FeatLeft, FeatLeft', feat.done)
      BY <1>1, <2>1, FeatCounts DEF PaceIInv
    <2> QED
      BY <1>1, <1>2, <1>5, <2>1, <2>2 DEF Pace, DropData, CountsDown
  <1>17. CASE ScoreStart
    <2>1. st' = "SCORE_WAIT" /\ go' = "score" /\ waited' = FeatEnd + 2
      BY <1>1, <1>5, <1>17 DEF ScoreStart, Pace
    <2>2. ScoreLeft' = 1
      BY <2>1 DEF ScoreLeft
    <2> QED
      BY <1>2, <1>4, <1>5, <2>1, <2>2 DEF Pace, DropData
  <1>18. CASE ScoreAwait \/ ScoreDone
    <2>1. st = "SCORE_WAIT" /\ go' = "none" /\ st' = IF score.valid THEN "FINISH" ELSE "SCORE_WAIT"
      BY <1>18 DEF ScoreAwait, ScoreDone
    <2>2. CountsDown(ScoreLeft, ScoreLeft', score.valid)
      BY <1>1, <2>1, ScoreCounts
    <2>3. IsLegal(job)
      BY <1>1, <2>1 DEF JobData
    <2> QED
      BY <1>1, <1>2, <1>4, <1>5, <2>1, <2>2, <2>3 DEF Pace, DropData, CountsDown
  <1>19. CASE Finish
    BY <1>19 DEF Finish, Pace, DropData
  <1> QED
    BY <1>6, <1>7, <1>8, <1>9, <1>10, <1>11, <1>12, <1>13, <1>14, <1>15, <1>16, <1>17, <1>18, <1>19
       DEF BusyEdge

LEMMA BusyKeepsReport ==
    ASSUME CountersSuffice, UnitsIInv, PaceIInv, UNCHANGED build, BusyEdge
    PROVE  Reported'
  <1>1. /\ st # "IDLE" /\ waited \in Nat /\ waited' = waited + 1 /\ cyc' = waited + 1
        /\ job'.rows = job.rows /\ job'.p = job.p /\ job'.r = job.r /\ job'.x = job.x
        /\ {"done", "cycles"} \subseteq DOMAIN out /\ cyc = waited /\ Pace /\ Reported
    BY BusyCounts DEF PaceIInv, Reported
  <1>2. Latency(job)' = Latency(job)
    BY <1>1, SameJob
  <1>3. CASE Finish
    <2>1. st' = "IDLE" /\ out' = [out EXCEPT !.done = TRUE, !.cycles = (cyc + 1) % 65536]
          /\ cyc' = (cyc + 1) % 65536 /\ waited + 1 = Latency(job)
      BY <1>1, <1>3 DEF Finish, Busy, Pace
    <2> QED
      BY <1>1, <1>2, <2>1 DEF Reported
  <1>4. CASE ~Finish
    <2>1. \/ out' = [out EXCEPT !.done = FALSE]
          \/ out' = [ZeroOut EXCEPT !.cycles = out.cycles]
          \/ out'.done = FALSE /\ {"done", "cycles"} \subseteq DOMAIN out'
      BY <1>4 DEF BusyEdge, Decode, Profiling, DropStart, DropAwait, DropLegal, DropIllegal,
           MergeStart, MergeWait, ClearStart, ClearWait, FeatStart, FeatWait, ScoreStart,
           ScoreAwait, ScoreDone, Quiet
    <2>2. out'.done = FALSE /\ {"done", "cycles"} \subseteq DOMAIN out'
      BY <1>1, <2>1 DEF ZeroOut
    <2> QED
      BY <1>1, <2>2 DEF Reported
  <1> QED
    BY <1>3, <1>4

LEMMA PaceInit == Init => PaceIInv
  <1> SUFFICES ASSUME Init PROVE PaceIInv
    OBVIOUS
  <1>1. st = "IDLE" /\ ~out.done /\ {"done", "cycles"} \subseteq DOMAIN out
    BY DEF Init, ZeroOut
  <1>2. DropDomain /\ MergeData /\ ClearData /\ FeatData
    BY DEF Init, DropDomain, MergeData, ClearData, FeatData, DropReset, MergeReset, ClearReset, ScanReset
  <1> QED
    BY <1>1, <1>2 DEF PaceIInv, StateOk, DropData, JobData, Pace, Reported

LEMMA ResetKeepsPace ==
    ASSUME Reset, UNCHANGED build
    PROVE  PaceIInv'
  <1>1. st' = "IDLE" /\ ~out'.done /\ {"done", "cycles"} \subseteq DOMAIN out' /\ ARCH' = ARCH
    BY DEF Reset, ZeroOut, ARCH
  <1>2. DropDomain' /\ MergeData' /\ ClearData' /\ FeatData'
    BY <1>1
       DEF Reset, DropDomain, MergeData, ClearData, FeatData, DropReset, MergeReset, ClearReset, ScanReset
  <1> QED
    BY <1>1, <1>2 DEF PaceIInv, StateOk, DropData, JobData, Pace, Reported

LEMMA IdleKeepsPace ==
    ASSUME UnitsIInv, PaceIInv, UNCHANGED build, Idle \/ \E j \in Jobs : Start(j)
    PROVE  PaceIInv'
  <1>1. UnitsEdge /\ Quiet /\ {"done", "cycles"} \subseteq DOMAIN out
    BY DEF Idle, Start, PaceIInv, Reported
  <1>2. DropDomain' /\ MergeData' /\ ClearData' /\ FeatData'
    BY <1>1, CountersKept DEF PaceIInv
  <1>3. ~out'.done /\ {"done", "cycles"} \subseteq DOMAIN out'
    BY <1>1 DEF Quiet
  <1>4. CASE Idle
    <2>1. st' = "IDLE"
      BY <1>4 DEF Idle
    <2> QED
      BY <1>2, <1>3, <2>1 DEF PaceIInv, StateOk, DropData, JobData, Pace, Reported
  <1>5. ASSUME NEW j \in Jobs, Start(j)
        PROVE  PaceIInv'
    <2>1. st' = "DECODE" /\ job' = j /\ cyc' = 0 /\ waited' = 0 /\ BOARD_REPR' = BOARD_REPR
      BY <1>5 DEF Start, BOARD_REPR
    <2>2. PICK rows \in Boards, a \in Asked :
              j = [rows |-> rows, heights |-> IF BOARD_REPR = 1 THEN ColumnHeights(rows) ELSE ZeroHeights,
                   p |-> a[1], r |-> a[2], x |-> a[3]]
      BY <1>5 DEF Jobs
    <2>3. rows \in Board
      BY EvalAssumption DEF Normalized, Board
    <2>4. a[1] \in PieceId /\ a[2] \in 0 .. 3 /\ a[3] \in 0 .. 9
      BY EvalAssumption
    <2>5. ColumnHeights(rows) \in [Column -> 0 .. H] /\ ZeroHeights \in [Column -> 0 .. H]
      BY <2>3, HeightsTyped, SizeFacts DEF ZeroHeights
    <2>6. JobOk'
      BY <2>1, <2>2, <2>3, <2>4, <2>5 DEF JobOk
    <2>7. BOARD_REPR' = 1 => job'.heights = ColumnHeights(job'.rows)
      BY <2>1, <2>2
    <2> QED
      BY <1>2, <1>3, <2>1, <2>6, <2>7 DEF PaceIInv, StateOk, DropData, JobData, Pace, Reported
  <1> QED
    BY <1>4, <1>5

LEMMA PaceNext == CountersSuffice /\ UnitsIInv /\ PaceIInv /\ [Next]_vars => PaceIInv'
  <1> SUFFICES ASSUME CountersSuffice, UnitsIInv, PaceIInv, [Next]_vars PROVE PaceIInv'
    OBVIOUS
  <1>1. CASE UNCHANGED vars
    <2>1. /\ UNCHANGED <<build, st, job, cyc, go, drop, merge, clear, feat, score, out, waited>>
      BY <1>1 DEF vars, units
    <2>2. ARCH' = ARCH /\ BOARD_REPR' = BOARD_REPR
      BY <2>1 DEF ARCH, BOARD_REPR
    <2>3. /\ ShapeRom(job)' = ShapeRom(job) /\ LandingRow(job)' = LandingRow(job)
          /\ (IsLegal(job)' <=> IsLegal(job)) /\ Latency(job)' = Latency(job)
          /\ DropCycles(job)' = DropCycles(job)
          /\ MergeCycles' = MergeCycles /\ FeatCycles' = FeatCycles
          /\ DropAt' = DropAt /\ DropEnd' = DropEnd /\ MergeEnd' = MergeEnd /\ ClearEnd' = ClearEnd
          /\ FeatEnd' = FeatEnd /\ ScoreEnd' = ScoreEnd
      BY <2>1, SameJob
    <2>4. DropLeft' = DropLeft /\ MergeLeft' = MergeLeft /\ ClearLeft' = ClearLeft
          /\ FeatLeft' = FeatLeft /\ ScoreLeft' = ScoreLeft
      BY <2>1, <2>2, <2>3 DEF DropLeft, MergeLeft, ClearLeft, ClearCycles, FeatLeft, ScoreLeft
    <2>5. Pace'
      BY <2>1, <2>2, <2>3, <2>4 DEF Pace, PaceIInv
    <2>6. DropData'
      BY <2>1, <2>2, <2>3 DEF DropData, DropHolds, Latched, PaceIInv
    <2>7. JobData'
      BY <2>1, <2>2, <2>3 DEF JobData, JobOk, PaceIInv
    <2> QED
      BY <2>1, <2>2, <2>3, <2>5, <2>6, <2>7
         DEF PaceIInv, StateOk, DropDomain, MergeData, ClearData, FeatData, Reported
  <1>2. CASE Next
    <2>1. CASE BusyEdge
      BY <1>2, <2>1, BusyCounts, BusyKeepsJob, BusyKeepsPace, BusyKeepsReport DEF PaceIInv, Next
    <2> QED
      BY <1>2, <2>1, ResetKeepsPace, IdleKeepsPace DEF Next
  <1> QED
    BY <1>1, <1>2

(* The evaluator answers a job in exactly its stage cycles and reports      *)
(* them, and no job ever takes longer, whatever was asked or reset before:  *)
(* for every build, profile, board and job whose latency its counters hold  *)
(* (candidate_eval.sv, with the units of both architectures).               *)
THEOREM StagesTakeTheirCycles == ASSUME CountersSuffice PROVE Spec => []LatencyContract
  <1>1. ASSUME UnitsIInv, PaceIInv PROVE LatencyContract
    BY <1>1, PaceInTime DEF LatencyContract, PaceIInv, Reported
  <1>2. UnitsIInv /\ PaceIInv /\ [Next]_vars => UnitsIInv' /\ PaceIInv'
    BY UnitsNext, PaceNext
  <1>3. Init => UnitsIInv /\ PaceIInv
    BY UnitsInit, PaceInit
  <1> QED
    BY <1>1, <1>2, <1>3, PTL DEF Spec

-----------------------------------------------------------------------------
(* The placed piece.                                                        *)
Moved == Merged(job.rows, ShapeRom(job).cells, job.x, LandingRow(job))
NextBoard == Cleared(Moved)

(* merge_unit.sv after k cells.                                             *)
Cell(k) == CellsOf(ShapeRom(job))[k]
PlacedCells(k) ==
    [r \in Row |-> job.rows[r] \cup {job.x + Cell(i)[1] : i \in {n \in 1 .. k : LandingRow(job) + Cell(n)[2] = r}}]

LEMMA PlacedCell ==
    ASSUME JobOk, IsLegal(job)
    PROVE  /\ \A c \in ShapeRom(job).cells : /\ job.x + c[1] \in Column /\ LandingRow(job) + c[2] \in Row
                                             /\ c[1] \in 0 .. 3 /\ c[2] \in 0 .. 3 /\ c = <<c[1], c[2]>>
           /\ {Cell(k) : k \in 1 .. 4} = ShapeRom(job).cells
           /\ job.x \in Nat /\ LandingRow(job) \in Nat
  <1> DEFINE s == ShapeRom(job)  L == LandingRow(job)  x == job.x
  <1>1. s \in ShapeSet /\ x \in Nat /\ job.p \in PieceId /\ job.r \in 0 .. 3 /\ L \in 0 .. H
    BY RomFacts
  <1>2. s.valid /\ LandsInside(job.rows, s.cells, x)
    BY DEF IsLegal
  <1>3. x + Width(s.cells) <= W /\ L + Height(s.cells) <= H
    BY <1>2 DEF LandsInside, LandingRow
  <1>4. \A c \in s.cells : /\ c[1] \in 0 .. 3 /\ c[2] \in 0 .. 3 /\ c = <<c[1], c[2]>>
                           /\ c[1] < Width(s.cells)
    BY <1>1, ShapeFacts
  <1>5. \A c \in s.cells : c[2] < Height(s.cells)
    <2> DEFINE Y == {c[2] : c \in s.cells}
    <2>1. Y \in SUBSET Int /\ Y # {} /\ \A y \in Y : y <= 3
      BY <1>1, <1>4 DEF ShapeSet
    <2>2. Max(Y) \in Y /\ \A y \in Y : y <= Max(Y)
      <3> HIDE DEF Y
      <3> QED
        BY <2>1, MaxOf
    <2>3. Height(s.cells) = Max(Y) + 1 /\ Max(Y) \in Int
      BY <2>1, <2>2 DEF Height
    <2>4. \A c \in s.cells : c[2] \in Y
      OBVIOUS
    <2> HIDE DEF Y
    <2> QED
      BY <1>4, <2>2, <2>3, <2>4
  <1>6. Width(s.cells) \in 1 .. 4 /\ Height(s.cells) \in 1 .. 4
    BY <1>1, ShapeFacts
  <1>7. \A c \in s.cells : x + c[1] \in Column /\ L + c[2] \in Row
    <2> HIDE DEF s, L, x
    <2> QED
      BY <1>1, <1>3, <1>4, <1>5, <1>6, SizeFacts DEF Column, Row
  <1>8. {Cell(k) : k \in 1 .. 4} = s.cells
    <2>1. job.r < Len(Rotations[job.p])
      BY <1>2 DEF ShapeRom, NoShape
    <2>2. s.cells = Shape(job.p, job.r)
      BY <2>1 DEF ShapeRom
    <2>3. {SetToSortSeq(Shape(job.p, job.r), CellBefore)[k] : k \in 1 .. 4} = Shape(job.p, job.r)
      BY <1>1, <2>1, RomAssumption
    <2> QED
      BY <2>2, <2>3 DEF Cell, CellsOf
  <1> QED
    BY <1>1, <1>4, <1>7, <1>8

LEMMA MovedIsBoard ==
    ASSUME JobOk, IsLegal(job)
    PROVE  /\ Moved \in Board
           /\ job.rows \in Normalized => \A r \in Row : Moved[r] = FULL_ROW => r \in LandingRow(job) .. LandingRow(job) + 3
  <1> DEFINE s == ShapeRom(job)  L == LandingRow(job)  x == job.x
  <1>1. \A c \in s.cells : x + c[1] \in Column /\ c[2] \in 0 .. 3
    BY PlacedCell
  <1>2. job.rows \in Board /\ L \in Nat
    BY PlacedCell DEF JobOk
  <1>3. \A r \in Row : Moved[r] = job.rows[r] \cup {x + c[1] : c \in {d \in s.cells : L + d[2] = r}}
    BY DEF Moved, Merged
  <1>4. Moved = [r \in Row |-> Moved[r]]
    BY DEF Moved, Merged
  <1> HIDE DEF s, L, x
  <1>5. \A r \in Row : Moved[r] \in SUBSET Column
    BY <1>1, <1>2, <1>3 DEF Board
  <1>6. Moved \in Board
    BY <1>4, <1>5, Zenon DEF Board
  <1>7. ASSUME job.rows \in Normalized, NEW r \in Row, Moved[r] = FULL_ROW
        PROVE  r \in L .. L+3
    <2>1. job.rows[r] # FULL_ROW
      BY <1>7 DEF Normalized
    <2>2. PICK d \in s.cells : L + d[2] = r
      <3>1. ASSUME \A d \in s.cells : L + d[2] # r
            PROVE  Moved[r] = job.rows[r]
        <4>1. {x + c[1] : c \in {d \in s.cells : L + d[2] = r}} = {}
          BY <3>1
        <4> QED
          BY <1>3, <4>1
      <3> QED
        BY <1>7, <2>1, <3>1
    <2> QED
      BY <1>1, <1>2, <2>2
  <1> QED
    BY <1>6, <1>7 DEF L

(* The mask of merge_fast.sv.                                               *)
LEMMA MaskIsMerged ==
    ASSUME JobOk, IsLegal(job)
    PROVE  Moved = [r \in Row |-> job.rows[r] \cup {c \in Column : <<c - job.x, r - LandingRow(job)>> \in ShapeRom(job).cells}]
  <1> DEFINE s == ShapeRom(job)  L == LandingRow(job)  x == job.x
  <1>1. /\ \A c \in s.cells : x + c[1] \in Column /\ c[1] \in 0 .. 3 /\ c[2] \in 0 .. 3 /\ c = <<c[1], c[2]>>
        /\ x \in Nat /\ L \in Nat
    BY PlacedCell
  <1>2. Moved = [r \in Row |-> job.rows[r] \cup {x + c[1] : c \in {d \in s.cells : L + d[2] = r}}]
    BY DEF Moved, Merged
  <1> HIDE DEF s, L, x
  <1>3. ASSUME NEW r \in Row
        PROVE  {x + c[1] : c \in {d \in s.cells : L + d[2] = r}} = {c \in Column : <<c - x, r - L>> \in s.cells}
    <2>1. r \in Int
      BY DEF Row
    <2>2. ASSUME NEW c \in s.cells, L + c[2] = r
          PROVE  x + c[1] \in Column /\ <<(x + c[1]) - x, r - L>> \in s.cells
      <3>1. (x + c[1]) - x = c[1] /\ r - L = c[2]
        BY <1>1, <2>2
      <3> QED
        BY <1>1, <3>1
    <2>3. ASSUME NEW i \in Column, <<i - x, r - L>> \in s.cells
          PROVE  \E c \in s.cells : L + c[2] = r /\ i = x + c[1]
      <3>1. i = x + (i - x) /\ L + (r - L) = r
        BY <1>1, <2>1 DEF Column
      <3> QED
        BY <2>3, <3>1
    <2> QED
      BY <2>2, <2>3
  <1> QED
    BY <1>2, <1>3 DEF s, L, x

LEMMA PlacedCellByCell ==
    ASSUME JobOk, IsLegal(job)
    PROVE  /\ PlacedCells(0) = job.rows /\ PlacedCells(4) = Moved
           /\ \A k \in 0 .. 3 :
                  PlacedCells(k+1) = [PlacedCells(k) EXCEPT ![LandingRow(job) + Cell(k+1)[2]] = @ \cup {job.x + Cell(k+1)[1]}]
  <1> DEFINE s == ShapeRom(job)  L == LandingRow(job)  x == job.x
  <1>1. /\ \A c \in s.cells : L + c[2] \in Row
        /\ {Cell(k) : k \in 1 .. 4} = s.cells
    BY PlacedCell
  <1>2. \A k : PlacedCells(k) = [r \in Row |-> job.rows[r] \cup {x + Cell(i)[1] : i \in {n \in 1 .. k : L + Cell(n)[2] = r}}]
    BY DEF PlacedCells
  <1>3. Moved = [r \in Row |-> job.rows[r] \cup {x + c[1] : c \in {d \in s.cells : L + d[2] = r}}]
    BY DEF Moved, Merged
  <1>4. job.rows = [r \in Row |-> job.rows[r]]
    BY DEF JobOk, Board
  <1> HIDE DEF s, L, x
  <1>5. PlacedCells(0) = job.rows
    <2>1. 1 .. 0 = {}
      OBVIOUS
    <2>2. \A r \in Row : {x + Cell(i)[1] : i \in {n \in 1 .. 0 : L + Cell(n)[2] = r}} = {}
      BY <2>1
    <2> QED
      BY <1>2, <1>4, <2>2
  <1>6. PlacedCells(4) = Moved
    <2>1. ASSUME NEW r
          PROVE  {x + Cell(i)[1] : i \in {n \in 1 .. 4 : L + Cell(n)[2] = r}}
                   = {x + c[1] : c \in {d \in s.cells : L + d[2] = r}}
      BY <1>1
    <2> QED
      BY <1>2, <1>3, <2>1
  <1>7. ASSUME NEW k \in 0 .. 3
        PROVE  PlacedCells(k+1) = [PlacedCells(k) EXCEPT ![L + Cell(k+1)[2]] = @ \cup {x + Cell(k+1)[1]}]
    <2>1. k+1 \in 1 .. 4 /\ 1 .. k+1 = (1 .. k) \cup {k+1}
      OBVIOUS
    <2>2. L + Cell(k+1)[2] \in Row
      BY <1>1, <2>1
    <2>3. ASSUME NEW r
          PROVE  {x + Cell(i)[1] : i \in {n \in 1 .. k+1 : L + Cell(n)[2] = r}}
                   = {x + Cell(i)[1] : i \in {n \in 1 .. k : L + Cell(n)[2] = r}}
                       \cup IF L + Cell(k+1)[2] = r THEN {x + Cell(k+1)[1]} ELSE {}
      BY <2>1
    <2>4. ASSUME NEW r \in Row
          PROVE  PlacedCells(k+1)[r] = IF r = L + Cell(k+1)[2] THEN PlacedCells(k)[r] \cup {x + Cell(k+1)[1]}
                                       ELSE PlacedCells(k)[r]
      BY <1>2, <2>3
    <2>5. DOMAIN PlacedCells(k+1) = Row /\ DOMAIN PlacedCells(k) = Row
          /\ PlacedCells(k+1) = [r \in Row |-> PlacedCells(k+1)[r]]
      BY <1>2
    <2> QED
      BY <2>2, <2>4, <2>5
  <1> QED
    BY <1>5, <1>6, <1>7 DEF L, x

-----------------------------------------------------------------------------
(* What the units hold of a legal job.                                      *)
ResultFields ==
    /\ ARCH = 0 => /\ "yo" \in DOMAIN drop
                   /\ {"shape", "x", "y", "rows"} \subseteq DOMAIN merge
                   /\ {"rows", "seen", "heights", "a", "q", "u"} \subseteq DOMAIN feat
    /\ {"rest", "count", "rows"} \subseteq DOMAIN clear
    /\ ARCH = 1 => {"heights", "holes", "absd", "a", "q", "u"} \subseteq DOMAIN feat

MergeHolds ==
    IF ARCH = 0
    THEN /\ merge.st # "IDLE" =>
                merge.shape = ShapeRom(job) /\ merge.x = job.x /\ merge.y = LandingRow(job)
         /\ merge.st = "WRITE" => merge.rows = PlacedCells(merge.k)
         /\ merge.st \in {"IDLE", "FINISH"} => merge.rows = Moved
    ELSE merge.rows = Moved
ClearHolds ==
    /\ clear.st = "SCAN" => /\ clear.rest = RestAt(Moved, clear.step)
                            /\ clear.count = CountAt(Moved, clear.step)
                            /\ clear.rows = PushedAt(Moved, clear.step)
    /\ clear.st # "SCAN" => clear.rows = NextBoard /\ clear.count = Lines(Moved)

FeaturesAre(a, q, u) == feat.a = a /\ feat.q = HolesUsed(PRECISION, q) /\ feat.u = BumpinessUsed(PRECISION, u)
FeaturesDone == FeaturesAre(AggregateHeight(NextBoard), Holes(NextBoard), Bumpiness(NextBoard))
FeatHolds ==
    IF ARCH = 0
    THEN /\ feat.st = "SCAN" =>
                /\ feat.rows = NextBoard
                /\ feat.seen <=> SeenAbove(NextBoard, feat.sx, feat.sy)
                /\ feat.heights = HeightsScanned(NextBoard, feat.sx, feat.sy)
                /\ FeaturesAre(0, Cardinality(HolesScanned(NextBoard, feat.sx, feat.sy)), 0)
         /\ feat.st = "REDUCE" =>
                /\ feat.heights = ColumnHeights(NextBoard)
                /\ FeaturesAre(SumIn(HeightLeaves(NextBoard), 0 .. feat.rx - 1), Holes(NextBoard),
                               SumIn(StepLeaves(NextBoard), 0 .. feat.rx - 1))
         /\ feat.st \in {"IDLE", "FINISH"} => FeaturesDone
    ELSE /\ feat.s1 => /\ feat.heights = ColumnHeights(NextBoard)
                       /\ feat.holes = [x \in Column |-> Cardinality(HoleMask(NextBoard, x))]
                       /\ feat.absd = [x \in 0 .. W-2 |->
                              IF PRECISION = 4 THEN 0
                              ELSE Abs(ColumnHeights(NextBoard)[x+1] - ColumnHeights(NextBoard)[x])]
         /\ ~feat.s1 => FeaturesDone

RuleScore ==
    ScoreProfile(PRECISION, AggregateHeight(NextBoard), Holes(NextBoard), Bumpiness(NextBoard), Lines(Moved))

AfterDrop == {"MERGE_START", "MERGE_WAIT", "CLEAR_START", "CLEAR_WAIT", "FEAT_START", "FEAT_WAIT",
              "SCORE_START", "SCORE_WAIT"}
Given ==
    /\ st # "IDLE" => job.rows \in Normalized
    /\ st \in AfterDrop \/ (st = "DROP_WAIT" /\ drop.done /\ drop.legal) => drop.yo = LandingRow(job)
    /\ st = "MERGE_WAIT" /\ go # "merge" => MergeHolds
    /\ st \in {"CLEAR_START", "CLEAR_WAIT"} => merge.rows = Moved
    /\ st = "CLEAR_WAIT" /\ go # "clear" => ClearHolds
    /\ st \in {"FEAT_START", "FEAT_WAIT", "SCORE_START", "SCORE_WAIT"} =>
           clear.rows = NextBoard /\ clear.count = Lines(Moved)
    /\ st = "FEAT_WAIT" /\ go # "feat" => FeatHolds
    /\ st \in {"SCORE_START", "SCORE_WAIT"} => FeaturesDone
    /\ score.valid => score.sum = RuleScore
Recorded ==
    /\ DOMAIN out = DOMAIN ZeroOut /\ out.done \in BOOLEAN
    /\ st = "FINISH" \/ out.done => [out EXCEPT !.done = TRUE, !.cycles = 0] = Expected(job)

ResultIInv == ResultFields /\ Given /\ Recorded

LEMMA SameResult ==
    ASSUME UNCHANGED build, job'.rows = job.rows, job'.p = job.p, job'.r = job.r, job'.x = job.x
    PROVE  /\ Moved' = Moved /\ NextBoard' = NextBoard /\ RuleScore' = RuleScore
           /\ Expected(job)' = Expected(job)
           /\ ShapeRom(job)' = ShapeRom(job) /\ LandingRow(job)' = LandingRow(job) /\ ARCH' = ARCH
           /\ \A k : PlacedCells(k)' = PlacedCells(k)
  <1>1. ShapeRom(job)' = ShapeRom(job) /\ LandingRow(job)' = LandingRow(job) /\ ARCH' = ARCH
        /\ (IsLegal(job)' <=> IsLegal(job))
    BY SameJob
  <1>2. Moved' = Moved
    BY <1>1 DEF Moved
  <1>3. NextBoard' = NextBoard
    BY <1>2 DEF NextBoard
  <1>4. RuleScore' = RuleScore
    BY <1>2, <1>3 DEF RuleScore
  <1>5. Expected(job)' = Expected(job)
    BY <1>1 DEF Expected
  <1>6. \A k : Cell(k)' = Cell(k)
    BY <1>1 DEF Cell
  <1>7. \A k : PlacedCells(k)' = PlacedCells(k)
    BY <1>1, <1>6 DEF PlacedCells
  <1> QED
    BY <1>1, <1>2, <1>3, <1>4, <1>5, <1>7

(* The registers a result is read from, after any edge.                     *)
LEMMA FieldsKept ==
    ASSUME UnitsIInv, UNCHANGED build, UnitsEdge, ResultFields
    PROVE  ResultFields'
  <1>1. ARCH' = ARCH /\ ARCH \in {0, 1}
    BY ArchIsBit DEF ARCH, UnitsIInv
  <1>2. ARCH = 0 => /\ "yo" \in DOMAIN drop'
                    /\ {"shape", "x", "y", "rows"} \subseteq DOMAIN merge'
                    /\ {"rows", "seen", "heights", "a", "q", "u"} \subseteq DOMAIN feat'
    <2>1. SUFFICES ASSUME ARCH = 0
                   PROVE  /\ DOMAIN drop' = DOMAIN drop /\ DOMAIN merge' = DOMAIN merge
                          /\ DOMAIN feat' = DOMAIN feat \/ DOMAIN feat' = DOMAIN ScanReset
      BY DEF ResultFields, ScanReset
    <2>2. DOMAIN drop' = DOMAIN drop
      <3>1. drop' = DropEdge(drop, go = "drop", job.rows, ShapeRom(job), job.x)
        BY <2>1 DEF UnitsEdge
      <3>2. drop.st \in {"IDLE", "CHECK", "DESCEND", "FINISH"}
        BY <2>1 DEF UnitsIInv, UnitControl, DropControl
      <3> QED
        BY <3>1, <3>2 DEF DropEdge
    <2>3. DOMAIN merge' = DOMAIN merge
      <3>1. merge' = MergeEdge(merge, go = "merge", job.rows, ShapeRom(job), job.x, drop.yo)
        BY <2>1 DEF UnitsEdge
      <3>2. merge.st \in {"IDLE", "WRITE", "FINISH"}
        BY <2>1 DEF UnitsIInv, UnitControl, MergeControl
      <3> QED
        BY <3>1, <3>2 DEF MergeEdge
    <2>4. DOMAIN feat' = DOMAIN feat \/ DOMAIN feat' = DOMAIN ScanReset
      <3>1. feat' = ScanEdge(feat, go = "feat", clear.rows)
        BY <2>1 DEF UnitsEdge
      <3>2. feat.st \in {"IDLE", "SCAN", "REDUCE", "FINISH"}
        BY <2>1 DEF UnitsIInv, UnitControl, FeatControl
      <3>3. CASE feat.st = "IDLE"
        BY <3>1, <3>3 DEF ScanEdge
      <3>4. CASE feat.st = "SCAN"
        BY <3>1, <3>4 DEF ScanEdge, CellScanned
      <3>5. CASE feat.st \in {"REDUCE", "FINISH"}
        BY <3>1, <3>5 DEF ScanEdge, ColumnReduced
      <3> QED
        BY <3>2, <3>3, <3>4, <3>5
    <2> QED
      BY <2>2, <2>3, <2>4
  <1>3. {"rest", "count", "rows"} \subseteq DOMAIN clear'
    <2>1. clear' = ClearEdge(clear, go = "clear", merge.rows)
      BY DEF UnitsEdge
    <2>2. clear.st \in {"IDLE", "SCAN", "FINISH"}
      BY DEF UnitsIInv, UnitControl, ClearControl
    <2>3. DOMAIN clear' = DOMAIN clear
      BY <2>1, <2>2 DEF ClearEdge, Scanned
    <2> QED
      BY <2>3 DEF ResultFields
  <1>4. ARCH = 1 => {"heights", "holes", "absd", "a", "q", "u"} \subseteq DOMAIN feat'
    <2>1. SUFFICES ASSUME ARCH = 1 PROVE DOMAIN feat' = DOMAIN feat
      BY DEF ResultFields
    <2>2. feat' = FastScanEdge(feat, go = "feat", clear.rows)
      BY <2>1 DEF UnitsEdge
    <2> QED
      BY <2>2 DEF FastScanEdge, Summed, Counted
  <1> QED
    BY <1>1, <1>2, <1>3, <1>4 DEF ResultFields

(* A unit that is neither started nor running keeps its result.             *)
LEMMA ResultsRest ==
    ASSUME UnitsIInv, UnitsEdge, ResultFields
    PROVE  /\ go # "drop" /\ ~DropBusy => drop'.yo = drop.yo
           /\ go # "merge" /\ ~MergeBusy => merge'.rows = merge.rows
           /\ go # "clear" /\ ~ClearBusy => clear'.rows = clear.rows /\ clear'.count = clear.count
           /\ go # "feat" /\ ~FeatBusy => feat'.a = feat.a /\ feat'.q = feat.q /\ feat'.u = feat.u
  <1>1. ARCH \in {0, 1} /\ UnitControl
    BY ArchIsBit DEF UnitsIInv
  <1>2. ASSUME go # "drop", ~DropBusy PROVE drop'.yo = drop.yo
    <2>1. CASE ARCH = 0
      <3>1. drop' = DropEdge(drop, go = "drop", job.rows, ShapeRom(job), job.x) /\ drop.st = "IDLE"
        BY <1>2, <2>1 DEF UnitsEdge, DropBusy
      <3>2. drop' = [drop EXCEPT !.done = FALSE]
        BY <1>2, <3>1 DEF DropEdge
      <3> QED
        BY <2>1, <3>2 DEF ResultFields
    <2>2. CASE ARCH = 1
      <3>1. drop' = FastDropEdge(drop, go = "drop", job.heights, ShapeRom(job), job.x) /\ ~drop.s1
        BY <1>2, <2>2 DEF UnitsEdge, DropBusy
      <3> QED
        BY <3>1 DEF FastDropEdge
    <2> QED
      BY <1>1, <2>1, <2>2
  <1>3. ASSUME go # "merge", ~MergeBusy PROVE merge'.rows = merge.rows
    <2>1. CASE ARCH = 0
      <3>1. merge' = MergeEdge(merge, go = "merge", job.rows, ShapeRom(job), job.x, drop.yo) /\ merge.st = "IDLE"
        BY <1>3, <2>1 DEF UnitsEdge, MergeBusy
      <3>2. merge' = [merge EXCEPT !.done = FALSE]
        BY <1>3, <3>1 DEF MergeEdge
      <3> QED
        BY <2>1, <3>2 DEF ResultFields
    <2>2. CASE ARCH = 1
      <3>1. merge' = FastMergeEdge(merge, go = "merge", job.rows, ShapeRom(job), job.x, drop.yo)
        BY <1>3, <2>2 DEF UnitsEdge
      <3> QED
        BY <1>3, <3>1 DEF FastMergeEdge
    <2> QED
      BY <1>1, <2>1, <2>2
  <1>4. ASSUME go # "clear", ~ClearBusy PROVE clear'.rows = clear.rows /\ clear'.count = clear.count
    <2>1. clear' = ClearEdge(clear, go = "clear", merge.rows) /\ clear.st = "IDLE"
      BY <1>4 DEF UnitsEdge, ClearBusy
    <2>2. clear' = [clear EXCEPT !.done = FALSE]
      BY <1>4, <2>1 DEF ClearEdge
    <2> QED
      BY <2>2 DEF ResultFields
  <1>5. ASSUME go # "feat", ~FeatBusy
        PROVE  feat'.a = feat.a /\ feat'.q = feat.q /\ feat'.u = feat.u
    <2>1. CASE ARCH = 0
      <3>1. feat' = ScanEdge(feat, go = "feat", clear.rows) /\ feat.st = "IDLE"
        BY <1>5, <2>1 DEF UnitsEdge, FeatBusy
      <3>2. feat' = [feat EXCEPT !.done = FALSE]
        BY <1>5, <3>1 DEF ScanEdge
      <3> QED
        BY <2>1, <3>2 DEF ResultFields
    <2>2. CASE ARCH = 1
      <3>1. feat' = FastScanEdge(feat, go = "feat", clear.rows) /\ ~feat.s1
        BY <1>5, <2>2 DEF UnitsEdge, FeatBusy
      <3> QED
        BY <1>5, <2>2, <3>1 DEF FastScanEdge, ResultFields
    <2> QED
      BY <1>1, <2>1, <2>2
  <1> QED
    BY <1>2, <1>3, <1>4, <1>5

(* What each unit holds after an edge of the stage that waits for it.       *)
LEMMA DropTells ==
    ASSUME UnitsIInv, DropDomain, ResultFields, JobOk, UnitsEdge, st = "DROP_WAIT",
           go # "drop" => DropHolds
    PROVE  drop'.done /\ drop'.legal => drop'.yo = LandingRow(job)
  <1>1. ARCH \in {0, 1} /\ UnitControl /\ (go = "drop" => ~DropBusy)
    BY ArchIsBit DEF UnitsIInv, DropInStep, InStep
  <1>2. CASE ARCH = 0
    <2>1. drop' = DropEdge(drop, go = "drop", job.rows, ShapeRom(job), job.x)
      BY <1>2 DEF UnitsEdge
    <2>2. /\ drop.st \in {"IDLE", "CHECK", "DESCEND", "FINISH"}
          /\ {"st", "done", "rows", "shape", "x", "y", "legal", "yo"} \subseteq DOMAIN drop
      BY <1>1, <1>2 DEF UnitControl, DropControl, DropDomain, ResultFields
    <2>3. CASE drop.st # "FINISH"
      BY <2>1, <2>2, <2>3 DEF DropEdge
    <2>4. CASE drop.st = "FINISH"
      <3>1. /\ drop.shape = ShapeRom(job) /\ drop.x = job.x
            /\ GeometryOk(ShapeRom(job), job.x) => drop.y = LandingRow(job)
        BY <1>1, <1>2, <2>4 DEF DropHolds, Latched, DropBusy
      <3>2. drop' = [drop EXCEPT !.done = TRUE, !.st = "IDLE", !.legal = InBoard(drop),
                                 !.yo = IF InBoard(drop) THEN drop.y ELSE 0]
        BY <2>1, <2>2, <2>4 DEF DropEdge
      <3>3. drop'.legal = InBoard(drop) /\ drop'.yo = IF InBoard(drop) THEN drop.y ELSE 0
        BY <2>2, <3>2
      <3> QED
        BY <3>1, <3>3 DEF InBoard
    <2> QED
      BY <2>3, <2>4
  <1>3. CASE ARCH = 1
    <2>1. drop' = FastDropEdge(drop, go = "drop", job.heights, ShapeRom(job), job.x)
      BY <1>3 DEF UnitsEdge
    <2>2. drop.s1 => (drop.ok => LandingOf(drop.d) = LandingRow(job))
      BY <1>1, <1>3 DEF DropHolds, DropBusy
    <2> QED
      BY <2>1, <2>2 DEF FastDropEdge
  <1> QED
    BY <1>1, <1>2, <1>3

LEMMA MergeTells ==
    ASSUME UnitsIInv, MergeData, ResultFields, JobOk, IsLegal(job), UnitsEdge,
           UNCHANGED <<build, job>>, st = "MERGE_WAIT", drop.yo = LandingRow(job),
           go # "merge" => MergeHolds
    PROVE  MergeHolds'
  <1>1. ARCH \in {0, 1} /\ UnitControl /\ MergeInStep
    BY ArchIsBit DEF UnitsIInv
  <1>2. /\ Moved' = Moved /\ ShapeRom(job)' = ShapeRom(job) /\ LandingRow(job)' = LandingRow(job)
        /\ ARCH' = ARCH /\ \A k : PlacedCells(k)' = PlacedCells(k)
    BY SameResult
  <1>3. CASE ARCH = 0
    <2>1. merge' = MergeEdge(merge, go = "merge", job.rows, ShapeRom(job), job.x, drop.yo)
      BY <1>3 DEF UnitsEdge
    <2>2. /\ merge.st \in {"IDLE", "WRITE", "FINISH"} /\ merge.k \in 0 .. 3
          /\ {"st", "done", "k", "shape", "x", "y", "rows"} \subseteq DOMAIN merge
      BY <1>1, <1>3 DEF UnitControl, MergeControl, MergeData, ResultFields
    <2>3. CASE go = "merge"
      <3>1. merge.st = "IDLE"
        BY <1>1, <1>3, <2>3 DEF MergeInStep, InStep, MergeBusy
      <3>2. merge' = [merge EXCEPT !.done = FALSE, !.st = "WRITE", !.rows = job.rows, !.shape = ShapeRom(job),
                                   !.x = job.x, !.y = drop.yo, !.k = 0]
        BY <2>1, <2>3, <3>1 DEF MergeEdge
      <3>3. merge'.st = "WRITE" /\ merge'.rows = job.rows /\ merge'.shape = ShapeRom(job) /\ merge'.x = job.x
            /\ merge'.y = LandingRow(job) /\ merge'.k = 0
        BY <2>2, <3>2
      <3>4. PlacedCells(0) = job.rows
        BY PlacedCellByCell
      <3> QED
        BY <1>2, <1>3, <3>3, <3>4 DEF MergeHolds
    <2>4. CASE go # "merge" /\ merge.st = "WRITE"
      <3> DEFINE k == merge.k
      <3>1. /\ merge.shape = ShapeRom(job) /\ merge.x = job.x /\ merge.y = LandingRow(job)
            /\ merge.rows = PlacedCells(k)
        BY <1>3, <2>4 DEF MergeHolds
      <3>2. CellsOf(merge.shape)[merge.k + 1] = Cell(k+1)
        BY <3>1 DEF Cell
      <3>3. merge' = [merge EXCEPT !.done = FALSE,
                          !.rows[merge.y + Cell(k+1)[2]] = @ \cup {merge.x + Cell(k+1)[1]},
                          !.st = IF merge.k = 3 THEN "FINISH" ELSE "WRITE", !.k = (merge.k + 1) % 4]
        BY <2>1, <2>4, <3>2 DEF MergeEdge
      <3>4. /\ merge'.rows = [merge.rows EXCEPT ![merge.y + Cell(k+1)[2]] = @ \cup {merge.x + Cell(k+1)[1]}]
            /\ merge'.st = IF k = 3 THEN "FINISH" ELSE "WRITE"
            /\ merge'.k = (k + 1) % 4
            /\ merge'.shape = merge.shape /\ merge'.x = merge.x /\ merge'.y = merge.y
        BY <2>2, <3>3
      <3>5. PlacedCells(4) = Moved /\ merge'.rows = PlacedCells(k+1)
        BY <2>2, <3>1, <3>4, PlacedCellByCell
      <3> HIDE DEF k
      <3>6. k \in 0 .. 3
        BY <2>2 DEF k
      <3>7. (k = 3 => k + 1 = 4) /\ (k # 3 => (k + 1) % 4 = k + 1)
        BY <3>6
      <3> QED
        BY <1>2, <1>3, <3>1, <3>4, <3>5, <3>7 DEF MergeHolds
    <2>5. CASE go # "merge" /\ merge.st # "WRITE"
      <3>1. merge'.st = "IDLE" /\ merge'.rows = merge.rows
        BY <2>1, <2>2, <2>5 DEF MergeEdge
      <3>2. merge.rows = Moved
        BY <1>3, <2>2, <2>5 DEF MergeHolds
      <3> QED
        BY <1>2, <1>3, <3>1, <3>2 DEF MergeHolds
    <2> QED
      BY <2>3, <2>4, <2>5
  <1>4. CASE ARCH = 1
    <2>1. merge' = FastMergeEdge(merge, go = "merge", job.rows, ShapeRom(job), job.x, drop.yo)
      BY <1>4 DEF UnitsEdge
    <2>2. CASE go = "merge"
      BY <1>2, <1>4, <2>1, <2>2, MaskIsMerged DEF FastMergeEdge, MergeHolds
    <2>3. CASE go # "merge"
      BY <1>2, <1>4, <2>1, <2>3 DEF FastMergeEdge, MergeHolds
    <2> QED
      BY <2>2, <2>3
  <1> QED
    BY <1>1, <1>3, <1>4

LEMMA ClearTells ==
    ASSUME UnitsIInv, ClearData, ResultFields, JobOk, IsLegal(job), BoardFits, UnitsEdge,
           UNCHANGED <<build, job>>, st = "CLEAR_WAIT", merge.rows = Moved,
           go # "clear" => ClearHolds
    PROVE  ClearHolds'
  <1>1. UnitControl /\ ClearInStep /\ Moved \in Board
    BY MovedIsBoard DEF UnitsIInv
  <1>2. Moved' = Moved /\ NextBoard' = NextBoard
    BY SameResult
  <1>3. clear' = ClearEdge(clear, go = "clear", merge.rows)
    BY DEF UnitsEdge
  <1>4. /\ clear.st \in {"IDLE", "SCAN", "FINISH"} /\ (clear.st = "SCAN" => clear.step \in 0 .. H-1)
        /\ {"st", "done", "step", "rest", "count", "rows"} \subseteq DOMAIN clear
    BY <1>1 DEF UnitControl, ClearControl, ClearData, ResultFields
  <1>5. CASE go = "clear"
    <2>1. clear.st = "IDLE"
      BY <1>1, <1>5 DEF ClearInStep, InStep, ClearBusy
    <2>2. clear' = [clear EXCEPT !.done = FALSE, !.st = "SCAN", !.rest = Moved, !.rows = EMPTY_BOARD,
                                 !.count = 0, !.step = 0]
      BY <1>3, <1>5, <2>1 DEF ClearEdge
    <2>3. clear'.st = "SCAN" /\ clear'.rest = Moved /\ clear'.rows = EMPTY_BOARD /\ clear'.count = 0 /\ clear'.step = 0
      BY <1>4, <2>2
    <2>4. RestAt(Moved, 0) = Moved /\ PushedAt(Moved, 0) = EMPTY_BOARD /\ CountAt(Moved, 0) = 0
      BY <1>1, ScanBegins
    <2> QED
      BY <1>2, <2>3, <2>4 DEF ClearHolds
  <1>6. CASE go # "clear" /\ clear.st = "SCAN"
    <2> DEFINE s == clear.step
    <2>1. /\ clear.rest = RestAt(Moved, s) /\ clear.count = CountAt(Moved, s) /\ clear.rows = PushedAt(Moved, s)
      BY <1>6 DEF ClearHolds
    <2>2. s \in 0 .. H-1
      BY <1>4, <1>6
    <2>3. clear' = Scanned(clear)
      BY <1>3, <1>6 DEF ClearEdge
    <2>4. /\ clear'.rest = Push(clear.rest, {}) /\ clear'.step = (s + 1) % 32
          /\ clear'.st = IF s = H-1 THEN "FINISH" ELSE "SCAN"
          /\ clear.rest[H-1] = FULL_ROW => clear'.count = (clear.count + 1) % 32 /\ clear'.rows = clear.rows
          /\ clear.rest[H-1] # FULL_ROW => /\ clear'.count = clear.count
                                           /\ clear'.rows = Push(clear.rows, clear.rest[H-1])
      <3>1. CASE clear.rest[H-1] = FULL_ROW
        BY <1>4, <2>3, <3>1 DEF Scanned
      <3>2. CASE clear.rest[H-1] # FULL_ROW
        BY <1>4, <2>3, <3>2 DEF Scanned
      <3> QED
        BY <3>1, <3>2
    <2>5. /\ RestAt(Moved, s)[H-1] = Moved[H-1-s]
          /\ Push(RestAt(Moved, s), {}) = RestAt(Moved, s+1)
          /\ CountAt(Moved, s) \in 0 .. s
          /\ Moved[H-1-s] = FULL_ROW => /\ CountAt(Moved, s+1) = CountAt(Moved, s) + 1
                                        /\ PushedAt(Moved, s+1) = PushedAt(Moved, s)
          /\ Moved[H-1-s] # FULL_ROW => /\ CountAt(Moved, s+1) = CountAt(Moved, s)
                                        /\ PushedAt(Moved, s+1) = Push(PushedAt(Moved, s), Moved[H-1-s])
      BY <1>1, <2>2, ScanGoesOn
    <2>6. /\ (s + 1) % 32 = s + 1 /\ (CountAt(Moved, s) + 1) % 32 = CountAt(Moved, s) + 1
          /\ (s = H-1 => s + 1 = H)
      <3> HIDE DEF s
      <3>1. H \in Nat /\ H <= 20
        BY SizeFacts DEF BoardFits
      <3> QED
        BY <2>2, <2>5, <3>1
    <2>7. clear'.rest = RestAt(Moved, s+1) /\ clear'.count = CountAt(Moved, s+1) /\ clear'.rows = PushedAt(Moved, s+1)
          /\ clear'.step = s+1
      BY <2>1, <2>4, <2>5, <2>6
    <2>8. CASE s = H-1
      <3>1. PushedAt(Moved, H) = NextBoard /\ CountAt(Moved, H) = Lines(Moved)
        BY <1>1, ScanEnds DEF NextBoard
      <3> QED
        BY <1>2, <2>4, <2>6, <2>7, <2>8, <3>1 DEF ClearHolds
    <2>9. CASE s # H-1
      BY <1>2, <2>4, <2>7, <2>9 DEF ClearHolds
    <2> QED
      BY <2>8, <2>9
  <1>7. CASE go # "clear" /\ clear.st # "SCAN"
    <2>1. clear'.st = "IDLE" /\ clear'.rows = clear.rows /\ clear'.count = clear.count
      BY <1>3, <1>4, <1>7 DEF ClearEdge
    <2> QED
      BY <1>2, <1>7, <2>1 DEF ClearHolds
  <1> QED
    BY <1>5, <1>6, <1>7

(* features.sv: a cell of the scan.                                         *)
LEMMA SerialScanTells ==
    ASSUME UnitsIInv, FeatData, ResultFields, JobOk, IsLegal(job), BoardFits, UnitsEdge,
           UNCHANGED <<build, job>>, ARCH = 0, feat.st = "SCAN", FeatHolds
    PROVE  FeatHolds'
  <1> DEFINE b == NextBoard  x == feat.sx  y == feat.sy
             n == Cardinality(HolesScanned(b, x, y))
             occupied == x \in b[y]
             last == y = 0
  <1>1. b \in Board /\ Moved \in Board
    BY MovedIsBoard, ClearedBoard DEF NextBoard
  <1>2. NextBoard' = b /\ ARCH' = 0
    BY SameResult
  <1>3. /\ x \in Column /\ y \in Row /\ feat.rx = 0
        /\ {"st", "done", "sx", "sy", "rx", "rows", "seen", "heights", "a", "q", "u"} \subseteq DOMAIN feat
    BY DEF FeatData, ResultFields
  <1>4. /\ feat.rows = b /\ (feat.seen <=> SeenAbove(b, x, y)) /\ feat.heights = HeightsScanned(b, x, y)
        /\ feat.a = 0 /\ feat.q = HolesUsed(PRECISION, n) /\ feat.u = BumpinessUsed(PRECISION, 0)
    BY DEF FeatHolds, FeaturesAre
  <1>5. feat' = CellScanned(feat)
    BY DEF UnitsEdge, ScanEdge
  <1>6. /\ feat'.rows = b /\ feat'.a = 0 /\ feat'.u = BumpinessUsed(PRECISION, 0) /\ feat'.rx = 0
        /\ feat'.sy = IF last THEN H-1 ELSE y - 1
        /\ feat'.sx = IF last THEN x + 1 ELSE x
        /\ (feat'.seen <=> ~last /\ (feat.seen \/ occupied))
        /\ feat'.st = IF last /\ x = W-1 THEN "REDUCE" ELSE "SCAN"
    BY <1>3, <1>4, <1>5 DEF CellScanned
  <1>7. /\ feat'.heights = IF occupied /\ ~SeenAbove(b, x, y) THEN [HeightsScanned(b, x, y) EXCEPT ![x] = y + 1]
                           ELSE HeightsScanned(b, x, y)
        /\ feat'.q = IF SeenAbove(b, x, y) /\ ~occupied THEN HoleCounted(HolesUsed(PRECISION, n))
                     ELSE HolesUsed(PRECISION, n)
    BY <1>3, <1>4, <1>5 DEF CellScanned
  <1>8. /\ feat'.heights = HeightsScanned(b, x, y-1)
        /\ feat'.q = HolesUsed(PRECISION, Cardinality(HolesScanned(b, x, y-1)))
    BY <1>1, <1>3, <1>7, CellScan
  <1>9. CASE ~last
    <2>1. SeenAbove(b, x, y-1) <=> SeenAbove(b, x, y) \/ occupied
      BY <1>1, <1>3, CellFacts
    <2>2. feat'.st = "SCAN" /\ feat'.sx = x /\ feat'.sy = y-1 /\ (feat'.seen <=> SeenAbove(b, x, y-1))
      BY <1>4, <1>6, <1>9, <2>1
    <2> QED
      BY <1>2, <1>6, <1>8, <2>2 DEF FeatHolds, FeaturesAre
  <1>10. CASE last
    <2>1. y - 1 = 0 - 1 /\ ~SeenAbove(b, x+1, H-1)
      BY <1>1, <1>3, <1>10, NextColumn
    <2>2. /\ feat'.heights = HeightsScanned(b, x+1, H-1)
          /\ feat'.q = HolesUsed(PRECISION, Cardinality(HolesScanned(b, x+1, H-1)))
          /\ feat'.sx = x+1 /\ feat'.sy = H-1 /\ ~feat'.seen
      BY <1>1, <1>3, <1>6, <1>8, <1>10, <2>1, NextColumn
    <2>3. CASE x # W-1
      <3>1. feat'.st = "SCAN" /\ (feat'.seen <=> SeenAbove(b, x+1, H-1))
        BY <1>6, <2>1, <2>2, <2>3
      <3> QED
        BY <1>2, <1>6, <2>2, <3>1 DEF FeatHolds, FeaturesAre
    <2>4. CASE x = W-1
      <3>1. x + 1 = W
        BY <2>4, SizeFacts
      <3>2. feat'.heights = ColumnHeights(b) /\ feat'.q = HolesUsed(PRECISION, Holes(b)) /\ feat'.st = "REDUCE"
        BY <1>1, <1>6, <1>10, <2>2, <2>4, <3>1, ScanEndsColumns, HolesSum
      <3>3. SumIn(HeightLeaves(b), 0 .. 0-1) = 0 /\ SumIn(StepLeaves(b), 0 .. 0-1) = 0
        <4>1. 0 .. 0-1 = {}
          OBVIOUS
        <4> QED
          BY <1>1, <4>1, LeafTypes, SumInTakes
      <3> QED
        BY <1>2, <1>6, <3>2, <3>3 DEF FeatHolds, FeaturesAre
    <2> QED
      BY <2>3, <2>4
  <1> QED
    BY <1>9, <1>10

(* features.sv: a column of the reduction.                                  *)
LEMMA SerialReduceTells ==
    ASSUME UnitsIInv, FeatData, ResultFields, JobOk, IsLegal(job), BoardFits, UnitsEdge,
           UNCHANGED <<build, job>>, ARCH = 0, feat.st = "REDUCE", FeatHolds
    PROVE  FeatHolds'
  <1> DEFINE b == NextBoard  x == feat.rx
             a == SumIn(HeightLeaves(b), 0 .. x-1)
             u == SumIn(StepLeaves(b), 0 .. x-1)
             h == HeightLeaves(b)[x]
             d == StepLeaves(b)[x]
             step == IF x = 0 \/ PRECISION = 4 THEN 0 ELSE Abs(feat.heights[x] - feat.heights[x - 1])
  <1>1. b \in Board /\ Moved \in Board
    BY MovedIsBoard, ClearedBoard DEF NextBoard
  <1>2. NextBoard' = b /\ ARCH' = 0
    BY SameResult
  <1>3. /\ x \in Column
        /\ {"st", "done", "sx", "sy", "rx", "rows", "seen", "heights", "a", "q", "u"} \subseteq DOMAIN feat
    BY DEF FeatData, ResultFields
  <1>4. /\ feat.heights = ColumnHeights(b) /\ feat.a = a /\ feat.q = HolesUsed(PRECISION, Holes(b))
        /\ feat.u = BumpinessUsed(PRECISION, u)
    BY DEF FeatHolds, FeaturesAre
  <1>5. feat' = ColumnReduced(feat)
    BY DEF UnitsEdge, ScanEdge
  <1>6. /\ feat'.heights = ColumnHeights(b) /\ feat'.q = HolesUsed(PRECISION, Holes(b))
        /\ feat'.rx = x + 1 /\ feat'.st = IF x = W-1 THEN "FINISH" ELSE "REDUCE"
        /\ feat'.a = (a + ColumnHeights(b)[x]) % 256
        /\ feat'.u = (BumpinessUsed(PRECISION, u) + step) % 256
    BY <1>3, <1>4, <1>5 DEF ColumnReduced
  <1>7. /\ HeightLeaves(b) \in [Leaves -> Leaf] /\ StepLeaves(b) \in [Leaves -> Leaf]
        /\ HeightLeaves(b) \in [Leaves -> Int] /\ StepLeaves(b) \in [Leaves -> Int]
        /\ x \in Leaves /\ h = ColumnHeights(b)[x]
        /\ d = IF x = 0 THEN 0 ELSE Abs(ColumnHeights(b)[x] - ColumnHeights(b)[x-1])
    <2>1. x \in Leaves /\ h = ColumnHeight(b, x)
      BY <1>1, <1>3, LeafTypes
    <2>2. x # 0 => x \in 1 .. W-1
      BY <1>3, SizeFacts DEF Column
    <2> QED
      BY <1>1, <1>3, <2>1, <2>2, LeafTypes DEF ColumnHeights
  <1>8. /\ SumIn(HeightLeaves(b), 0 .. x) = a + h /\ SumIn(StepLeaves(b), 0 .. x) = u + d
        /\ a \in 0 .. 200 /\ u \in 0 .. 200
        /\ SumIn(HeightLeaves(b), 0 .. x) \in 0 .. 200 /\ SumIn(StepLeaves(b), 0 .. x) \in 0 .. 200
    <2>1. 0 .. x \in SUBSET Leaves /\ 0 .. x-1 \in SUBSET Leaves
      BY <1>7 DEF Leaves
    <2>2. SumIn(HeightLeaves(b), 0 .. x) = a + h /\ SumIn(StepLeaves(b), 0 .. x) = u + d
      BY <1>7, NextSum
    <2>3. \A v \in [Leaves -> Leaf], s \in SUBSET Leaves : SumIn(v, s) \in 0 .. 200
      BY SumInBounds
    <2>4. /\ SumIn(HeightLeaves(b), 0 .. x) \in 0 .. 200 /\ a \in 0 .. 200
          /\ SumIn(StepLeaves(b), 0 .. x) \in 0 .. 200 /\ u \in 0 .. 200
      BY <1>7, <2>1, <2>3, Zenon
    <2> QED
      BY <2>2, <2>4
  <1>9. feat'.a = SumIn(HeightLeaves(b), 0 .. x)
    <2>1. (a + h) % 256 = a + h
      <3>1. a + h \in 0 .. 200
        BY <1>8
      <3> HIDE DEF a, h
      <3> QED
        BY <3>1
    <2> QED
      BY <1>6, <1>7, <1>8, <2>1
  <1>10. feat'.u = BumpinessUsed(PRECISION, SumIn(StepLeaves(b), 0 .. x))
    <2>1. step = IF PRECISION = 4 THEN 0 ELSE d
      BY <1>4, <1>7
    <2>2. /\ BumpinessUsed(PRECISION, u) = IF PRECISION = 4 THEN 0 ELSE u
          /\ BumpinessUsed(PRECISION, u + d) = IF PRECISION = 4 THEN 0 ELSE u + d
      <3>1. 0 \in 0 .. 200
        OBVIOUS
      <3> QED
        BY <3>1, UsedFeatures
    <2>3. (IF PRECISION = 4 THEN 0 ELSE u + d) % 256 = IF PRECISION = 4 THEN 0 ELSE u + d
      <3>1. u + d \in 0 .. 200
        BY <1>8
      <3> HIDE DEF u, d
      <3> QED
        BY <3>1
    <2>4. (IF PRECISION = 4 THEN 0 ELSE u) + (IF PRECISION = 4 THEN 0 ELSE d) = IF PRECISION = 4 THEN 0 ELSE u + d
      OBVIOUS
    <2> QED
      BY <1>6, <1>8, <2>1, <2>2, <2>3, <2>4
  <1>11. x + 1 - 1 = x /\ (x = W-1 => 0 .. x = 0 .. W-1)
    BY <1>3 DEF Column
  <1>12. CASE x = W-1
    <2>1. feat'.a = AggregateHeight(b) /\ feat'.u = BumpinessUsed(PRECISION, Bumpiness(b))
      BY <1>1, <1>9, <1>10, <1>12, AggregateHeightSum, BumpinessSum
    <2> QED
      BY <1>2, <1>6, <1>12, <2>1 DEF FeatHolds, FeaturesDone, FeaturesAre
  <1>13. CASE x # W-1
    <2>1. /\ feat'.st = "REDUCE"
          /\ feat'.a = SumIn(HeightLeaves(b), 0 .. feat'.rx-1)
          /\ feat'.u = BumpinessUsed(PRECISION, SumIn(StepLeaves(b), 0 .. feat'.rx-1))
      <3>1. feat'.rx = x + 1 /\ x \in Int
        BY <1>3, <1>6 DEF Column
      <3>2. feat'.rx - 1 = x
        BY <3>1
      <3> QED
        BY <1>6, <1>9, <1>10, <1>13, <3>2
    <2> QED
      BY <1>2, <1>6, <2>1 DEF FeatHolds, FeaturesAre
  <1> QED
    BY <1>12, <1>13

(* features_fast.sv: both stages.                                           *)
LEMMA FastScanTells ==
    ASSUME UnitsIInv, ResultFields, JobOk, IsLegal(job), BoardFits, UnitsEdge,
           UNCHANGED <<build, job>>, ARCH = 1, st = "FEAT_WAIT", clear.rows = NextBoard,
           go # "feat" => FeatHolds
    PROVE  FeatHolds'
  <1> DEFINE b == NextBoard
             holes == [x \in Column |-> Cardinality(HoleMask(b, x))]
             absd == [x \in 0 .. W-2 |-> IF PRECISION = 4 THEN 0
                                         ELSE Abs(ColumnHeights(b)[x+1] - ColumnHeights(b)[x])]
  <1>1. b \in Board /\ Moved \in Board
    BY MovedIsBoard, ClearedBoard DEF NextBoard
  <1>2. NextBoard' = b /\ ARCH' = 1
    BY SameResult
  <1>3. {"s1", "done", "heights", "holes", "absd", "a", "q", "u"} \subseteq DOMAIN feat
    BY DEF UnitsIInv, UnitControl, FeatControl, ResultFields
  <1>4. feat' = FastScanEdge(feat, go = "feat", b)
    BY DEF UnitsEdge
  <1>5. ProfileHeights(b) = ColumnHeights(b)
    BY <1>1, HeightsTyped
  <1>6. CASE go = "feat"
    <2>1. ~feat.s1
      BY <1>6 DEF UnitsIInv, FeatInStep, InStep, FeatBusy
    <2>2. feat' = [Counted(feat, b) EXCEPT !.s1 = (go = "feat"), !.done = feat.s1]
      BY <1>4, <1>6, <2>1 DEF FastScanEdge
    <2>3. Counted(feat, b) = [feat EXCEPT !.heights = ColumnHeights(b), !.holes = holes, !.absd = absd]
      BY <1>5 DEF Counted
    <2>4. feat'.s1 /\ feat'.heights = ColumnHeights(b) /\ feat'.holes = holes /\ feat'.absd = absd
      <3> HIDE DEF holes, absd
      <3> QED
        BY <1>3, <1>6, <2>2, <2>3
    <2> QED
      BY <1>2, <2>4 DEF FeatHolds
  <1>7. CASE go # "feat" /\ feat.s1
    <2>1. feat.heights = ColumnHeights(b) /\ feat.holes = holes /\ feat.absd = absd
      BY <1>7 DEF FeatHolds
    <2>2. feat' = [Summed(feat) EXCEPT !.s1 = FALSE, !.done = TRUE]
      BY <1>4, <1>7 DEF FastScanEdge
    <2>3. /\ ~feat'.s1 /\ feat'.a = FastSum(Padded(feat.heights)) /\ feat'.q = HoleSum(Padded(feat.holes))
          /\ feat'.u = FastSum(Padded(feat.absd))
      BY <1>3, <2>2 DEF Summed
    <2>4. feat'.a = AggregateHeight(b)
      BY <1>1, <2>1, <2>3, LeafTypes, FastSumExact, AggregateHeightSum DEF HeightLeaves
    <2>5. feat'.q = HolesUsed(PRECISION, Holes(b))
      <3>1. HoleLeaves(b) \in [Leaves -> Leaf] /\ Padded(feat.holes) = HoleLeaves(b)
        BY <1>1, <2>1, HoleLeafTypes DEF HoleLeaves
      <3>2. Holes(b) = SumOf(HoleLeaves(b)) /\ Holes(b) \in 0 .. 200
        BY <1>1, HolesSum
      <3>3. HolesUsed(PRECISION, Holes(b)) = IF PRECISION = 3 THEN Saturated(Holes(b)) ELSE Holes(b)
        BY <3>2, UsedFeatures
      <3>4. HoleSum(HoleLeaves(b)) = IF PRECISION = 3 THEN Saturated(Holes(b)) ELSE Holes(b)
        BY <3>1, <3>2, FastSumExact, SaturatingSumExact, Zenon DEF HoleSum
      <3> QED
        BY <2>3, <3>1, <3>3, <3>4
    <2>6. feat'.u = BumpinessUsed(PRECISION, Bumpiness(b))
      <3>1. BumpinessUsed(PRECISION, Bumpiness(b)) = IF PRECISION = 4 THEN 0 ELSE Bumpiness(b)
        <4>1. 0 \in 0 .. 200
          OBVIOUS
        <4> QED
          BY <4>1, UsedFeatures
      <3>2. CASE PRECISION = 4
        <4> DEFINE z == Padded(absd)
        <4>1. z = [i \in Leaves |-> 0]
          BY <3>2 DEF Padded
        <4>2. z \in [Leaves -> Leaf] /\ \A i \in Leaves : z[i] = 0
          <5>1. 0 \in Leaf
            BY DEF Leaf
          <5> HIDE DEF z
          <5> QED
            BY <4>1, <5>1
        <4> HIDE DEF z
        <4>3. SumOf(z) = 0
          BY <4>2 DEF SumOf, Leaves
        <4>4. FastSum(z) = 0
          BY <4>2, <4>3, FastSumExact
        <4> QED
          BY <2>1, <2>3, <3>1, <3>2, <4>4 DEF z
      <3>3. CASE PRECISION # 4
        <4> DEFINE d == [x \in 0 .. W-2 |-> Abs(ColumnHeights(b)[x+1] - ColumnHeights(b)[x])]
        <4>1. absd = d
          BY <3>3
        <4>2. Padded(d) \in [Leaves -> Leaf] /\ SumOf(Padded(d)) = Bumpiness(b)
          BY <1>1, ShiftedSteps
        <4>3. FastSum(Padded(d)) = Bumpiness(b)
          BY <4>2, FastSumExact
        <4> QED
          BY <2>1, <2>3, <3>1, <3>3, <4>1, <4>3
      <3> QED
        BY <3>2, <3>3
    <2> QED
      BY <1>2, <2>3, <2>4, <2>5, <2>6 DEF FeatHolds, FeaturesDone, FeaturesAre
  <1>8. CASE go # "feat" /\ ~feat.s1
    <2>1. feat' = [feat EXCEPT !.s1 = (go = "feat"), !.done = feat.s1]
      BY <1>4, <1>8 DEF FastScanEdge
    <2>2. ~feat'.s1 /\ feat'.a = feat.a /\ feat'.q = feat.q /\ feat'.u = feat.u
      BY <1>3, <1>8, <2>1
    <2>3. FeaturesDone
      BY <1>8 DEF FeatHolds
    <2> QED
      BY <1>2, <2>2, <2>3 DEF FeatHolds, FeaturesDone, FeaturesAre
  <1> QED
    BY <1>6, <1>7, <1>8

LEMMA FeatTells ==
    ASSUME UnitsIInv, FeatData, ResultFields, JobOk, IsLegal(job), BoardFits, UnitsEdge,
           UNCHANGED <<build, job>>, st = "FEAT_WAIT", clear.rows = NextBoard,
           go # "feat" => FeatHolds
    PROVE  FeatHolds'
  <1> DEFINE b == NextBoard
  <1>1. b \in Board /\ Moved \in Board
    BY MovedIsBoard, ClearedBoard DEF NextBoard
  <1>2. NextBoard' = b /\ ARCH' = ARCH /\ ARCH \in {0, 1} /\ UnitControl /\ FeatInStep
    BY SameResult, ArchIsBit DEF UnitsIInv
  <1>3. CASE ARCH = 1
    BY <1>3, FastScanTells
  <1>4. CASE ARCH = 0
    <2>1. feat' = ScanEdge(feat, go = "feat", b)
      BY <1>4 DEF UnitsEdge
    <2>2. /\ feat.st \in {"IDLE", "SCAN", "REDUCE", "FINISH"}
          /\ {"st", "done", "sx", "sy", "rx", "rows", "seen", "heights", "a", "q", "u"} \subseteq DOMAIN feat
      BY <1>2, <1>4 DEF UnitControl, FeatControl, FeatData, ResultFields
    <2>3. CASE go = "feat"
      <3>1. feat.st = "IDLE"
        BY <1>2, <1>4, <2>3 DEF FeatInStep, InStep, FeatBusy
      <3>2. feat' = [ScanReset EXCEPT !.st = "SCAN", !.rows = b]
        BY <2>1, <2>3, <3>1 DEF ScanEdge
      <3>3. /\ feat'.st = "SCAN" /\ feat'.rows = b /\ feat'.sx = 0 /\ feat'.sy = H-1 /\ ~feat'.seen
            /\ feat'.heights = [x \in Column |-> 0] /\ feat'.a = 0 /\ feat'.q = 0 /\ feat'.u = 0
        BY <3>2 DEF ScanReset
      <3>4. /\ ~SeenAbove(b, 0, H-1) /\ HeightsScanned(b, 0, H-1) = [x \in Column |-> 0]
            /\ Cardinality(HolesScanned(b, 0, H-1)) = 0
        BY <1>1, ScanBeginsColumns, FS_EmptySet
      <3>5. HolesUsed(PRECISION, 0) = 0 /\ BumpinessUsed(PRECISION, 0) = 0
        <4>1. 0 \in 0 .. 200
          OBVIOUS
        <4> QED
          BY <4>1, UsedFeatures DEF Saturated
      <3> QED
        BY <1>2, <1>4, <3>3, <3>4, <3>5 DEF FeatHolds, FeaturesAre
    <2>4. CASE go # "feat" /\ feat.st = "SCAN"
      BY <1>4, <2>4, SerialScanTells
    <2>5. CASE go # "feat" /\ feat.st = "REDUCE"
      BY <1>4, <2>5, SerialReduceTells
    <2>6. CASE go # "feat" /\ feat.st \in {"IDLE", "FINISH"}
      <3>1. /\ feat'.st = "IDLE" /\ feat'.a = feat.a /\ feat'.q = feat.q /\ feat'.u = feat.u
        BY <2>1, <2>2, <2>6 DEF ScanEdge
      <3>2. FeaturesDone
        BY <1>4, <2>6 DEF FeatHolds
      <3> QED
        BY <1>2, <1>4, <3>1, <3>2 DEF FeatHolds, FeaturesDone, FeaturesAre
    <2> QED
      BY <2>2, <2>3, <2>4, <2>5, <2>6
  <1> QED
    BY <1>2, <1>3, <1>4

(* The score of a pulse is the one of the rules.                            *)
LEMMA ScoreTells ==
    ASSUME UnitsIInv, JobOk, IsLegal(job), job.rows \in Normalized, BoardFits, UnitsEdge,
           UNCHANGED <<build, job>>, FeaturesDone, clear.count = Lines(Moved)
    PROVE  score'.valid => score'.sum = RuleScore'
  <1> DEFINE b == NextBoard  l == Lines(Moved)  a == AggregateHeight(b)  q == Holes(b)  u == Bumpiness(b)
  <1>1. Moved \in Board /\ b \in Board
    BY MovedIsBoard, ClearedBoard DEF NextBoard
  <1>2. RuleScore' = RuleScore
    BY SameResult
  <1>3. l \in 0 .. 4
    <2>1. LandingRow(job) \in Nat
      BY PlacedCell
    <2>2. \A r \in Row : Moved[r] = FULL_ROW => r \in LandingRow(job) .. LandingRow(job) + 3
      BY MovedIsBoard
    <2> QED
      BY <1>1, <2>1, <2>2, FewLines
  <1>4. a \in 0 .. 200 /\ q \in 0 .. 200 /\ u \in 0 .. 180
    BY <1>1, AggregateHeightSum, HolesSum, BumpinessSum
  <1>5. clear.count % 8 = l
    <2> HIDE DEF l
    <2>1. l % 8 = l
      BY <1>3
    <2> QED
      BY <2>1 DEF l
  <1>6. PRECISION \in 0 .. 7
    BY RulesAssumption
  <1>7. score' = ScoreEdge(score, go = "score", feat, clear.count)
    BY DEF UnitsEdge
  <1>8. go = "score" => score'.sum = ScoreSum(PRECISION, a, HolesUsed(PRECISION, q), BumpinessUsed(PRECISION, u), l)
    BY <1>5, <1>7 DEF ScoreEdge, FeaturesDone, FeaturesAre
  <1>9. ScoreSum(PRECISION, a, HolesUsed(PRECISION, q), BumpinessUsed(PRECISION, u), l) = RuleScore
    BY <1>3, <1>4, <1>6, ScoreSumExact DEF RuleScore
  <1> QED
    BY <1>2, <1>7, <1>8, <1>9 DEF ScoreEdge

(* The record a job ends with.                                              *)
RuleRecord ==
    [done |-> TRUE, legal |-> TRUE, y |-> LandingRow(job), lines |-> Lines(Moved), next |-> NextBoard,
     a |-> AggregateHeight(NextBoard), q |-> HolesUsed(PRECISION, Holes(NextBoard)),
     u |-> BumpinessUsed(PRECISION, Bumpiness(NextBoard)), score |-> RuleScore, cycles |-> 0]

LEMMA ExpectedRecord ==
    ASSUME JobOk
    PROVE  Expected(job) = IF IsLegal(job) THEN RuleRecord ELSE [ZeroOut EXCEPT !.done = TRUE]
  <1> DEFINE e == Evaluate(job.rows, job.p, 10 * job.r + job.x)
             f == FeaturesOf(NextBoard)
  <1>1. CASE ~IsLegal(job)
    BY <1>1 DEF Expected
  <1>2. CASE IsLegal(job)
    <2>1. RotationOf(10 * job.r + job.x) = job.r /\ ColumnOf(10 * job.r + job.x) = job.x
      <3>1. ASSUME NEW r \in 0 .. 3, NEW x \in 0 .. 9
            PROVE  (10 * r + x) \div 10 = r /\ (10 * r + x) % 10 = x
        OBVIOUS
      <3>2. job.r \in 0 .. 3 /\ job.x \in 0 .. 9
        BY DEF JobOk
      <3> QED
        BY <3>1, <3>2 DEF RotationOf, ColumnOf
    <2>2. ShapeRom(job).valid /\ LandsInside(job.rows, ShapeRom(job).cells, job.x)
      BY <1>2 DEF IsLegal
    <2>3. ShapeRom(job).cells = Shape(job.p, job.r)
      BY <2>2 DEF ShapeRom, NoShape
    <2>4. e = Scored(LandingRow(job), Lines(Moved), NextBoard, f)
      BY <2>1, <2>2, <2>3 DEF Evaluate, Moved, NextBoard, LandingRow
    <2>5. /\ e.y = LandingRow(job) /\ e.lines = Lines(Moved) /\ e.next = NextBoard
          /\ e.a = AggregateHeight(NextBoard) /\ e.q = Holes(NextBoard) /\ e.u = Bumpiness(NextBoard)
          /\ e.score = RuleScore
      BY <2>4 DEF Scored, FeaturesOf, RuleScore
    <2> HIDE DEF e
    <2>6. Expected(job) = [done |-> TRUE, legal |-> TRUE, y |-> e.y, lines |-> e.lines, next |-> e.next, a |-> e.a,
                           q |-> HolesUsed(PRECISION, e.q), u |-> BumpinessUsed(PRECISION, e.u),
                           score |-> e.score, cycles |-> 0]
      BY <1>2 DEF Expected, e
    <2> QED
      BY <1>2, <2>5, <2>6 DEF RuleRecord
  <1> QED
    BY <1>1, <1>2

(* The order of the stages.                                                 *)
LEMMA StageOrder ==
    ASSUME BusyEdge
    PROVE  \/ /\ st \in {"DECODE", "PROFILE", "FINISH"}
              /\ st' \in {"PROFILE", "DROP_START", "IDLE"} /\ go' = "none"
           \/ st = "DROP_START" /\ st' = "DROP_WAIT" /\ go' = "drop"
           \/ st = "DROP_WAIT" /\ st' = "DROP_WAIT" /\ ~drop.done /\ go' = "none"
           \/ st = "DROP_WAIT" /\ drop.done /\ st' = "FINISH" /\ go' = "none"
           \/ st = "DROP_WAIT" /\ drop.done /\ drop.legal /\ st' = "MERGE_START" /\ go' = "none"
           \/ st = "MERGE_START" /\ st' = "MERGE_WAIT" /\ go' = "merge"
           \/ /\ st = "MERGE_WAIT" /\ go' = "none"
              /\ st' = IF merge.done THEN "CLEAR_START" ELSE "MERGE_WAIT"
           \/ st = "CLEAR_START" /\ st' = "CLEAR_WAIT" /\ go' = "clear"
           \/ /\ st = "CLEAR_WAIT" /\ go' = "none"
              /\ st' = IF clear.done THEN "FEAT_START" ELSE "CLEAR_WAIT"
           \/ st = "FEAT_START" /\ st' = "FEAT_WAIT" /\ go' = "feat"
           \/ /\ st = "FEAT_WAIT" /\ go' = "none"
              /\ st' = IF feat.done THEN "SCORE_START" ELSE "FEAT_WAIT"
           \/ st = "SCORE_START" /\ st' = "SCORE_WAIT" /\ go' = "score"
           \/ /\ st = "SCORE_WAIT" /\ go' = "none"
              /\ st' = IF score.valid THEN "FINISH" ELSE "SCORE_WAIT"
  BY DEF BusyEdge, Decode, Profiling, DropStart, DropAwait, DropLegal, DropIllegal,
         MergeStart, MergeWait, ClearStart, ClearWait, FeatStart, FeatWait, ScoreStart,
         ScoreAwait, ScoreDone, Finish, Busy, NoGo

LEMMA BusyKeepsGiven ==
    ASSUME CountersSuffice, BoardFits, UnitsIInv, PaceIInv, ResultIInv, UNCHANGED build, BusyEdge
    PROVE  Given'
  <1>1. /\ UnitsEdge /\ st # "IDLE" /\ JobOk
        /\ job'.rows = job.rows /\ job'.p = job.p /\ job'.r = job.r /\ job'.x = job.x
        /\ (st # "PROFILE" => job' = job)
    BY BusyCounts
  <1>2. /\ Moved' = Moved /\ NextBoard' = NextBoard /\ RuleScore' = RuleScore
        /\ LandingRow(job)' = LandingRow(job) /\ ARCH' = ARCH /\ ARCH \in {0, 1}
    BY <1>1, SameResult, ArchIsBit DEF UnitsIInv
  <1>3. UnitsIInv'
    BY BusyKeepsUnits
  <1>4. ResultFields /\ Given /\ JobData /\ DropDomain /\ MergeData /\ ClearData /\ FeatData /\ DropData
    BY DEF ResultIInv, PaceIInv
  <1>5. st \in AfterDrop => IsLegal(job) /\ job' = job /\ drop.yo = LandingRow(job)
    BY <1>1, <1>4 DEF JobData, AfterDrop, Given
  <1>6. DropInStep /\ MergeInStep /\ ClearInStep /\ FeatInStep /\ ScoreInStep /\ DropInStep'
    BY <1>3 DEF UnitsIInv
  <1>7. /\ st # "DROP_WAIT" \/ drop.done => drop'.yo = drop.yo
        /\ st # "MERGE_WAIT" \/ merge.done => merge'.rows = merge.rows
        /\ st # "CLEAR_WAIT" \/ clear.done => clear'.rows = clear.rows /\ clear'.count = clear.count
        /\ st # "FEAT_WAIT" \/ feat.done => feat'.a = feat.a /\ feat'.q = feat.q /\ feat'.u = feat.u
    <2>1. /\ st # "DROP_WAIT" \/ drop.done => go # "drop" /\ ~DropBusy
          /\ st # "MERGE_WAIT" \/ merge.done => go # "merge" /\ ~MergeBusy
          /\ st # "CLEAR_WAIT" \/ clear.done => go # "clear" /\ ~ClearBusy
          /\ st # "FEAT_WAIT" \/ feat.done => go # "feat" /\ ~FeatBusy
      BY <1>6 DEF DropInStep, MergeInStep, ClearInStep, FeatInStep, InStep
    <2> QED
      BY <1>1, <1>4, <2>1, ResultsRest
  <1>8. st' # "IDLE" => job'.rows \in Normalized
    BY <1>1, <1>4 DEF Given
  <1>9. st' \in AfterDrop \/ (st' = "DROP_WAIT" /\ drop'.done /\ drop'.legal) => drop'.yo = LandingRow(job)'
    <2>1. CASE st' \in AfterDrop
      <3>1. st \in AfterDrop \/ (st = "DROP_WAIT" /\ drop.done /\ drop.legal)
        BY <2>1, StageOrder DEF AfterDrop
      <3> QED
        BY <1>2, <1>4, <1>7, <3>1 DEF Given, AfterDrop
    <2>2. CASE st' = "DROP_WAIT" /\ drop'.done /\ drop'.legal
      <3>1. st = "DROP_WAIT"
        <4>1. go' # "drop"
          BY <1>6, <2>2 DEF DropInStep, InStep
        <4> QED
          BY <2>2, <4>1, StageOrder
      <3> QED
        BY <1>1, <1>2, <1>4, <2>2, <3>1, DropTells DEF DropData
    <2> QED
      BY <2>1, <2>2
  <1>10. st' = "MERGE_WAIT" /\ go' # "merge" => MergeHolds'
    <2>1. SUFFICES ASSUME st' = "MERGE_WAIT", go' # "merge" PROVE MergeHolds'
      OBVIOUS
    <2>2. st = "MERGE_WAIT"
      BY <2>1, StageOrder
    <2> QED
      BY <1>1, <1>4, <1>5, <2>2, MergeTells DEF Given, AfterDrop
  <1>11. st' \in {"CLEAR_START", "CLEAR_WAIT"} => merge'.rows = Moved'
    <2>1. SUFFICES ASSUME st' \in {"CLEAR_START", "CLEAR_WAIT"} PROVE merge'.rows = Moved
      BY <1>2
    <2>2. st \in {"CLEAR_START", "CLEAR_WAIT"} \/ (st = "MERGE_WAIT" /\ merge.done)
      BY <2>1, StageOrder
    <2>3. merge.rows = Moved
      <3>1. CASE st = "MERGE_WAIT" /\ merge.done
        <4>1. go # "merge" /\ ~MergeBusy
          BY <1>6, <3>1 DEF MergeInStep, InStep
        <4> QED
          BY <1>2, <1>4, <3>1, <4>1 DEF Given, MergeHolds, MergeBusy
      <3> QED
        BY <1>4, <2>2, <3>1 DEF Given
    <2> QED
      BY <1>7, <2>2, <2>3
  <1>12. st' = "CLEAR_WAIT" /\ go' # "clear" => ClearHolds'
    <2>1. SUFFICES ASSUME st' = "CLEAR_WAIT", go' # "clear" PROVE ClearHolds'
      OBVIOUS
    <2>2. st = "CLEAR_WAIT"
      BY <2>1, StageOrder
    <2> QED
      BY <1>1, <1>4, <1>5, <2>2, ClearTells DEF Given, AfterDrop
  <1>13. st' \in {"FEAT_START", "FEAT_WAIT", "SCORE_START", "SCORE_WAIT"}
           => clear'.rows = NextBoard' /\ clear'.count = Lines(Moved)'
    <2>1. SUFFICES ASSUME st' \in {"FEAT_START", "FEAT_WAIT", "SCORE_START", "SCORE_WAIT"}
                   PROVE  clear'.rows = NextBoard /\ clear'.count = Lines(Moved)
      BY <1>2
    <2>2. st \in {"FEAT_START", "FEAT_WAIT", "SCORE_START", "SCORE_WAIT"} \/ (st = "CLEAR_WAIT" /\ clear.done)
      BY <2>1, StageOrder
    <2>3. clear.rows = NextBoard /\ clear.count = Lines(Moved)
      <3>1. CASE st = "CLEAR_WAIT" /\ clear.done
        <4>1. go # "clear" /\ ~ClearBusy
          BY <1>6, <3>1 DEF ClearInStep, InStep
        <4> QED
          BY <1>4, <3>1, <4>1 DEF Given, ClearHolds, ClearBusy
      <3> QED
        BY <1>4, <2>2, <3>1 DEF Given
    <2> QED
      BY <1>7, <2>2, <2>3
  <1>14. st' = "FEAT_WAIT" /\ go' # "feat" => FeatHolds'
    <2>1. SUFFICES ASSUME st' = "FEAT_WAIT", go' # "feat" PROVE FeatHolds'
      OBVIOUS
    <2>2. st = "FEAT_WAIT"
      BY <2>1, StageOrder
    <2> QED
      BY <1>1, <1>4, <1>5, <2>2, FeatTells DEF Given, AfterDrop
  <1>15. st' \in {"SCORE_START", "SCORE_WAIT"} => FeaturesDone'
    <2>1. SUFFICES ASSUME st' \in {"SCORE_START", "SCORE_WAIT"} PROVE FeaturesDone'
      OBVIOUS
    <2>2. st \in {"SCORE_START", "SCORE_WAIT"} \/ (st = "FEAT_WAIT" /\ feat.done)
      BY <2>1, StageOrder
    <2>3. FeaturesDone
      <3>1. CASE st = "FEAT_WAIT" /\ feat.done
        <4>1. go # "feat" /\ ~FeatBusy
          BY <1>6, <3>1 DEF FeatInStep, InStep
        <4> QED
          BY <1>2, <1>4, <3>1, <4>1 DEF Given, FeatHolds, FeatBusy
      <3> QED
        BY <1>4, <2>2, <3>1 DEF Given
    <2> QED
      BY <1>2, <1>7, <2>2, <2>3 DEF FeaturesDone, FeaturesAre
  <1>16. score'.valid => score'.sum = RuleScore'
    <2>1. SUFFICES ASSUME score'.valid PROVE score'.sum = RuleScore'
      OBVIOUS
    <2>2. go = "score"
      BY <1>1, <2>1 DEF UnitsEdge, ScoreEdge
    <2>3. st = "SCORE_WAIT"
      BY <1>6, <2>2 DEF ScoreInStep, InStep
    <2>4. FeaturesDone /\ clear.count = Lines(Moved) /\ job.rows \in Normalized
      BY <1>4, <2>3 DEF Given
    <2> QED
      BY <1>1, <1>5, <2>1, <2>3, <2>4, ScoreTells DEF AfterDrop
  <1> QED
    BY <1>8, <1>9, <1>10, <1>11, <1>12, <1>13, <1>14, <1>15, <1>16 DEF Given

(* The records of one job differ in what they report of its end only.       *)
Fields == {"done", "legal", "y", "lines", "next", "a", "q", "u", "score", "cycles"}
LEMMA SameRecord ==
    ASSUME NEW o, NEW p, DOMAIN o = Fields, DOMAIN p = Fields,
           \A k \in Fields : k # "done" /\ k # "cycles" => o[k] = p[k]
    PROVE  [o EXCEPT !.done = TRUE, !.cycles = 0] = [p EXCEPT !.done = TRUE, !.cycles = 0]
  <1> DEFINE Stamp(r) == [k \in DOMAIN r |-> IF k = "cycles" THEN 0 ELSE IF k = "done" THEN TRUE ELSE r[k]]
  <1>1. \A r : [r EXCEPT !.done = TRUE, !.cycles = 0] = Stamp(r)
    OBVIOUS
  <1>2. Stamp(o) = Stamp(p)
    OBVIOUS
  <1> QED
    BY <1>1, <1>2

LEMMA WholeRecord ==
    ASSUME NEW o, NEW p, DOMAIN o = Fields, p = [k \in Fields |-> p[k]], p.done = TRUE, p.cycles = 0,
           o.legal = p.legal, o.y = p.y, o.lines = p.lines, o.next = p.next,
           o.a = p.a, o.q = p.q, o.u = p.u, o.score = p.score
    PROVE  [o EXCEPT !.done = TRUE, !.cycles = 0] = p
  <1>1. \A k \in Fields : k # "done" /\ k # "cycles" => o[k] = p[k]
    BY DEF Fields
  <1>2. [o EXCEPT !.done = TRUE, !.cycles = 0] = [p EXCEPT !.done = TRUE, !.cycles = 0]
    BY <1>1, SameRecord
  <1>3. [p EXCEPT !.done = TRUE, !.cycles = 0] = [k \in Fields |-> p[k]]
    OBVIOUS
  <1> QED
    BY <1>2, <1>3

LEMMA BusyKeepsRecord ==
    ASSUME CountersSuffice, BoardFits, UnitsIInv, PaceIInv, ResultIInv, UNCHANGED build, BusyEdge
    PROVE  Recorded'
  <1>1. /\ st # "IDLE" /\ JobOk /\ build \in {0, 1} \X {0, 1}
        /\ job'.rows = job.rows /\ job'.p = job.p /\ job'.r = job.r /\ job'.x = job.x
    BY BusyCounts
  <1>2. Expected(job)' = Expected(job)
    BY <1>1, SameResult
  <1>3. Recorded /\ Given /\ JobData /\ DOMAIN out = DOMAIN ZeroOut
    BY DEF ResultIInv, PaceIInv, Recorded
  <1>4. DOMAIN ZeroOut = Fields
    BY DEF ZeroOut, Fields
  <1>5. CASE Finish
    <2>1. st = "FINISH" /\ out' = [out EXCEPT !.done = TRUE, !.cycles = (cyc + 1) % 65536]
      BY <1>5 DEF Finish, Busy
    <2>2. [out EXCEPT !.done = TRUE, !.cycles = 0] = Expected(job)
      BY <1>3, <2>1 DEF Recorded
    <2>3. DOMAIN out' = DOMAIN out /\ out'.done = TRUE
      BY <1>3, <1>4, <2>1 DEF Fields
    <2>4. [out' EXCEPT !.done = TRUE, !.cycles = 0] = [out EXCEPT !.done = TRUE, !.cycles = 0]
      <3>1. \A k \in Fields : k # "done" /\ k # "cycles" => out'[k] = out[k]
        <4>1. DOMAIN out = Fields
          BY <1>3, <1>4
        <4> DEFINE n == (cyc + 1) % 65536
        <4>2. out' = [out EXCEPT !.done = TRUE, !.cycles = n]
          BY <2>1
        <4> HIDE DEF n
        <4> QED
          BY <4>1, <4>2
      <3> QED
        BY <1>3, <1>4, <2>3, <3>1, SameRecord
    <2> QED
      BY <1>2, <1>3, <2>2, <2>3, <2>4 DEF Recorded
  <1>6. CASE DropIllegal
    <2>1. out' = [ZeroOut EXCEPT !.cycles = out.cycles] /\ ~IsLegal(job)
      <3>1. st = "DROP_WAIT" /\ drop.done /\ ~drop.legal /\ go' = "none" /\ UnitsEdge /\ UNCHANGED job
        BY <1>6 DEF DropIllegal, Busy, NoGo
      <3>2. drop.done => (drop.legal <=> IsLegal(job))
        BY <1>3, <3>1, DropCounts DEF PaceIInv
      <3> QED
        BY <1>6, <3>1, <3>2 DEF DropIllegal
    <2>2. Expected(job) = [ZeroOut EXCEPT !.done = TRUE]
      BY <1>1, <2>1, ExpectedRecord
    <2>3. DOMAIN out' = DOMAIN ZeroOut /\ out'.done = FALSE
      BY <2>1 DEF ZeroOut
    <2>4. [out' EXCEPT !.done = TRUE, !.cycles = 0] = [ZeroOut EXCEPT !.done = TRUE]
      <3> DEFINE p == [ZeroOut EXCEPT !.done = TRUE]
      <3>1. p = [k \in Fields |-> p[k]]
        BY <1>4
      <3>2. /\ p.done = TRUE /\ p.cycles = 0
            /\ out'.legal = p.legal /\ out'.y = p.y /\ out'.lines = p.lines /\ out'.next = p.next
            /\ out'.a = p.a /\ out'.q = p.q /\ out'.u = p.u /\ out'.score = p.score
        BY <2>1 DEF ZeroOut
      <3> HIDE DEF p
      <3>3. [out' EXCEPT !.done = TRUE, !.cycles = 0] = p
        BY <1>4, <2>3, <3>1, <3>2, WholeRecord
      <3> QED
        BY <3>3 DEF p
    <2> QED
      BY <1>2, <2>2, <2>3, <2>4 DEF Recorded
  <1>7. CASE ScoreDone
    <2>1. /\ st = "SCORE_WAIT" /\ score.valid
          /\ out' = [done |-> FALSE, legal |-> TRUE, y |-> drop.yo, lines |-> clear.count % 8,
               next |-> clear.rows, a |-> feat.a, q |-> feat.q, u |-> feat.u, score |-> score.sum,
               cycles |-> out.cycles]
      BY <1>7 DEF ScoreDone, Busy
    <2>2. IsLegal(job) /\ job.rows \in Normalized
      BY <1>3, <2>1 DEF JobData, Given
    <2>3. /\ drop.yo = LandingRow(job) /\ clear.rows = NextBoard /\ clear.count = Lines(Moved)
          /\ FeaturesDone /\ score.sum = RuleScore
      BY <1>3, <2>1 DEF Given, AfterDrop
    <2>4. clear.count % 8 = Lines(Moved)
      <3>1. Moved \in Board /\ LandingRow(job) \in Nat
            /\ \A r \in Row : Moved[r] = FULL_ROW => r \in LandingRow(job) .. LandingRow(job) + 3
        BY <1>1, <2>2, MovedIsBoard, PlacedCell
      <3>2. Lines(Moved) \in 0 .. 4
        BY <3>1, FewLines
      <3> QED
        BY <2>3, <3>2
    <2>5. Expected(job) = RuleRecord
      BY <1>1, <2>2, ExpectedRecord
    <2>6. DOMAIN out' = DOMAIN ZeroOut /\ out'.done = FALSE
      BY <2>1 DEF ZeroOut
    <2>7. /\ RuleRecord = [k \in Fields |-> RuleRecord[k]] /\ RuleRecord.done = TRUE /\ RuleRecord.cycles = 0
          /\ DOMAIN out' = Fields
      BY <1>4, <2>6 DEF RuleRecord, Fields
    <2>8. [out' EXCEPT !.done = TRUE, !.cycles = 0] = RuleRecord
      <3>1. /\ out'.legal = RuleRecord.legal /\ out'.y = RuleRecord.y /\ out'.lines = RuleRecord.lines
            /\ out'.next = RuleRecord.next /\ out'.a = RuleRecord.a /\ out'.q = RuleRecord.q
            /\ out'.u = RuleRecord.u /\ out'.score = RuleRecord.score
        BY <2>1, <2>3, <2>4 DEF RuleRecord, FeaturesDone, FeaturesAre
      <3> QED
        BY <2>7, <3>1, WholeRecord
    <2> QED
      BY <1>2, <2>5, <2>6, <2>8 DEF Recorded
  <1>8. CASE ~Finish /\ ~DropIllegal /\ ~ScoreDone
    <2>1. out' = [out EXCEPT !.done = FALSE] /\ st' # "FINISH"
      BY <1>8 DEF BusyEdge, Decode, Profiling, DropStart, DropAwait, DropLegal,
           MergeStart, MergeWait, ClearStart, ClearWait, FeatStart, FeatWait, ScoreStart,
           ScoreAwait, Quiet, Busy
    <2>2. DOMAIN out' = DOMAIN out /\ out'.done = FALSE
      BY <1>3, <1>4, <2>1 DEF Fields
    <2> QED
      BY <1>3, <2>1, <2>2 DEF Recorded
  <1> QED
    BY <1>5, <1>6, <1>7, <1>8

LEMMA ResultInit == Init => ResultIInv
  <1> SUFFICES ASSUME Init PROVE ResultIInv
    OBVIOUS
  <1>1. st = "IDLE" /\ go = "none" /\ ~score.valid /\ out = ZeroOut
    BY DEF Init, ScoreReset, NoGo
  <1>2. ResultFields
    BY DEF Init, ResultFields, DropReset, MergeReset, ClearReset, ScanReset, FastScanReset
  <1>3. Given
    BY <1>1 DEF Given, AfterDrop
  <1>4. Recorded
    BY <1>1 DEF Recorded, ZeroOut
  <1> QED
    BY <1>2, <1>3, <1>4 DEF ResultIInv

LEMMA ResetKeepsResult ==
    ASSUME Reset, UNCHANGED build
    PROVE  ResultIInv'
  <1>1. st' = "IDLE" /\ ~score'.valid /\ out' = ZeroOut /\ ARCH' = ARCH
    BY DEF Reset, ScoreReset, ARCH
  <1>2. ResultFields'
    BY <1>1 DEF Reset, ResultFields, DropReset, MergeReset, ClearReset, ScanReset, FastScanReset
  <1>3. Given'
    BY <1>1 DEF Given, AfterDrop
  <1>4. Recorded'
    BY <1>1 DEF Recorded, ZeroOut
  <1> QED
    BY <1>2, <1>3, <1>4 DEF ResultIInv

LEMMA IdleKeepsResult ==
    ASSUME UnitsIInv, ResultIInv, UNCHANGED build, Idle \/ \E j \in Jobs : Start(j)
    PROVE  ResultIInv'
  <1>1. /\ UnitsEdge /\ st = "IDLE" /\ st' \in {"IDLE", "DECODE"}
        /\ out' = [out EXCEPT !.done = FALSE]
    BY DEF Idle, Start, Quiet
  <1>2. ResultFields'
    BY <1>1, FieldsKept DEF ResultIInv
  <1>3. ~score'.valid
    <2>1. go # "score"
      BY <1>1 DEF UnitsIInv, ScoreInStep, InStep
    <2> QED
      BY <1>1, <2>1 DEF UnitsEdge, ScoreEdge
  <1>4. st' = "DECODE" => job'.rows \in Normalized
    <2>1. SUFFICES ASSUME st' = "DECODE" PROVE job'.rows \in Normalized
      OBVIOUS
    <2>2. PICK j \in Jobs : job' = j
      BY <1>1, <2>1 DEF Idle, Start
    <2> QED
      BY <2>2, EvalAssumption DEF Jobs
  <1>5. Given'
    BY <1>1, <1>3, <1>4 DEF Given, AfterDrop
  <1>6. Recorded'
    <2>1. DOMAIN out = DOMAIN ZeroOut
          /\ DOMAIN ZeroOut = {"done", "legal", "y", "lines", "next", "a", "q", "u", "score", "cycles"}
      BY DEF ResultIInv, Recorded, ZeroOut
    <2>2. DOMAIN out' = DOMAIN out /\ out'.done = FALSE
      BY <1>1, <2>1
    <2> QED
      BY <1>1, <2>1, <2>2 DEF Recorded
  <1> QED
    BY <1>2, <1>5, <1>6 DEF ResultIInv

LEMMA ResultStays ==
    ASSUME ResultIInv, UNCHANGED vars
    PROVE  ResultIInv'
  <1>1. UNCHANGED <<build, st, job, cyc, go, drop, merge, clear, feat, score, out, waited>>
    BY DEF vars, units
  <1>2. /\ Moved' = Moved /\ NextBoard' = NextBoard /\ RuleScore' = RuleScore
        /\ Expected(job)' = Expected(job)
        /\ ShapeRom(job)' = ShapeRom(job) /\ LandingRow(job)' = LandingRow(job) /\ ARCH' = ARCH
        /\ \A k : PlacedCells(k)' = PlacedCells(k)
    BY <1>1, SameResult
  <1>3. ResultFields' /\ Recorded'
    BY <1>1, <1>2 DEF ResultIInv, ResultFields, Recorded
  <1>4. MergeHolds => MergeHolds'
    BY <1>1, <1>2 DEF MergeHolds
  <1>5. ClearHolds => ClearHolds'
    BY <1>1, <1>2 DEF ClearHolds
  <1>6. FeatHolds => FeatHolds'
    BY <1>1, <1>2 DEF FeatHolds, FeaturesDone, FeaturesAre
  <1>7. FeaturesDone => FeaturesDone'
    BY <1>1, <1>2 DEF FeaturesDone, FeaturesAre
  <1>8. Given'
    BY <1>1, <1>2, <1>4, <1>5, <1>6, <1>7 DEF ResultIInv, Given
  <1> QED
    BY <1>3, <1>8 DEF ResultIInv

(* The counters of the evaluator hold the cycles of any such board.         *)
LEMMA FittingCounters == BoardFits => CountersSuffice
  <1> SUFFICES ASSUME BoardFits PROVE CountersSuffice
    OBVIOUS
  <1>1. W \in 1 .. 10 /\ H \in 1 .. 20
    BY SizeFacts DEF BoardFits
  <1>2. \A w \in 1 .. 10, h \in 1 .. 20 : w * (h + 1) <= 210
    <2>1. SUFFICES ASSUME NEW w \in 1 .. 10, NEW h \in 1 .. 20 PROVE w * (h + 1) <= 210
      OBVIOUS
    <2>2. w \in {1, 2, 3, 4, 5, 6, 7, 8, 9, 10}
      OBVIOUS
    <2> QED
      BY <2>2
  <1>3. W * (H + 1) <= 210 /\ W * (H + 1) \in Nat
    BY <1>1, <1>2
  <1> DEFINE N == W * (H + 1)
  <1> HIDE DEF N
  <1>4. N \in Nat /\ N <= 210 => H <= 32 /\ N + 2 * H + 27 < 65536
    BY <1>1
  <1> QED
    BY <1>3, <1>4 DEF CountersSuffice, N

LEMMA ResultNext ==
    BoardFits /\ UnitsIInv /\ PaceIInv /\ ResultIInv /\ [Next]_vars => ResultIInv'
  <1> SUFFICES ASSUME BoardFits, UnitsIInv, PaceIInv, ResultIInv, [Next]_vars PROVE ResultIInv'
    OBVIOUS
  <1>1. CASE UNCHANGED vars
    BY <1>1, ResultStays
  <1>2. CASE Next
    <2>1. CASE BusyEdge
      <3>1. CountersSuffice /\ UNCHANGED build /\ ResultFields
        BY <1>2, FittingCounters DEF Next, ResultIInv
      <3>2. UnitsEdge
        BY <2>1, <3>1, BusyCounts
      <3>3. ResultFields'
        BY <3>1, <3>2, FieldsKept
      <3> QED
        BY <2>1, <3>1, <3>3, BusyKeepsGiven, BusyKeepsRecord DEF ResultIInv
    <2> QED
      BY <1>2, <2>1, ResetKeepsResult, IdleKeepsResult DEF Next
  <1> QED
    BY <1>1, <1>2

(* Every candidate is answered with the oracle's record of its job, landing *)
(* row, lines, next board, features and score, whatever the units held      *)
(* before and however often a reset cut a job short: for every profile,     *)
(* build, set of normalized boards and set of jobs, on every board up to    *)
(* the ten columns and twenty rows of the code (rtl/candidate_eval.sv with  *)
(* the serial and the fast units against model/game.py and features.py).    *)
THEOREM EvaluatorAnswersTheRules == ASSUME BoardFits PROVE Spec => []ResultIsRule
  <1>1. ASSUME ResultIInv PROVE ResultIsRule
    <2>1. SUFFICES ASSUME out.done PROVE [out EXCEPT !.cycles = 0] = Expected(job)
      BY DEF ResultIsRule
    <2>2. /\ [out EXCEPT !.done = TRUE, !.cycles = 0] = Expected(job)
          /\ out.done = TRUE
      BY <1>1, <2>1 DEF ResultIInv, Recorded
    <2>3. [out EXCEPT !.done = TRUE, !.cycles = 0] = [out EXCEPT !.cycles = 0]
      BY <2>2
    <2> QED
      BY <2>2, <2>3
  <1>2. UnitsIInv /\ PaceIInv /\ ResultIInv /\ [Next]_vars => UnitsIInv' /\ PaceIInv' /\ ResultIInv'
    BY UnitsNext, PaceNext, ResultNext, FittingCounters
  <1>3. Init => UnitsIInv /\ PaceIInv /\ ResultIInv
    BY UnitsInit, PaceInit, ResultInit
  <1> QED
    BY <1>1, <1>2, <1>3, PTL DEF Spec

-----------------------------------------------------------------------------
(* The latched job is one that was asked, heights included.                 *)
JobGiven ==
    job \in [rows : Normalized, heights : [Column -> 0 .. H], p : PieceId, r : 0 .. 3, x : 0 .. 9]

LEMMA JobGivenInit == Init => JobGiven
  <1> SUFFICES ASSUME Init PROVE JobGiven
    OBVIOUS
  <1>1. EMPTY_BOARD \in Normalized
    <2>1. FULL_ROW # {}
      BY SizeFacts DEF FULL_ROW, Column
    <2> QED
      BY <2>1 DEF EMPTY_BOARD, Normalized
  <1>2. ZeroHeights \in [Column -> 0 .. H] /\ 0 \in PieceId
    BY SizeFacts DEF ZeroHeights, PieceId
  <1>3. job = NoJob
    BY DEF Init
  <1> QED
    BY <1>1, <1>2, <1>3 DEF JobGiven, NoJob

LEMMA JobGivenNext ==
    CountersSuffice /\ UnitsIInv /\ PaceIInv /\ JobGiven /\ [Next]_vars => JobGiven'
  <1> SUFFICES ASSUME CountersSuffice, UnitsIInv, PaceIInv, JobGiven, [Next]_vars PROVE JobGiven'
    OBVIOUS
  <1>1. CASE job' = job
    BY <1>1 DEF JobGiven
  <1>2. CASE Reset
    <2>1. EMPTY_BOARD \in Normalized
      <3>1. FULL_ROW # {}
        BY SizeFacts DEF FULL_ROW, Column
      <3> QED
        BY <3>1 DEF EMPTY_BOARD, Normalized
    <2>2. ZeroHeights \in [Column -> 0 .. H] /\ 0 \in PieceId
      BY SizeFacts DEF ZeroHeights, PieceId
    <2>3. job' = NoJob
      BY <1>2 DEF Reset
    <2> QED
      BY <2>1, <2>2, <2>3 DEF JobGiven, NoJob
  <1>3. ASSUME NEW j \in Jobs, Start(j)
        PROVE  JobGiven'
    <2>1. job' = j
      BY <1>3 DEF Start
    <2>2. PICK rows \in Boards : \E a \in Asked :
              j = [rows |-> rows, heights |-> IF BOARD_REPR = 1 THEN ColumnHeights(rows) ELSE ZeroHeights,
                   p |-> a[1], r |-> a[2], x |-> a[3]]
      BY <1>3 DEF Jobs
    <2>3. PICK a \in Asked :
              j = [rows |-> rows, heights |-> IF BOARD_REPR = 1 THEN ColumnHeights(rows) ELSE ZeroHeights,
                   p |-> a[1], r |-> a[2], x |-> a[3]]
      BY <2>2
    <2>4. rows \in Normalized
      BY EvalAssumption
    <2>5. a[1] \in PieceId /\ a[2] \in 0 .. 3 /\ a[3] \in 0 .. 9
      BY EvalAssumption
    <2>6. ColumnHeights(rows) \in [Column -> 0 .. H] /\ ZeroHeights \in [Column -> 0 .. H]
      BY <2>4, NormalizedIsBoard, HeightsTyped, SizeFacts DEF ZeroHeights
    <2> QED
      BY <2>1, <2>3, <2>4, <2>5, <2>6 DEF JobGiven
  <1>4. ASSUME BusyEdge, UNCHANGED build
        PROVE  JobGiven'
    <2>1. /\ (st # "PROFILE" => job' = job)
          /\ (st = "PROFILE" => job' = [job EXCEPT !.heights = ProfileHeights(job.rows)])
      BY <1>4, BusyCounts
    <2>2. ProfileHeights(job.rows) \in [Column -> 0 .. H]
      BY NormalizedIsBoard, HeightsTyped DEF JobGiven
    <2> QED
      BY <2>1, <2>2 DEF JobGiven
  <1>5. Idle => job' = job
    BY DEF Idle
  <1>6. UNCHANGED vars => job' = job
    BY DEF vars
  <1> QED
    BY <1>1, <1>2, <1>3, <1>4, <1>5, <1>6 DEF Next

-----------------------------------------------------------------------------
(* A job that names a candidate, on the rules' side.                        *)
LEMMA JobCandidate ==
    ASSUME JobGiven, IsValidCandidate(job.p, 10 * job.r + job.x)
    PROVE  LET cid == 10 * job.r + job.x
           IN  /\ cid \in ToSet(CandidateIds[job.p])
               /\ PieceCells(job.p, cid) = Shape(job.p, job.r) /\ ColumnOf(cid) = job.x
               /\ IsLegal(job) <=> LandsInside(job.rows, PieceCells(job.p, cid), ColumnOf(cid))
  <1> DEFINE cid == 10 * job.r + job.x
  <1>1. job.p \in PieceId /\ job.r \in 0 .. 3 /\ job.x \in 0 .. 9
    BY DEF JobGiven
  <1>2. cid \in 0 .. MAX_CANDIDATE_ID - 1 /\ RotationOf(cid) = job.r /\ ColumnOf(cid) = job.x
    <2>1. ASSUME NEW r \in 0 .. 3, NEW x \in 0 .. 9
          PROVE  10 * r + x \in 0 .. 39 /\ (10 * r + x) \div 10 = r /\ (10 * r + x) % 10 = x
      OBVIOUS
    <2> QED
      BY <1>1, <2>1 DEF RotationOf, ColumnOf, MAX_CANDIDATE_ID
  <1> HIDE DEF cid
  <1>3. cid \in ToSet(CandidateIds[job.p])
    BY <1>1, <1>2, CandidateListed DEF cid
  <1>4. job.r < Len(Rotations[job.p])
    BY <1>2 DEF IsValidCandidate, cid
  <1>5. ShapeRom(job).valid = TRUE /\ ShapeRom(job).cells = Shape(job.p, job.r)
    BY <1>4 DEF ShapeRom
  <1>6. PieceCells(job.p, cid) = Shape(job.p, job.r)
    BY <1>2 DEF PieceCells
  <1> QED
    BY <1>2, <1>3, <1>5, <1>6 DEF IsLegal, cid

LEMMA ThreeAgree ==
    ASSUME BoardFits, ResultIInv, JobGiven PROVE ArchitecturesAgree
  <1> DEFINE cid == 10 * job.r + job.x
             rows == job.rows
             p == job.p
             e == Evaluate(rows, p, cid)
             banks == A2Evaluate(rows, ColumnHeights(rows), p, cid)
             twin == EvaluateCols(RowsToCols(rows), p, cid)
             merged == Merged(rows, Shape(p, job.r), job.x, out.y)
             inside == LandsInside(rows, PieceCells(p, cid), ColumnOf(cid))
  <1> SUFFICES ASSUME out.done, IsValidCandidate(p, cid)
               PROVE  /\ banks.legal = out.legal /\ banks.y = out.y /\ banks.lines = out.lines
                      /\ banks.next = out.next /\ banks.a = out.a
                      /\ twin.legal = out.legal
                      /\ out.legal =>
                             /\ banks = [twin EXCEPT !.score = banks.score]
                             /\ CompactPrefix(merged) = CompactFilter(merged)
                             /\ CompactPrefix(merged).rows = out.next
    BY DEF ArchitecturesAgree
  <1>1. /\ cid \in ToSet(CandidateIds[p]) /\ PieceCells(p, cid) = Shape(p, job.r) /\ ColumnOf(cid) = job.x
        /\ IsLegal(job) <=> inside
    BY JobCandidate
  <1>2. rows \in Normalized /\ rows \in Board /\ p \in PieceId
    BY NormalizedIsBoard DEF JobGiven
  <1>3. /\ DOMAIN out = DOMAIN ZeroOut
        /\ [out EXCEPT !.done = TRUE, !.cycles = 0] = Expected(job)
    BY DEF ResultIInv, Recorded
  <1>4. /\ out.legal = Expected(job).legal /\ out.y = Expected(job).y /\ out.lines = Expected(job).lines
        /\ out.next = Expected(job).next /\ out.a = Expected(job).a
    <2>1. \A f \in {"legal", "y", "lines", "next", "a"} :
              [out EXCEPT !.done = TRUE, !.cycles = 0][f] = out[f]
      BY <1>3 DEF ZeroOut
    <2> QED
      BY <1>3, <2>1
  <1>5. twin = e
    BY <1>1, <1>2, TwinIsExact
  <1>6. CASE inside
    <2>1. banks = [e EXCEPT !.score = 76 * e.lines - 51 * e.a - 36 * e.q - 18 * e.u]
      BY <1>1, <1>2, <1>6, TokenIsExact
    <2> DEFINE M == Locked(rows, p, cid)
    <2>2. M \in Board /\ e = Scored(RestingRow(rows, p, cid), Lines(M), Cleared(M), FeaturesOf(Cleared(M)))
      BY <1>1, <1>2, <1>6, LockedBoard
    <2>3. /\ Expected(job).legal = TRUE /\ Expected(job).y = e.y /\ Expected(job).lines = e.lines
          /\ Expected(job).next = e.next /\ Expected(job).a = e.a
      BY <1>1, <1>6 DEF Expected
    <2>4. /\ e.legal = TRUE /\ e.y = RestingRow(rows, p, cid) /\ e.next = Cleared(M)
          /\ DOMAIN e = {"legal", "y", "lines", "next", "a", "q", "u", "score"}
      BY <2>2 DEF Scored
    <2>5. merged = M
      BY <1>1, <1>4, <2>3, <2>4 DEF Locked
    <2>6. CompactPrefix(M) = CompactFilter(M) /\ CompactFilter(M).rows = Cleared(M)
      BY <2>2, RowNetworks DEF CompactFilter
    <2> HIDE DEF e, banks, twin, merged, M
    <2>7. /\ banks.legal = e.legal /\ banks.y = e.y /\ banks.lines = e.lines /\ banks.next = e.next
          /\ banks.a = e.a /\ banks = [e EXCEPT !.score = banks.score]
      <3> DEFINE s == 76 * e.lines - 51 * e.a - 36 * e.q - 18 * e.u
      <3>1. banks = [e EXCEPT !.score = s]
        BY <2>1
      <3> HIDE DEF s
      <3>2. banks.score = s
        BY <2>4, <3>1
      <3> QED
        BY <2>4, <3>1, <3>2
    <2> QED
      BY <1>4, <1>5, <2>3, <2>4, <2>5, <2>6, <2>7
  <1>7. CASE ~inside
    <2>1. e = NoMove /\ banks = Canonical(NoMove)
      BY <1>1, <1>2, <1>7, TokenIsExact
    <2>2. banks = [legal |-> FALSE, y |-> 0, lines |-> 0, next |-> EMPTY_BOARD, a |-> 0, q |-> 0, u |-> 0, score |-> 0]
      BY <2>1 DEF Canonical, NoMove
    <2>3. /\ Expected(job).legal = FALSE /\ Expected(job).y = 0 /\ Expected(job).lines = 0
          /\ Expected(job).next = EMPTY_BOARD /\ Expected(job).a = 0
      BY <1>1, <1>7 DEF Expected, ZeroOut
    <2>4. twin.legal = FALSE
      BY <1>5, <2>1 DEF NoMove
    <2> HIDE DEF e, banks, twin, merged
    <2> QED
      BY <1>4, <2>2, <2>3, <2>4
  <1> QED
    BY <1>6, <1>7

(* The architectures are interchangeable: on every job that names a         *)
(* candidate the evaluator, serial or fast, has the answer of the banks of  *)
(* the token pipeline (candidate_pipe_a2.sv) and of model/fast.py, and the  *)
(* reference of the row networks (model/compaction.py) clears the rows they *)
(* clear: for every build, profile, set of normalized boards and set of     *)
(* jobs, on every board up to ten columns and twenty rows.                  *)
THEOREM ArchitecturesInterchangeable == ASSUME BoardFits PROVE Spec => []ArchitecturesAgree
  <1>1. CountersSuffice
    BY FittingCounters
  <1>2. Init => UnitsIInv /\ PaceIInv /\ ResultIInv /\ JobGiven
    BY UnitsInit, PaceInit, ResultInit, JobGivenInit
  <1>3. UnitsIInv /\ PaceIInv /\ ResultIInv /\ JobGiven /\ [Next]_vars
            => UnitsIInv' /\ PaceIInv' /\ ResultIInv' /\ JobGiven'
    BY <1>1, UnitsNext, PaceNext, ResultNext, JobGivenNext
  <1>4. ResultIInv /\ JobGiven => ArchitecturesAgree
    BY ThreeAgree
  <1> QED
    BY <1>2, <1>3, <1>4, PTL DEF Spec

-----------------------------------------------------------------------------
(* The boundary of the evaluator.  Its users see the edges left of a job,   *)
(* what was asked, and result registers written as a whole one edge before  *)
(* done: the unit of module Evaluator, with the latency of the job.         *)
LongestJob == W * (H + 1) + 2 * H + 27
Unit == INSTANCE Evaluator WITH MaxEval <- LongestJob

Question(j) == [rows |-> j.rows, p |-> j.p, r |-> j.r, x |-> j.x]
Answer(o) == [o EXCEPT !.done = FALSE, !.cycles = 0]
EdgesLeft == IF st = "IDLE" THEN 0 ELSE Latency(job) - waited
Boundary == [left |-> EdgesLeft, job |-> Question(job), done |-> out.done, out |-> Answer(out)]

AtRest == Unit!EvReset(Question(NoJob), Answer(ZeroOut))
Accepts(j) ==
    /\ Latency(j) \in Unit!Latency /\ Unit!EvStarting(Boundary, TRUE)
    /\ Boundary' = Unit!EvNext(Boundary, TRUE, Question(j), Latency(j), Answer(Expected(job)))
Continues ==
    \E t \in Unit!Latency :
        Boundary' = Unit!EvNext(Boundary, FALSE, Question(job), t, Answer(Expected(job)))
BoundaryStep == Boundary' = AtRest \/ (\E j \in Jobs : Accepts(j)) \/ Continues

(* The results are written on the edge into FINISH, and only there.         *)
InMargin ==
    /\ st \notin {"IDLE", "FINISH"} => waited + 2 <= Latency(job)
    /\ st # "IDLE" => Latency(job) \in 5 .. LongestJob

LEMMA MarginKept == CountersSuffice /\ UnitsIInv /\ PaceIInv => InMargin
  <1> SUFFICES ASSUME CountersSuffice, UnitsIInv, PaceIInv, st # "IDLE"
               PROVE  /\ st # "FINISH" => waited + 2 <= Latency(job)
                      /\ Latency(job) \in 5 .. LongestJob
    BY DEF InMargin
  <1>1. build \in {0, 1} \X {0, 1} /\ JobOk /\ waited \in Nat /\ Pace /\ JobData
    BY DEF UnitsIInv, PaceIInv, JobData, Reported
  <1>2. /\ DropAt \in 1 .. 2
        /\ DropEnd \in Nat /\ DropEnd >= 4 /\ DropEnd + 2 <= MergeEnd /\ MergeEnd \in Nat
        /\ ClearEnd \in Nat /\ MergeEnd + 2 <= ClearEnd
        /\ FeatEnd \in Nat /\ ClearEnd + 2 <= FeatEnd
        /\ ScoreEnd = FeatEnd + 3
        /\ Latency(job) = (IF IsLegal(job) THEN ScoreEnd ELSE DropEnd) + 2
    BY <1>1, CycleFacts, LatencyIsEnd
  <1>3. st \in {"DECODE", "PROFILE", "DROP_START", "DROP_WAIT"} => waited <= DropEnd
    BY <1>1, <1>2 DEF Pace
  <1>4. st \in {"MERGE_START", "MERGE_WAIT", "CLEAR_START", "CLEAR_WAIT", "FEAT_START", "FEAT_WAIT",
               "SCORE_START", "SCORE_WAIT"} => IsLegal(job) /\ waited <= ScoreEnd
    BY <1>1, <1>2 DEF Pace, JobData
  <1>5. st \in {"DECODE", "PROFILE", "DROP_START", "DROP_WAIT", "MERGE_START", "MERGE_WAIT",
                "CLEAR_START", "CLEAR_WAIT", "FEAT_START", "FEAT_WAIT", "SCORE_START", "SCORE_WAIT",
                "FINISH"}
    BY DEF PaceIInv, StateOk
  <1>6. Latency(job) \in 5 .. LongestJob
    <2> DEFINE N == W * (H + 1)  D == DropCycles(job)
    <2>1. Latency(job) = (IF ARCH = 1 /\ BOARD_REPR = 0 THEN 4 ELSE 3) + D
              + IF ~IsLegal(job) THEN 0
                ELSE IF ARCH = 0 THEN 6 + 7 + (H + 3) + (N + 3)
                ELSE 6 + 2 + (H + 3) + 3
      BY DEF Latency
    <2>2. N \in Nat /\ LongestJob = N + 2 * H + 27
      BY SizeFacts DEF LongestJob
    <2>3. D \in 3 .. H + 5 /\ H \in Nat
      BY <1>1, CycleFacts, SizeFacts
    <2>4. ARCH = 1 \/ ARCH = 0
      BY <1>1, ArchIsBit
    <2> HIDE DEF N, D
    <2> QED
      BY <1>2, <2>1, <2>2, <2>3, <2>4
  <1> QED
    BY <1>1, <1>2, <1>3, <1>4, <1>5, <1>6

(* An edge of the unit, field by field.                                     *)
LEMMA UnitAtRest == AtRest = [left |-> 0, job |-> Question(NoJob), done |-> FALSE, out |-> Answer(ZeroOut)]
  BY DEF AtRest, Unit!EvReset

LEMMA BoundaryInit == Init => Boundary = AtRest
  <1> SUFFICES ASSUME Init PROVE Boundary = AtRest
    OBVIOUS
  <1>1. st = "IDLE" /\ job = NoJob /\ out = ZeroOut /\ out.done = FALSE
    BY DEF Init, ZeroOut
  <1> QED
    BY <1>1, UnitAtRest DEF Boundary, EdgesLeft

(* Outside FINISH and the edge before it nothing is written but the pulse.  *)
LEMMA OutputsHeld ==
    ASSUME BusyEdge, UNCHANGED build
    PROVE  \/ st' # "IDLE" /\ st # "FINISH" /\ st' # "FINISH" /\ Quiet
           \/ st' = "FINISH" /\ st # "FINISH"
           \/ st = "FINISH" /\ st' = "IDLE" /\ out' = [out EXCEPT !.done = TRUE, !.cycles = (cyc + 1) % 65536]
  BY DEF BusyEdge, Decode, Profiling, DropStart, DropAwait, DropLegal, DropIllegal, Busy,
         MergeStart, MergeWait, ClearStart, ClearWait, FeatStart, FeatWait, ScoreStart,
         ScoreAwait, ScoreDone, Finish

LEMMA Answers ==
    ASSUME NEW o, DOMAIN o = DOMAIN ZeroOut, NEW d, NEW c
    PROVE  /\ Answer([o EXCEPT !.done = d]) = Answer(o)
           /\ Answer([o EXCEPT !.done = d, !.cycles = c]) = Answer(o)
  BY DEF Answer, ZeroOut

LEMMA BoundaryNext ==
    ASSUME CountersSuffice, UnitsIInv, PaceIInv, Recorded, InMargin,
           PaceIInv', Recorded', InMargin', [Next]_vars
    PROVE  [BoundaryStep]_Boundary
  <1>1. CASE UNCHANGED vars
    <2>1. UNCHANGED <<build, st, job, out, waited>>
      BY <1>1 DEF vars
    <2>2. Latency(job)' = Latency(job)
      BY <2>1, SameJob
    <2> QED
      BY <2>1, <2>2 DEF Boundary, EdgesLeft
  <1>2. CASE Reset
    <2>1. st' = "IDLE" /\ job' = NoJob /\ out' = ZeroOut /\ out'.done = FALSE
      BY <1>2 DEF Reset, ZeroOut
    <2>2. Boundary' = AtRest
      BY <2>1, UnitAtRest DEF Boundary, EdgesLeft
    <2> QED
      BY <2>2 DEF BoundaryStep
  <1>3. 2 \in Unit!Latency
    <2>1. W * (H + 1) \in Nat /\ H \in Nat
      BY SizeFacts
    <2> QED
      BY <2>1 DEF Unit!Latency, LongestJob
  <1>4. /\ DOMAIN out = DOMAIN ZeroOut /\ DOMAIN out' = DOMAIN ZeroOut
        /\ out.done \in BOOLEAN /\ out'.done \in BOOLEAN
    BY DEF Recorded
  <1>5. ASSUME NEW n \in Nat, NEW R, R = Answer(Expected(job)), EdgesLeft = n, EdgesLeft' = IF n = 0 THEN 0 ELSE n - 1,
               Question(job)' = Question(job), out'.done <=> n = 1,
               Answer(out') = IF n = 2 THEN R ELSE Answer(out)
        PROVE  BoundaryStep
    <2>1. Boundary = [left |-> n, job |-> Question(job), done |-> out.done, out |-> Answer(out)]
      BY <1>5 DEF Boundary
    <2>2. Boundary' = [left |-> IF n = 0 THEN 0 ELSE n - 1, job |-> Question(job), done |-> out'.done,
                       out |-> IF n = 2 THEN R ELSE Answer(out)]
      BY <1>5 DEF Boundary
    <2>3. PICK e : e = Unit!EvNext(Boundary, FALSE, Question(job), 2, R)
      OBVIOUS
    <2>4. /\ e = [left |-> IF n = 0 THEN 0 ELSE n - 1, job |-> Question(job), done |-> e.done,
                  out |-> IF n = 2 THEN R ELSE Answer(out)]
          /\ e.done \in BOOLEAN /\ (e.done <=> n = 1)
      BY <2>1, <2>3 DEF Unit!EvNext, Unit!EvStarting
    <2>5. e.done = out'.done
      BY <1>4, <1>5, <2>4
    <2>6. Boundary' = e
      BY <2>2, <2>4, <2>5
    <2> QED
      BY <1>3, <1>5, <2>3, <2>6 DEF BoundaryStep, Continues
  <1>6. CASE Idle /\ UNCHANGED build
    <2>1. st = "IDLE" /\ st' = "IDLE" /\ job' = job /\ out' = [out EXCEPT !.done = FALSE]
      BY <1>6 DEF Idle, Quiet
    <2>2. EdgesLeft = 0 /\ EdgesLeft' = 0 /\ Question(job)' = Question(job)
      BY <2>1 DEF EdgesLeft, Question
    <2>3. ~out'.done /\ Answer(out') = Answer(out)
      BY <1>4, <2>1, Answers DEF ZeroOut
    <2> QED
      BY <1>5, <2>2, <2>3
  <1>7. ASSUME NEW j \in Jobs, Start(j), UNCHANGED build
        PROVE  BoundaryStep
    <2>1. st = "IDLE" /\ st' = "DECODE" /\ job' = j /\ waited' = 0 /\ out' = [out EXCEPT !.done = FALSE]
      BY <1>7 DEF Start, Quiet
    <2>2. Latency(job)' = Latency(j)
      <3>1. ARCH' = ARCH /\ BOARD_REPR' = BOARD_REPR
        BY <1>7 DEF ARCH, BOARD_REPR
      <3> QED
        BY <2>1, <3>1 DEF Latency, DropCycles, IsLegal, ShapeRom
    <2>3. Latency(j) \in 5 .. LongestJob
      BY <2>1, <2>2 DEF InMargin
    <2>4. out'.done = FALSE /\ Answer(out') = Answer(out)
      BY <1>4, <2>1, Answers DEF ZeroOut
    <2>5. EdgesLeft = 0 /\ EdgesLeft' = Latency(j)
      BY <2>1, <2>2, <2>3 DEF EdgesLeft
    <2>6. Boundary' = [left |-> Latency(j), job |-> Question(j), done |-> out'.done, out |-> Answer(out)]
      BY <2>1, <2>4, <2>5 DEF Boundary
    <2>7. Boundary = [left |-> 0, job |-> Question(job), done |-> out.done, out |-> Answer(out)]
      BY <2>5 DEF Boundary
    <2>8. PICK e : e = Unit!EvNext(Boundary, TRUE, Question(j), Latency(j), Answer(Expected(job)))
      OBVIOUS
    <2>9. /\ e = [left |-> Latency(j), job |-> Question(j), done |-> e.done, out |-> Answer(out)]
          /\ e.done \in BOOLEAN /\ ~e.done
      BY <2>7, <2>8 DEF Unit!EvNext, Unit!EvStarting, Unit!EvBusy
    <2>10. Unit!EvStarting(Boundary, TRUE)
      BY <2>7 DEF Unit!EvStarting, Unit!EvBusy
    <2>11. e.done = out'.done
      BY <1>4, <2>4, <2>9
    <2>12. Boundary' = e
      BY <2>6, <2>9, <2>11
    <2>13. Latency(j) \in Unit!Latency
      BY <2>3 DEF Unit!Latency
    <2> QED
      BY <2>8, <2>10, <2>12, <2>13 DEF BoundaryStep, Accepts
  <1>8. CASE BusyEdge /\ UNCHANGED build
    <2>1. /\ st # "IDLE" /\ waited \in Nat /\ waited' = waited + 1
          /\ job'.rows = job.rows /\ job'.p = job.p /\ job'.r = job.r /\ job'.x = job.x
      BY <1>8, BusyCounts
    <2>2. Latency(job)' = Latency(job) /\ Expected(job)' = Expected(job) /\ Question(job)' = Question(job)
      BY <1>8, <2>1, SameJob, SameResult DEF Question
    <2>3. Latency(job) \in 5 .. LongestJob
      BY <2>1 DEF InMargin
    <2>4. PICK L : L = Latency(job)
      OBVIOUS
    <2>5. L \in Int /\ L - waited \in Nat /\ L - waited # 0 /\ EdgesLeft = L - waited
      BY <2>1, <2>3, <2>4, PaceInTime DEF EdgesLeft
    <2>6. EdgesLeft' = IF st' = "IDLE" THEN 0 ELSE L - waited'
      BY <2>2, <2>4 DEF EdgesLeft
    <2>7. CASE st' # "IDLE" /\ st # "FINISH" /\ st' # "FINISH" /\ Quiet
      <3>1. waited' + 2 <= L
        BY <2>2, <2>4, <2>7 DEF InMargin
      <3>2. ~out'.done /\ Answer(out') = Answer(out)
        BY <1>4, <2>7, Answers DEF Quiet, ZeroOut
      <3>3. L - waited # 1 /\ L - waited # 2 /\ EdgesLeft' = L - waited - 1
        BY <2>1, <2>5, <2>6, <2>7, <3>1
      <3> QED
        BY <1>5, <2>2, <2>5, <3>2, <3>3
    <2>8. CASE st' = "FINISH" /\ st # "FINISH"
      <3>1. waited' + 1 = L
        BY <2>2, <2>4, <2>8 DEF PaceIInv, Pace
      <3>2. L - waited = 2 /\ EdgesLeft' = L - waited - 1
        BY <2>1, <2>5, <2>6, <2>8, <3>1
      <3>3. ~out'.done
        BY <2>8 DEF PaceIInv, Reported
      <3>4. Answer(out') = Answer(Expected(job))
        <4>1. [out' EXCEPT !.done = TRUE, !.cycles = 0] = Expected(job)
          BY <2>2, <2>8 DEF Recorded
        <4>2. Answer([out' EXCEPT !.done = TRUE, !.cycles = 0]) = Answer(out')
          BY <1>4, Answers
        <4> QED
          BY <4>1, <4>2
      <3>5. L - waited # 0 /\ L - waited # 1
        BY <3>2
      <3> QED
        BY <1>5, <2>2, <2>5, <3>2, <3>3, <3>4, <3>5
    <2>9. CASE st = "FINISH" /\ st' = "IDLE" /\ out' = [out EXCEPT !.done = TRUE, !.cycles = (cyc + 1) % 65536]
      <3>1. waited + 1 = L
        BY <2>4, <2>9 DEF PaceIInv, Pace
      <3>2. L - waited = 1 /\ EdgesLeft' = L - waited - 1
        BY <2>1, <2>5, <2>6, <2>9, <3>1
      <3>3. out'.done
        BY <1>4, <2>9 DEF ZeroOut
      <3>4. Answer(out') = Answer(out)
        <4>1. PICK yes, c : yes = TRUE /\ c = (cyc + 1) % 65536
          OBVIOUS
        <4>2. Answer([out EXCEPT !.done = yes, !.cycles = c]) = Answer(out)
          BY <1>4, Answers
        <4> QED
          BY <2>9, <4>1, <4>2
      <3>5. L - waited # 0 /\ L - waited # 2
        BY <3>2
      <3> QED
        BY <1>5, <2>2, <2>5, <3>2, <3>3, <3>4, <3>5
    <2> QED
      BY <1>8, <2>7, <2>8, <2>9, OutputsHeld
  <1> QED
    BY <1>1, <1>2, <1>6, <1>7, <1>8 DEF Next

(* candidate_eval.sv implements the evaluator the lanes and the lookahead   *)
(* are built on (module Evaluator): an idle one takes the job, answers      *)
(* after the job's latency, at most LongestJob edges, writes the oracle's   *)
(* record into its result registers one edge before done, and keeps it      *)
(* until the next job writes its own; a reset leaves nothing of either.     *)
THEOREM EvaluatorImplementsBoundary ==
    ASSUME BoardFits PROVE Spec => Boundary = AtRest /\ [][BoundaryStep]_Boundary
  <1>1. UnitsIInv /\ PaceIInv /\ ResultIInv /\ [Next]_vars => UnitsIInv' /\ PaceIInv' /\ ResultIInv'
    BY UnitsNext, PaceNext, ResultNext, FittingCounters
  <1>2. Init => UnitsIInv /\ PaceIInv /\ ResultIInv
    BY UnitsInit, PaceInit, ResultInit
  <1>3. UnitsIInv /\ PaceIInv => InMargin
    BY MarginKept, FittingCounters
  <1>4. ASSUME UnitsIInv, PaceIInv, ResultIInv, InMargin, PaceIInv', ResultIInv', InMargin', [Next]_vars
        PROVE  [BoundaryStep]_Boundary
    <2>1. Recorded /\ Recorded' /\ CountersSuffice
      BY <1>4, FittingCounters DEF ResultIInv
    <2> QED
      BY <1>4, <2>1, BoundaryNext
  <1> QED
    BY <1>1, <1>2, <1>3, <1>4, BoundaryInit, PTL DEF Spec

-----------------------------------------------------------------------------
(* The streaming wrapper.                                                   *)
AnswersWords == state = "WAIT" => answer \in {NoResponse, Reply(words)}
TransmitsReply == state = "TX" => tidx \in 0 .. 2 /\ rsp = Reply(words)
StreamIInv == WrapperTypeOK /\ CoreInStep /\ AnswersWords /\ TransmitsReply

-----------------------------------------------------------------------------
(* Sequences given as functions on an initial segment.                      *)
LEMMA SegmentIsSequence ==
    ASSUME NEW S, NEW n \in Nat, NEW s \in [1 .. n -> S]
    PROVE  s \in Seq(S) /\ Len(s) = n /\ (s = <<>> <=> n = 0)
  <1>1. s \in Seq(S)
    BY SeqDef
  <1>2. Len(s) = n
    BY <1>1, LenProperties
  <1> QED
    BY <1>1, <1>2, EmptySeq

LEMMA ReplyIsThreeWords ==
    ASSUME NEW p
    PROVE  Reply(p) = [i \in 1 .. 3 |->
               IF i = 1 THEN Reply(p)[1] ELSE IF i = 2 THEN Reply(p)[2] ELSE Reply(p)[3]]
  BY DEF Reply

(* The eight words in the inbox of a full packet are the packet.            *)
LEMMA WordsAreThePacket ==
    ASSUME NEW w \in Packet
    PROVE  ReplyToWords([i \in 1 .. 8 |-> w[i-1]]) = Reply(w)
  <1> DEFINE fs == [i \in 1 .. 8 |-> w[i-1]]
  <1>1. \A i \in Index : i+1 \in 1 .. 8 /\ (i+1)-1 = i
    BY DEF Index
  <1>2. \A i \in Index : fs[i+1] = w[i]
    BY <1>1
  <1>3. [i \in Index |-> fs[i+1]] = w
    BY <1>2 DEF Packet
  <1> QED
    BY <1>3 DEF ReplyToWords

-----------------------------------------------------------------------------
(* The inductive invariant.                                                 *)
LEMMA StreamInit == WrapperInit => StreamIInv
  BY WrapperAssumption
     DEF WrapperInit, Core!Init, StreamIInv, WrapperTypeOK, CoreInStep, AnswersWords, TransmitsReply,
         ClearedWords, Packet, Index

LEMMA ReceiveKeeps ==
    ASSUME StreamIInv, NEW f \in Field, Receive(f)
    PROVE  StreamIInv'
  <1>1. words' \in Packet /\ widx' \in Index
    BY DEF StreamIInv, WrapperTypeOK, Receive, Packet, Index
  <1> QED
    BY <1>1 DEF StreamIInv, WrapperTypeOK, CoreInStep, AnswersWords, TransmitsReply, Receive, coreVars

LEMMA AskKeeps ==
    ASSUME StreamIInv, Ask
    PROVE  StreamIInv'
  BY DEF StreamIInv, WrapperTypeOK, CoreInStep, AnswersWords, TransmitsReply, Ask, Core!Accept

LEMMA CaptureKeeps ==
    ASSUME StreamIInv, Capture
    PROVE  StreamIInv'
  <1>1. answer = Reply(words)
    BY DEF StreamIInv, AnswersWords, Capture, Core!Consume
  <1> QED
    BY <1>1 DEF StreamIInv, WrapperTypeOK, CoreInStep, AnswersWords, TransmitsReply, Capture,
                Core!Consume

LEMMA TransmitKeeps ==
    ASSUME StreamIInv, Transmit
    PROVE  StreamIInv'
  BY DEF StreamIInv, WrapperTypeOK, CoreInStep, AnswersWords, TransmitsReply, Transmit, coreVars, Index

LEMMA CoreAnswersKeeps ==
    ASSUME StreamIInv, CoreAnswers
    PROVE  StreamIInv'
  <1>1. state = "WAIT" /\ outstanding = words /\ words \in Packet
    BY DEF StreamIInv, WrapperTypeOK, CoreInStep, CoreAnswers, Core!Answer
  <1>2. answer' = Reply(words)
    BY <1>1 DEF CoreAnswers, Core!Answer
  <1> QED
    BY <1>1, <1>2
       DEF StreamIInv, WrapperTypeOK, CoreInStep, AnswersWords, TransmitsReply, CoreAnswers,
           Core!Answer, wrapperVars

LEMMA StreamNext == StreamIInv /\ [WrapperNext]_streamVars => StreamIInv'
  <1> SUFFICES ASSUME StreamIInv, [WrapperNext]_streamVars PROVE StreamIInv'
    OBVIOUS
  <1>1. CASE ResetEdge
    BY <1>1, WrapperAssumption
       DEF ResetEdge, StreamIInv, WrapperTypeOK, CoreInStep, AnswersWords, TransmitsReply, ClearedWords,
           Packet, Index
  <1>2. CASE \E f \in Field : Receive(f)
    BY <1>2, ReceiveKeeps
  <1>3. CASE Ask
    BY <1>3, AskKeeps
  <1>4. CASE Capture
    BY <1>4, CaptureKeeps
  <1>5. CASE Transmit
    BY <1>5, TransmitKeeps
  <1>6. CASE CoreAnswers
    BY <1>6, CoreAnswersKeeps
  <1>7. CASE UNCHANGED streamVars
    BY <1>7
       DEF streamVars, wrapperVars, coreVars, StreamIInv, WrapperTypeOK, CoreInStep, AnswersWords,
           TransmitsReply
  <1> QED
    BY <1>1, <1>2, <1>3, <1>4, <1>5, <1>6, <1>7 DEF WrapperNext

(* Every reachable state of the wrapper satisfies the inductive invariant.  *)
THEOREM StreamInvariance == WrapperSpec => []StreamIInv
  <1> QED
    BY StreamInit, StreamNext, PTL DEF WrapperSpec

(* Registers and counters keep their widths; the response registers only    *)
(* ever hold a response to some packet, or their cleared contents.          *)
THEOREM StreamTypeCorrect == WrapperSpec => []WrapperTypeOK
  <1>1. StreamIInv => WrapperTypeOK
    BY DEF StreamIInv
  <1> QED
    BY <1>1, StreamInvariance, PTL

(* One transaction at a time: the core works on the registered packet       *)
(* exactly while the wrapper waits, and REQ always finds it ready.          *)
THEOREM OneTransactionAtATime == WrapperSpec => []CoreInStep
  <1>1. StreamIInv => CoreInStep
    BY DEF StreamIInv
  <1> QED
    BY <1>1, StreamInvariance, PTL

-----------------------------------------------------------------------------
(* The refinement.  The two ends of the stream, as sequences.               *)
LEMMA InboxIsSequence ==
    ASSUME StreamIInv
    PROVE  /\ Inbox \in Seq(Field)
           /\ state = "RX" => Len(Inbox) = widx
           /\ state # "RX" => Inbox = [i \in 1 .. 8 |-> words[i-1]] /\ Len(Inbox) = 8
  <1> DEFINE n == IF state = "RX" THEN widx ELSE 8
  <1>1. n \in 0 .. 8 /\ words \in Packet
    BY DEF StreamIInv, WrapperTypeOK, Index
  <1>2. \A i \in 1 .. n : i-1 \in Index
    BY <1>1 DEF Index
  <1>3. Inbox \in [1 .. n -> Field]
    BY <1>1, <1>2 DEF Inbox, Packet
  <1>4. Inbox \in Seq(Field) /\ Len(Inbox) = n
    BY <1>1, <1>3, SegmentIsSequence
  <1> QED
    BY <1>4 DEF Inbox

(* WordAt, for any response registers.                                      *)
Word(r, t) == IF t = 0 THEN r[1] ELSE IF t = 1 THEN r[2] ELSE r[3]

LEMMA NextOutboxAsWords ==
    state' = "TX" => Outbox' = [i \in 1 .. 3 - tidx' |-> Word(rsp', tidx' + i - 1)]
  BY Zenon DEF Outbox, WordAt, Word

LEMMA OutboxIsSequence ==
    ASSUME StreamIInv
    PROVE  /\ state # "TX" => Outbox = <<>>
           /\ state = "TX" => /\ Outbox \in Seq({rsp[1], rsp[2], rsp[3]})
                              /\ Len(Outbox) = 3 - tidx
                              /\ Outbox # <<>>
                              /\ \A i \in 1 .. 3 - tidx : Outbox[i] = WordAt(tidx + i - 1)
  <1>1. CASE state # "TX"
    BY <1>1 DEF Outbox
  <1>2. CASE state = "TX"
    <2>1. tidx \in 0 .. 2 /\ 3 - tidx \in 1 .. 3
      BY <1>2 DEF StreamIInv, TransmitsReply
    <2>2. Outbox = [i \in 1 .. 3 - tidx |-> WordAt(tidx + i - 1)]
      BY <1>2 DEF Outbox
    <2>3. Outbox \in [1 .. 3 - tidx -> {rsp[1], rsp[2], rsp[3]}]
      BY <2>2 DEF WordAt
    <2>4. Outbox \in Seq({rsp[1], rsp[2], rsp[3]}) /\ Len(Outbox) = 3 - tidx /\ Outbox # <<>>
      BY <2>1, <2>3, SegmentIsSequence
    <2> QED
      BY <1>2, <2>2, <2>4
  <1> QED
    BY <1>1, <1>2

(* A word taken in is appended to the inbox, whether or not it is the last. *)
LEMMA ReceiveTakes ==
    ASSUME StreamIInv, NEW f \in Field, Receive(f)
    PROVE  Stream!Take(f)
  <1>1. state = "RX" /\ widx \in 0 .. 7 /\ words \in Packet
    BY DEF StreamIInv, WrapperTypeOK, Index, Receive
  <1>2. Inbox \in Seq(Field) /\ Len(Inbox) = widx /\ Len(Inbox) < 8
    BY <1>1, InboxIsSequence
  <1>3. Inbox = [i \in 1 .. widx |-> words[i-1]]
    BY <1>1 DEF Inbox
  <1>4. (IF state' = "RX" THEN widx' ELSE 8) = widx + 1
    BY <1>1 DEF Receive
  <1>5. Inbox' = [i \in 1 .. widx + 1 |-> words'[i-1]]
    BY <1>4 DEF Inbox
  <1>6. words' = [words EXCEPT ![widx] = f]
    BY DEF Receive
  <1>7. Inbox' \in [1 .. widx + 1 -> Field]
    <2>1. words' \in Packet
      BY <1>1, <1>6 DEF Packet, Index
    <2>2. \A i \in 1 .. widx + 1 : i-1 \in Index
      BY <1>1 DEF Index
    <2> QED
      BY <1>5, <2>1, <2>2 DEF Packet
  <1>8. Inbox' \in Seq(Field) /\ Len(Inbox') = widx + 1
    BY <1>1, <1>7, SegmentIsSequence
  <1>9. /\ Append(Inbox, f) \in Seq(Field) /\ Len(Append(Inbox, f)) = widx + 1
        /\ \A i \in 1 .. widx : Append(Inbox, f)[i] = Inbox[i]
        /\ Append(Inbox, f)[widx + 1] = f
    BY <1>2, AppendProperties
  <1>10. \A i \in 1 .. widx + 1 : Inbox'[i] = Append(Inbox, f)[i]
    <2> SUFFICES ASSUME NEW i \in 1 .. widx + 1
                 PROVE  Inbox'[i] = Append(Inbox, f)[i]
      OBVIOUS
    <2>1. i-1 \in Index /\ Inbox'[i] = words'[i-1]
      BY <1>1, <1>5 DEF Index
    <2>2. CASE i = widx + 1
      BY <1>1, <1>6, <1>9, <2>1, <2>2 DEF Packet, Index
    <2>3. CASE i # widx + 1
      <3>1. i \in 1 .. widx /\ i-1 # widx
        BY <1>1, <2>3
      <3>2. words'[i-1] = words[i-1]
        BY <1>1, <1>6, <2>1, <3>1 DEF Packet, Index
      <3> QED
        BY <1>3, <1>9, <2>1, <3>1, <3>2
    <2> QED
      BY <2>2, <2>3
  <1>11. Inbox' = Append(Inbox, f)
    BY <1>8, <1>9, <1>10, SeqEqual
  <1>12. Outbox = <<>> /\ Outbox' = <<>>
    BY <1>1 DEF Outbox, Receive
  <1> QED
    BY <1>2, <1>11, <1>12 DEF Stream!Take

(* The whole answer is on the stream at once when it is captured.           *)
LEMMA CaptureServes ==
    ASSUME StreamIInv, Capture
    PROVE  Stream!Serve
  <1>1. state = "WAIT" /\ state' = "TX" /\ tidx' = 0 /\ rsp' = answer /\ words' = words
        /\ answer = Reply(words) /\ words \in Packet
    BY DEF StreamIInv, WrapperTypeOK, AnswersWords, Capture, Core!Consume
  <1>2. Inbox = [i \in 1 .. 8 |-> words[i-1]] /\ Len(Inbox) = 8
    BY <1>1, InboxIsSequence
  <1>3. Inbox' = Inbox
    BY <1>1 DEF Inbox
  <1>4. Outbox = <<>>
    BY <1>1 DEF Outbox
  <1>5. Outbox' = [i \in 1 .. 3 |-> Word(rsp', i-1)]
    <2>1. 3 - tidx' = 3 /\ \A i \in 1 .. 3 : tidx' + i - 1 = i - 1
      BY <1>1
    <2> QED
      BY <1>1, <2>1, NextOutboxAsWords
  <1>6. Outbox' = Reply(words)
    BY <1>1, <1>5, ReplyIsThreeWords DEF Word
  <1>7. ReplyToWords(Inbox) = Reply(words)
    BY <1>1, <1>2, WordsAreThePacket
  <1> QED
    BY <1>2, <1>3, <1>4, <1>6, <1>7 DEF Stream!Serve

(* A word that leaves is the first of those still to come, and the last one *)
(* opens the stream.                                                        *)
LEMMA TransmitGives ==
    ASSUME StreamIInv, Transmit
    PROVE  Stream!Give
  <1>1. state = "TX" /\ tidx \in 0 .. 2 /\ words' = words /\ rsp' = rsp
    BY DEF StreamIInv, TransmitsReply, Transmit
  <1>2. /\ Outbox \in Seq({rsp[1], rsp[2], rsp[3]}) /\ Len(Outbox) = 3 - tidx /\ Outbox # <<>>
        /\ \A i \in 1 .. 3 - tidx : Outbox[i] = WordAt(tidx + i - 1)
    BY <1>1, OutboxIsSequence
  <1>3. /\ Tail(Outbox) \in Seq({rsp[1], rsp[2], rsp[3]}) /\ Len(Tail(Outbox)) = 2 - tidx
        /\ \A i \in 1 .. 2 - tidx : Tail(Outbox)[i] = Outbox[i+1]
    BY <1>1, <1>2, HeadTailProperties
  <1>4. CASE tidx = 2
    <2>1. state' = "RX" /\ widx' = 0
      BY <1>4 DEF Transmit
    <2>2. Outbox' = <<>> /\ Inbox' = <<>>
      BY <2>1 DEF Outbox, Inbox
    <2>3. Tail(Outbox) = <<>> /\ Len(Outbox) = 1
      BY <1>2, <1>3, <1>4, EmptySeq
    <2> QED
      BY <1>2, <2>2, <2>3 DEF Stream!Give
  <1>5. CASE tidx # 2
    <2>1. state' = "TX" /\ tidx' = tidx + 1 /\ 2 - tidx \in 1 .. 2
      BY <1>1, <1>5 DEF Transmit
    <2>2. Outbox' = [i \in 1 .. 3 - tidx' |-> Word(rsp', tidx' + i - 1)]
      BY <2>1, NextOutboxAsWords
    <2>3. 3 - tidx' = 2 - tidx /\ \A i \in 1 .. 2 - tidx : tidx' + i - 1 = tidx + (i+1) - 1
      BY <1>1, <2>1
    <2>4. Outbox' = [i \in 1 .. 2 - tidx |-> Word(rsp, tidx + (i+1) - 1)]
      BY <1>1, <2>2, <2>3
    <2>5. Outbox' \in [1 .. 2 - tidx -> {rsp[1], rsp[2], rsp[3]}]
      BY <2>4 DEF Word
    <2>6. Outbox' \in Seq({rsp[1], rsp[2], rsp[3]}) /\ Len(Outbox') = 2 - tidx
      BY <2>1, <2>5, SegmentIsSequence
    <2>7. \A i \in 1 .. 2 - tidx : Outbox'[i] = Tail(Outbox)[i]
      BY <1>1, <1>2, <1>3, <2>4 DEF WordAt, Word
    <2>8. Outbox' = Tail(Outbox)
      BY <1>3, <2>6, <2>7, SeqEqual
    <2>9. Inbox' = Inbox
      BY <1>1, <2>1 DEF Inbox
    <2>10. Len(Outbox) # 1
      BY <1>1, <1>2, <1>5
    <2> QED
      BY <1>2, <2>8, <2>9, <2>10 DEF Stream!Give
  <1> QED
    BY <1>4, <1>5

LEMMA StreamStep == StreamIInv /\ [WrapperNext]_streamVars => [Stream!Next]_(Stream!vars)
  <1> SUFFICES ASSUME StreamIInv, [WrapperNext]_streamVars PROVE [Stream!Next]_(Stream!vars)
    OBVIOUS
  <1>1. CASE ResetEdge
    <2>1. Inbox' = <<>> /\ Outbox' = <<>>
      BY <1>1 DEF ResetEdge, Inbox, Outbox
    <2> QED
      BY <2>1 DEF Stream!Next, Stream!Discard
  <1>2. CASE \E f \in Field : Receive(f)
    BY <1>2, ReceiveTakes DEF Stream!Next
  <1>3. CASE Capture
    BY <1>3, CaptureServes DEF Stream!Next
  <1>4. CASE Transmit
    BY <1>4, TransmitGives DEF Stream!Next
  <1>5. CASE Ask
    BY <1>5 DEF Ask, Inbox, Outbox, Stream!vars
  <1>6. CASE UNCHANGED wrapperVars
    BY <1>6 DEF wrapperVars, Inbox, Outbox, WordAt, Stream!vars
  <1> QED
    BY <1>1, <1>2, <1>3, <1>4, <1>5, <1>6 DEF WrapperNext, CoreAnswers, streamVars

(* The wrapper implements the packet server: each eight words taken in are  *)
(* answered by the three words of the decision for exactly those fields, in *)
(* order, before another word is taken in, whatever pauses and resets       *)
(* happen on the way.                                                       *)
THEOREM WrapperImplementsServer == WrapperSpec => PacketsAnswered
  <1>1. WrapperInit => Stream!Init
    BY DEF WrapperInit, Stream!Init, Inbox, Outbox
  <1> QED
    BY <1>1, StreamInvariance, StreamStep, PTL DEF WrapperSpec, PacketsAnswered, Stream!Promise
=============================================================================
