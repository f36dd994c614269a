---------------------------- MODULE MatrixProofs ----------------------------
(***************************************************************************)
(* What MCMatrix checks for two jobs and two runners holds for every       *)
(* manifest, tree of sources and number of runners, and for any number of  *)
(* faults, edits and retries: two runners never hold the lock if no two    *)
(* take it at the same time, and what the validator accepts was measured   *)
(* on the sources checked out.                                             *)
(*                                                                         *)
(* LockInv follows the file from the check to the write: only one runner   *)
(* takes the lock, the file has no live owner once it has passed the       *)
(* check, and an owner's pid stays in the file.  MeasuredInv says of every *)
(* cache, document, key at hand and record that its contents are those of  *)
(* the identity it is kept under.                                          *)
(***************************************************************************)
EXTENDS HardwareCheck, FiniteSetTheorems, TLAPS

OneTakes == \A r, q \in Taking : r = q
OwnerNamed == \A r \in Runner : lpc[r] = "held" => lock = r
FreeToTake ==
    \A r \in Runner :
        /\ lpc[r] \in {"unlink", "create", "write"} => lock \notin Runner
        /\ lpc[r] = "write" => r \in opened

LockInv == LockTypeOK /\ OneTakes /\ OwnerNamed /\ FreeToTake

LEMMA LockInvInit == LockInit => LockInv
  BY LockAssumption DEF LockInit, LockInv, LockTypeOK, OneTakes, OwnerNamed, FreeToTake, Taking

LEMMA LockInvStep ==
    ASSUME ~Together, LockInv, [LockNext]_lockVars
    PROVE  LockInv'
<1> USE LockAssumption DEF LockInv, LockTypeOK, OneTakes, OwnerNamed, FreeToTake, Taking
<1>1. ASSUME NEW r \in Runner, StartRunner(r) PROVE LockInv'
  BY <1>1 DEF StartRunner
<1>2. ASSUME NEW r \in Runner, CheckLock(r) PROVE LockInv'
  BY <1>2 DEF CheckLock
<1>3. ASSUME NEW r \in Runner, UnlinkStale(r) PROVE LockInv'
  BY <1>3 DEF UnlinkStale
<1>4. ASSUME NEW r \in Runner, CreateLock(r) PROVE LockInv'
  BY <1>4 DEF CreateLock
<1>5. ASSUME NEW r \in Runner, WriteLock(r) PROVE LockInv'
  BY <1>5 DEF WriteLock
<1>6. ASSUME NEW r \in Runner, ReleaseLock(r) PROVE LockInv'
  BY <1>6 DEF ReleaseLock, Released
<1>7. ASSUME NEW r \in Runner, Die(r) PROVE LockInv'
  BY <1>7 DEF Die
<1>8. CASE UNCHANGED lockVars
  BY <1>8 DEF lockVars
<1> QED
  BY <1>1, <1>2, <1>3, <1>4, <1>5, <1>6, <1>7, <1>8 DEF LockNext, Taken

(* "A lock keeps two local runners from colliding" (tools/measure_matrix.py *)
(* line 4), for any number of runners refused, killed and restarted in any  *)
(* order, if a runner is started only when no other is taking the lock.     *)
THEOREM LockKeepsOneRunner ==
    ASSUME ~Together
    PROVE  LockSpec => []OneRunner
<1>1. LockInv => OneRunner
  BY DEF LockInv, OwnerNamed, OneRunner
<1> QED
  BY <1>1, LockInvInit, LockInvStep, PTL DEF LockSpec

-----------------------------------------------------------------------------
(* What the matrix runner and its operator do to the lock file is what      *)
(* RunnerLock says.                                                         *)
LEMMA NextKeepsLock == Next => [LockNext]_lockVars
<1> USE DEF LockNext, Taken
<1>1. RunAll \/ (\E j \in Job : Retry(j)) => LockNext
  BY DEF RunAll, Retry, Begin
<1>2. Launch \/ LockStep => LockNext
  BY DEF Launch, LockStep
<1>3. Work => [LockNext]_lockVars
  BY DEF Work, SynthReuse, SynthRaises, SynthStart, Yosys, SynthRecord, PlanJob, Planned,
         RouteReuse, RouteStart, RouteFinishes, RouteTimesOut, RouteEnds, Routed, DecideReuse,
         DecideRaises, DecideStart, Build, BuildFails, Test, DecideRecord, Derive, Summarise, Exit
<1>4. RouteFails \/ RouteCancelled \/ DecideFails \/ Interrupt \/ Kill \/ KillTaker \/ PowerLoss
          => [LockNext]_lockVars
  BY DEF RouteFails, RouteCancelled, RouteEnds, DecideFails, Interrupt, Kill, KillTaker, PowerLoss, Taking
<1>5. Edit \/ Clean \/ Repair \/ Discard \/ Reanalyze => UNCHANGED lockVars
  BY DEF Edit, Clean, Repair, Emptied, Discard, Reanalyze
<1> QED
  BY <1>1, <1>2, <1>3, <1>4, <1>5 DEF Next

(* The runs of the manifest implement the lock protocol.                    *)
THEOREM MatrixImplementsLock == Spec => LockSpec
<1>1. Init => LockInit
  BY DEF Init
<1>2. [Next]_vars => [LockNext]_lockVars
  BY NextKeepsLock DEF vars, lockVars
<1> QED
  BY <1>1, <1>2, PTL DEF Spec, LockSpec

(* One runner at a time measures, so the variables of MatrixRun that belong *)
(* to "the" runner belong to one.                                           *)
THEOREM MatrixHasOneRunner ==
    ASSUME ~Together
    PROVE  Spec => []OneRunner
  BY MatrixImplementsLock, LockKeepsOneRunner, PTL

-----------------------------------------------------------------------------
NetlistOf(k) == Netlist(k.hdl, k.params, Here)
Documents(c) == {[key |-> SynthKey(v, c), netlist |-> Netlist(v, c, Here)] : v \in Version}

(* A route key is of one version; what is not a job does not matter.        *)
KeyOk(k) ==
    k.job \in Job =>
        \E v \in Version, p \in Path : /\ k.synth = SynthKey(v, ConfigOf[k.job])
                                       /\ k.netlist = Netlist(v, ConfigOf[k.job], p)

Domains ==
    /\ DOMAIN synth = SynthKeys /\ DOMAIN exe = NativeKeys
    /\ DOMAIN docs = Config /\ DOMAIN meta = Config
    /\ source \in Version
SynthOk ==
    \A k \in SynthKeys :
        synth[k] \in [netlist : {None, NetlistOf(k)}, summary : {None, TornSummary, NetlistOf(k)}]
SynthesisOk ==
    /\ pc \in {"yosys", "synthesized"} => back \in {"plan", "route"}
    /\ pc = "yosys" => key = SynthKey(source, Conf)
    /\ pc = "synthesized" =>
           \E v \in Version : /\ key = SynthKey(v, Conf)
                              /\ Conf \in Config => synth[key].netlist = Netlist(v, Conf, Here)
DocsOk == \A c \in Config : docs[c] = None \/ docs[c] \in Documents(c)
RecordsOk ==
    /\ pc = "nextpnr" => KeyOk(key.key)
    /\ \A rec \in raw : "key" \in DOMAIN rec /\ KeyOk(rec.key)
ExeOk == \A k \in NativeKeys : exe[k] \in {None, "torn", k.hdl}
DecidingOk ==
    /\ pc = "build" => key = NativeKey(source, Wanted[n])
    /\ pc = "test" => \E v \in Version : /\ key = NativeKey(v, Wanted[n])
                                         /\ Wanted[n] \in Config => exe[key] = v
    /\ pc = "matched" => (Wanted[n] \in Config => key.hdl \in Correct)
MetaOk ==
    \A c \in Config, v \in Version :
        meta[c] = [key |-> NativeKey(v, c), status |-> "matched"] => v \in Correct

MeasuredInv ==
    /\ Domains /\ SynthOk /\ SynthesisOk /\ DocsOk
    /\ RecordsOk /\ ExeOk /\ DecidingOk /\ MetaOk

LEMMA MeasuredInit == Init => MeasuredInv
<1> SUFFICES ASSUME Init PROVE MeasuredInv
  OBVIOUS
<1> USE MatrixAssumption, IdentityAssumption DEF Init, RunnerIdle
<1>1. Domains /\ SynthOk /\ SynthesisOk /\ DocsOk /\ ExeOk /\ DecidingOk
  BY DEF Domains, SynthOk, SynthesisOk, DocsOk, ExeOk, DecidingOk, NoSynth, NoDocs, NoResults,
         ResultsOf
<1>2. CASE NoResults
  <2>1. RecordsOk /\ MetaOk
    BY <1>2 DEF NoResults, NoDocs, RecordsOk, MetaOk, NativeKey, NativeKeys, HdlClosure
  <2> QED
    BY <1>1, <2>1 DEF MeasuredInv
<1>3. ASSUME NEW v \in Correct, NEW p \in Path, ResultsOf(v, p)
      PROVE  MeasuredInv
  <2>1. ASSUME NEW i \in DOMAIN Jobs
        PROVE  "key" \in DOMAIN OutcomeAt(v, p, Jobs[i]) /\ KeyOk(OutcomeAt(v, p, Jobs[i]).key)
    BY DEF KeyOk, OutcomeAt, RouteKey
  <2>2. RecordsOk
    BY <1>3, <2>1 DEF ResultsOf, RecordsOk
  <2>3. MetaOk
    BY <1>3 DEF ResultsOf, MetaOk, NativeKey, NativeKeys, HdlClosure
  <2> QED
    BY <1>1, <2>2, <2>3 DEF MeasuredInv
<1> QED
  BY <1>2, <1>3

(* A record written under a good key leaves the others as they are.         *)
LEMMA WrittenOk ==
    ASSUME RecordsOk, NEW rec, "key" \in DOMAIN rec, KeyOk(rec.key)
    PROVE  \A other \in Written(rec) : "key" \in DOMAIN other /\ KeyOk(other.key)
  BY DEF RecordsOk, Written

(* Steps that touch no cache, record or document.                           *)
LEMMA MeasuredPc ==
    ASSUME MeasuredInv, UNCHANGED <<source, synth, exe, raw, meta>>,
           DOMAIN docs' = Config, \A c \in Config : docs'[c] = None \/ docs'[c] = docs[c],
           pc' \notin {"yosys", "synthesized", "nextpnr", "build", "test", "matched"}
    PROVE  MeasuredInv'
<1> USE DEF MeasuredInv
<1>1. Domains' /\ SynthOk' /\ ExeOk' /\ MetaOk' /\ RecordsOk'
  BY DEF Domains, SynthOk, ExeOk, MetaOk, RecordsOk
<1>2. SynthesisOk' /\ DecidingOk' /\ DocsOk'
  BY DEF SynthesisOk, DecidingOk, DocsOk
<1> QED
  BY <1>1, <1>2

(* The item at hand is the same as long as the job list and position are.   *)
LEMMA ItemStays ==
    ASSUME UNCHANGED <<n, only>>
    PROVE  UNCHANGED <<Conf, Wanted[n]>>
  BY DEF Conf, Items, Wanted

LEMMA MeasuredSynthesis ==
    ASSUME MeasuredInv, SynthReuse \/ SynthStart \/ Yosys \/ SynthRecord
    PROVE  MeasuredInv'
<1> USE MatrixAssumption DEF MeasuredInv
<1>1. CASE SynthReuse
  <2>1. UNCHANGED <<source, synth, exe, raw, meta, pc, n, only, key, back>>
    BY <1>1 DEF SynthReuse, files, buildFiles, resultFiles
  <2>2. DocsOk'
    BY <1>1 DEF SynthReuse, DocsOk, Domains, SynthOk, Documents, Reusable, NetlistOf, SynthKey, SynthKeys, HdlClosure
  <2>3. Domains'
    BY <1>1, <2>1 DEF SynthReuse, Domains
  <2>4. SynthOk' /\ ExeOk' /\ MetaOk' /\ RecordsOk'
    BY <2>1 DEF SynthOk, ExeOk, MetaOk, RecordsOk
  <2>5. SynthesisOk' /\ DecidingOk'
    BY <2>1, ItemStays DEF SynthesisOk, DecidingOk
  <2> QED
    BY <2>2, <2>3, <2>4, <2>5
<1>2. CASE SynthStart
  <2>1. UNCHANGED <<source, exe, raw, meta, docs, n, only>> /\ pc' = "yosys" /\ back' = pc
    BY <1>2 DEF SynthStart, resultFiles
  <2>2. Domains' /\ SynthOk'
    BY <1>2, <2>1 DEF SynthStart, Domains, SynthOk, NoSynth
  <2>3. SynthesisOk'
    BY <1>2, <2>1, ItemStays DEF SynthStart, SynthesisOk, Planning, Routing
  <2>4. ExeOk' /\ MetaOk' /\ RecordsOk' /\ DocsOk' /\ DecidingOk'
    BY <2>1 DEF ExeOk, MetaOk, RecordsOk, DocsOk, DecidingOk
  <2> QED
    BY <2>2, <2>3, <2>4
<1>3. CASE Yosys
  <2>1. /\ UNCHANGED <<source, exe, raw, meta, docs, n, only, key, back>>
        /\ pc = "yosys" /\ pc' = "synthesized"
    BY <1>3 DEF Yosys, resultFiles
  <2>2. key = SynthKey(source, Conf) /\ UNCHANGED Conf /\ source \in Version
    BY <2>1, ItemStays DEF SynthesisOk, Domains
  <2>3. synth' = [synth EXCEPT ![key] = [synth[key] EXCEPT !.netlist = Netlist(source, Conf, Here)]]
    BY <1>3 DEF Yosys
  <2>4. Conf \in Config => key \in SynthKeys /\ NetlistOf(key) = Netlist(source, Conf, Here)
    BY <2>2 DEF SynthKey, SynthKeys, NetlistOf, HdlClosure
  <2>5. key \in SynthKeys => Conf \in Config
    BY <2>2 DEF SynthKey, SynthKeys
  <2>6. Domains' /\ SynthOk'
    BY <2>1, <2>3, <2>4, <2>5 DEF Domains, SynthOk
  <2>7. SynthesisOk'
    BY <2>1, <2>2, <2>3, <2>4 DEF SynthesisOk, Domains, SynthOk
  <2>8. ExeOk' /\ MetaOk' /\ RecordsOk' /\ DocsOk' /\ DecidingOk'
    BY <2>1 DEF ExeOk, MetaOk, RecordsOk, DocsOk, DecidingOk
  <2> QED
    BY <2>6, <2>7, <2>8
<1>4. CASE SynthRecord
  <2>1. /\ UNCHANGED <<source, exe, raw, meta, n, only>>
        /\ pc = "synthesized" /\ pc' \in {"plan", "route"}
    BY <1>4 DEF SynthRecord, resultFiles, SynthesisOk
  <2>2. PICK v \in Version : /\ key = SynthKey(v, Conf)
                             /\ Conf \in Config => synth[key].netlist = Netlist(v, Conf, Here)
    BY <2>1 DEF SynthesisOk
  <2>3. Domains' /\ DocsOk'
    BY <1>4, <2>1, <2>2 DEF SynthRecord, Domains, DocsOk, Documents
  <2>4. synth' = [synth EXCEPT ![key] = [synth[key] EXCEPT !.summary = synth[key].netlist]]
    BY <1>4 DEF SynthRecord
  <2>5. SynthOk'
    BY <2>4 DEF Domains, SynthOk
  <2>6. ExeOk' /\ MetaOk' /\ RecordsOk' /\ SynthesisOk' /\ DecidingOk'
    BY <2>1 DEF ExeOk, MetaOk, RecordsOk, SynthesisOk, DecidingOk
  <2> QED
    BY <2>3, <2>5, <2>6
<1> QED
  BY <1>1, <1>2, <1>3, <1>4

LEMMA MeasuredRouting ==
    ASSUME MeasuredInv, RouteStart \/ \E stopped, p : RouteEnds(stopped, p)
    PROVE  MeasuredInv'
<1> USE MatrixAssumption, IdentityAssumption DEF MeasuredInv
<1>1. CASE RouteStart
  <2>1. UNCHANGED <<source, synth, exe, raw, meta, docs>> /\ pc' = "nextpnr"
    BY <1>1 DEF RouteStart, resultFiles
  <2>2. key'.key = KeyNow(Items[n]) /\ docs[ConfigOf[Items[n]]] # None
    BY <1>1 DEF RouteStart, Conf
  <2>3. KeyOk(key'.key)
    BY <2>2 DEF KeyOk, KeyNow, RouteKey, DocsOk, Documents
  <2>4. RecordsOk'
    BY <2>1, <2>3 DEF RecordsOk
  <2>5. Domains' /\ SynthOk' /\ ExeOk' /\ MetaOk' /\ DocsOk' /\ SynthesisOk' /\ DecidingOk'
    BY <2>1 DEF Domains, SynthOk, ExeOk, MetaOk, DocsOk, SynthesisOk, DecidingOk
  <2> QED
    BY <2>4, <2>5
<1>2. ASSUME NEW stopped, NEW p, RouteEnds(stopped, p) PROVE MeasuredInv'
  <2>1. UNCHANGED <<source, synth, exe, meta>> /\ docs' = NoDocs /\ pc = "nextpnr" /\ pc' = "route"
    BY <1>2 DEF RouteEnds
  <2>2. RecordsOk'
    <3> DEFINE rec == [key |-> key.key, attempt |-> key.attempt, stopped |-> stopped,
                       status |-> Classify(stopped, p)]
    <3>1. raw' = Written(rec) /\ rec.key = key.key /\ "key" \in DOMAIN rec
      BY <1>2 DEF RouteEnds
    <3>2. KeyOk(rec.key)
      BY <2>1, <3>1 DEF RecordsOk
    <3> HIDE DEF rec
    <3> QED
      BY <2>1, <3>1, <3>2, WrittenOk DEF RecordsOk
  <2>3. Domains' /\ SynthOk' /\ ExeOk' /\ MetaOk' /\ DocsOk' /\ SynthesisOk' /\ DecidingOk'
    BY <2>1 DEF Domains, SynthOk, ExeOk, MetaOk, DocsOk, NoDocs, SynthesisOk, DecidingOk
  <2> QED
    BY <2>2, <2>3
<1> QED
  BY <1>1, <1>2

LEMMA MeasuredDeciding ==
    ASSUME MeasuredInv, DecideStart \/ Build \/ Test \/ DecideRecord
    PROVE  MeasuredInv'
<1> USE MatrixAssumption DEF MeasuredInv
<1>1. CASE DecideStart
  <2>1. UNCHANGED <<source, synth, exe, raw, meta, docs, n, only>> /\ pc' = "build"
    BY <1>1 DEF DecideStart, files, buildFiles, resultFiles
  <2>2. DecidingOk'
    BY <1>1, <2>1, ItemStays DEF DecideStart, DecidingOk
  <2>3. Domains' /\ SynthOk' /\ ExeOk' /\ MetaOk' /\ DocsOk' /\ SynthesisOk' /\ RecordsOk'
    BY <2>1 DEF Domains, SynthOk, ExeOk, MetaOk, DocsOk, SynthesisOk, RecordsOk
  <2> QED
    BY <2>2, <2>3
<1>2. CASE Build
  <2> DEFINE k == NativeKey(source, Wanted[n])
  <2>1. UNCHANGED <<source, synth, raw, meta, docs, n, only, key>> /\ pc = "build" /\ pc' = "test"
    BY <1>2 DEF Build, resultFiles
  <2>2. /\ exe[k] # "torn" /\ exe' = IF exe[k] # None THEN exe ELSE [exe EXCEPT ![k] = source]
        /\ key = k /\ k.hdl = source /\ source \in Version /\ DOMAIN exe = NativeKeys
        /\ k \in NativeKeys <=> Wanted[n] \in Config
    BY <1>2, <2>1 DEF Build, DecidingOk, Domains, NativeKey, NativeKeys, HdlClosure
  <2>3. UNCHANGED Wanted[n] /\ key = NativeKey(source, Wanted[n])
    BY <2>1, <2>2, ItemStays
  <2> HIDE DEF k
  <2>4. ExeOk' /\ DOMAIN exe' = NativeKeys /\ (k \in NativeKeys => exe'[k] = source)
    BY <2>2 DEF ExeOk
  <2>5. DecidingOk'
    BY <2>1, <2>2, <2>3, <2>4 DEF DecidingOk
  <2>6. Domains' /\ SynthOk' /\ MetaOk' /\ DocsOk' /\ SynthesisOk' /\ RecordsOk'
    BY <2>1, <2>4 DEF Domains, SynthOk, MetaOk, DocsOk, SynthesisOk, RecordsOk
  <2> QED
    BY <2>4, <2>5, <2>6
<1>3. CASE Test
  <2>1. /\ UNCHANGED <<source, synth, exe, raw, meta, docs, n, only, key>>
        /\ pc = "test" /\ pc' \in {"matched", "failed"}
        /\ pc' = "matched" => exe[key] \in Correct
    BY <1>3 DEF Test, Tested, buildFiles
  <2>2. PICK v \in Version : key = NativeKey(v, Wanted[n]) /\ (Wanted[n] \in Config => exe[key] = v)
    BY <2>1 DEF DecidingOk
  <2>3. DecidingOk'
    BY <2>1, <2>2, ItemStays DEF DecidingOk, NativeKey, HdlClosure
  <2>4. Domains' /\ SynthOk' /\ ExeOk' /\ MetaOk' /\ DocsOk' /\ SynthesisOk' /\ RecordsOk'
    BY <2>1 DEF Domains, SynthOk, ExeOk, MetaOk, DocsOk, SynthesisOk, RecordsOk
  <2> QED
    BY <2>3, <2>4
<1>4. CASE DecideRecord
  <2>1. /\ UNCHANGED <<source, synth, exe, raw, docs>> /\ pc \in {"matched", "failed"}
        /\ pc' \in {"decide", "exit"}
        /\ meta' = [meta EXCEPT ![Wanted[n]] = [key |-> key, status |-> pc]]
    BY <1>4 DEF DecideRecord, buildFiles
  <2>2. MetaOk'
    BY <2>1 DEF MetaOk, DecidingOk, Domains, NativeKey, HdlClosure
  <2>3. Domains' /\ SynthOk' /\ ExeOk' /\ DocsOk' /\ SynthesisOk' /\ RecordsOk' /\ DecidingOk'
    BY <2>1 DEF Domains, SynthOk, ExeOk, DocsOk, SynthesisOk, RecordsOk, DecidingOk
  <2> QED
    BY <2>2, <2>3
<1> QED
  BY <1>1, <1>2, <1>3, <1>4

LEMMA MeasuredFaults ==
    ASSUME MeasuredInv, Kill \/ PowerLoss \/ Reanalyze
    PROVE  MeasuredInv'
<1> USE DEF MeasuredInv
<1>1. CASE Kill
  <2>1. UNCHANGED <<source, synth, raw, meta>> /\ docs' = NoDocs /\ pc' = "down"
    BY <1>1 DEF Kill, Ended
  <2>2. exe' = exe \/ exe' = [exe EXCEPT ![key] = "torn"]
    BY <1>1 DEF Kill
  <2>3. ExeOk' /\ DOMAIN exe' = DOMAIN exe
    BY <2>2 DEF ExeOk, Domains
  <2>4. Domains' /\ SynthOk' /\ MetaOk' /\ DocsOk' /\ SynthesisOk' /\ RecordsOk' /\ DecidingOk'
    BY <2>1, <2>3 DEF Domains, SynthOk, MetaOk, DocsOk, NoDocs, SynthesisOk, RecordsOk, DecidingOk
  <2> QED
    BY <2>3, <2>4
<1>2. CASE PowerLoss
  <2>1. /\ UNCHANGED source /\ docs' = NoDocs /\ pc' = "down"
        /\ synth' = synth \/ \E k : synth' = [synth EXCEPT ![k].summary = TornSummary]
        /\ exe' = exe \/ exe' = [exe EXCEPT ![key] = "torn"]
        /\ meta' = meta \/ \E c : meta' = [meta EXCEPT ![c] = TornDecision]
        /\ raw' = raw \/ \E rec \in raw : raw' = Written([rec EXCEPT !.status = "torn"])
    BY <1>2 DEF PowerLoss, Ended
  <2>2. RecordsOk'
    <3>1. ASSUME NEW rec \in raw, raw' = Written([rec EXCEPT !.status = "torn"]) PROVE RecordsOk'
      <4>1. "key" \in DOMAIN [rec EXCEPT !.status = "torn"] /\ [rec EXCEPT !.status = "torn"].key = rec.key
        BY DEF RecordsOk
      <4> QED
        BY <2>1, <3>1, <4>1, WrittenOk DEF RecordsOk
    <3> QED
      BY <2>1, <3>1 DEF RecordsOk
  <2>3. SynthOk' /\ DOMAIN synth' = SynthKeys
    <3>1. ASSUME NEW k, synth' = [synth EXCEPT ![k].summary = TornSummary]
          PROVE  SynthOk' /\ DOMAIN synth' = SynthKeys
      <4>1. synth' = [synth EXCEPT ![k] = [synth[k] EXCEPT !.summary = TornSummary]]
        BY <3>1
      <4> QED
        BY <4>1 DEF SynthOk, Domains
    <3> QED
      BY <2>1, <3>1 DEF SynthOk, Domains
  <2>4. ExeOk' /\ DOMAIN exe' = NativeKeys
    BY <2>1 DEF ExeOk, Domains
  <2>5. MetaOk' /\ DOMAIN meta' = Config
    BY <2>1 DEF MetaOk, Domains, TornDecision
  <2>6. Domains' /\ DocsOk' /\ SynthesisOk' /\ DecidingOk'
    BY <2>1, <2>3, <2>4, <2>5 DEF Domains, DocsOk, NoDocs, SynthesisOk, DecidingOk
  <2> QED
    BY <2>2, <2>3, <2>4, <2>5, <2>6
<1>3. CASE Reanalyze
  <2>1. UNCHANGED <<source, synth, exe, meta, docs, pc, n, only, key, back>>
    BY <1>3 DEF Reanalyze, buildFiles, runner
  <2>2. PICK rec \in raw : raw' = Written([rec EXCEPT !.status = Classify(rec.stopped, ParsedLog(rec))])
    BY <1>3 DEF Reanalyze
  <2> DEFINE again == [rec EXCEPT !.status = Classify(rec.stopped, ParsedLog(rec))]
  <2>3. "key" \in DOMAIN again /\ again.key = rec.key
    BY <2>2 DEF RecordsOk
  <2>4. KeyOk(again.key)
    BY <2>3 DEF RecordsOk
  <2> HIDE DEF again
  <2>5. \A other \in raw' : "key" \in DOMAIN other /\ KeyOk(other.key)
    BY <2>2, <2>3, <2>4, WrittenOk DEF again
  <2>6. RecordsOk'
    BY <2>1, <2>5 DEF RecordsOk
  <2>7. Domains' /\ SynthOk' /\ ExeOk' /\ MetaOk' /\ DocsOk' /\ SynthesisOk' /\ DecidingOk'
    BY <2>1, ItemStays DEF Domains, SynthOk, ExeOk, MetaOk, DocsOk, SynthesisOk, DecidingOk
  <2> QED
    BY <2>6, <2>7
<1> QED
  BY <1>1, <1>2, <1>3

LEMMA MeasuredOperator ==
    ASSUME MeasuredInv,
           Launch \/ LockStep \/ KillTaker \/ Edit \/ Clean \/ Repair \/ Discard \/ UNCHANGED vars
    PROVE  MeasuredInv'
<1> USE DEF MeasuredInv
<1>1. CASE Launch \/ LockStep \/ KillTaker \/ UNCHANGED vars
  <2>1. UNCHANGED <<source, synth, exe, raw, meta, docs, pc, n, only, key, back>>
    BY <1>1 DEF Launch, LockStep, KillTaker, vars, files, buildFiles, resultFiles, runner
  <2> QED
    BY <2>1, ItemStays DEF Domains, SynthOk, ExeOk, MetaOk, RecordsOk, DocsOk, SynthesisOk, DecidingOk
<1>2. CASE Edit
  <2>1. /\ UNCHANGED <<synth, exe, raw, meta, docs, pc, n, only, key, back>>
        /\ source' \in Version /\ pc \notin {"yosys", "build"}
    BY <1>2 DEF Edit, files, buildFiles, resultFiles
  <2> QED
    BY <2>1, ItemStays DEF Domains, SynthOk, ExeOk, MetaOk, RecordsOk, DocsOk, SynthesisOk, DecidingOk
<1>3. CASE Clean \/ Repair
  <2>1. /\ UNCHANGED <<source, raw, meta, docs, pc>> /\ pc = "down"
        /\ synth' = [k \in SynthKeys |-> NoSynth] /\ exe' = [k \in NativeKeys |-> None]
    BY <1>3 DEF Clean, Repair, Emptied, resultFiles, runner
  <2>2. Domains' /\ SynthOk' /\ ExeOk'
    BY <2>1 DEF Domains, SynthOk, NoSynth, ExeOk
  <2>3. MetaOk' /\ RecordsOk' /\ DocsOk' /\ SynthesisOk' /\ DecidingOk'
    BY <2>1 DEF MetaOk, RecordsOk, DocsOk, SynthesisOk, DecidingOk
  <2> QED
    BY <2>2, <2>3
<1>4. CASE Discard
  <2>1. UNCHANGED <<source, synth, exe, raw, docs, pc>> /\ pc = "down"
    BY <1>4 DEF Discard, buildFiles, runner
  <2>2. MetaOk' /\ DOMAIN meta' = Config
    BY <1>4, MatrixAssumption DEF Discard, MetaOk, Domains, NativeKey, NativeKeys, HdlClosure
  <2> QED
    BY <2>1, <2>2 DEF Domains, SynthOk, ExeOk, RecordsOk, DocsOk, SynthesisOk, DecidingOk
<1> QED
  BY <1>1, <1>2, <1>3, <1>4

(* The other steps of the runner, which only move on.                       *)
LEMMA MeasuredMovesOn ==
    ASSUME MeasuredInv,
           \/ RunAll \/ (\E j \in Job : Retry(j)) \/ SynthRaises \/ PlanJob \/ Planned \/ RouteReuse
           \/ Routed \/ DecideReuse \/ DecideRaises \/ BuildFails \/ Derive \/ Summarise \/ Exit \/ DecideFails \/ Interrupt
    PROVE  MeasuredInv'
<1>1. UNCHANGED <<source, synth, exe, raw, meta>>
  BY DEF RunAll, Retry, Begin, SynthRaises, PlanJob, Planned, RouteReuse, Routed, DecideReuse,
         DecideRaises, BuildFails, Derive, Summarise, Exit, DecideFails, Interrupt, files, buildFiles, resultFiles
<1>2. pc' \notin {"yosys", "synthesized", "nextpnr", "build", "test", "matched"}
  BY DEF RunAll, Retry, Begin, SynthRaises, PlanJob, Planning, Planned, RouteReuse, Routing, Routed,
         DecideReuse, DecideRaises, Deciding, BuildFails, Derive, Summarise, Exit, Ended, DecideFails, Interrupt
<1>3. docs' = docs \/ docs' = NoDocs
  BY DEF RunAll, Retry, Begin, SynthRaises, PlanJob, Planned, RouteReuse, Routed, DecideReuse,
         DecideRaises, BuildFails, Derive, Summarise, Exit, Ended, DecideFails, Interrupt
<1> QED
  BY <1>1, <1>2, <1>3, MeasuredPc DEF NoDocs, MeasuredInv, Domains

LEMMA MeasuredStep == MeasuredInv /\ [Next]_vars => MeasuredInv'
<1> SUFFICES ASSUME MeasuredInv, [Next]_vars PROVE MeasuredInv'
  OBVIOUS
<1>1. CASE Work
  <2>1. CASE RouteFinishes \/ RouteTimesOut
    BY <2>1, MeasuredRouting DEF RouteFinishes, RouteTimesOut
  <2> QED
    BY <1>1, <2>1, MeasuredSynthesis, MeasuredRouting, MeasuredDeciding, MeasuredMovesOn DEF Work
<1>2. CASE RouteFails \/ RouteCancelled
  BY <1>2, MeasuredRouting DEF RouteFails, RouteCancelled
<1> QED
  BY <1>1, <1>2, MeasuredMovesOn, MeasuredFaults, MeasuredOperator DEF Next

(* What the validator accepts was measured on the sources checked out,      *)
(* whatever the manifest and however often the sources were edited, the     *)
(* caches emptied and the runners killed, restarted and retried.            *)
THEOREM AcceptedResultsAreLive == Spec => []AcceptedIsLive
<1>1. MeasuredInv => AcceptedIsLive
  <2> SUFFICES ASSUME MeasuredInv, HardwareOk PROVE AcceptedIsLive
    BY DEF AcceptedIsLive
  <2> USE MatrixAssumption, IdentityAssumption DEF MeasuredInv
  <2>1. ASSUME NEW j \in ManifestJobs, NEW rec \in Matches(j)
        PROVE  \E p \in Path : rec.key.netlist = Netlist(source, ConfigOf[j], p)
    <3>1. j \in Job /\ rec \in raw /\ rec.key.job = j /\ rec.key.synth = SynthKey(source, ConfigOf[j])
      BY <2>1 DEF ManifestJobs, Matches
    <3>2. PICK v \in Version, p \in Path : /\ rec.key.synth = SynthKey(v, ConfigOf[j])
                                           /\ rec.key.netlist = Netlist(v, ConfigOf[j], p)
      BY <3>1 DEF RecordsOk, KeyOk
    <3> QED
      BY <3>1, <3>2 DEF SynthKey, Netlist
  <2>2. ASSUME Decisions # <<>> PROVE source \in Correct
    <3>1. 1 \in DOMAIN Decisions /\ Decisions[1] \in Config
      BY <2>2
    <3>2. meta[Decisions[1]] = [key |-> NativeKey(source, Decisions[1]), status |-> "matched"]
      BY <3>1 DEF HardwareOk, DecisionsOk, Matched
    <3> QED
      BY <3>1, <3>2 DEF MetaOk, Domains
  <2> QED
    BY <2>1, <2>2 DEF AcceptedIsLive
<1> QED
  BY <1>1, MeasuredInit, MeasuredStep, PTL DEF Spec
-----------------------------------------------------------------------------
(* The records of the attempts.  Each has its file, each set of them a      *)
(* latest one (which needs no finiteness: a write adds one record), and a   *)
(* readable record says what its log parses to.  The attempt that nextpnr   *)
(* is at has neither a readable record nor a log yet.                       *)
Same(a, b) == a.key = b.key /\ a.attempt = b.attempt

Shaped(rec) ==
    /\ rec = [key |-> rec.key, attempt |-> rec.attempt, stopped |-> rec.stopped, status |-> rec.status]
    /\ rec.attempt \in Nat
OneFile == \A a, b \in raw : Same(a, b) => a = b
SomeLatest == \A S \in SUBSET raw : S # {} => \E a \in S : \A b \in S : b.attempt <= a.attempt
RecordsInv == (\A rec \in raw : Shaped(rec)) /\ OneFile /\ SomeLatest

SaysItsLog(rec) ==
    rec.status # "torn" =>
        \A log \in logs : Same(log, rec) => rec.status = Classify(rec.stopped, log.parsed)
NewAttempt ==
    pc = "nextpnr" =>
        /\ key.attempt \in Nat
        /\ \A rec \in raw : Same(rec, key) => rec.status = "torn"
        /\ \A log \in logs : ~Same(log, key)
AttemptsInv == RecordsInv /\ (\A rec \in raw : SaysItsLog(rec)) /\ NewAttempt

LEMMA ReadableStatus == \A stopped, p : Classify(stopped, p) # "torn"
  BY DEF Classify

LEMMA AttemptsInit == Init => AttemptsInv
<1> SUFFICES ASSUME Init PROVE AttemptsInv
  OBVIOUS
<1>1. NewAttempt /\ \A rec \in raw : SaysItsLog(rec)
  BY DEF Init, RunnerIdle, NewAttempt, SaysItsLog
<1>2. CASE raw = {}
  BY <1>1, <1>2 DEF AttemptsInv, RecordsInv, OneFile, SomeLatest
<1>3. ASSUME NEW v \in Correct, NEW p \in Path, ResultsOf(v, p) PROVE RecordsInv
  <2>1. raw = {OutcomeAt(v, p, Jobs[i]) : i \in DOMAIN Jobs}
    BY <1>3 DEF ResultsOf
  <2>2. ASSUME NEW j PROVE Shaped(OutcomeAt(v, p, j)) /\ OutcomeAt(v, p, j).attempt = 1
    BY DEF OutcomeAt, Shaped
  <2>3. ASSUME NEW i, NEW j, OutcomeAt(v, p, i).key = OutcomeAt(v, p, j).key
        PROVE  OutcomeAt(v, p, i) = OutcomeAt(v, p, j)
    <3>1. OutcomeAt(v, p, i).key.job = i /\ OutcomeAt(v, p, j).key.job = j
      BY DEF OutcomeAt, RouteKey
    <3> QED
      BY <2>3, <3>1
  <2> QED
    BY <2>1, <2>2, <2>3 DEF RecordsInv, OneFile, SomeLatest, Same
<1> QED
  BY <1>1, <1>2, <1>3 DEF Init, NoResults, AttemptsInv

(* The latest record of an attempt's key is one, and no other is later.     *)
LEMMA LatestIsLast ==
    ASSUME SomeLatest, NEW k, Attempts(k) # {}
    PROVE  /\ ExistingRecord(k) \in Attempts(k)
           /\ \A rec \in Attempts(k) : rec.attempt <= ExistingRecord(k).attempt
<1>1. Attempts(k) \in SUBSET raw
  BY DEF Attempts
<1>2. \E a \in Attempts(k) : \A b \in Attempts(k) : b.attempt <= a.attempt
  BY <1>1 DEF SomeLatest
<1> QED
  BY <1>2 DEF ExistingRecord, Latest

LEMMA WrittenRecords ==
    ASSUME RecordsInv, NEW new, Shaped(new), raw' = Written(new)
    PROVE  RecordsInv'
<1> USE DEF RecordsInv
<1>1. \A rec \in raw' : rec = new \/ (rec \in raw /\ ~Same(rec, new))
  BY DEF Written, Same
<1>2. (\A rec \in raw' : Shaped(rec)) /\ OneFile'
  BY <1>1 DEF OneFile, Same
<1>3. ASSUME NEW S \in SUBSET raw', S # {}
      PROVE  \E a \in S : \A b \in S : b.attempt <= a.attempt
  <2>1. S \ {new} \in SUBSET raw /\ \A b \in S : b.attempt \in Nat
    BY <1>1, <1>2 DEF Shaped
  <2>2. CASE S \ {new} = {}
    BY <1>3, <2>1, <2>2
  <2>3. CASE S \ {new} # {}
    <3>1. PICK a \in S \ {new} : \A b \in S \ {new} : b.attempt <= a.attempt
      BY <2>1, <2>3 DEF SomeLatest
    <3> QED
      BY <2>1, <3>1 DEF Shaped
  <2> QED
    BY <2>2, <2>3
<1> QED
  BY <1>2, <1>3 DEF SomeLatest

(* A record whose status alone is changed.                                  *)
LEMMA Restated ==
    ASSUME NEW rec, Shaped(rec), NEW s
    PROVE  LET new == [rec EXCEPT !.status = s]
           IN  Shaped(new) /\ Same(new, rec) /\ new.status = s /\ new.stopped = rec.stopped
  BY DEF Shaped, Same

LEMMA AttemptsRouting ==
    ASSUME AttemptsInv, RouteStart \/ \E stopped, p : RouteEnds(stopped, p)
    PROVE  AttemptsInv'
<1> USE DEF AttemptsInv
<1>1. CASE RouteStart
  <2>1. PICK k : key' = [key |-> k, attempt |-> AttemptNo(k)]
    BY <1>1 DEF RouteStart
  <2>2. /\ raw' = raw /\ pc' = "nextpnr" /\ logs' \subseteq logs
        /\ \A log \in logs' : ~(log.key = key'.key /\ log.attempt = key'.attempt)
    BY <1>1 DEF RouteStart, resultFiles
  <2>3. RecordsInv' /\ (\A rec \in raw : SaysItsLog(rec))'
    BY <2>2 DEF RecordsInv, OneFile, SomeLatest, SaysItsLog
  <2>4. AttemptNo(k) \in Nat /\ \A rec \in Attempts(k) : rec.attempt < AttemptNo(k)
    <3>1. CASE Attempts(k) = {}
      BY <3>1 DEF AttemptNo
    <3>2. CASE Attempts(k) # {}
      <4>1. \A rec \in Attempts(k) : rec.attempt \in Nat
        BY DEF RecordsInv, Shaped, Attempts
      <4> QED
        BY <3>2, <4>1, LatestIsLast DEF RecordsInv, AttemptNo
    <3> QED
      BY <3>1, <3>2
  <2>5. NewAttempt'
    <3>1. ASSUME NEW rec \in raw, Same(rec, key') PROVE rec.status = "torn"
      <4>1. rec.key = k /\ rec.attempt = AttemptNo(k)
        BY <2>1, <3>1 DEF Same
      <4>2. rec \notin Attempts(k)
        BY <2>4, <4>1
      <4> QED
        BY <4>1, <4>2 DEF Attempts
    <3> QED
      BY <2>1, <2>2, <2>4, <3>1 DEF NewAttempt, Same
  <2> QED
    BY <2>3, <2>5
<1>2. ASSUME NEW stopped, NEW p, RouteEnds(stopped, p) PROVE AttemptsInv'
  <2> DEFINE new == [key |-> key.key, attempt |-> key.attempt, stopped |-> stopped,
                     status |-> Classify(stopped, p)]
             log == [key |-> key.key, attempt |-> key.attempt, parsed |-> p]
  <2>1. raw' = Written(new) /\ logs' = logs \cup {log} /\ pc = "nextpnr" /\ pc' = "route"
    BY <1>2 DEF RouteEnds
  <2>2. /\ Shaped(new) /\ Same(new, key) /\ Same(log, key)
        /\ new.status = Classify(new.stopped, log.parsed)
    BY <2>1 DEF NewAttempt, Shaped, Same
  <2> HIDE DEF new, log
  <2>3. RecordsInv'
    BY <2>1, <2>2, WrittenRecords
  <2>4. \A l \in logs' : l = log \/ (l \in logs /\ ~Same(l, key))
    BY <2>1 DEF NewAttempt
  <2>5. \A rec \in raw' : rec = new \/ (rec \in raw /\ ~Same(rec, new))
    BY <2>1 DEF Written, Same
  <2>6. (\A rec \in raw : SaysItsLog(rec))'
    BY <2>2, <2>4, <2>5 DEF SaysItsLog, Same
  <2> QED
    BY <2>1, <2>3, <2>6 DEF NewAttempt
<1> QED
  BY <1>1, <1>2

(* Parsing a log that was kept again finds what the record says.            *)
LEMMA KeptStatus ==
    ASSUME NEW rec, SaysItsLog(rec), rec.status # "torn", NEW log \in logs, Same(log, rec)
    PROVE  Classify(rec.stopped, ParsedLog(rec)) = rec.status
<1> DEFINE kept == {l \in logs : l.key = rec.key /\ l.attempt = rec.attempt}
<1>1. kept # {} /\ \A l \in kept : rec.status = Classify(rec.stopped, l.parsed)
  BY DEF SaysItsLog, Same
<1>2. ParsedLog(rec) = (CHOOSE l \in kept : TRUE).parsed
  BY <1>1 DEF ParsedLog
<1> QED
  BY <1>1, <1>2

(* A record that is torn, and one whose log is parsed again.                *)
LEMMA AttemptsRestated ==
    ASSUME AttemptsInv, PowerLoss \/ Reanalyze
    PROVE  AttemptsInv'
<1> USE DEF AttemptsInv
<1>1. ASSUME PowerLoss, NEW rec \in raw, raw' = Written([rec EXCEPT !.status = "torn"])
      PROVE  AttemptsInv'
  <2>1. raw' = Written([rec EXCEPT !.status = "torn"])
    BY <1>1
  <2> DEFINE new == [rec EXCEPT !.status = "torn"]
  <2>2. UNCHANGED logs /\ pc' = "down"
    BY <1>1 DEF PowerLoss, Ended
  <2>3. Shaped(new) /\ new.status = "torn"
    BY Restated DEF RecordsInv
  <2> HIDE DEF new
  <2>4. RecordsInv'
    BY <2>1, <2>3, WrittenRecords DEF new
  <2>5. \A other \in raw' : other = new \/ other \in raw
    BY <2>1 DEF Written, new
  <2> QED
    BY <2>2, <2>3, <2>4, <2>5 DEF SaysItsLog, NewAttempt
<1>2. CASE Reanalyze
  <2>1. PICK rec \in raw :
            /\ Attempts(rec.key) # {} /\ rec = ExistingRecord(rec.key)
            /\ raw' = Written([rec EXCEPT !.status = Classify(rec.stopped, ParsedLog(rec))])
    BY <1>2 DEF Reanalyze
  <2>. PICK new : new = [rec EXCEPT !.status = Classify(rec.stopped, ParsedLog(rec))]
    OBVIOUS
  <2>2. UNCHANGED <<logs, pc, key>>
    BY <1>2 DEF Reanalyze, buildFiles, runner
  <2>3. /\ Shaped(new) /\ Same(new, rec) /\ new.stopped = rec.stopped
        /\ new.status = Classify(rec.stopped, ParsedLog(rec))
    BY Restated DEF RecordsInv
  <2>4. rec.status # "torn"
    BY <2>1, LatestIsLast DEF RecordsInv, Attempts
  <2>5. RecordsInv'
    BY <2>1, <2>3, WrittenRecords
  <2>6. \A other \in raw' : other = new \/ other \in raw
    BY <2>1 DEF Written
  <2>7. SaysItsLog(new)'
    BY <2>2, <2>3, <2>4, KeptStatus DEF SaysItsLog, Same
  <2>8. (\A other \in raw : SaysItsLog(other))'
    BY <2>2, <2>6, <2>7 DEF SaysItsLog
  <2>9. NewAttempt'
    <3> SUFFICES ASSUME pc = "nextpnr" PROVE NewAttempt'
      BY <2>2 DEF NewAttempt
    <3>1. ~Same(rec, key)
      BY <2>4 DEF NewAttempt
    <3>2. \A other \in raw' : Same(other, key) => other.status = "torn"
      BY <2>3, <2>6, <3>1 DEF NewAttempt, Same
    <3> QED
      BY <2>2, <3>2 DEF NewAttempt
  <2> QED
    BY <2>5, <2>8, <2>9
<1>3. CASE PowerLoss /\ raw' = raw
  <2>1. UNCHANGED <<raw, logs>> /\ pc' = "down"
    BY <1>3 DEF PowerLoss, Ended
  <2> QED
    BY <2>1 DEF RecordsInv, OneFile, SomeLatest, SaysItsLog, NewAttempt
<1>4. PowerLoss => raw' = raw \/ \E rec \in raw : raw' = Written([rec EXCEPT !.status = "torn"])
  BY DEF PowerLoss
<1> QED
  BY <1>1, <1>2, <1>3, <1>4

LEMMA AttemptsStep == MeasuredInv /\ AttemptsInv /\ [Next]_vars => AttemptsInv'
<1> SUFFICES ASSUME MeasuredInv, AttemptsInv, [Next]_vars PROVE AttemptsInv'
  OBVIOUS
<1>1. CASE RouteFinishes \/ RouteTimesOut \/ RouteFails \/ RouteCancelled
  BY <1>1, AttemptsRouting DEF RouteFinishes, RouteTimesOut, RouteFails, RouteCancelled
<1>2. CASE RouteStart \/ PowerLoss \/ Reanalyze
  BY <1>2, AttemptsRouting, AttemptsRestated
<1>3. ASSUME UNCHANGED raw, logs' = logs \/ logs' = {}, pc' # "nextpnr" \/ UNCHANGED <<pc, key>>
      PROVE  AttemptsInv'
  BY <1>3 DEF AttemptsInv, RecordsInv, OneFile, SomeLatest, SaysItsLog, NewAttempt
<1>4. CASE \/ RunAll \/ (\E j \in Job : Retry(j)) \/ SynthReuse \/ SynthRaises \/ SynthStart \/ Yosys
           \/ PlanJob \/ Planned
  BY <1>3, <1>4 DEF RunAll, Retry, Begin, SynthReuse, SynthRaises, SynthStart, Yosys, PlanJob, Planned, files,
                    buildFiles, resultFiles
<1>5. CASE \/ RouteReuse \/ Routed \/ DecideReuse \/ DecideRaises \/ DecideStart \/ Build \/ BuildFails
           \/ Test \/ DecideRecord
  BY <1>3, <1>5 DEF RouteReuse, Routed, DecideReuse, DecideRaises, DecideStart, Build, BuildFails, Test, DecideRecord,
                    files, buildFiles, resultFiles
<1>6. CASE Derive \/ Summarise \/ Exit \/ DecideFails \/ Interrupt \/ Kill
  BY <1>3, <1>6 DEF Derive, Summarise, Exit, Ended, DecideFails, Interrupt, Kill, files, buildFiles,
                    resultFiles
<1>7. CASE Launch \/ LockStep \/ KillTaker \/ Edit \/ Clean \/ Repair \/ Discard \/ UNCHANGED vars
  BY <1>3, <1>7 DEF Launch, LockStep, KillTaker, Edit, Clean, Repair, Emptied, Discard, vars, runner, files,
                    buildFiles, resultFiles
<1>8. CASE SynthRecord
  BY <1>3, <1>8 DEF SynthRecord, MeasuredInv, SynthesisOk, resultFiles
<1> QED
  BY <1>1, <1>2, <1>4, <1>5, <1>6, <1>7, <1>8 DEF Next, Work

(* What a step does to the records: each keeps its file, and its status     *)
(* changes only when it was or becomes torn, or when nothing is left of the *)
(* log it came from.                                                        *)
LEMMA RecordStands ==
    ASSUME AttemptsInv, [Next]_vars, NEW rec \in raw
    PROVE  \E new \in raw' :
               /\ new.key = rec.key /\ new.attempt = rec.attempt
               /\ \/ new.status = rec.status \/ rec.status = "torn" \/ new.status = "torn"
                  \/ UNCHANGED pc /\ ~\E log \in logs : log.key = rec.key /\ log.attempt = rec.attempt
<1> DEFINE Stands(new) ==
        \/ new.status = rec.status \/ rec.status = "torn" \/ new.status = "torn"
        \/ UNCHANGED pc /\ \A log \in logs : ~Same(log, rec)
<1> SUFFICES \E new \in raw' : Same(new, rec) /\ Stands(new)
  BY DEF Same
<1>1. CASE UNCHANGED raw
  BY <1>1 DEF Same
<1>2. ASSUME NEW new, raw' = Written(new), Same(new, rec) => Stands(new)
      PROVE  \E other \in raw' : Same(other, rec) /\ Stands(other)
  <2>1. new \in raw' /\ (~Same(new, rec) => rec \in raw')
    BY <1>2 DEF Written, Same
  <2> QED
    BY <1>2, <2>1 DEF Same
<1> HIDE DEF Stands
<1>3. ASSUME NEW stopped, NEW p, RouteEnds(stopped, p)
      PROVE  \E new \in raw' : Same(new, rec) /\ Stands(new)
  <2>1. PICK new : raw' = Written(new) /\ pc = "nextpnr" /\ Same(new, key)
    BY <1>3 DEF RouteEnds, Same
  <2>2. Same(new, rec) => rec.status = "torn"
    BY <2>1 DEF AttemptsInv, NewAttempt, Same
  <2> QED
    BY <2>1, <2>2, <1>2 DEF Stands
<1>4. ASSUME NEW old \in raw, raw' = Written([old EXCEPT !.status = "torn"])
      PROVE  \E new \in raw' : Same(new, rec) /\ Stands(new)
  <2>1. raw' = Written([old EXCEPT !.status = "torn"])
    BY <1>4
  <2>2. [old EXCEPT !.status = "torn"].status = "torn"
    BY Restated DEF AttemptsInv, RecordsInv
  <2> QED
    BY <2>1, <2>2, <1>2 DEF Stands
<1>5. CASE Reanalyze
  <2>1. PICK old \in raw :
            /\ Attempts(old.key) # {} /\ old = ExistingRecord(old.key)
            /\ raw' = Written([old EXCEPT !.status = Classify(old.stopped, ParsedLog(old))])
    BY <1>5 DEF Reanalyze
  <2>. PICK new : new = [old EXCEPT !.status = Classify(old.stopped, ParsedLog(old))]
    OBVIOUS
  <2>2. Same(new, old) /\ new.status = Classify(old.stopped, ParsedLog(old))
    BY Restated DEF AttemptsInv, RecordsInv
  <2>3. UNCHANGED pc
    BY <1>5 DEF Reanalyze, runner
  <2>4. Same(new, rec) => rec = old
    BY <2>2 DEF AttemptsInv, RecordsInv, OneFile, Same
  <2>5. Same(new, rec) => Stands(new)
    <3>1. rec = old => SaysItsLog(old)
      BY DEF AttemptsInv
    <3> QED
      BY <2>2, <2>3, <2>4, <3>1, KeptStatus DEF Stands
  <2> QED
    BY <2>1, <2>5, <1>2
<1>6. \/ UNCHANGED raw \/ (\E stopped, p : RouteEnds(stopped, p)) \/ Reanalyze
      \/ \E old \in raw : raw' = Written([old EXCEPT !.status = "torn"])
  <2>1. Work => UNCHANGED raw \/ \E stopped, p : RouteEnds(stopped, p)
    BY DEF Work, SynthReuse, SynthRaises, SynthStart, Yosys, SynthRecord, PlanJob, Planned, RouteReuse,
           RouteStart, RouteFinishes, RouteTimesOut, Routed, DecideReuse, DecideRaises, DecideStart, Build, BuildFails, Test,
           DecideRecord, Derive, Summarise, Exit, files, resultFiles
  <2>2. RouteFails \/ RouteCancelled => \E stopped, p : RouteEnds(stopped, p)
    BY DEF RouteFails, RouteCancelled
  <2>3. RunAll \/ (\E j \in Job : Retry(j)) \/ Launch \/ LockStep \/ DecideFails \/ Interrupt \/ Kill
        \/ KillTaker \/ Edit \/ Clean \/ Repair \/ Discard \/ UNCHANGED vars
            => UNCHANGED raw
    BY DEF RunAll, Retry, Begin, Launch, LockStep, DecideFails, Interrupt, Kill, KillTaker, Edit, Clean,
           Repair, Emptied, Discard, vars, files, resultFiles
  <2>4. PowerLoss => UNCHANGED raw \/ \E old \in raw : raw' = Written([old EXCEPT !.status = "torn"])
    BY DEF PowerLoss
  <2> QED
    BY <2>1, <2>2, <2>3, <2>4 DEF Next
<1> QED
  BY <1>1, <1>3, <1>4, <1>5, <1>6

(* No failure is replaced (tools/pnr.py line 134), whatever the manifest    *)
(* and however many kills, power losses, retries and edits there are.       *)
THEOREM AttemptsAreKept == Spec => AttemptsStand
<1>1. ASSUME AttemptsInv, AttemptsInv', MeasuredInv, MeasuredInv', [Next]_vars
      PROVE  [\A rec \in raw :
                \E new \in raw' :
                  /\ new.key = rec.key /\ new.attempt = rec.attempt
                  /\ \/ new.status = rec.status \/ rec.status = "torn" \/ new.status = "torn"
                     \/ UNCHANGED pc /\ ~\E log \in logs : log.key = rec.key /\ log.attempt = rec.attempt]_vars
  BY <1>1, RecordStands
<1> QED
  BY <1>1, AttemptsInit, AttemptsStep, MeasuredInit, MeasuredStep, PTL DEF Spec, AttemptsStand
-----------------------------------------------------------------------------
(* A run of the whole manifest under unchanged sources, from the plan to    *)
(* the summary: the documents at hand, the plan so far and the decisions so *)
(* far are those of the sources checked out, in this checkout.              *)
Whole == steady /\ only = {}

InPlan == pc = "plan" \/ (pc \in {"yosys", "synthesized"} /\ back = "plan")
InRun ==
    \/ pc \in {"route", "nextpnr", "decide", "build", "test", "matched", "summarise"}
    \/ pc \in {"yosys", "synthesized"} /\ back = "route"
PlanOf(m) ==
    /\ plan \in Seq([key : {KeyOf(j) : j \in Job}, action : {"run", "retry", "reuse"}])
    /\ \A i \in 1 .. m : i \in DOMAIN plan /\ plan[i].key = KeyOf(Jobs[i])

Positions == pc # "down" => n \in Nat \ {0} /\ \E r \in Runner : lpc[r] = "held"
Resting == pc = "down" => plan = <<>> /\ docs = NoDocs
ResultFiles == IsFiniteSet(raw) /\ DOMAIN csv = Config

DocsHere ==
    \A c \in Config : docs[c] # None =>
        docs[c] = [key |-> SynthKey(source, c), netlist |-> Netlist(source, c, Here)]
SynthHere == pc = "synthesized" => key = SynthKey(source, Conf)
PlanHere ==
    /\ InPlan => Len(plan) = n - 1 /\ n <= Len(Jobs) + 1 /\ PlanOf(n - 1)
    /\ InRun => PlanOf(Len(Jobs))
WorkHere == pc \in {"yosys", "synthesized"} => n <= Len(Jobs)
DecidedHere ==
    /\ pc \in {"decide", "build", "test", "matched"} =>
           \A i \in DOMAIN Decisions : i < n => Matched(Decisions[i])
    /\ pc \in {"build", "test", "matched"} =>
           n \in DOMAIN Decisions /\ key = NativeKey(source, Decisions[n])
    /\ pc = "matched" => csv[Decisions[n]] # None
    /\ pc = "summarise" => DecisionsOk
RowsHere ==
    pc = "summarise" =>
        \A rec \in raw : rec.status # "torn" =>
            [key |-> rec.key, attempt |-> rec.attempt, current |-> rec.key \in PlannedKeys] \in rows

WholeInv == Whole => DocsHere /\ SynthHere /\ PlanHere /\ WorkHere /\ DecidedHere
FinishInv == Positions /\ Resting /\ ResultFiles /\ RowsHere /\ WholeInv

LEMMA FiniteImage ==
    ASSUME NEW f, IsFiniteSet(DOMAIN f), NEW T, T = {f[x] : x \in DOMAIN f}
    PROVE  IsFiniteSet(T)
<1> DEFINE g == [x \in DOMAIN f |-> f[x]]
<1>1. g \in Surjection(DOMAIN f, T)
  BY DEF Surjection
<1> QED
  BY <1>1, FS_Surjection DEF ExistsSurjection

LEMMA FinishInit == Init => FinishInv
<1> SUFFICES ASSUME Init PROVE FinishInv
  OBVIOUS
<1>1. Positions /\ Resting /\ RowsHere /\ WholeInv
  BY DEF Init, RunnerIdle, Positions, Resting, RowsHere, WholeInv, Whole
<1>2. CASE NoResults
  BY <1>1, <1>2, FS_EmptySet DEF NoResults, NoDocs, FinishInv, ResultFiles
<1>3. ASSUME NEW v \in Correct, NEW p \in Path, ResultsOf(v, p) PROVE ResultFiles
  <2> DEFINE f == [i \in DOMAIN Jobs |-> OutcomeAt(v, p, Jobs[i])]
  <2>1. raw = {f[i] : i \in DOMAIN f} /\ DOMAIN csv = Config /\ DOMAIN f = DOMAIN Jobs
    BY <1>3 DEF ResultsOf
  <2>2. IsFiniteSet(DOMAIN Jobs)
    BY MatrixAssumption, FS_Interval
  <2> HIDE DEF f
  <2> QED
    BY <2>1, <2>2, FiniteImage DEF ResultFiles
<1> QED
  BY <1>1, <1>2, <1>3 DEF Init, FinishInv

(* Without --only the run is about every job and every decision.            *)
LEMMA WholeItems ==
    ASSUME only = {}
    PROVE  Items = Jobs /\ Wanted = Decisions /\ Conf = ConfigOf[Jobs[n]]
  BY DEF Items, ItemsOf, Wanted, WantedOf, Conf

LEMMA FinishSynthesis ==
    ASSUME MeasuredInv, FinishInv, SynthReuse \/ SynthStart \/ Yosys \/ SynthRecord
    PROVE  FinishInv'
<1> USE MatrixAssumption, IdentityAssumption DEF FinishInv
<1>1. /\ UNCHANGED <<source, lpc, n, only, retry, steady, plan, raw, csv, meta, rows>>
      /\ pc # "down" /\ pc' \in {"plan", "route", "yosys", "synthesized"}
  BY DEF SynthReuse, SynthStart, Yosys, SynthRecord, Planning, Routing, MeasuredInv, SynthesisOk,
         lockVars, files, buildFiles, resultFiles
<1>2. Positions' /\ Resting' /\ ResultFiles' /\ RowsHere'
  BY <1>1 DEF Positions, Resting, ResultFiles, RowsHere
<1>3. (InPlan' => InPlan) /\ (InRun' => InRun)
  <2>1. CASE SynthReuse
    BY <2>1 DEF SynthReuse, InPlan, InRun
  <2>2. CASE SynthStart
    BY <2>2 DEF SynthStart, Planning, Routing, InPlan, InRun
  <2>3. CASE Yosys
    BY <2>3 DEF Yosys, InPlan, InRun
  <2>4. CASE SynthRecord
    BY <1>1, <2>4 DEF SynthRecord, InPlan, InRun, MeasuredInv, SynthesisOk
  <2> QED
    BY <2>1, <2>2, <2>3, <2>4
<1> SUFFICES ASSUME Whole PROVE (DocsHere /\ SynthHere /\ PlanHere /\ WorkHere /\ DecidedHere)'
  BY <1>1, <1>2 DEF WholeInv, Whole
<1>4. UNCHANGED <<Conf, Items>> /\ Items = Jobs /\ Conf = ConfigOf[Jobs[n]]
  BY <1>1, ItemStays, WholeItems DEF Whole, Items
<1>5. PlanHere'
  BY <1>1, <1>3 DEF PlanHere, PlanOf, KeyOf, WholeInv
<1>6. WorkHere'
  BY <1>1, <1>4 DEF SynthReuse, SynthStart, Yosys, SynthRecord, Planning, Routing, WorkHere, WholeInv
<1>7. DecidedHere'
  BY <1>1 DEF DecidedHere
<1>8. n <= Len(Jobs) /\ Conf \in Config
  BY <1>1, <1>4 DEF SynthReuse, SynthStart, Yosys, SynthRecord, Planning, Routing, WorkHere, WholeInv,
                    Positions
<1>9. DocsHere' /\ SynthHere'
  <2>1. CASE SynthReuse
    BY <1>1, <1>8, <2>1 DEF SynthReuse, DocsHere, SynthHere, WholeInv, MeasuredInv, Domains, SynthOk,
       Reusable, NetlistOf, SynthKey, SynthKeys, HdlClosure, Planning, Routing
  <2>2. CASE SynthStart
    BY <1>1, <2>2 DEF SynthStart, DocsHere, SynthHere, WholeInv
  <2>3. CASE Yosys
    BY <1>1, <1>4, <2>3 DEF Yosys, DocsHere, SynthHere, WholeInv, MeasuredInv, SynthesisOk
  <2>4. CASE SynthRecord
    <3>1. key = SynthKey(source, Conf) /\ synth[key].netlist = Netlist(source, Conf, Here)
      BY <1>8, <2>4 DEF SynthRecord, SynthHere, WholeInv, MeasuredInv, SynthesisOk, SynthKey, HdlClosure
    <3>2. pc' \in {"plan", "route"}
      BY <2>4 DEF SynthRecord, MeasuredInv, SynthesisOk
    <3> QED
      BY <1>1, <1>8, <2>4, <3>1, <3>2 DEF SynthRecord, DocsHere, SynthHere, WholeInv, MeasuredInv, Domains
  <2> QED
    BY <2>1, <2>2, <2>3, <2>4
<1> QED
  BY <1>5, <1>6, <1>7, <1>9

LEMMA WrittenFinite ==
    ASSUME IsFiniteSet(raw), NEW new
    PROVE  IsFiniteSet(Written(new))
<1> DEFINE kept == {old \in raw : ~(old.key = new.key /\ old.attempt = new.attempt)}
<1>1. IsFiniteSet(kept)
  BY FS_Subset
<1> QED
  BY <1>1, FS_AddElement DEF Written

(* Nobody works while the lock is taken.                                    *)
LEMMA TakenWhenDown ==
    ASSUME LockInv, Positions, NEW r \in Runner, WriteLock(r)
    PROVE  pc = "down"
  BY DEF LockInv, OwnerNamed, FreeToTake, Positions, WriteLock

LEMMA FinishPlanning ==
    ASSUME LockInv, MeasuredInv, FinishInv,
           RunAll \/ (\E j \in Job : Retry(j)) \/ PlanJob \/ Planned
    PROVE  FinishInv'
<1> USE MatrixAssumption, IdentityAssumption DEF FinishInv
<1>1. CASE RunAll \/ \E j \in Job : Retry(j)
  <2>1. PICK jobs, again : Begin(jobs, again)
    BY <1>1 DEF RunAll, Retry
  <2>2. PICK r \in Runner : WriteLock(r)
    BY <2>1 DEF Begin
  <2>3. plan = <<>> /\ docs = NoDocs
    BY <2>2, TakenWhenDown DEF Resting
  <2>4. /\ pc' = "plan" /\ n' = 1 /\ lpc'[r] = "held"
        /\ UNCHANGED <<source, docs, plan, raw, csv, meta, rows>>
    <3>1. lpc'[r] = "held"
      BY <2>2 DEF WriteLock, LockInv, LockTypeOK
    <3> QED
      BY <2>1, <3>1 DEF Begin, files, resultFiles
  <2>5. Positions' /\ Resting' /\ ResultFiles' /\ RowsHere'
    BY <2>4 DEF Positions, Resting, ResultFiles, RowsHere
  <2>6. DocsHere' /\ SynthHere' /\ WorkHere' /\ DecidedHere'
    BY <2>3, <2>4 DEF DocsHere, NoDocs, SynthHere, WorkHere, DecidedHere
  <2>7. PlanHere'
    BY <2>3, <2>4 DEF PlanHere, InPlan, InRun, PlanOf
  <2> QED
    BY <2>5, <2>6, <2>7 DEF WholeInv
<1>2. CASE PlanJob
  <2>1. /\ UNCHANGED <<source, lpc, pc, only, retry, back, docs, key, steady, raw, csv, meta, rows>>
        /\ pc = "plan" /\ n <= Len(Items) /\ n' = n + 1 /\ docs[Conf] # None
    BY <1>2 DEF PlanJob, Planning, lockVars, files, resultFiles
  <2>2. Positions' /\ Resting' /\ ResultFiles' /\ RowsHere'
    BY <2>1 DEF Positions, Resting, ResultFiles, RowsHere
  <2> SUFFICES ASSUME Whole PROVE (DocsHere /\ SynthHere /\ PlanHere /\ WorkHere /\ DecidedHere)'
    BY <2>1, <2>2 DEF WholeInv, Whole
  <2>3. Items = Jobs /\ Conf = ConfigOf[Jobs[n]]
    BY WholeItems DEF Whole
  <2>4. n \in DOMAIN Jobs /\ n \in Nat /\ Jobs[n] \in Job /\ Conf \in Config
    BY <2>1, <2>3 DEF Positions
  <2>5. KeyNow(Items[n]) = KeyOf(Jobs[n])
    <3>1. docs[Conf] = [key |-> SynthKey(source, Conf), netlist |-> Netlist(source, Conf, Here)]
      BY <2>1, <2>4 DEF DocsHere, WholeInv
    <3>2. KeyNow(Items[n]) = RouteKey(docs[Conf].key, docs[Conf].netlist, Jobs[n])
      BY <2>3 DEF KeyNow
    <3> QED
      BY <2>3, <3>1, <3>2 DEF KeyOf
  <2>6. PICK a \in {"run", "retry", "reuse"} : plan' = Append(plan, [key |-> KeyOf(Jobs[n]), action |-> a])
    BY <1>2, <2>5 DEF PlanJob
  <2>7. Len(plan) = n - 1 /\ PlanOf(n - 1)
    BY <2>1 DEF WholeInv, PlanHere, InPlan
  <2>8. /\ plan' \in Seq([key : {KeyOf(j) : j \in Job}, action : {"run", "retry", "reuse"}])
        /\ Len(plan') = n /\ plan'[n].key = KeyOf(Jobs[n])
        /\ \A i \in 1 .. (n - 1) : plan'[i] = plan[i]
    <3> DEFINE e == [key |-> KeyOf(Jobs[n]), action |-> a]
               E == [key : {KeyOf(j) : j \in Job}, action : {"run", "retry", "reuse"}]
    <3>1. e \in E /\ e.key = KeyOf(Jobs[n])
      BY <2>4
    <3>2. plan \in Seq(E) /\ plan' = Append(plan, e)
      BY <2>6, <2>7 DEF PlanOf
    <3> HIDE DEF e, E
    <3>3. plan' \in Seq(E) /\ Len(plan') = n /\ plan'[n] = e /\ \A i \in 1 .. (n - 1) : plan'[i] = plan[i]
      BY <2>4, <2>7, <3>1, <3>2
    <3> QED
      BY <3>1, <3>3 DEF E
  <2>9. \A i \in 1 .. n : i \in DOMAIN plan' /\ plan'[i].key = KeyOf(Jobs[i])
    BY <2>4, <2>7, <2>8 DEF PlanOf
  <2>10. PlanHere'
    BY <2>1, <2>3, <2>4, <2>8, <2>9 DEF PlanHere, InPlan, InRun, PlanOf, KeyOf
  <2> QED
    BY <2>1, <2>10 DEF WholeInv, DocsHere, SynthHere, WorkHere, DecidedHere
<1>3. CASE Planned
  <2>1. /\ UNCHANGED <<source, lpc, only, retry, back, plan, key, steady, raw, csv, meta, rows>>
        /\ pc = "plan" /\ n > Len(Items) /\ pc' = "route" /\ n' = 1 /\ docs' = NoDocs
    BY <1>3 DEF Planned, lockVars, files, resultFiles
  <2>2. Positions' /\ Resting' /\ ResultFiles' /\ RowsHere'
    BY <2>1 DEF Positions, Resting, ResultFiles, RowsHere
  <2> SUFFICES ASSUME Whole PROVE (DocsHere /\ SynthHere /\ PlanHere /\ WorkHere /\ DecidedHere)'
    BY <2>1, <2>2 DEF WholeInv, Whole
  <2>3. Items = Jobs /\ n = Len(Jobs) + 1 /\ PlanOf(Len(Jobs))
    BY <2>1, WholeItems DEF Whole, WholeInv, PlanHere, InPlan, Positions
  <2>4. PlanHere'
    BY <2>1, <2>3 DEF PlanHere, InPlan, InRun, PlanOf, KeyOf
  <2> QED
    BY <2>1, <2>4 DEF DocsHere, NoDocs, SynthHere, WorkHere, DecidedHere
<1> QED
  BY <1>1, <1>2, <1>3

LEMMA FinishRouting ==
    ASSUME MeasuredInv, FinishInv,
           RouteReuse \/ RouteStart \/ (\E stopped, p : RouteEnds(stopped, p)) \/ Routed
    PROVE  FinishInv'
<1> USE MatrixAssumption, IdentityAssumption DEF FinishInv
<1>1. /\ UNCHANGED <<source, lpc, only, retry, steady, plan, csv, meta, rows>>
      /\ pc \in {"route", "nextpnr"} /\ pc' \in {"route", "nextpnr", "decide"}
      /\ n' \in {n, n + 1, 1} /\ (pc' = "decide" => n' = 1)
      /\ docs' = docs \/ docs' = NoDocs
  BY DEF RouteReuse, RouteStart, RouteEnds, Routed, Routing, lockVars, files, buildFiles, resultFiles
<1>2. raw' = raw \/ \E new : raw' = Written(new)
  BY DEF RouteReuse, RouteStart, RouteEnds, Routed, files, resultFiles
<1>3. IsFiniteSet(raw')
  BY <1>2, WrittenFinite DEF ResultFiles
<1>4. Positions' /\ Resting' /\ ResultFiles' /\ RowsHere'
  BY <1>1, <1>3 DEF Positions, Resting, ResultFiles, RowsHere
<1> SUFFICES ASSUME Whole PROVE (DocsHere /\ SynthHere /\ PlanHere /\ WorkHere /\ DecidedHere)'
  BY <1>1, <1>4 DEF WholeInv, Whole
<1>5. PlanHere'
  BY <1>1 DEF WholeInv, PlanHere, InPlan, InRun, PlanOf, KeyOf
<1>6. DecidedHere'
  BY <1>1 DEF DecidedHere, Positions
<1> QED
  BY <1>1, <1>5, <1>6 DEF WholeInv, DocsHere, NoDocs, SynthHere, WorkHere

LEMMA FinishDeciding ==
    ASSUME MeasuredInv, FinishInv,
           DecideReuse \/ DecideStart \/ Build \/ Test \/ DecideRecord \/ Derive
    PROVE  FinishInv'
<1> USE MatrixAssumption, IdentityAssumption DEF FinishInv
<1>1. /\ UNCHANGED <<source, lpc, only, retry, steady, plan, docs, raw>>
      /\ pc \in {"decide", "build", "test", "matched", "failed"}
      /\ pc' \in {"decide", "build", "test", "matched", "failed", "exit", "summarise"}
      /\ n' \in {n, n + 1}
  BY DEF DecideReuse, DecideStart, Build, Test, DecideRecord, Derive, Deciding, lockVars, files,
         buildFiles, resultFiles
<1>2. DOMAIN csv' = Config
  BY DEF DecideReuse, DecideStart, Build, Test, DecideRecord, Derive, ResultFiles, files, resultFiles
<1>3. RowsHere'
  BY <1>1 DEF DecideReuse, DecideStart, Build, Test, DecideRecord, Derive, Deciding, RowsHere, PlannedKeys
<1>4. Positions' /\ Resting' /\ ResultFiles'
  BY <1>1, <1>2 DEF Positions, Resting, ResultFiles
<1> SUFFICES ASSUME Whole PROVE (DocsHere /\ SynthHere /\ PlanHere /\ WorkHere /\ DecidedHere)'
  BY <1>1, <1>3, <1>4 DEF WholeInv, Whole
<1>5. DocsHere' /\ SynthHere' /\ WorkHere'
  BY <1>1 DEF WholeInv, DocsHere, SynthHere, WorkHere
<1>6. PlanHere'
  <2>1. pc = "failed" => pc' = "exit"
    BY DEF DecideReuse, DecideStart, Build, Test, DecideRecord, Derive, Deciding
  <2> QED
    BY <1>1, <2>1 DEF WholeInv, PlanHere, InPlan, InRun, PlanOf, KeyOf
<1>7. Wanted = Decisions /\ n \in Nat \ {0}
  BY <1>1, WholeItems DEF Whole, Positions
<1>8. DecidedHere'
  <2>1. CASE DecideReuse
    <3>1. /\ pc' = "decide" /\ n' = n + 1 /\ pc = "decide" /\ Matched(Decisions[n])
          /\ UNCHANGED <<meta, csv>>
      BY <1>7, <2>1 DEF DecideReuse, Deciding, files, resultFiles
    <3>2. \A i \in DOMAIN Decisions : i < n + 1 => Matched(Decisions[i])
      BY <1>7, <3>1 DEF WholeInv, DecidedHere
    <3> QED
      BY <1>1, <3>1, <3>2 DEF DecidedHere, Matched
  <2>2. CASE DecideStart
    <3>1. /\ pc' = "build" /\ n' = n /\ pc = "decide" /\ n \in DOMAIN Decisions
          /\ key' = NativeKey(source, Decisions[n]) /\ UNCHANGED <<meta, csv>>
      BY <1>7, <2>2 DEF DecideStart, Deciding, files, resultFiles
    <3> QED
      BY <1>1, <3>1 DEF WholeInv, DecidedHere, Matched
  <2>3. CASE Build
    <3>1. pc' = "test" /\ pc = "build" /\ UNCHANGED <<n, key, meta, csv>>
      BY <2>3 DEF Build, resultFiles
    <3> QED
      BY <1>1, <3>1 DEF WholeInv, DecidedHere, Matched
  <2>4. CASE Test
    <3>1. /\ pc = "test" /\ UNCHANGED <<n, key, meta>>
          /\ \/ pc' = "matched" /\ Tested # None /\ csv' = [csv EXCEPT ![Decisions[n]] = Tested]
             \/ pc' = "failed"
      BY <1>7, <2>4 DEF Test
    <3>2. /\ \A i \in DOMAIN Decisions : i < n => Matched(Decisions[i])
          /\ n \in DOMAIN Decisions /\ key = NativeKey(source, Decisions[n])
      BY <3>1 DEF WholeInv, DecidedHere
    <3>3. CASE pc' = "matched"
      <4>1. csv'[Decisions[n]] # None /\ \A c \in Config : csv[c] # None => csv'[c] # None
        BY <3>1, <3>2, <3>3 DEF ResultFiles
      <4> QED
        BY <1>1, <3>1, <3>2, <3>3, <4>1 DEF DecidedHere, Matched
    <3>4. CASE pc' = "failed"
      BY <3>4 DEF DecidedHere
    <3> QED
      BY <3>1, <3>3, <3>4
  <2>5. CASE DecideRecord
    <3>1. CASE pc = "matched"
      <4>1. /\ meta' = [meta EXCEPT ![Decisions[n]] = [key |-> key, status |-> "matched"]]
            /\ pc' = "decide" /\ n' = n + 1 /\ UNCHANGED csv
        BY <1>7, <2>5, <3>1 DEF DecideRecord
      <4>2. /\ n \in DOMAIN Decisions /\ key = NativeKey(source, Decisions[n])
            /\ csv[Decisions[n]] # None
            /\ \A i \in DOMAIN Decisions : i < n => Matched(Decisions[i])
        BY <3>1 DEF WholeInv, DecidedHere
      <4>3. ASSUME NEW i \in DOMAIN Decisions, i < n + 1 PROVE Matched(Decisions[i])'
        <5>1. CASE Decisions[i] = Decisions[n]
          BY <1>1, <4>1, <4>2, <5>1 DEF Matched, MeasuredInv, Domains
        <5>2. CASE Decisions[i] # Decisions[n]
          <6>1. Matched(Decisions[i])
            BY <1>7, <4>2, <4>3, <5>2
          <6> QED
            BY <1>1, <4>1, <5>2, <6>1 DEF Matched, MeasuredInv, Domains
        <5> QED
          BY <5>1, <5>2
      <4> QED
        BY <4>1, <4>3 DEF DecidedHere
    <3>2. CASE pc # "matched"
      BY <2>5, <3>2 DEF DecideRecord, DecidedHere
    <3> QED
      BY <3>1, <3>2
  <2>6. CASE Derive
    <3>1. pc = "decide" /\ n > Len(Decisions) /\ pc' = "summarise" /\ UNCHANGED <<meta, csv>>
      BY <1>7, <2>6 DEF Derive
    <3>2. DecisionsOk
      BY <1>7, <3>1 DEF WholeInv, DecidedHere, DecisionsOk
    <3> QED
      BY <1>1, <3>1, <3>2 DEF DecidedHere, DecisionsOk, Matched
  <2> QED
    BY <2>1, <2>2, <2>3, <2>4, <2>5, <2>6
<1> QED
  BY <1>5, <1>6, <1>8

(* The run ends, or goes on to its end with nothing more to do.             *)
LEMMA FinishEnding ==
    ASSUME FinishInv,
           \/ SynthRaises \/ DecideRaises \/ Summarise \/ BuildFails \/ DecideFails \/ Interrupt
           \/ Exit \/ Kill \/ PowerLoss
    PROVE  FinishInv'
<1> USE DEF FinishInv
<1>1. CASE SynthRaises \/ DecideRaises \/ Summarise \/ BuildFails \/ DecideFails \/ Interrupt
  <2>1. /\ UNCHANGED <<source, lpc, n, only, steady, docs, raw, csv>>
        /\ pc' \in {"exit", "failed"} /\ pc # "down"
    BY <1>1 DEF SynthRaises, Planning, Routing, DecideRaises, Deciding, Summarise, BuildFails,
                DecideFails, Interrupt, lockVars, files, resultFiles
  <2> QED
    BY <2>1 DEF Positions, Resting, ResultFiles, RowsHere, WholeInv, Whole, DocsHere, SynthHere,
                PlanHere, InPlan, InRun, WorkHere, DecidedHere
<1>2. CASE Exit \/ Kill \/ PowerLoss
  <2>1. pc' = "down" /\ steady' = FALSE /\ plan' = <<>> /\ docs' = NoDocs
    BY <1>2 DEF Exit, Kill, PowerLoss, Ended
  <2>2. IsFiniteSet(raw')
    <3>1. raw' = raw \/ \E new : raw' = Written(new)
      BY <1>2 DEF Exit, Kill, PowerLoss, files, resultFiles
    <3> QED
      BY <3>1, WrittenFinite DEF ResultFiles
  <2>3. DOMAIN csv' = Config
    BY <1>2 DEF Exit, Kill, PowerLoss, ResultFiles, files, resultFiles
  <2> QED
    BY <2>1, <2>2, <2>3 DEF Positions, Resting, ResultFiles, RowsHere, WholeInv, Whole
<1> QED
  BY <1>1, <1>2

LEMMA FinishOperator ==
    ASSUME LockInv, AttemptsInv, MeasuredInv, FinishInv,
           \/ Launch \/ LockStep \/ KillTaker \/ Edit \/ Clean \/ Repair \/ Reanalyze
           \/ Discard \/ UNCHANGED vars
    PROVE  FinishInv'
<1> USE DEF FinishInv
<1>1. /\ UNCHANGED <<pc, only, n, back, docs, plan, key, csv, rows>> /\ (steady' => UNCHANGED <<steady, source>>)
      /\ UNCHANGED meta \/ pc = "down"
  BY DEF Launch, LockStep, KillTaker, Edit, Clean, Repair, Emptied, Discard, Reanalyze, vars, runner,
         files, buildFiles, resultFiles
<1>2. ASSUME NEW r \in Runner, lpc[r] = "held" PROVE lpc'[r] = "held"
  BY <1>2 DEF Launch, LockStep, KillTaker, Edit, Clean, Repair, Emptied, Discard, Reanalyze, vars,
         lockVars, StartRunner, CheckLock, UnlinkStale, CreateLock, Die, Taking, LockInv, LockTypeOK
<1>3. Positions' /\ Resting'
  BY <1>1, <1>2 DEF Positions, Resting
<1>4. raw' = raw \/ \E rec \in raw : \E s : rec.status # "torn" /\ raw' = Written([rec EXCEPT !.status = s])
  <2>1. CASE Reanalyze
    BY <2>1, LatestIsLast DEF Reanalyze, Attempts, AttemptsInv, RecordsInv
  <2> QED
    BY <2>1 DEF Launch, LockStep, KillTaker, Edit, Clean, Repair, Emptied, Discard, vars, files,
                resultFiles
<1>5. ResultFiles'
  BY <1>1, <1>4, WrittenFinite DEF ResultFiles
<1>6. RowsHere'
  <2>1. PlannedKeys' = PlannedKeys
    BY <1>1 DEF PlannedKeys
  <2>2. ASSUME NEW other \in raw', other.status # "torn"
        PROVE  \E rec \in raw : rec.status # "torn" /\ Same(rec, other)
    <3>1. CASE raw' = raw
      BY <2>2, <3>1 DEF Same
    <3>2. ASSUME NEW rec \in raw, NEW s, rec.status # "torn", raw' = Written([rec EXCEPT !.status = s])
          PROVE  \E old \in raw : old.status # "torn" /\ Same(old, other)
      <4>1. Same([rec EXCEPT !.status = s], rec)
        BY Restated DEF AttemptsInv, RecordsInv
      <4>2. other = [rec EXCEPT !.status = s] \/ other \in raw
        BY <3>2 DEF Written
      <4> QED
        BY <2>2, <3>2, <4>1, <4>2 DEF Same
    <3> QED
      BY <1>4, <3>1, <3>2
  <2> QED
    BY <1>1, <2>1, <2>2 DEF RowsHere, Same
<1>7. WholeInv'
  <2> SUFFICES ASSUME steady', only' = {} PROVE WholeInv'
    BY DEF WholeInv, Whole
  <2>1. Whole /\ UNCHANGED source
    BY <1>1 DEF Whole
  <2>2. Conf' = Conf
    BY <1>1, ItemStays
  <2>3. PlanHere'
    BY <1>1, <2>1 DEF WholeInv, PlanHere, InPlan, InRun, PlanOf, KeyOf
  <2> QED
    BY <1>1, <2>1, <2>2, <2>3 DEF WholeInv, DocsHere, SynthHere, WorkHere, DecidedHere, DecisionsOk, Matched
<1> QED
  BY <1>3, <1>5, <1>6, <1>7

LEMMA FinishStep ==
    LockInv /\ MeasuredInv /\ AttemptsInv /\ FinishInv /\ [Next]_vars => FinishInv'
<1> SUFFICES ASSUME LockInv, MeasuredInv, AttemptsInv, FinishInv, [Next]_vars PROVE FinishInv'
  OBVIOUS
<1>1. CASE RouteFinishes \/ RouteTimesOut \/ RouteFails \/ RouteCancelled
  BY <1>1, FinishRouting DEF RouteFinishes, RouteTimesOut, RouteFails, RouteCancelled
<1> QED
  BY <1>1, FinishSynthesis, FinishPlanning, FinishRouting, FinishDeciding, FinishEnding, FinishOperator
     DEF Next, Work

(* The records the validator resolves for a job are those of the key the    *)
(* plan has for it, unless another checkout left one of its own.            *)
LEMMA ResolvedHere ==
    ASSUME MeasuredInv, FinishInv, ~PathDistinct, NEW j \in ManifestJobs, Attempts(KeyOf(j)) # {}
    PROVE  Matches(j) = Attempts(KeyOf(j)) /\ Resolved(j)
<1> USE MatrixAssumption, IdentityAssumption
<1> DEFINE netlists == {rec.key.netlist : rec \in Matches(j)}
           f == [rec \in Matches(j) |-> rec.key.netlist]
<1>1. IsFiniteSet(Matches(j))
  BY FS_Subset DEF Matches, FinishInv, ResultFiles
<1>2. IsFiniteSet(netlists)
  <2>1. netlists = {f[rec] : rec \in DOMAIN f} /\ DOMAIN f = Matches(j)
    OBVIOUS
  <2> HIDE DEF f, netlists
  <2> QED
    BY <1>1, <2>1, FiniteImage
<1>3. Attempts(KeyOf(j)) \subseteq Matches(j)
  BY DEF Attempts, Matches, KeyOf, RouteKey
<1>4. Netlist(source, ConfigOf[j], Here) \in netlists
  BY <1>3 DEF Attempts, KeyOf, RouteKey
<1>5. netlists = {Netlist(source, ConfigOf[j], Here)}
  <2>1. Cardinality(netlists) \in Nat /\ ~(Cardinality(netlists) > 1)
    BY <1>2, FS_CardinalityType DEF PathDistinct
  <2>2. Cardinality(netlists) # 0
    BY <1>2, <1>4, FS_EmptySet
  <2>3. Cardinality(netlists) = 1
    BY <2>1, <2>2
  <2> HIDE DEF netlists
  <2>4. \E x : netlists = {x}
    BY <1>2, <2>3, FS_Singleton
  <2> QED
    BY <1>4, <2>4
<1>6. \A rec \in Matches(j) : rec.key = KeyOf(j) /\ rec \in Attempts(KeyOf(j))
  BY <1>5 DEF Matches, Attempts, KeyOf
<1>7. Matches(j) = Attempts(KeyOf(j))
  BY <1>3, <1>6
<1>8. {rec.key : rec \in Matches(j)} = {KeyOf(j)}
  BY <1>6, <1>7
<1> QED
  BY <1>7, <1>8, FS_Singleton DEF Resolved

LEMMA FinishedHere ==
    ASSUME MeasuredInv, AttemptsInv, FinishInv, Whole, pc = "summarise", Bad = {}, ~PathDistinct
    PROVE  HardwareOk
<1> USE MatrixAssumption, IdentityAssumption
<1>1. ASSUME NEW j \in ManifestJobs
      PROVE  /\ KeyOf(j) \in PlannedKeys /\ Attempts(KeyOf(j)) # {}
             /\ StatusOf(KeyOf(j)) \in OUTCOMES
  <2>1. PICK i \in 1 .. Len(Jobs) : j = Jobs[i]
    BY DEF ManifestJobs
  <2>2. i \in DOMAIN plan /\ plan[i].key = KeyOf(j)
    BY <2>1 DEF FinishInv, WholeInv, PlanHere, InRun, PlanOf
  <2>3. KeyOf(j) \in PlannedKeys
    BY <2>2 DEF PlannedKeys
  <2>4. StatusOf(KeyOf(j)) \in OUTCOMES
    BY <2>3 DEF Bad
  <2>5. None \notin OUTCOMES
    BY MatrixAssumption
  <2> QED
    BY <2>3, <2>4, <2>5 DEF StatusOf
<1>2. ASSUME NEW j \in ManifestJobs
      PROVE  /\ Matches(j) = Attempts(KeyOf(j)) /\ Resolved(j)
             /\ Latest(Matches(j)) \in Attempts(KeyOf(j)) /\ Latest(Matches(j)).key = KeyOf(j)
             /\ Latest(Matches(j)).status \in OUTCOMES
  <2>1. Matches(j) = Attempts(KeyOf(j)) /\ Resolved(j) /\ Attempts(KeyOf(j)) # {}
    BY <1>1, ResolvedHere
  <2>2. Latest(Matches(j)) = ExistingRecord(KeyOf(j))
    BY <2>1 DEF ExistingRecord
  <2>3. ExistingRecord(KeyOf(j)) \in Attempts(KeyOf(j))
    BY <2>1, LatestIsLast DEF AttemptsInv, RecordsInv
  <2> QED
    BY <1>1, <2>1, <2>2, <2>3 DEF StatusOf, Attempts
<1>3. RoutesOk
  <2>1. \A j \in ManifestJobs : Latest(Matches(j)).key.netlist = Netlist(source, ConfigOf[j], Here)
    <3>1. \A j : KeyOf(j).netlist = Netlist(source, ConfigOf[j], Here)
      BY DEF KeyOf, RouteKey
    <3> QED
      BY <1>2, <3>1
  <2> QED
    BY <1>2, <2>1 DEF RoutesOk
<1>4. TableOk
  <2>1. ASSUME NEW j \in ManifestJobs
        PROVE  \E row \in rows : row.current /\ row.key = KeyOf(j)
    <3>1. PICK rec \in raw : rec.status # "torn" /\ rec.key = KeyOf(j)
      BY <1>1, <2>1 DEF Attempts
    <3> DEFINE row == [key |-> rec.key, attempt |-> rec.attempt, current |-> rec.key \in PlannedKeys]
    <3>2. row \in rows
      BY <3>1 DEF FinishInv, RowsHere
    <3>3. row.current /\ row.key = KeyOf(j)
      BY <1>1, <2>1, <3>1
    <3> QED
      BY <3>2, <3>3
  <2> QED
    BY <1>2, <2>1 DEF TableOk
<1> QED
  BY <1>3, <1>4 DEF HardwareOk, FinishInv, WholeInv, DecidedHere

(* The runner and the validator agree (tools/check_hardware_v2.py, which    *)
(* re-derives what the runner computed): a run of the whole manifest that   *)
(* leaves no planned job without an outcome leaves what the validator       *)
(* accepts, for any manifest, sources and history of kills, power losses,   *)
(* retries and edits before it.                                             *)
THEOREM RunnerAndValidatorAgree ==
    ASSUME ~Together
    PROVE  Spec => FinishedIsAccepted
<1>1. ASSUME MeasuredInv, MeasuredInv', AttemptsInv, AttemptsInv', FinishInv, FinishInv', [Next]_vars
      PROVE  [Summarise /\ steady /\ only = {} /\ Bad = {} => HardwareOk' \/ PathDistinct]_vars
  <2> SUFFICES ASSUME Summarise, steady, only = {}, Bad = {}, ~PathDistinct PROVE HardwareOk'
    OBVIOUS
  <2>1. HardwareOk
    BY <1>1, FinishedHere DEF Whole, Summarise
  <2>2. UNCHANGED <<source, raw, csv, meta, rows>>
    BY DEF Summarise, files, resultFiles
  <2> QED
    <3>1. \A j : Matches(j)' = Matches(j)
      BY <2>2 DEF Matches
    <3>2. DecisionsOk'
      BY <2>1, <2>2 DEF HardwareOk, DecisionsOk, Matched
    <3> QED
      BY <2>1, <2>2, <3>1, <3>2 DEF HardwareOk, RoutesOk, Resolved, TableOk
<1>2. LockInv /\ [LockNext]_lockVars => LockInv'
  BY LockInvStep
<1>3. Init => LockInv
  BY LockInvInit DEF Init
<1>4. [Next]_vars => [LockNext]_lockVars
  BY NextKeepsLock DEF vars, lockVars
<1> QED
  BY <1>1, <1>2, <1>3, <1>4, MeasuredInit, MeasuredStep, AttemptsInit, AttemptsStep, FinishInit, FinishStep,
     PTL DEF Spec, FinishedIsAccepted
=============================================================================
