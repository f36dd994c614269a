----------------------------- MODULE MatrixRun ------------------------------
(***************************************************************************)
(* tools/measure_matrix.py cmd_run with the tools it calls (tools/synth.py *)
(* synthesize, tools/pnr.py route, tools/test_core.py over                 *)
(* tools/build_native.py): one runner holds the lock, plans every job of   *)
(* the manifest, routes what has no record, checks the decisions and       *)
(* writes the summaries.  It may be killed or interrupted between any two  *)
(* file operations, a tool may fail, and a power loss may lose the data of *)
(* a file (nothing is synced).  Meanwhile the operator edits the sources,  *)
(* empties build/, re-analyses a retained log and starts more runners.     *)
(*                                                                         *)
(* The variables of the runner are those of the one that holds the lock;   *)
(* OneRunner says that there is no other.                                  *)
(***************************************************************************)
EXTENDS RunnerLock, Identities, Sequences

CONSTANTS
    Jobs,         \* expand_jobs of the manifest: its jobs in sorted order
    Decisions,    \* configurations whose decisions are checked, in order
    Correct,      \* versions whose decisions match the reference
    Here,         \* the directory of this checkout
    None,         \* no file, no document
    MaxFaults,    \* bound on kills, interrupts, power losses and tool errors
    MaxChanges,   \* bound on edits, cleanings and launches beside a running runner
    MaxAttempts   \* bound on retries of a job that has an outcome

ASSUME MatrixAssumption ==
    /\ Jobs \in Seq(Job) /\ Decisions \in Seq(Config) /\ Correct \subseteq Version
    /\ Here \in Path /\ None \notin Version \cup OUTCOMES /\ None \notin [key : NativeKeys, status : {"matched"}]
    /\ {MaxFaults, MaxChanges, MaxAttempts} \subseteq Nat

VARIABLES
    source,       \* the version checked out
    synth,        \* build/synth/<key>: the netlist file, the hash its summary gives
    exe,          \* build/native/<key>: the version compiled, None or "torn"
    logs,         \* build/route: what the retained output of an attempt parses to
    raw,          \* results/v2/raw/routes: the set of records
    csv, meta,    \* results/v2/raw/decisions/<configuration>: table, record
    rows,         \* results/v2/summary: the derived table
    pc,           \* the runner: where it is,
    only, retry,  \*   its --only jobs ({}: no --only), whether --retry is given,
    n, back,      \*   the job or configuration, the phase a synthesis belongs to,
    docs, plan,   \*   synthesis documents at hand, the planned jobs,
    key,          \*   the key or attempt being worked on
    steady,       \*   no edit since it began (not a variable of the program)
    faults, changes

buildFiles == <<synth, exe, logs>>
resultFiles == <<raw, csv, meta, rows>>
files == <<buildFiles, resultFiles>>
runner == <<pc, only, retry, n, back, docs, plan, key, steady>>
vars == <<lockVars, source, files, runner, faults, changes>>

NoDocs == [c \in Config |-> None]
NoSynth == [netlist |-> None, summary |-> None]
TornSummary == [torn |-> TRUE]
TornDecision == [key |-> None, status |-> "torn"]

RunnerIdle ==
    /\ pc = "down" /\ only = {} /\ retry = FALSE /\ n = 0 /\ back = None
    /\ docs = NoDocs /\ plan = <<>> /\ key = None /\ steady = FALSE

Ended ==
    /\ pc' = "down" /\ only' = {} /\ retry' = FALSE /\ n' = 0 /\ back' = None
    /\ docs' = NoDocs /\ plan' = <<>> /\ key' = None /\ steady' = FALSE

(* results/ is empty, or holds what a run of the manifest over a correct    *)
(* version has left and committed, in this checkout or another one.         *)
OutcomeAt(v, p, j) ==
    LET netlist == Netlist(v, ConfigOf[j], p)
        k == RouteKey(SynthKey(v, ConfigOf[j]), netlist, j)
    IN  IF <<v, j>> \in OverBudget
        THEN [key |-> k, attempt |-> 1, stopped |-> "budget", status |-> Classify("budget", NoOutput)]
        ELSE [key |-> k, attempt |-> 1, stopped |-> "no", status |-> Classify("no", Finished(netlist, j))]
Decided == {Decisions[i] : i \in DOMAIN Decisions}
NoResults == raw = {} /\ csv = NoDocs /\ meta = NoDocs /\ rows = {}
ResultsOf(v, p) ==
    /\ raw = {OutcomeAt(v, p, Jobs[i]) : i \in DOMAIN Jobs}
    /\ csv = [c \in Config |-> IF c \in Decided THEN v ELSE None]
    /\ meta = [c \in Config |-> IF c \in Decided THEN [key |-> NativeKey(v, c), status |-> "matched"] ELSE None]
    /\ rows = {[key |-> OutcomeAt(v, p, Jobs[i]).key, attempt |-> 1, current |-> TRUE] : i \in DOMAIN Jobs}

Init ==
    /\ LockInit /\ RunnerIdle
    /\ source \in Version
    /\ synth = [k \in SynthKeys |-> NoSynth]
    /\ exe = [k \in NativeKeys |-> None]
    /\ logs = {}
    /\ NoResults \/ \E v \in Correct, p \in Path : ResultsOf(v, p)
    /\ faults = 0 /\ changes = 0

-----------------------------------------------------------------------------
(* Route records: all_attempts passes over what it cannot read.             *)
Attempts(k) == {rec \in raw : rec.key = k /\ rec.status # "torn"}
Latest(recs) == CHOOSE rec \in recs : \A other \in recs : other.attempt <= rec.attempt
ExistingRecord(k) == IF Attempts(k) = {} THEN None ELSE Latest(Attempts(k))
StatusOf(k) == IF Attempts(k) = {} THEN None ELSE ExistingRecord(k).status

(* atomic_write_json to raw_path: one file per key and attempt.             *)
Written(rec) == {old \in raw : ~(old.key = rec.key /\ old.attempt = rec.attempt)} \cup {rec}

(* The jobs this run is about and the decisions it checks: those of --only, *)
(* or all of them without it.                                               *)
ItemsOf(jobs) == IF jobs = {} THEN Jobs ELSE SelectSeq(Jobs, LAMBDA j : j \in jobs)
WantedOf(jobs) ==
    IF jobs = {} THEN Decisions ELSE SelectSeq(Decisions, LAMBDA c : \E j \in jobs : ConfigOf[j] = c)
Items == ItemsOf(only)
Wanted == WantedOf(only)
Conf == ConfigOf[Items[n]]
KeyNow(j) == RouteKey(docs[ConfigOf[j]].key, docs[ConfigOf[j]].netlist, j)

Planning == pc = "plan" /\ n <= Len(Items)
Routing == pc = "route" /\ n <= Len(Items)

-----------------------------------------------------------------------------
(* The lock is taken and the arguments are those of the command line;       *)
(* --retry names its job (cmd_run).                                         *)
Begin(jobs, again) ==
    /\ \E r \in Runner : WriteLock(r)
    /\ pc' = "plan" /\ n' = 1 /\ only' = jobs /\ retry' = again /\ steady' = TRUE
    /\ UNCHANGED <<back, docs, plan, key, source, files, faults, changes>>

(* synthesize: the identity first; a summary of that identity whose netlist *)
(* file has the hash it names is reused, ...                                *)
Reusable(k) == synth[k].summary # None /\ synth[k].netlist = synth[k].summary
Unreadable(k) == synth[k].summary = TornSummary /\ synth[k].netlist # None

SynthReuse ==
    /\ (Planning \/ Routing) /\ docs[Conf] = None
    /\ LET k == SynthKey(source, Conf)
       IN  /\ Reusable(k)
           /\ docs' = [docs EXCEPT ![Conf] = [key |-> k, netlist |-> synth[k].netlist]]
    /\ UNCHANGED <<lockVars, source, files, pc, only, retry, n, back, plan, key, steady, faults, changes>>

(* ... a summary that json.loads cannot read ends the run, ...              *)
SynthRaises ==
    /\ (Planning \/ Routing) /\ docs[Conf] = None
    /\ Unreadable(SynthKey(source, Conf))
    /\ pc' = "exit"
    /\ UNCHANGED <<lockVars, source, files, only, retry, n, back, docs, plan, key, steady, faults, changes>>

(* ... anything else is removed and yosys started ...                       *)
SynthStart ==
    /\ (Planning \/ Routing) /\ docs[Conf] = None
    /\ LET k == SynthKey(source, Conf)
       IN  /\ ~Reusable(k) /\ ~Unreadable(k)
           /\ synth' = [synth EXCEPT ![k] = NoSynth]
           /\ key' = k
    /\ back' = pc /\ pc' = "yosys"
    /\ UNCHANGED <<lockVars, source, exe, logs, resultFiles, only, retry, n, docs, plan, steady, faults, changes>>

(* ... which reads the sources, ...                                         *)
Yosys ==
    /\ pc = "yosys" /\ pc' = "synthesized"
    /\ synth' = [synth EXCEPT ![key].netlist = Netlist(source, Conf, Here)]
    /\ UNCHANGED <<lockVars, source, exe, logs, resultFiles, only, retry, n, back, docs, plan, key, steady, faults, changes>>

(* ... and the summary is written last.                                     *)
SynthRecord ==
    /\ pc = "synthesized" /\ pc' = back
    /\ synth' = [synth EXCEPT ![key].summary = synth[key].netlist]
    /\ docs' = [docs EXCEPT ![Conf] = [key |-> key, netlist |-> synth[key].netlist]]
    /\ back' = None /\ key' = None
    /\ UNCHANGED <<lockVars, source, exe, logs, resultFiles, only, retry, n, plan, steady, faults, changes>>

PlanJob ==
    /\ Planning /\ docs[Conf] # None
    /\ LET k == KeyNow(Items[n])
       IN  plan' = Append(plan, [key |-> k,
               action |-> IF Attempts(k) = {} THEN "run" ELSE IF retry THEN "retry" ELSE "reuse"])
    /\ n' = n + 1
    /\ UNCHANGED <<lockVars, source, files, pc, only, retry, back, docs, key, steady, faults, changes>>

Planned ==
    /\ pc = "plan" /\ n > Len(Items)
    /\ pc' = "route" /\ n' = 1 /\ docs' = NoDocs
    /\ UNCHANGED <<lockVars, source, files, only, retry, back, plan, key, steady, faults, changes>>

-----------------------------------------------------------------------------
(* route plans its job again; a record of the key it finds now is reused,   *)
(* whatever it says, unless the plan was to retry.                          *)
RouteReuse ==
    /\ Routing /\ docs[Conf] # None
    /\ Attempts(KeyNow(Items[n])) # {} /\ plan[n].action # "retry"
    /\ n' = n + 1 /\ docs' = NoDocs
    /\ UNCHANGED <<lockVars, source, files, pc, only, retry, back, plan, key, steady, faults, changes>>

(* Fault: a retry takes the number of the attempt it repeats.               *)
AttemptNo_Same(k) == IF Attempts(k) = {} THEN 1 ELSE ExistingRecord(k).attempt

AttemptNo(k) == IF Attempts(k) = {} THEN 1 ELSE ExistingRecord(k).attempt + 1

RouteStart ==
    /\ Routing /\ docs[Conf] # None
    /\ LET k == KeyNow(Items[n])
       IN  /\ Attempts(k) = {} \/ plan[n].action = "retry"
           /\ key' = [key |-> k, attempt |-> AttemptNo(k)]
    /\ logs' = {log \in logs : ~(log.key = key'.key /\ log.attempt = key'.attempt)}
    /\ pc' = "nextpnr"
    /\ UNCHANGED <<lockVars, source, synth, exe, resultFiles, only, retry, n, back, docs, plan, steady, faults, changes>>

(* The run ends or is stopped: its output is classified and recorded.       *)
RouteEnds(stopped, p) ==
    /\ pc = "nextpnr" /\ pc' = "route" /\ n' = n + 1 /\ docs' = NoDocs /\ key' = None
    /\ logs' = logs \cup {[key |-> key.key, attempt |-> key.attempt, parsed |-> p]}
    /\ raw' = Written([key |-> key.key, attempt |-> key.attempt, stopped |-> stopped,
                       status |-> Classify(stopped, p)])
    /\ UNCHANGED <<lockVars, source, synth, exe, csv, meta, rows, only, retry, back, plan, steady, changes>>

Result == Finished(key.key.netlist, key.key.job)
Timed == <<key.key.netlist.hdl, key.key.job>> \in OverBudget

RouteFinishes == pc = "nextpnr" /\ ~Timed /\ RouteEnds("no", Result) /\ UNCHANGED faults
RouteTimesOut == pc = "nextpnr" /\ Timed /\ RouteEnds("budget", NoOutput) /\ UNCHANGED faults

Routed ==
    /\ pc = "route" /\ n > Len(Items)
    /\ pc' = "decide" /\ n' = 1
    /\ UNCHANGED <<lockVars, source, files, only, retry, back, docs, plan, key, steady, faults, changes>>

-----------------------------------------------------------------------------
(* run_decisions: the record of the current native key is reused if its     *)
(* table is there; ...                                                      *)
Deciding == pc = "decide" /\ n <= Len(Wanted)
Matched(c) ==
    /\ meta[c] = [key |-> NativeKey(source, c), status |-> "matched"]
    /\ csv[c] # None

DecideReuse ==
    /\ Deciding /\ Matched(Wanted[n])
    /\ n' = n + 1
    /\ UNCHANGED <<lockVars, source, files, pc, only, retry, back, docs, plan, key, steady, faults, changes>>

(* (a record cut short is an exception of every run that comes to it) ...   *)
DecideRaises ==
    /\ Deciding /\ meta[Wanted[n]] = TornDecision
    /\ pc' = "exit"
    /\ UNCHANGED <<lockVars, source, files, only, retry, n, back, docs, plan, key, steady, faults, changes>>

DecideStart ==
    /\ Deciding /\ ~Matched(Wanted[n]) /\ meta[Wanted[n]] # TornDecision
    /\ key' = NativeKey(source, Wanted[n]) /\ pc' = "build"
    /\ UNCHANGED <<lockVars, source, files, only, retry, n, back, docs, plan, steady, faults, changes>>

(* ... otherwise test_core takes the harness of the key, or builds it, ...  *)
Build ==
    /\ pc = "build" /\ pc' = "test"
    /\ LET k == NativeKey(source, Wanted[n])
       IN  exe[k] # "torn" /\ exe' = IF exe[k] # None THEN exe ELSE [exe EXCEPT ![k] = source]
    /\ UNCHANGED <<lockVars, source, synth, logs, resultFiles, only, retry, n, back, docs, plan, key, steady, faults, changes>>

(* (a stamp cut short is an exception of every later build) ...             *)
BuildFails ==
    /\ pc = "build" /\ exe[NativeKey(source, Wanted[n])] = "torn"
    /\ pc' = "failed"
    /\ UNCHANGED <<lockVars, source, files, only, retry, n, back, docs, plan, key, steady, faults, changes>>

Tested == exe[key]

(* ... and writes the table if every decision matches the reference.        *)
Test ==
    /\ pc = "test"
    /\ IF Tested \in Correct THEN csv' = [csv EXCEPT ![Wanted[n]] = Tested] /\ pc' = "matched"
       ELSE pc' = "failed" /\ UNCHANGED csv
    /\ UNCHANGED <<lockVars, source, buildFiles, raw, meta, rows, only, retry, n, back, docs, plan, key, steady, faults, changes>>

(* The record is written under the key computed at the start; a failure     *)
(* ends the run.                                                            *)
DecideRecord ==
    /\ pc \in {"matched", "failed"}
    /\ meta' = [meta EXCEPT ![Wanted[n]] = [key |-> key, status |-> pc]]
    /\ key' = None
    /\ IF pc = "matched" THEN pc' = "decide" /\ n' = n + 1 ELSE pc' = "exit" /\ UNCHANGED n
    /\ UNCHANGED <<lockVars, source, buildFiles, raw, csv, rows, only, retry, back, docs, plan, steady, faults, changes>>

-----------------------------------------------------------------------------
(* Fault: only what this run routed counts as planned.                      *)
PlannedKeys_NotReused == {plan[i].key : i \in {k \in DOMAIN plan : plan[k].action # "reuse"}}

PlannedKeys == {plan[i].key : i \in DOMAIN plan}
(* derive_route_csv: every attempt at a job of the manifest; a row is       *)
(* current if it has the key planned for its job.                           *)
Derive ==
    /\ pc = "decide" /\ n > Len(Wanted) /\ pc' = "summarise"
    /\ rows' = {[key |-> rec.key, attempt |-> rec.attempt, current |-> rec.key \in PlannedKeys] :
                    rec \in {rec \in raw : rec.status # "torn"}}
    /\ UNCHANGED <<lockVars, source, buildFiles, raw, csv, meta, only, retry, n, back, docs, plan, key, steady, faults, changes>>

(* The summary is written, which only the report reads; the exit code is 0 *)
(* if no planned job lacks an outcome.                                      *)
Bad == {k \in PlannedKeys : StatusOf(k) \notin OUTCOMES}
Summarise ==
    /\ pc = "summarise" /\ pc' = "exit"
    /\ UNCHANGED <<lockVars, source, files, only, retry, n, back, docs, plan, key, steady, faults, changes>>

Exit ==
    /\ pc = "exit" /\ \E r \in Runner : ReleaseLock(r)
    /\ Ended
    /\ UNCHANGED <<source, files, faults, changes>>

-----------------------------------------------------------------------------
Changing == changes < MaxChanges /\ changes' = changes + 1

(* The operator starts a runner, while another is up only now and then.     *)
Launch ==
    /\ \E r \in Runner : StartRunner(r)
    /\ IF pc = "down" THEN UNCHANGED changes ELSE Changing
    /\ UNCHANGED <<source, files, runner, faults>>

LockStep ==
    /\ \E r \in Runner : CheckLock(r) \/ UnlinkStale(r) \/ CreateLock(r)
    /\ UNCHANGED <<source, files, runner, faults, changes>>

Faulty == faults < MaxFaults /\ faults' = faults + 1

(* nextpnr fails, or the operator interrupts it: the attempt is recorded    *)
(* and the run goes on with the next job.                                   *)
RouteFails == Faulty /\ RouteEnds("no", NoOutput)
RouteCancelled == Faulty /\ RouteEnds("interrupt", NoOutput)

(* The harness does not build, or dies in the test.                         *)
DecideFails ==
    /\ Faulty /\ pc \in {"build", "test"} /\ pc' = "failed"
    /\ UNCHANGED <<lockVars, source, files, only, retry, n, back, docs, plan, key, steady, changes>>

(* Anywhere else an interrupt, or a failing tool, ends the run.             *)
Interrupt ==
    /\ Faulty /\ pc \notin {"down", "nextpnr", "exit"} /\ pc' = "exit"
    /\ UNCHANGED <<lockVars, source, files, only, retry, n, back, docs, plan, key, steady, changes>>

(* The runner is killed.  A decision test it had started still writes its   *)
(* table; a harness stamp may be cut short, it is written in place.         *)
Kill ==
    /\ Faulty /\ pc # "down" /\ \E r \in Runner : lpc[r] = "held" /\ Die(r)
    /\ \/ UNCHANGED <<csv, exe>>
       \/ pc = "test" /\ Tested \in Correct /\ csv' = [csv EXCEPT ![Wanted[n]] = Tested] /\ UNCHANGED exe
       \/ pc = "build" /\ exe[key] = None /\ exe' = [exe EXCEPT ![key] = "torn"] /\ UNCHANGED csv
    /\ Ended
    /\ UNCHANGED <<source, synth, logs, raw, meta, rows, changes>>

(* A runner is killed before it has the lock.                               *)
KillTaker ==
    /\ Faulty /\ \E r \in Taking : Die(r)
    /\ UNCHANGED <<source, files, runner, changes>>

(* The machine stops.  One file the run has just written or used is on disk *)
(* without its data: the record of the job before, the summary of the       *)
(* synthesis at hand, the stamp of the harness, the decision record before  *)
(* or the derived table.  (A netlist that lost its data fails its hash, the *)
(* text of a decision table is never read.)                                 *)
PowerLoss ==
    /\ Faulty /\ \E r \in Runner : lpc[r] = "held" /\ Die(r)
    /\ \/ /\ pc = "route" /\ n > 1
          /\ \E rec \in raw : /\ rec.status # "torn" /\ rec.key.job = Items[n-1]
                              /\ raw' = Written([rec EXCEPT !.status = "torn"])
          /\ UNCHANGED <<synth, exe, meta, rows>>
       \/ /\ (Planning \/ Routing) /\ docs[Conf] # None
          /\ synth' = [synth EXCEPT ![docs[Conf].key].summary = TornSummary]
          /\ UNCHANGED <<exe, raw, meta, rows>>
       \/ /\ pc = "test" /\ exe' = [exe EXCEPT ![key] = "torn"]
          /\ UNCHANGED <<synth, raw, meta, rows>>
       \/ /\ pc = "decide" /\ n > 1
          /\ meta' = [meta EXCEPT ![Wanted[n-1]] = TornDecision]
          /\ UNCHANGED <<synth, exe, raw, rows>>
       \/ /\ pc = "summarise" /\ rows' = {}
          /\ UNCHANGED <<synth, exe, raw, meta>>
    /\ Ended
    /\ UNCHANGED <<source, logs, csv, changes>>

-----------------------------------------------------------------------------
(* The sources are edited while no tool reads them: between an identity and *)
(* the tool it is for, nothing notices an edit.                             *)
Edit ==
    /\ Changing /\ pc \notin {"yosys", "build"}
    /\ source' \in Version \ {source}
    /\ steady' = FALSE
    /\ UNCHANGED <<lockVars, files, pc, only, retry, n, back, docs, plan, key, faults>>

Emptied ==
    /\ pc = "down"
    /\ synth' = [k \in SynthKeys |-> NoSynth] /\ exe' = [k \in NativeKeys |-> None] /\ logs' = {}
    /\ UNCHANGED <<lockVars, source, resultFiles, runner, faults>>

(* make clean                                                               *)
Clean == Changing /\ buildFiles # <<[k \in SynthKeys |-> NoSynth], [k \in NativeKeys |-> None], {}>> /\ Emptied

(* The same, as what the operator does when every run ends with the         *)
(* exception of an unreadable harness stamp or synthesis summary.           *)
Repair ==
    /\ (\E k \in NativeKeys : exe[k] = "torn") \/ \E k \in SynthKeys : Unreadable(k)
    /\ Emptied /\ UNCHANGED changes

(* A decision record that cannot be read has to be removed by hand.         *)
Discard ==
    /\ pc = "down"
    /\ \E c \in Config : meta[c] = TornDecision /\ meta' = [meta EXCEPT ![c] = None]
    /\ UNCHANGED <<lockVars, source, buildFiles, raw, csv, rows, runner, faults, changes>>

ParsedLog(rec) ==
    LET kept == {log \in logs : log.key = rec.key /\ log.attempt = rec.attempt}
    IN  IF kept = {} THEN NoOutput ELSE (CHOOSE log \in kept : TRUE).parsed

(* pnr.py --reanalyze: the output of the latest attempt is parsed again.    *)
Reanalyze ==
    \E rec \in raw :
        /\ Attempts(rec.key) # {} /\ rec = ExistingRecord(rec.key)
        /\ raw' = Written([rec EXCEPT !.status = Classify(rec.stopped, ParsedLog(rec))])
        /\ UNCHANGED <<lockVars, source, buildFiles, csv, meta, rows, runner, faults, changes>>

(* The operator runs the manifest, or retries a job: one whose attempt is   *)
(* incomplete, or any for a while.                                          *)
KeyOf(j) == RouteKey(SynthKey(source, ConfigOf[j]), Netlist(source, ConfigOf[j], Here), j)
Incomplete(j) == StatusOf(KeyOf(j)) \in {"tool_error", "cancelled"}
RunAll == Begin({}, FALSE)
Retry(j) ==
    /\ Incomplete(j) \/ (Attempts(KeyOf(j)) # {} /\ AttemptNo(KeyOf(j)) <= MaxAttempts)
    /\ Begin({j}, TRUE)

Work ==
    \/ SynthReuse \/ SynthRaises \/ SynthStart \/ Yosys \/ SynthRecord \/ PlanJob \/ Planned
    \/ RouteReuse \/ RouteStart \/ RouteFinishes \/ RouteTimesOut \/ Routed
    \/ DecideReuse \/ DecideRaises \/ DecideStart \/ Build \/ BuildFails \/ Test \/ DecideRecord
    \/ Derive \/ Summarise \/ Exit

Next ==
    \/ RunAll \/ (\E j \in Job : Retry(j)) \/ Launch \/ LockStep \/ Work
    \/ RouteFails \/ RouteCancelled \/ DecideFails \/ Interrupt \/ Kill \/ KillTaker \/ PowerLoss
    \/ Edit \/ Clean \/ Repair \/ Discard \/ Reanalyze

(* A runner that is up makes progress; the operator keeps running the       *)
(* manifest, retries what stays incomplete, and removes the file at which   *)
(* every run raises an exception: no tool does that (Repair, Discard).      *)
Spec ==
    /\ Init /\ [][Next]_vars
    /\ WF_vars(Work) /\ WF_vars(LockStep) /\ WF_vars(pc = "down" /\ Launch)
    /\ SF_vars(RunAll) /\ SF_vars(Repair \/ Discard)
    /\ SF_vars(\E j \in Job : Incomplete(j) /\ Retry(j))
=============================================================================
