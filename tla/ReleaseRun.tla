----------------------------- MODULE ReleaseRun ------------------------------
(***************************************************************************)
(* The bookkeeping of a release.  tools/ugate.py (and tools/gate.py for    *)
(* the jobs of the first version) runs the commands of a job and records   *)
(* how they ended; scripts/fresh_clone_check.sh and                        *)
(* scripts/release_unblock.py record the two checks made on other          *)
(* machines; tools/check_release_v2.py reads a tree and gives the verdict  *)
(* the tag waits for.  The operator repeats what is missing, commits the   *)
(* tree at any moment and has a clean checkout of the commit validated.    *)
(* Everything but git and the validator may be killed, also in the middle  *)
(* of writing a file.                                                      *)
(*                                                                         *)
(* Artifacts, frozen inputs, identities and the subchecks of the validator *)
(* do not change here and are left out; so is the linux platform, executed *)
(* from the start.  The validator reads its tree in one step.              *)
(***************************************************************************)
EXTENDS Naturals, Sequences

CONSTANTS
    UJob, Self,   \* the jobs of ugate.py; the one whose gate runs the validator (U20)
    MayBlock,     \* those whose record may say blocked (U03, U20)
    EJob,         \* the jobs of gate.py
    Outside,      \* the checks made elsewhere,
    Remote,       \*   and the one that is a CI run
    Commands,     \* commands of a gate
    Absent, Torn, \* no file; a file left half written,
    Empty,        \*   or with nothing in it yet
    MaxFaults,    \* bound on kills and failures
    MaxChanges    \* bound on gates and checks repeated without need

ASSUME ReleaseAssumption ==
    /\ Self \in MayBlock /\ MayBlock \subseteq UJob /\ UJob \cap EJob = {}
    /\ Remote \in Outside /\ Commands \in Nat \ {0} /\ {MaxFaults, MaxChanges} \subseteq Nat
    /\ Absent # Torn /\ Empty \notin {Absent, Torn}
    /\ {Absent, Torn, Empty} \cap {"ok", "failed", "blocked", "executed", "passed"} = {}

Job == UJob \cup EJob

(* How a command ends: nonzero exit; no count in its output; a count that   *)
(* is zero or short of its total; a good count.                             *)
Ending == {"failed", "silent", "short", "counted"}

(* The command line of a gate: are there commands, --blocked, --check       *)
(* label=key, and for the validator --expect-blocked.                       *)
Option == [commands : {0, Commands}, blocked : BOOLEAN, named : BOOLEAN, expect : BOOLEAN]
NoOption == [commands |-> 0, blocked |-> FALSE, named |-> FALSE, expect |-> FALSE]
Record == [by : Nat, status : {"passed", "blocked", "failed"}, ended : Seq(Ending), checked : BOOLEAN]

VARIABLES
    summary,      \* results/evidence/<job>/summary.json
    log,          \* cmdNN.log: the attempt whose output it holds, 0 if there is none
    outside,      \* the record of each check made elsewhere
    docs,         \* what benchmarks/release_v2.json (manifest), docs/release_v2.md (ledger),
                  \*   docs/upgrade_progress.md (progress) and docs/ci.md (ci) say of the
                  \*   checks made elsewhere
    running, opts, ended,  \* each gate: does it run, its options, the commands done
    marking,      \* release_unblock.py mark-executed: the file it writes next
    releasable,   \* the verdict on the last commit
    tagged,
    tries, clean, passed,  \* gates started; attempts whose commands all exited 0;
                           \*   checks that passed when last done
    faults, changes

gates == <<summary, log, running, opts, ended, tries, clean>>
elsewhere == <<outside, passed>>
repository == <<releasable, tagged>>
bounds == <<faults, changes>>
vars == <<gates, elsewhere, docs, marking, repository, bounds>>

Tree == [summary |-> summary, log |-> log, outside |-> outside,
         manifest |-> docs.manifest, ledger |-> docs.ledger, progress |-> docs.progress,
         ci |-> docs.ci]
Unmarked == [manifest |-> "blocked", ledger |-> "blocked", progress |-> "blocked", ci |-> "blocked"]
Marked == [manifest |-> "executed", ledger |-> "executed", progress |-> "passed", ci |-> "executed"]
NoLogs == [j \in UJob |-> [k \in 1 .. Commands |-> 0]]
Checkout == [Tree EXCEPT !.log = NoLogs]           \* *.log is ignored by git

-----------------------------------------------------------------------------
(* The validator.                                                           *)
ExitedZero(e) == \A k \in DOMAIN e : e[k] # "failed"
Counted(e) == \E k \in DOMAIN e : e[k] = "counted"
Allowed(j) == IF j \in MayBlock THEN {"passed", "blocked"} ELSE {"passed"}

(* Fault: the validator's own job must have a record, also inside its gate. *)
EvidenceOk_SelfToo(t, j) ==
    /\ t.summary[j] \notin {Absent, Torn}
    /\ t.summary[j].status \in Allowed(j)

EvidenceOk(t, j) ==
    LET d == t.summary[j]
    IN  IF d = Absent THEN j = Self
        ELSE /\ d # Torn
             /\ d.status \in Allowed(j)
             /\ d.ended # <<>> /\ ExitedZero(d.ended) /\ d.checked
             /\ \A k \in DOMAIN d.ended : t.log[j][k] \in {0, d.by}
             /\ d.status = "passed" => Counted(d.ended)

EvidenceOfV1Ok(t, j) ==
    LET d == t.summary[j]
    IN  d \notin {Absent, Torn} /\ d.status = "passed" /\ d.ended # <<>> /\ ExitedZero(d.ended)

(* Fault: any record will do.                                               *)
PlatformOk_AnyRecord(t, f) ==
    IF t.manifest = "executed" THEN t.outside[f] # Absent ELSE t.ledger = "blocked"

PlatformOk(t, f) ==
    IF t.manifest = "executed" THEN t.outside[f] = "ok" ELSE t.ledger = "blocked"

ProgressOk(t) == t.progress # Torn /\ (t.manifest = "blocked" => t.progress = "blocked")

(* Of docs/ci.md, and of the ledger once the manifest says executed, only   *)
(* that there is something in it.                                           *)
ArtifactsOk(t) == Empty \notin {t.ledger, t.ci}

Problems(t) ==
    \/ t.manifest = Torn
    \/ ~ArtifactsOk(t)
    \/ \E j \in UJob : ~EvidenceOk(t, j)
    \/ \E j \in EJob : ~EvidenceOfV1Ok(t, j)
    \/ \E f \in Outside : ~PlatformOk(t, f)
    \/ ~ProgressOk(t)

Verdict(t) ==
    IF Problems(t) THEN "FAIL"
    ELSE IF t.manifest = "blocked" THEN "NOT RELEASABLE" ELSE "OK"

(* Its exit code, by --expect-blocked.                                      *)
Accepts(t, expect) == Verdict(t) = IF expect THEN "NOT RELEASABLE" ELSE "OK"

-----------------------------------------------------------------------------
Init ==
    /\ summary = [j \in Job |-> Absent] /\ log = NoLogs
    /\ outside = [f \in Outside |-> Absent]
    /\ docs = Unmarked
    /\ running = {} /\ ended = [j \in Job |-> <<>>]
    /\ opts = [j \in Job |-> NoOption]
    /\ marking = "off" /\ releasable = FALSE /\ tagged = FALSE
    /\ tries = [j \in Job |-> 0] /\ clean = {} /\ passed = {}
    /\ faults = 0 /\ changes = 0

Fault == faults < MaxFaults /\ faults' = faults + 1 /\ UNCHANGED changes
Needless == changes < MaxChanges /\ changes' = changes + 1 /\ UNCHANGED faults

-----------------------------------------------------------------------------
(* Gates.                                                                   *)

(* Fault: the record of the attempt before stays until it is overwritten.   *)
Start_KeepsSummary(j, o) ==
    /\ j \notin running /\ running' = running \cup {j}
    /\ opts' = [opts EXCEPT ![j] = o] /\ ended' = [ended EXCEPT ![j] = <<>>]
    /\ tries' = [tries EXCEPT ![j] = @ + 1]
    /\ UNCHANGED <<summary, log, clean>>

(* ugate.py moves the record of the attempt before aside; gate.py does not. *)
Start(j, o) ==
    /\ j \notin running /\ running' = running \cup {j}
    /\ opts' = [opts EXCEPT ![j] = o] /\ ended' = [ended EXCEPT ![j] = <<>>]
    /\ tries' = [tries EXCEPT ![j] = @ + 1]
    /\ summary' = [summary EXCEPT ![j] = IF j \in UJob THEN Absent ELSE @]
    /\ UNCHANGED <<log, clean>>

(* The verdict the gate of the validator will see.                          *)
SelfVerdict == Verdict([Tree EXCEPT !.summary[Self] = Absent])

Asked(j) == [commands |-> Commands, named |-> j \in UJob,
             blocked |-> j = Self /\ SelfVerdict = "NOT RELEASABLE",
             expect |-> j = Self /\ SelfVerdict = "NOT RELEASABLE"]
Missing(j) ==
    IF j \in EJob THEN ~EvidenceOfV1Ok(Tree, j)
    ELSE summary[j] = Absent \/ ~EvidenceOk(Tree, j)

Rerun(j) ==
    /\ Missing(j) /\ (j = Self => SelfVerdict # "FAIL")
    /\ Start(j, Asked(j))
    /\ UNCHANGED <<elsewhere, docs, marking, repository, bounds>>

Extra(j, o) ==
    /\ Needless /\ Start(j, o)
    /\ o.expect => j = Self
    /\ o.blocked \/ o.named => j \in UJob
    /\ UNCHANGED <<elsewhere, docs, marking, repository>>

(* The last command of the validator's gate is the validator.               *)
Ends(j, r) ==
    IF j = Self /\ Len(ended[j]) + 1 = Commands
    THEN /\ r = IF Accepts(Tree, opts[j].expect) THEN "counted" ELSE "failed"
         /\ UNCHANGED bounds
    ELSE IF r = "counted" THEN UNCHANGED bounds ELSE Fault

(* Nothing reads the logs of gate.py again.                                 *)
Overwritten(j, n) == IF j \in UJob THEN [log EXCEPT ![j][n] = tries[j]] ELSE log

RunCommand(j, r) ==
    LET n == Len(ended[j]) + 1
    IN  /\ j \in running /\ n <= opts[j].commands /\ Ends(j, r)
        /\ ended' = [ended EXCEPT ![j] = Append(@, r)]
        /\ log' = Overwritten(j, n)
        /\ clean' = IF n = Commands /\ ExitedZero(ended'[j]) THEN clean \cup {<<j, tries[j]>>} ELSE clean
        /\ UNCHANGED <<summary, running, opts, tries, elsewhere, docs, marking, repository>>

(* What a finished gate records.                                            *)
Checked(j) == opts[j].named /\ ended[j] # <<>> =>
    Counted(ended[j]) /\ \A k \in DOMAIN ended[j] : ended[j][k] # "short"
Status(j) ==
    IF j \in EJob THEN IF ended[j] # <<>> /\ ExitedZero(ended[j]) THEN "passed" ELSE "failed"
    ELSE IF ended[j] = <<>> THEN IF opts[j].blocked THEN "blocked" ELSE "failed"
    ELSE IF ~ExitedZero(ended[j]) \/ ~Checked(j) THEN "failed"
    ELSE IF opts[j].blocked THEN "blocked" ELSE "passed"
Finished(j) == [by |-> tries[j], status |-> Status(j), ended |-> ended[j], checked |-> Checked(j)]

WriteSummary(j) ==
    /\ j \in running /\ Len(ended[j]) = opts[j].commands
    /\ summary' = [summary EXCEPT ![j] = Finished(j)]
    /\ running' = running \ {j}
    /\ ended' = [ended EXCEPT ![j] = <<>>] /\ opts' = [opts EXCEPT ![j] = NoOption]
    /\ UNCHANGED <<log, tries, clean, elsewhere, docs, marking, repository, bounds>>

(* Killed between commands, in the middle of one, or while it writes.       *)
KillGate(j) ==
    LET n == Len(ended[j]) + 1
    IN  /\ Fault /\ j \in running
        /\ running' = running \ {j}
        /\ ended' = [ended EXCEPT ![j] = <<>>] /\ opts' = [opts EXCEPT ![j] = NoOption]
        /\ IF n <= opts[j].commands
           THEN /\ log' \in {log, Overwritten(j, n)}
                /\ UNCHANGED summary
           ELSE summary' \in {summary, [summary EXCEPT ![j] = Torn]} /\ UNCHANGED log
        /\ UNCHANGED <<tries, clean, elsewhere, docs, marking, repository>>

Gate(j) == (\E r \in Ending : RunCommand(j, r)) \/ WriteSummary(j)

-----------------------------------------------------------------------------
(* The checks made elsewhere.  The fresh clone records failures too, the CI *)
(* run is recorded by hand once it is seen to have passed.                  *)
CheckPasses(f) ==
    /\ IF outside[f] = "ok" THEN Needless ELSE UNCHANGED bounds
    /\ outside' = [outside EXCEPT ![f] = "ok"] /\ passed' = passed \cup {f}
    /\ UNCHANGED <<gates, docs, marking, repository>>

CheckFails(f) ==
    /\ Fault /\ f # Remote
    /\ outside' = [outside EXCEPT ![f] = "failed"] /\ passed' = passed \ {f}
    /\ UNCHANGED <<gates, docs, marking, repository>>

CheckTorn(f) ==
    /\ Fault /\ outside' = [outside EXCEPT ![f] = Torn]
    /\ UNCHANGED <<passed, gates, docs, marking, repository>>

-----------------------------------------------------------------------------
(* mark-executed: manifest, ledger, progress, docs/ci.md, in that order.    *)
Mark ==
    /\ marking = "off" /\ docs # Marked
    /\ docs.manifest # Torn /\ \A f \in Outside : outside[f] = "ok"
    /\ marking' = "manifest"
    /\ UNCHANGED <<gates, elsewhere, docs, repository, bounds>>

(* It replaces the lines it finds, and a torn file has lost them: a ledger  *)
(* without them gets a line end at least, the others are left as they are   *)
(* and end the run.                                                         *)
Rewritten(f) ==
    CASE docs[f] \notin {Torn, Empty} -> Marked[f]
      [] docs[f] \in {Torn, Empty} -> IF f = "ledger" THEN Torn ELSE docs[f]

MarkFile ==
    /\ marking # "off"
    /\ docs' = [docs EXCEPT ![marking] = Rewritten(marking)]
    /\ marking' = CASE marking = "manifest" -> "ledger"
                    [] marking = "ledger" -> "progress"
                    [] marking = "progress" -> IF docs.progress = Torn THEN "off" ELSE "ci"
                    [] marking = "ci" -> "off"
    /\ UNCHANGED <<gates, elsewhere, repository, bounds>>

(* Of the two the validator parses, an empty one is as good as a torn one.  *)
KillMark ==
    /\ Fault /\ marking # "off" /\ marking' = "off"
    /\ \/ docs' \in {docs, [docs EXCEPT ![marking] = Torn]}
       \/ marking \in {"ledger", "ci"} /\ docs' = [docs EXCEPT ![marking] = Empty]
    /\ UNCHANGED <<gates, elsewhere, repository>>

(* git checkout of the four files as they were before mark-executed.        *)
Restore ==
    /\ marking = "off" /\ {Torn, Empty} \cap {docs.manifest, docs.ledger, docs.progress, docs.ci} # {}
    /\ docs' = Unmarked
    /\ UNCHANGED <<marking, gates, elsewhere, repository, bounds>>

-----------------------------------------------------------------------------
(* A commit, and the verdict of release-check on a clean checkout of it.    *)
Commit ==
    /\ releasable' = (Verdict(Checkout) = "OK") /\ releasable' # releasable
    /\ UNCHANGED <<tagged, gates, elsewhere, docs, marking, bounds>>

Tag ==
    /\ releasable /\ tagged' = TRUE
    /\ UNCHANGED <<releasable, gates, elsewhere, docs, marking, bounds>>

Step ==
    \/ \E j \in Job : Rerun(j) \/ Gate(j) \/ KillGate(j)
    \/ \E j \in Job, o \in Option : Extra(j, o)
    \/ \E f \in Outside : CheckPasses(f) \/ CheckFails(f) \/ CheckTorn(f)
    \/ Mark \/ MarkFile \/ KillMark \/ Restore
    \/ Commit \/ Tag

Next == ~tagged /\ Step             \* nothing is modelled past the tag

(* Gates that run go on, and the operator goes on with one of the things    *)
(* still to do.                                                             *)
Progress ==
    \/ \E j \in Job : Gate(j) \/ Rerun(j)
    \/ \E f \in Outside : outside[f] # "ok" /\ CheckPasses(f)
    \/ Mark \/ MarkFile

Fairness ==
    /\ WF_vars(~tagged /\ Progress) /\ SF_vars(~tagged /\ Restore)
    /\ WF_vars(~tagged /\ Commit) /\ WF_vars(~tagged /\ Tag)

Spec == Init /\ [][Next]_vars /\ Fairness

-----------------------------------------------------------------------------
(* The type of the files and of the processes that write them.              *)
TypeOK ==
    /\ summary \in [Job -> Record \cup {Absent, Torn}]
    /\ log \in [UJob -> [1 .. Commands -> Nat]]
    /\ outside \in [Outside -> {"ok", "failed", Absent, Torn}]
    /\ docs \in [manifest : {"blocked", "executed", Torn}, ledger : {"blocked", "executed", Torn, Empty},
                progress : {"blocked", "passed", Torn}, ci : {"blocked", "executed", Torn, Empty}]
    /\ running \subseteq Job /\ opts \in [Job -> Option] /\ ended \in [Job -> Seq(Ending)]
    /\ marking \in {"off", "manifest", "ledger", "progress", "ci"}
    /\ releasable \in BOOLEAN /\ tagged \in BOOLEAN
    /\ tries \in [Job -> Nat] /\ clean \subseteq Job \X Nat /\ passed \subseteq Outside
    /\ faults \in 0 .. MaxFaults /\ changes \in 0 .. MaxChanges

(* A record that can be read is of the last attempt started, that attempt   *)
(* is over and the logs beside it are its own: a validator run inside a     *)
(* gate, or after one was killed, never takes older evidence for current    *)
(* (ugate.py, the comment at line 130).                                     *)
EvidenceIsLatest ==
    \A j \in UJob : LET d == summary[j] IN d \notin {Absent, Torn} =>
        /\ d.by = tries[j] /\ j \notin running
        /\ \A k \in DOMAIN d.ended : log[j][k] = d.by

(* Every check this version asks for has passed: the last attempt at each   *)
(* of its jobs but the one whose gate runs the validator, one attempt at    *)
(* each of the first version's jobs, and each outside machine's own.        *)
Earned ==
    /\ \A j \in UJob \ {Self} : <<j, tries[j]>> \in clean
    /\ \A j \in EJob : \E try \in 1 .. tries[j] : <<j, try>> \in clean
    /\ Outside \subseteq passed

(* A commit that is found releasable has seen every check pass: the last    *)
(* attempt at each job of this version but U20 (its gate runs the validator *)
(* and has no record yet) ran all its commands to a zero exit, so did one   *)
(* at each job of the first version, and every machine passed its own check *)
(* the last time it was done - whatever was killed, repeated or torn before *)
(* (check_release_v2.py:2, "without manufacturing missing evidence").       *)
OkIsEarned == [][releasable' /\ ~releasable => Earned]_vars

(* Every release is tagged in the end: no kill, torn file or record that    *)
(* says less than it should leaves a tree that no gate, check or mark can   *)
(* make releasable again, and the validator's own record is not needed to   *)
(* make the validator's own record.                                         *)
ReleaseConverges == <>tagged
=============================================================================
