------------------------------ MODULE BenchRun ------------------------------
(***************************************************************************)
(* tools/bench.py, a held-out suite from the freeze record over            *)
(* run_suite_v2 and run_job to tools/analyze_quality_v2.py, with the       *)
(* checkpoints of model/longrun.py: one process plays the jobs that have   *)
(* no record yet under the present sources of model/, one after the other. *)
(* It may be killed between any two file operations, a power loss may      *)
(* leave a file of the current job unreadable (nothing is synced), a game  *)
(* may raise an exception, and the sources may be edited at any time.  The *)
(* operator freezes the sources again and starts the suite again.          *)
(*                                                                         *)
(* A file is written to a .part file and renamed; .part files are never    *)
(* read and are left out, so a write is its rename.  A launch imports the  *)
(* sources, hashes them and reads the records in one step.                 *)
(***************************************************************************)
EXTENDS Naturals, Sequences, FiniteSets, FiniteSetsExt, SequencesExt

CONSTANTS
    Version,           \* contents of model/*.py
    Key,               \* the games: policy and stream
    Cap,               \* pieces of a game at most
    Every,             \* pieces between two checkpoints
    Length,            \* moves of each game; below Cap it ends in a top-out
    Suite,             \* the jobs in the order of the loops over policies and seeds
    MaxStops,          \* bound on kills, power losses and exceptions
    MaxEdits           \* bound on edits of the sources

ASSUME GameAssumption ==
    /\ Cap \in Nat \ {0} /\ Every \in Nat \ {0}
    /\ Length \in [Key -> 0 .. Cap]

ASSUME SuiteAssumption ==
    Version # {} /\ Suite \in Seq(Key) /\ {MaxStops, MaxEdits} \subseteq Nat

-----------------------------------------------------------------------------
(* A long game as play_summary keeps it: the stream index, the state of the *)
(* policy's generator and the chained trajectory.  The board, the totals    *)
(* and the trajectory hash are functions of the moves made, and a move is a *)
(* function of the stream, the board and the generator: a move is           *)
(* represented by the sources that made it and the generator state it was   *)
(* drawn in, which after n moves is n unless a resume loses it.             *)
Fresh == [i |-> 0, rng |-> 0, moves |-> <<>>]
Over(k, g) == g.i = Length[k]
Played(g, v) == [i |-> g.i + 1, rng |-> g.rng + 1, moves |-> Append(g.moves, <<v, g.rng>>)]

(* What the caller gets of a finished game.                                 *)
Terminal(k, moves) == [moves |-> moves, event_observed |-> Length[k] < Cap]

(* The game nobody interrupts, which is also that of the replay mode: it    *)
(* writes no checkpoints.                                                   *)
Uninterrupted(k, v) == Terminal(k, [i \in 1 .. Length[k] |-> <<v, i-1>>])

(* quality_identity: the quality key of a job under the sources v.          *)
QualityKey(k, v) == <<k, v>>
QualityKeys == Key \X Version

-----------------------------------------------------------------------------
(* A file: nothing there, unreadable, or a document.                        *)
NoFile == [kind |-> "absent"]
TornFile == [kind |-> "torn"]
Document(k, g, complete) ==
    [kind |-> "checkpoint", identity |-> k, game |-> g, complete |-> complete]

(* Fault: the generator starts over.                                        *)
Resumed_FreshGenerator(k, file) ==
    IF file.identity # k \/ file.complete THEN Fresh ELSE [file.game EXCEPT !.rng = 0]

(* A document of another game or of a finished one is not resumed.          *)
Resumed(k, file) ==
    IF file.identity # k \/ file.complete THEN Fresh ELSE file.game

(* Fault: the retained predecessor is not looked at.                        *)
Loaded_PathOnly(k, path, prev) ==
    IF path.kind = "checkpoint" THEN Resumed(k, path) ELSE Fresh

(* The first of the two files that can be read decides.                     *)
Loaded(k, path, prev) ==
    IF path.kind = "checkpoint" THEN Resumed(k, path)
    ELSE IF prev.kind = "checkpoint" THEN Resumed(k, prev) ELSE Fresh

-----------------------------------------------------------------------------
VARIABLES
    sources, frozen,       \* model/*.py as they are, as the freeze record has them
    checkpoint, retained,  \* checkpoints/<key>.json and its .prev
    record, failed,        \* raw/quality/<key>.json, <key>.failed.json exists
    analysis,              \* summary/analysis_<suite>.json
    pc, have, n,           \* the process: where it is, the records it found, the job,
    closure, mode,         \*   the sources it runs, the execution mode,
    game, pending,         \*   the game in memory, the checkpoint to be written
    stops, edits

checkpoints == <<checkpoint, retained>>
outcomes == <<record, failed>>
files == <<checkpoints, outcomes, analysis>>
position == <<have, closure, mode>>
process == <<pc, position, n, game, pending>>
tree == <<sources, frozen>>
suiteBounds == <<stops, edits>>
suiteVars == <<tree, files, process, suiteBounds>>

Nothing == [kind |-> "nothing"]
Outcome(term) == [kind |-> "record", term |-> term]
Complete(q) == record[q].kind = "record"
JobKey == QualityKey(Suite[n], closure)

(* The sources at first: the versions are only names.                       *)
First == CHOOSE v \in Version : TRUE

SuiteInit ==
    /\ sources = First /\ frozen = NoFile
    /\ checkpoint = [q \in QualityKeys |-> NoFile] /\ retained = [q \in QualityKeys |-> NoFile]
    /\ record = [q \in QualityKeys |-> NoFile] /\ failed = [q \in QualityKeys |-> FALSE]
    /\ analysis = NoFile
    /\ pc = "down" /\ have = {} /\ n = 0 /\ closure = First /\ mode = "summary"
    /\ game = Fresh /\ pending = Nothing
    /\ stops = 0 /\ edits = 0

-----------------------------------------------------------------------------
(* The freeze record of the present sources; a held-out suite runs only     *)
(* under them.                                                              *)
Freeze ==
    /\ frozen # sources /\ frozen' = sources
    /\ UNCHANGED <<sources, files, process, suiteBounds>>

(* Fault: a job with a failure record is taken for done.                    *)
Launch_CountsFailed ==
    /\ pc = "down" /\ frozen = sources
    /\ pc' = "next" /\ n' = 1 /\ closure' = sources /\ mode' \in {"summary", "replay"}
    /\ have' = {q \in QualityKeys : Complete(q) \/ failed[q]}
    /\ UNCHANGED <<tree, files, game, pending, suiteBounds>>

(* v2_records: unreadable records and failure records are passed over.      *)
Launch ==
    /\ pc = "down" /\ frozen = sources
    /\ pc' = "next" /\ n' = 1 /\ closure' = sources /\ mode' \in {"summary", "replay"}
    /\ have' = {q \in QualityKeys : Complete(q)}
    /\ UNCHANGED <<tree, files, game, pending, suiteBounds>>

(* The process forgets.                                                     *)
Down ==
    /\ pc # "down" /\ pc' = "down" /\ have' = {} /\ n' = 0
    /\ closure' = First /\ mode' = "summary"
    /\ game' = Fresh /\ pending' = Nothing

Finish ==
    /\ pc = "next" /\ n > Len(Suite) /\ Down
    /\ UNCHANGED <<tree, files, suiteBounds>>

Reuse ==
    /\ pc = "next" /\ n <= Len(Suite) /\ JobKey \in have
    /\ n' = n + 1
    /\ UNCHANGED <<tree, files, pc, position, game, pending, suiteBounds>>

StartGame ==
    /\ pc = "next" /\ n <= Len(Suite) /\ JobKey \notin have /\ mode = "summary"
    /\ game' = Loaded(JobKey, checkpoint[JobKey], retained[JobKey])
    /\ pc' = "play"
    /\ UNCHANGED <<tree, files, position, n, pending, suiteBounds>>

(* The replay mode plays from the start and touches no checkpoint.          *)
ReplayGame ==
    /\ pc = "next" /\ n <= Len(Suite) /\ JobKey \notin have /\ mode = "replay"
    /\ game' = [Fresh EXCEPT !.moves = Uninterrupted(Suite[n], closure).moves]
    /\ pc' = "record"
    /\ UNCHANGED <<tree, files, position, n, pending, suiteBounds>>

(* One piece is locked; every so many, a checkpoint is due.                 *)
LockPiece ==
    /\ pc = "play" /\ ~Over(Suite[n], game)
    /\ game' = Played(game, closure)
    /\ IF game'.i % Every = 0 /\ game'.i < Cap
       THEN pc' = "keep" /\ pending' = Document(JobKey, game', FALSE)
       ELSE UNCHANGED <<pc, pending>>
    /\ UNCHANGED <<tree, files, position, n, suiteBounds>>

(* The cap is reached or the policy finds no move.                          *)
EndGame ==
    /\ pc = "play" /\ Over(Suite[n], game)
    /\ pc' = "keep" /\ pending' = Document(JobKey, game, TRUE)
    /\ UNCHANGED <<tree, files, position, n, game, suiteBounds>>

(* atomic_write_json: the current file becomes the predecessor, ...         *)
Keep ==
    /\ pc = "keep" /\ pc' = "publish"
    /\ IF checkpoint[JobKey] = NoFile THEN UNCHANGED checkpoints
       ELSE /\ retained' = [retained EXCEPT ![JobKey] = checkpoint[JobKey]]
            /\ checkpoint' = [checkpoint EXCEPT ![JobKey] = NoFile]
    /\ UNCHANGED <<tree, outcomes, analysis, position, n, game, pending, suiteBounds>>

(* ... and the new one takes its place.                                     *)
Publish ==
    /\ pc = "publish"
    /\ checkpoint' = [checkpoint EXCEPT ![JobKey] = pending]
    /\ pc' = IF pending.complete THEN "record" ELSE "play"
    /\ pending' = Nothing
    /\ UNCHANGED <<tree, retained, outcomes, analysis, position, n, game, suiteBounds>>

RecordGame ==
    /\ pc = "record" /\ pc' = "unlink"
    /\ record' = [record EXCEPT ![JobKey] = Outcome(Terminal(Suite[n], game.moves))]
    /\ UNCHANGED <<tree, checkpoints, failed, analysis, position, n, game, pending, suiteBounds>>

Unlink ==
    /\ pc = "unlink" /\ pc' = "next" /\ n' = n + 1 /\ game' = Fresh
    /\ failed' = [failed EXCEPT ![JobKey] = FALSE]
    /\ UNCHANGED <<tree, checkpoints, record, analysis, position, pending, suiteBounds>>

(* The handler of the exception, and the suite goes on.                     *)
RecordFailure ==
    /\ pc = "failing" /\ pc' = "next" /\ n' = n + 1 /\ game' = Fresh
    /\ failed' = [failed EXCEPT ![JobKey] = TRUE]
    /\ UNCHANGED <<tree, checkpoints, record, analysis, position, pending, suiteBounds>>

-----------------------------------------------------------------------------
(* model/survival.py.  The games of one policy: how long each lasted and    *)
(* whether its end was seen or the cap stopped it.  A fraction is a pair.   *)
Plus(a, b) == <<a[1] * b[2] + b[1] * a[2], a[2] * b[2]>>
SameFraction(a, b) == a[1] * b[2] = b[1] * a[2]

RestrictedMean(duration) ==
    <<MapThenSumSet(LAMBDA k : duration[k], DOMAIN duration), Cardinality(DOMAIN duration)>>

(* The product-limit estimate of the share of games longer than t.          *)
KaplanMeier(duration, event, cap) ==
    LET atRisk(t) == Cardinality({k \in DOMAIN duration : duration[k] >= t})
        ended(t) == Cardinality({k \in DOMAIN duration : event[k] /\ duration[k] = t})
        S[t \in 0 .. cap] ==
            LET s == IF t = 0 THEN <<1, 1>> ELSE S[t-1]
            IN IF ended(t) = 0 THEN s ELSE <<s[1] * (atRisk(t) - ended(t)), s[2] * atRisk(t)>>
    IN S

RmstFromSurvival(curve, cap) ==
    LET area[t \in 0 .. cap] == IF t = 0 THEN <<0, 1>> ELSE Plus(area[t-1], curve[t-1])
    IN area[cap]

(* The first t with half of the games ended, as a set: empty if not reached.*)
NOT_REACHED == {}
MedianSurvival(curve, cap) ==
    LET below == {t \in 0 .. cap - 1 : 2 * curve[t][1] <= curve[t][2]}
    IN IF below = {} THEN NOT_REACHED ELSE {Min(below)}

-----------------------------------------------------------------------------
(* The analysis of a held-out suite: the records of the frozen sources, one *)
(* for each job and each consistent with the cap, or it refuses.  A failure *)
(* record counts only where there is no complete one.  The statistics are   *)
(* functions of the rows and are not kept.                                  *)
Expected == {QualityKey(Suite[i], frozen) : i \in DOMAIN Suite}
Rows == [q \in Expected |-> record[q].term]
Consistent(row) == row.event_observed <=> Len(row.moves) # Cap

Analysis == [kind |-> "analysis", closure |-> frozen, rows |-> Rows]

Analyse ==
    /\ frozen # NoFile /\ \A q \in Expected : Complete(q) /\ Consistent(record[q].term)
    /\ analysis # Analysis /\ analysis' = Analysis
    /\ UNCHANGED <<tree, checkpoints, outcomes, process, suiteBounds>>

-----------------------------------------------------------------------------
(* model/streams.py and streams_v2.py: the split of a stream.               *)
SPLITS == [training |-> 1000 .. 1049, validation |-> 2000 .. 2019, test |-> 3000 .. 3099]
SPLITS_V2 ==
    [v2_development |-> 10000 .. 10019, v2_heldout |-> 20000 .. 20099, v2_iid_heldout |-> 30000 .. 30099]
SplitOf(seed) ==
    IF \E split \in DOMAIN SPLITS_V2 : seed \in SPLITS_V2[split]
    THEN CHOOSE split \in DOMAIN SPLITS_V2 : seed \in SPLITS_V2[split] ELSE "adhoc"

(* check_protocol for a suite of a v2 protocol: role, split and streams fit.*)
SuiteOk(suite) ==
    /\ suite.split \in DOMAIN SPLITS_V2 /\ suite.role \in {"development", "held-out"}
    /\ suite.split = "v2_heldout" <=> suite.role = "held-out"
    /\ suite.seeds \subseteq SPLITS_V2[suite.split]
    /\ suite.cap < suite.length
    /\ suite.baseline \in suite.policies

(* What main plays: the streams of the suite or those of --seeds (none      *)
(* given: empty), up to the cap of the suite or that of --cap (not given:   *)
(* an empty set), unless it refuses.  A cap of 0 counts as given only when  *)
(* the games are played.                                                    *)
Admitted(launch, suite, seeds, capArg) ==
    /\ SuiteOk(suite)
    /\ launch = "pilot" => suite.role = "development"
    /\ suite.role = "held-out" => seeds = {} /\ capArg \subseteq {0}
Opened(suite, seeds) == IF seeds = {} THEN suite.seeds ELSE seeds

(* summarise: the rows of one suite and cap, in the order of the files.     *)
(* Rows of other sources or protocols, or two that disagree on one game of  *)
(* a policy of the suite, are refused; a policy with a stream missing is    *)
(* incomplete.                                                              *)
Refused == [kind |-> "conflict"]
Joined(sub, row) ==
    IF row.seed \in DOMAIN sub.of /\ sub.of[row.seed] # row.outcome THEN [sub EXCEPT !.clash = TRUE]
    ELSE [sub EXCEPT !.of = [s \in DOMAIN @ \cup {row.seed} |-> IF s = row.seed THEN row.outcome ELSE @[s]]]

Summary(rows, suite, source) ==
    LET selected == SelectSeq(rows, LAMBDA r : r.suite = suite.name /\ r.cap = suite.cap)
        sub == [p \in suite.policies |->
                   FoldLeft(Joined, [of |-> <<>>, clash |-> FALSE], SelectSeq(selected, LAMBDA r : r.policy = p))]
        Missing(p) == suite.seeds \ DOMAIN sub[p].of
    IN  IF (\E r \in ToSet(selected) : r.source # source) \/ \E p \in suite.policies : sub[p].clash THEN Refused
        ELSE [kind |-> "summary",
              policies |-> [p \in suite.policies |->
                  IF Missing(p) # {} THEN [status |-> "incomplete", missing |-> Missing(p)]
                  ELSE [status |-> "complete", games |-> [s \in suite.seeds |-> sub[p].of[s]]]]]

-----------------------------------------------------------------------------
Edit ==
    /\ edits < MaxEdits /\ edits' = edits + 1
    /\ sources' \in Version \ {sources}
    /\ UNCHANGED <<frozen, files, process, stops>>

Faulty == stops < MaxStops /\ stops' = stops + 1 /\ UNCHANGED edits

(* Anything inside the try block may raise: the policy, the cross-checks    *)
(* with the oracle, a file operation.                                       *)
Raise ==
    /\ Faulty
    /\ \/ pc \in {"play", "keep", "publish"}
       \/ pc = "record" /\ mode = "replay"
    /\ pc' = "failing" /\ pending' = Nothing
    /\ UNCHANGED <<tree, files, position, n, game>>

Kill == Faulty /\ Down /\ UNCHANGED <<tree, files>>

PowerLoss ==
    /\ Faulty /\ Down /\ pc # "next"
    /\ \/ /\ checkpoint[JobKey].kind = "checkpoint"
          /\ checkpoint' = [checkpoint EXCEPT ![JobKey] = TornFile]
          /\ UNCHANGED <<retained, record>>
       \/ /\ pc = "publish" /\ retained[JobKey] # NoFile
          /\ retained' = [retained EXCEPT ![JobKey] = TornFile]
          /\ UNCHANGED <<checkpoint, record>>
       \/ /\ pc = "unlink"
          /\ record' = [record EXCEPT ![JobKey] = TornFile]
          /\ UNCHANGED checkpoints
    /\ UNCHANGED <<tree, failed, analysis>>

Work ==
    \/ Finish \/ Reuse \/ StartGame \/ ReplayGame \/ LockPiece \/ EndGame
    \/ Keep \/ Publish \/ RecordGame \/ Unlink \/ RecordFailure

SuiteNext == Freeze \/ Launch \/ Work \/ Analyse \/ Edit \/ Raise \/ Kill \/ PowerLoss

(* The process runs while it is up; the operator freezes the sources, starts*)
(* the suite again and has it analysed.                                     *)
SuiteSpec ==
    /\ SuiteInit /\ [][SuiteNext]_suiteVars
    /\ WF_suiteVars(Work) /\ WF_suiteVars(Freeze) /\ WF_suiteVars(Launch) /\ WF_suiteVars(Analyse)

-----------------------------------------------------------------------------
(* However often the game was stopped, torn, restarted from its checkpoints *)
(* or begun under other sources, in whichever mode, its record is that of   *)
(* the uninterrupted game under the sources it names                        *)
(* (tests/unit/test_benchmark_v2.py,                                        *)
(* test_interrupted_game_resumes_from_checkpoint_to_the_same_result).       *)
RecordsAreUninterrupted ==
    \A k \in Key, v \in Version :
        LET q == QualityKey(k, v) IN Complete(q) => record[q].term = Uninterrupted(k, v)

(* What a stop costs at any instant at which a game of the summary mode is  *)
(* in memory, unless a power loss tore one of its checkpoints: at most      *)
(* Every pieces, also between the two renames.  The exceptions are after    *)
(* the game: with its last checkpoint written but not yet its record all of *)
(* it is played again, since load_checkpoint passes over a complete one     *)
(* (longrun.py:94); with the record written nothing is.                     *)
StopCost ==
    mode = "summary" /\ pc \notin {"down", "next"}
            /\ TornFile \notin {checkpoint[JobKey], retained[JobKey]} =>
        \/ game.i <= Loaded(JobKey, checkpoint[JobKey], retained[JobKey]).i + Every
        \/ pc = "record" /\ checkpoint[JobKey] = Document(JobKey, game, TRUE)
        \/ pc = "unlink" /\ Complete(JobKey)

(* Once the faults and the edits are over every job of the suite gets its   *)
(* record under the present sources, and the analysis settles on exactly    *)
(* those games: a failure is not an outcome, and nothing left on disk by a  *)
(* stop or by other sources keeps a job from being played again.            *)
SuiteIsAnalysed ==
    <>[]/\ \A i \in DOMAIN Suite : Complete(QualityKey(Suite[i], sources))
        /\ analysis # NoFile /\ analysis.closure = sources
        /\ \A i \in DOMAIN Suite :
               analysis.rows[QualityKey(Suite[i], sources)] = Uninterrupted(Suite[i], sources)
=============================================================================
