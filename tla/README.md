# A formal model of the tetromino decision engine

The program (`docs/spec.md`, "drop-v1.1") chooses a placement for a falling
tetromino: a client sends a board, the current piece and the next one; the
engine scores every legal straight drop and answers with the best. The core is
SystemVerilog (`rtl/`) in three architectures behind one request/response state
machine; a Python package (`model/`) states the rules, policies and long games;
`tools/` builds, measures, benchmarks and releases both. This directory holds
TLA+ models of that code, TLC configurations that check them and TLAPS proofs
about them. All paths below are relative to the repository root.

## 1. Inventory

| part | code | state it keeps | operations | talks to |
|---|---|---|---|---|
| request/response core | `rtl/tetris_core.sv` | FSM state, latched request, height cache, cycle counter, pulse memory, global best, response registers | accept, cache, start, wait, reduce, finalize, respond; reset | one search engine, the client |
| configuration table | `model/config.py`, the parameter check of the core | none | status of a parameter set | every tool |
| pipelined search (A2) | `rtl/search_pipeline.sv`, `rtl/best_reducer.sv` | active, issue index, candidate count, counters, best registers, done | start, issue one candidate per edge, retire one per edge | core (start/done), token pipeline |
| token pipeline | `rtl/candidate_pipe.sv`, `rtl/drop_merge_pipe.sv`, `*_pipe.sv`; reference of the compaction in `model/compaction.py` | 23 banks of valid bit, metadata and payload | advance or stall as one, load, deliver, reset | search; reads the core's context registers |
| token model of the pipeline | `model/a2_token_model.py` | the banks of a simulation | step, simulate a search, stream tokens, add up latencies | compared with the RTL's cycle counts |
| evaluator lanes (A0/A1) | `rtl/lane_player.sv` | FSM, candidate index, lane best | scan a share of the candidates one by one | core, one evaluator each |
| candidate evaluator | `rtl/candidate_eval.sv` | FSM, latched job, result registers | decode, profile, drop, merge, clear, features, score | datapath units by start/done |
| two-piece search | `rtl/search_depth2.sv` | FSM, root/leaf index, branch context, branch best, survivor and fallback best | roots, leaves of each root, combination | core, one shared evaluator |
| datapath | `drop_unit`, `drop_fast`, `merge_*`, `line_clear`, `features*`, `board_profile`, `score` | loop counters and shift registers | one-shot start/done | evaluator |
| streaming wrapper | `rtl/stream_wrapper.sv` | RX/REQ/WAIT/TX, word indices, packet registers | receive 8 words, ask, wait, send 3 words | core, a word stream |
| rules and policies | `model/pieces.py`, `game.py`, `board.py`, `features.py`, `policy.py`, `lookahead.py`; the column twin `model/fast.py` | none (pure) | drop, merge, clear, score, choose with one piece or two | the RTL is compared with them |
| numeric profiles | `model/numeric.py`, `model/sensitivity.py` | none (pure) | score, bounds, widths, error bound, certificate that a decision survives quantization | policies, `score.sv` |
| long games | `model/longrun.py` | checkpoint file and its predecessor, game state | play, checkpoint, resume | policies, files |
| suite runner | `tools/bench.py`, `model/streams*.py` | freeze record, one record or failure record per job | freeze, run or reuse a job, record a failure, summarise | long games, files |
| quality analysis | `tools/analyze_quality_v2.py`, `model/survival.py` | the analysis | collect the records of a suite, survival statistics | records, freeze record |
| measurement scheduler | `tools/measure_matrix.py` | lock file, plan, derived table | take the lock, plan, route, decide, derive, retry | the measured steps |
| measured steps | `tools/synth.py`, `pnr.py`, `build_native.py`, `test_core.py`, `identity.py` | netlists, harnesses, route records, decision records, each kept under a key | reuse or make, classify, re-analyse | EDA tools, files |
| measurement validator | `tools/check_hardware_v2.py` | none | re-derive the identities, resolve the records, accept or refuse | records, sources |
| release bookkeeping | `tools/ugate.py`, `tools/gate.py`, `scripts/release_unblock.py`, `scripts/fresh_clone_check.sh` | evidence per job with its logs, records of checks made elsewhere, manifest and three documents | run a gate, record a check, mark executed | commands, git |
| release validator | `tools/check_release_v2.py`, `tools/check_v1_results.py` | none | verdict on a tree | evidence |
| testbenches, formal harnesses | `sim/`, `tb/`, `formal/` | - | drive or bound-check the RTL | - |
| reports, figures, viewer | `tools/plots*.py`, `write_report*.py`, `render*.py`, `viewer/`, ... | - | presentation of recorded results | - |

What is hard in this code: pulses one cycle wide between state machines that are
not always listening; tokens in flight that sample shared context registers at
two different stages; a whole-pipeline stall; reset at any cycle; lanes that
finish in any order; one evaluator shared by two levels of a search; ties and
signed scores; latencies documented to the cycle. Outside the RTL: checkpoint
files, locks, stamps and records that a process may leave half way; results
reused by key over edits, reverts and retries; evidence that must never be older
than the attempt it speaks for.

What makes each part correct:

* core: every accepted request is answered exactly once with the one decision
  the rules give it, or cancelled by reset; the answer is held until consumed;
  nothing of one request reaches the next; the latency is the documented one;
* token pipeline: no token lost, duplicated, reordered or built from two contexts;
* search: each candidate issued and retired once, the winner published with done;
* lanes: a lane's best is the best of its share; no done pulse is missed;
* two-piece search: each evaluation gets a consistent job; the answer is a
  survivor if there is one, else the best dead end, by the documented keys;
* evaluator: every candidate starts from its own board, in the documented number
  of cycles, whatever ran before it; no pulse between the FSM and a unit is lost;
* datapath and rules: the literal rules, the column twin, the serial units, the
  fast units and the token banks compute the same; no sum wraps or saturates early;
* numeric profiles: a certified decision is the decision of the quantized profile;
* streaming wrapper: framing is never lost, a response answers its own packet;
* long games: a run resumed after a stop at any point is the uninterrupted run, and
  a stop loses at most one checkpoint interval, except between the last checkpoint
  of a game and its record;
* suite runner and analysis: a failed or unfinished job never counts as done and is
  played again; the analysis is of the games of the frozen sources, all of them;
* measurements: one runner at a time; what is accepted was measured on the
  sources checked out; an attempt once recorded is never replaced; the matrix
  can always be completed, with one file removed by hand after some power losses;
* release: evidence is of the last attempt and earned by zero exits; a commit found
  releasable has seen every gate and every outside check pass; a release can
  always be completed.

## 2. Modules

| module | models | correspondence |
|---|---|---|
| `DecisionEngine` | abstract specification | what a client is promised: Accept, Answer (with `Decision[r]`), Consume, Cancel |
| `Candidates` | `best_reducer.sv`, the comparison in `tetris_core.sv` REDUCE, response fields | a candidate result is a record (id, legal, score, y); `Take` and `Merge` are the two comparisons of the code; `IsWinner`, `Winner`, `Decision` are the specification of "best" |
| `CandidatePipe` | `candidate_pipe.sv` + `drop_merge_pipe.sv` | `bank[i]` is bank i's metadata or `Bubble` (valid bit low); piece and heights are sampled at issue, the board when bank `MERGE` loads |
| `PipeProtocol` | the pipeline with an arbitrary source, sink and reset | ghost counters `accepted`, `delivered` number the tokens |
| `TokenModel` | `model/a2_token_model.py` | `Step` is one simulated edge; `Simulated` and `Streamed` run it, `DecisionCycles` adds the edges up |
| `SearchEngine`, `SearchPipeline` | `search_pipeline.sv`, `best_reducer.sv` | one operator `SearchEdge` for the clocked block; the second module closes it with an arbitrary owner |
| `TetrisCore` | `tetris_core.sv`; the supported sets of `model/config.py` | one action per FSM state; `Accept`/`Idle` and `Consume`/`Hold` split on the input wire |
| `TetrisA2` | `ARCH = 2`: core x pipelined search | every edge is a core action and `SearchEdge` together |
| `Evaluator`, `LaneEngine`, `TetrisLanes` | `candidate_eval.sv` boundary, `lane_player.sv`, core with 1, 2 or 4 lanes | an evaluation takes 1 to `MaxEval` edges, chosen per start |
| `LookaheadEngine`, `TetrisD2` | `search_depth2.sv`, core with `DEPTH = 2` | the two-piece rule is stated as a set of alternatives, `TwoPieceWinner` |
| `PacketServer`, `StreamWrapper` | abstract packet server; `stream_wrapper.sv` over the abstract `DecisionEngine` | one action per state and handshake; a word is its field, the bits the registers keep |
| `GameRules` | `model/pieces.py`, `game.py`, `board.py`, `features.py`, `policy.py`, `lookahead.py` | a board is a function from rows to sets of occupied columns; a shape is a set of cells; the rules are translated literally, the descent row by row; scored, lowest-stack and two-piece policy |
| `ColumnRules` | `model/fast.py` | a column is the set of its occupied rows |
| `Numeric` | `model/numeric.py`, `model/sensitivity.py`, `score.sv`, the adder trees of `features_fast.sv` and `features_pipe.sv` | fields and accumulators with their widths (`% 2^w`, two's complement `Wrap`); a candidate table is a set of feature records |
| `A2Stages` | what banks P0..P22 compute on one token: `drop_merge_pipe.sv`, `line_clear_pipe.sv` with its rank and selection networks, `features_pipe.sv`, `score_pipe.sv`; `model/compaction.py` | one operator per bank or group of banks; `A2Evaluate` is a token from issue to retirement |
| `Play` | `model/replay.py` `play_game` | a step locks any legal placement of any dealt piece, which covers every policy |
| `EvaluatorUnits` | `drop_unit`, `merge_unit`, `line_clear`, `features`, `score`; `drop_fast`, `merge_fast`, `board_profile`, `features_fast` | `XEdge(registers, start, inputs)` is one clock edge of unit X |
| `CandidateEval` | `candidate_eval.sv` with its units, both architectures, both height sources | one action per FSM state, split where a wait ends; the units advance on every edge |
| `BenchRun` | `tools/bench.py` from the freeze record over `run_suite_v2` and `run_job`, `model/longrun.py`, `tools/analyze_quality_v2.py`, `model/survival.py`, the splits of `model/streams*.py` | one action per file operation and branch; a move is the sources that made it and the generator state it was drawn in; `Edit`, `Kill`, `PowerLoss`, `Raise` are the environment |
| `RunnerLock` | `acquire_lock`, `release_lock` of `tools/measure_matrix.py` | one action per file operation |
| `Identities` | `tools/identity.py`, `classify` of `tools/pnr.py` | a key is the record of what it hashes |
| `MatrixRun` | `cmd_run` of `tools/measure_matrix.py` with `synth.py`, `pnr.py`, `build_native.py`, `test_core.py` | one action per file operation and branch of the one runner past the lock; edits, cleaning, re-analysis, tool failures, kills and power losses are actions of the environment |
| `HardwareCheck` | `tools/check_hardware_v2.py` | the validator is a predicate on the files, `HardwareOk` |
| `ReleaseRun` | `ugate.py`, `gate.py`, `release_unblock.py`, `fresh_clone_check.sh`; the verdicts of `check_release_v2.py` and `check_v1_results.py` | a gate is started, runs its commands one by one and writes its record; the validator is `Verdict(tree)`, of the working tree in its own gate and of the checkout in `Commit` |
| `MC*` | instances for TLC | requests are tuples of candidate kinds; boards and jobs are listed. `Play`, `RunnerLock` and `ReleaseRun` need none |
| `CoreLemmas`, `A2Proofs`, `LaneProofs`, `D2Proofs`, `RulesProofs`, `HardwareProofs`, `RecordProofs`, `MatrixProofs` | proofs | section 5 |

How they compose. `DecisionEngine` is the contract in the middle: `TetrisA2`,
`TetrisLanes` and `TetrisD2` implement it (property `AnswersAreDecisions`), and
`StreamWrapper` uses it as its core and implements `PacketServer`. Control and
data are separated at the candidate: the cores take the result of candidate k
as the constant `Outcome[r][k]`, and `A2Stages` and `CandidateEval` compute that
result and compare it with `GameRules`. This split is sound because a result is
a function of the board, piece and candidate alone: the tokens carry everything
their banks read (`OwnedContext` shows that it belongs to one request), and
the evaluator is proved to implement the unit the lanes and the lookahead start and
await (`EvaluatorImplementsBoundary`), so that it keeps nothing from one job to the next.
`MatrixRun` extends `RunnerLock` (its steps are steps of the lock, theorem
`MatrixImplementsLock`) and `Identities`; `HardwareCheck` judges the files it leaves.

One step of every hardware model is one rising clock edge, and all registers of
the composed modules change together, as they do under one clock. A register is
written with the value of the wires before the edge; `Settled` operators hold
the defaults the clocked block assigns first (`done_o <= 0`). An edge with `rst`
high is an action of its own; it may come at any time. One step of a tool model is
one file operation, one run of an external tool, or the branch between them.

Abstractions of the hardware. A request stands for its board, piece and next
piece; `Count[r]` is the number of candidates and `Outcome[r][k]` the result the
datapath would compute for candidate k, so that the control can be checked for
every pattern of results. A token carries the requests from which its piece,
heights and board were read, so that a mixed context is visible. Payload
registers behind a cleared valid bit are left out: a best that is not valid is
`NoBest`, a bank that is not valid is `Bubble`.

Abstractions of the tools.

* Hashes are injective: a key is the record it is computed from.
* `bench`: `.part` files are never read, so a write is its rename. A launch
  imports the sources, hashes them and reads the records in one step; the freeze record is not
  torn; one process per output root (nothing in `bench.py` locks it). The
  state machine plays a held-out suite; development suites, which have no freeze
  record, use the same jobs. A power loss tears a file of the
  current job only, once its rename was the last (nothing is synced).
* `matrix`: `source` is one version of everything hashed. Edits while yosys or the compiler reads are
  left out: they would file the result of one version under the key of another,
  and nothing in the code notices. Also left out: a nextpnr orphaned by a kill
  that goes on writing its output, a pid taken over by an unrelated process,
  `pnr.py` started by hand beside a runner (it takes no lock), the text of tables.
  A power loss tears one file, the last of its kind that the run wrote or took up: a route
  record, a synthesis summary, the stamp of a harness, a decision record or the derived
  table. (A torn netlist fails its hash, and the text of a decision table is never read
  again.) `acquire_lock` looks for the file, reads it and looks for the process in one
  step: with one runner at a time at the lock, only the owner's own end can come in
  between, which the reader meets as an exception or as a dead pid.
* `release`: the validator reads the tree at one instant; two gates of one job
  do not run at once; artifacts other than the four files that
  `mark-executed` rewrites (the manifest, `docs/release_v2.md`, `docs/v2_progress.md`,
  `docs/ci.md`), frozen inputs, identities and the other
  subchecks of the validator do not change and are left out.

The names ending in `_<Fault>` beside a definition are faulty variants of it,
used to show that the properties notice the fault; no specification uses them.

## 3. Runs

| run | question | bounds, and why they are enough |
|---|---|---|
| `pipe` | does the token pipeline lose, duplicate, reorder or mix tokens under any valid/ready/reset pattern? | 4 banks, board read in bank 2, two contexts; tokens numbered up to 6, more than the pipeline holds. `GoldenModelKeepsItsLaws`: the token model on four tokens under every periodic pattern of stalls and bubbles over four edges |
| `search` | does the A2 search retire all candidates, publish the winner with done and empty itself, started, left idle and reset at will? | all requests of 1..4 candidates over illegal/low/high, both scores negative; 3 banks, so searches are shorter than, as long as and longer than the pipeline |
| `a2` | does core + search implement `DecisionEngine`, with the documented latency? | the real 23 banks; all requests of 0..3 candidates, and chosen ones of 9, 17 and 34 (the real counts) with the winner first, last, in the middle, tied or absent; latencies N + 29; counter modulo 128, above all of them. `GoldenLatencies`: the token model gives 38, 46 and 63 |
| `lanes` | do lanes of unequal, data-dependent speed implement it? | four lanes; requests of 3 (a lane without work, every pair of results) and of 6 (two lanes with two candidates); evaluations of 1..3 edges |
| `d2` | does the two-piece core implement the two-piece rule? | two roots with two leaves each over illegal/low/high, line counts 0 and 1: dead ends, survivors, S2 ties through different bonuses |
| `wrapper` | does the wrapper keep its framing and answer each packet with its own decision? | one bit of content per word, so that every packet and every mixture of two differ; a response names the first, a middle and the last word of its packet |
| `play` | do the literal rules conserve cells and normalize boards, and do the column twin (all its policies) and the token banks compute them? | every game of up to 3 pieces (`MaxPieces`) with all seven pieces (`Dealt`) on a 4 x 4 board: full rows, separated full rows, placements that stick out, first moves that leave the second piece no place. On each of its boards the rules are compared for all seven pieces, and the policies for two pairs (`First`, `Shown`) |
| `eval` | does the evaluator compute the rules, in its cycles, without losing a pulse, on each architecture (`Builds`: A0, A1 deriving the heights, A1 with cached heights), and do the token banks and the column twin agree at real size? | the real 10 x 20 board, profile P3 (saturating hole tree; the narrow accumulators of P5..P7 are covered by the proof `ScoreSumExact`); jobs in any order, reset at any cycle; three boards x seven jobs with a near and a far landing, cleared rows with a gap, more than 15 holes, and each way to be illegal; A2's five strides and five row groups are all needed here. `CertificateIsSound`: the certificate and the analysis of P5..P7 on every piece of these boards; `WidthsAreFrozen` |
| `bench` | are the records of a suite those of uninterrupted games, and is the suite analysed, under kills, power losses, exceptions and edits? | two jobs, a checkpoint every two pieces: one capped after five (replaces a checkpoint twice), one topped out after two (its last two checkpoints have one index); both modes; two versions and one edit (`MaxEdits`), enough to freeze, play half and come back to other sources; three faults (`MaxFaults`), enough for a torn checkpoint, a stop between the two renames and a failure in one history. `SurvivalIsEmpirical` (up to four games, cap four), `HeldOutStaysClosed` and `SeedsAreNotCompared` (the real suites), `SummaryIsExact` (every sequence of up to three rows) |
| `matrix` | does the matrix keep one runner, accept nothing stale, replace no attempt, agree with its validator and settle? | two runners that do not take the lock together (`Together = FALSE`); two jobs of one configuration, one of which exceeds its budget, one of which meets its clock in one version; two versions, one of which decides wrongly; two checkouts; one fault (a kill, a failed tool or a power loss with any of five files torn), one change (edit, cleaning or needless launch) and one retry of a job with an outcome: a second of each repeats the same reuse decisions, which depend on the files only |
| `release` | is evidence of the last attempt, is a releasable verdict earned, and can every release be finished? | one job of each version and the validator's own, gates of two commands (the log of the first can be newer than that of the second), two outside checks of which one is the CI run; one kill or failure (of `mark-executed` at any of its four files), one needless repetition |
| `lock_doc` | the one expected violation | two runners started together, `RunnerLock` alone |

`Decision` depends only on results of candidates, comparisons are between two of
them at a time, and the lowest id, the last candidate, an illegal one and a tie
all occur within three candidates; longer lists repeat these cases, and the
proofs cover them for all cores. `CYC`, `MaxTokens`, `MaxEval`, `MaxN`, `MaxPieces`,
`MaxFaults`, `MaxEdits`, `MaxChanges`, `MaxAttempts` are the only bounds that are
not in the code; the proofs of section 5 hold for all values of them. In the lane
and lookahead runs `CYC = 2` only keeps the counter from multiplying states; no
property there reads it. `play` may stop (no legal move, or `MaxPieces` reached)
and `release` stops at the tag, so deadlock is not checked there.

### Where the code and what is said of it part

`lock_doc` finds two runners past the lock: `acquire_lock` tests, reads, removes
and creates the file in separate steps, so that two runners started together
both pass, although `tools/measure_matrix.py:4` says that the lock "keeps two local
runners from colliding" and `docs/identities.md:58` that it "refuses a second
orchestrator while the first is alive". `matrix` and the theorems assume
`~Together`; nothing else goes wrong there.

Others that the models show and no run is spent on:

* `docs/design.md:141` says that A0 "spends 277 cycles on a legal candidate"; the
  descent stops at the first collision and a candidate that lands in row y takes
  277 - y (`LatencyContract` is the exact law). `docs/design.md:144` says "39–40
  cycles" of the fast units; a legal candidate takes 40 with cached heights and
  41 without, as `results/stage_cycles_a1_repr0_p0.json` has it.
* `docs/quality_v2.md:44` says of a failure record that the "analysis refuses to
  summarize while one exists". `run_job` writes the record of a repaired job
  before it removes the failure record; after a stop in between no later launch
  visits the job, and `collect` looks at a failure record only when the job has
  no complete record.
* `tools/bench.py:517` says that "pilot mode never opens held-out outcomes"; the
  seeds of `--seeds` are not compared with the split (`SeedsAreNotCompared`).
* `tools/bench.py:520` says that "held-out suites run exactly as frozen: no
  --seeds/--cap overrides"; line 519 tests whether the cap is non-zero, so `--cap 0` is
  admitted (`Admitted`).
* `docs/quality_v2.md:34` says of the checkpoint that it is written "every 1,000 locked
  pieces and at completion". The last one, marked complete, is not resumed
  (`model/longrun.py:94`): a stop after it and before the record (`tools/bench.py:359`)
  makes the next launch play the whole game again, to the same record. `StopCost` states
  what a stop costs at every instant.
* A quality key does not name the suite, while `summarise` selects by suite: a
  game recorded under `pilot --cap 50000` is reused by `pilot50k` and missing in
  its quick summary. The analysis, which goes by key, counts it.
* `bench.py` imports `model/` before it hashes it: an edit in between records
  games under sources that did not play them.
* `docs/identities.md:25` says of the records "One atomic JSON per job (`.part` file,
  then rename)". None is synced before the rename. After a power loss a route record
  that cannot be read counts as no attempt, but a decision record is read
  unguarded by the runner (`tools/measure_matrix.py:215`) and by the validator
  (`tools/check_hardware_v2.py:154`), and so are a synthesis summary (`tools/synth.py:35`) and
  the stamp of a harness: every later run of the manifest raises at that file until someone
  removes it. The models have these runs (`DecideRaises`, `SynthRaises`, `BuildFails`);
  `MatrixSettles` relies on the operator for the removal (`Repair`, `Discard`). Measuring
  that configuration's decisions with `--force` overwrites the record without reading it.
* The docstring of `tools/gate.py` (lines 6-7) asks for non-empty test counts;
  line 107 needs zero exits only. A gate of `gate.py` that is killed leaves the
  summary of the attempt before beside newer logs.
* `tools/check_release_v2.py:72` lets the record of U20 be absent, since U20's
  gate runs the validator: when that gate is killed the verdict is OK without
  it. A record of U20 that says "blocked" is accepted with OK as well.
* `mark_executed` killed after the manifest leaves a tree that validates although
  `docs/release_v2.md` still shows the blocked rows, or has lost them: of that file and
  of `docs/ci.md` the validator only asks, once the manifest says executed, that they
  are not empty (`tools/check_release_v2.py:60`). With a torn `docs/v2_progress.md`
  `mark_executed` ends before `docs/ci.md`. `git checkout` of the four files
  (`Restore`) repairs all of it.
* The log digests of a gate's record protect where the logs are; `*.log` is
  ignored by git, so a checkout is judged without them. Neither the sources of a
  record nor the commit of the CI run is compared with HEAD.
* Netlists hold absolute paths: the records of another checkout match the live
  identity under other keys, and the validator refuses until they are removed
  (`PathDistinct`).

### Fairness

The specifications of the cores assume weak fairness of `Working`, the edges on
which the core itself works: the clock does not stop. Nothing is assumed of the
client, which may never ask, never take its response or reset again and again.
`Spec` of the bare pipeline and search likewise assume that the clock ticks
without reset and that the sink is ready. The wrapper assumes the clock (`Ask`,
`Capture`) and the promise of the core it uses, that an accepted request is
answered (`CoreAnswers`; the three cores have `EveryRequestAnswered`), and
nothing of the two ends of its stream. For the lanes the evaluator's countdown
makes every evaluation end; `LatencyContract` of `CandidateEval` justifies that:
no state outlasts the fixed number of cycles of its job. `Play` and
`CandidateEval` state no liveness.

The tools do nothing by themselves, so their liveness rests on an operator who
goes on using them as documented. Weak fairness of `Work` says that a process
that is up runs. `bench`: the operator freezes again when the sources differ from the freeze record,
starts the suite again after it ended and has it analysed (weak fairness of
`Freeze`, `Launch`, `Analyse`): a failed job is repaired by the next launch only.
`matrix`: runners are started while none is up (weak); again and again one of
them is for the whole manifest, and one retries some job that is incomplete with `--retry`;
the file at which every run raises an exception is removed, a build directory by
`make clean` (`Repair`) and a decision record by hand (`Discard`). These are strong, because
runs of one kind enable and disable those of the other, and a runner that is up
disables them. `release`: gates that run go on, and the operator goes on with one of the
things still to do, whichever: a missing or failed gate, an outside check, the marking (one weak condition,
`Progress`); commit and tag follow (weak), and torn or empty documents are restored
(strong: a marking in progress disables it). Faults and changes are bounded, never fair.

## 4. Properties

Each is stated with a comment in its module; `PROJECT.json` ties them to the
hazards of the code.

* pipeline: `Conservation`, `OutputIsOldest`, `EveryTokenDelivered` (stall, reset);
* search: `TokensInOrder`, `RunningBest`, `DoneIsComplete`;
* core: `OwnedContext` (context registers stable under a running search),
  `StartDoneProtocol`, `CycleContract`, the refinement `AnswersAreDecisions`
  and its liveness `EveryRequestAnswered`;
* lanes: `LaneBestOfShare`, `PulsesCollected`, with the refinement and its liveness again;
* lookahead: `JobsAreConsistent`, `BestsOfFinishedRoots`, `AnswersAreTwoPieceDecisions`,
  `EveryRequestAnswered`;
* wrapper: `CoreInStep`, the refinement `PacketsAnswered` and its liveness `EveryPacketAnswered`;
* rules: `CellsConserved`, `PlayTypeOK` (no full row between moves, on which the
  three-bit line counts rely), `RulesAgree` (rules, column twin with all its
  policies, token banks), `ArchitecturesAgree` (the same at real size);
* evaluator: `ResultIsRule`, `UnitsInStep`, `LatencyContract`;
* suites: `RecordsAreUninterrupted`, `StopCost`, `SuiteIsAnalysed`. `StopCost` is about every
  instant of a game, the moments between two renames included: the next launch resumes at most one
  checkpoint interval behind, or the game is over, and its last checkpoint (which is not
  resumed) or its record already there. Torn files are left out: a torn checkpoint pushed over
  a good predecessor by the next one costs the whole game when the process is stopped
  between the two renames;
* measurements: `OneRunner`, `AcceptedIsLive` (nothing stale is accepted),
  `FinishedIsAccepted` (runner and validator, which derive the identities
  separately, agree), `AttemptsStand`, `MatrixSettles`. The last and
  `FinishedIsAccepted` except results of another checkout (`PathDistinct`);
* release: `EvidenceIsLatest`, `OkIsEarned`, `ReleaseConverges`.

Statements about pure code on listed or enumerated inputs are assumptions that
TLC evaluates (`ASSUME` in `MCPipe`, `MCA2`, `MCEval`, `MCBench`, `TetrisCore`):
the golden token model, the certificate, the frozen widths, the survival
statistics, the quick summary, the protocol's splits, and that
`model/config.py` and the parameter check of the core list the same
configurations (`ConfigurationsAgree`).

The type invariants of `PipeProtocol`, `SearchPipeline`, `TetrisA2`, `TetrisLanes`, `TetrisD2`,
`StreamWrapper`, `Play`, `RunnerLock` and the parts of `MatrixRun`, `BenchRun` and `ReleaseRun` that their
invariants need are proved (section 5); those of the lanes, the lookahead and the wrapper are in no run.
`IdleIsEmpty`, `DonePulse`, `QuietWhenIdle` and `AnalysedGames` are only proved.

## 5. Proofs

Each theorem holds for every value of the constants its assumptions allow; every
assumption is named, stands in the module that declares the constants and is
evaluated by TLC on the instances. The candidates, requests and outcomes of the
cores are those of `RequestAssumption` and `OutcomeAssumption` (ids differ, a
result is a legal record or illegal), the core's parameters those of
`CoreAssumption`; each architecture adds its own (`A2Assumption`,
`LanesAssumption`, `LookaheadAssumption`).

* `CoreLemmas`: the facts on the comparison and on the core that all three
  architectures rest on. `TakeWins` and `MergeWins` are the steps of the
  induction that a register holds a winner; `WinnerUnique` (ids differ) makes
  the fold's result the specified one.
* `A2Proofs`, for any number of banks. Token pipeline: `TypeOK`, `Conservation`,
  `OutputIsOldest` of `PipeProtocol`. The conservation law is not inductive by
  itself: the strengthening says that tags in flight are outstanding, every
  outstanding tag is in flight, tags descend along the pipeline and each token is
  built from one context. Search: `TokensInOrder`, `IdleIsEmpty`, `RunningBest`,
  `DoneIsComplete`, `DonePulse`; `SearchInv` adds that the last mark is on tag N-1
  only, that all tokens come from the running request, and that the best is the
  winner of the first `retired` candidates. Core: `TypeOK`, `OwnedContext`,
  `StartDoneProtocol`, `QuietWhenIdle` and the refinement `Spec => AnswersAreDecisions`.
  The invariant says, for each FSM state, what the search is doing: outside
  SEARCH_WAIT it is quiet; inside it exactly one of the start pulse, the running
  search and the done pulse is present; from then on the winner travels through
  the reduction into the response.
* `LaneProofs`, for one, two or four lanes and any latencies: `TypeOK`,
  `LaneBestOfShare`, `PulsesCollected` and the refinement. The invariant follows
  each lane through its own states: a running lane has the winner of the part of
  its share it has passed and has counted the evaluations it made; its evaluator
  works on, or has delivered, the candidate it stands at; in SEARCH_WAIT each lane runs,
  pulses done, or is remembered as done; in REDUCE the global best is the winner of
  the shares merged so far, and the shares together are all the candidates.
* `D2Proofs`, for any roots, leaves, line weights and latencies: `TypeOK`,
  `JobsAreConsistent`, `BestsOfFinishedRoots` and the refinement. The invariant
  ties the branch registers to the one root whose board is registered, and the
  survivor and fallback bests to the roots passed; that the best of the
  survivors' branches, or else of the dead ends, is the two-piece winner is a
  lemma about the rule.
* `RulesProofs`: arithmetic, rules, games and the two other statements of the rules.
  - Arithmetic, for every value of the operands and not for those of a few boards. The
    adder trees of `features_fast.sv` and `features_pipe.sv` return the sum of their
    leaves when each leaf is at most 20, the height of the board (`FastSumExact`,
    `PipeSumExact`): no intermediate `% 64`, `% 128` or `% 256` drops a carry.
    Saturating at every node of the P3 tree is saturating the total
    (`SaturatingSumExact`). `score.sv` computes `score_profile` of `model/numeric.py`
    for all eight profiles, and the 14-, 12- and 11-bit accumulators of P5, P6 and P7
    never wrap (`ScoreSumExact`); every score lies in the range of `score_bounds`
    (`ScoresInBounds`). `CertificateSound`: for every table of candidates a certified
    winner is the strict and only winner of the quantized profile. It rests on
    `ErrorBounded`, that 76 times the quantized score and M times the exact one
    differ by at most E(c).
  - Landing, for every board, shape and column inside the walls: the fast unit's largest
    difference (`FastLanding`) and the row where the serial unit stops
    (`SerialLanding`) are where the recursive descent of `game.py` ends.
  - Games (`Play`), for every board size, stream and choice of moves:
    `BoardsStayNormalized` (`PlayTypeOK`) and `MovesConserveCells` (`CellsConserved`).
    A legal piece lies on free cells inside the board, so that locking it adds four;
    the kept rows of `Survivors` hold all cells but those of the full rows
    (`KeptRows`), of which a normalized board and four cells make four at most (`FewLines`).
  - The column twin, for every board, full rows or not: its record of a candidate is the
    oracle's (`TwinIsExact`). `fast.py` deletes full rows from a column one by
    one, the highest first; the invariant of that loop says that after the top n rows the
    rows below n are untouched and each kept row above has come down by the full rows
    between. Its policies then scan equal lists of equal records
    (`TwinPlaysTheSame`). The two-piece scan of the twin keeps a survivor and a fallback
    where the oracle keeps one winner: `SameWinner` relates them along the scan.
  - The token pipeline, on boards of at most ten columns and twenty rows (`BoardFits`: five
    strides, ten leaves, eight bits): `TokenIsExact`, what a token carries when it
    retires, for every profile, and `PipelineIsExact` with the exact profile, the
    only one the pipeline has. After the strides 1, 2 .. w/2 of the rank network a row
    knows how many of the last w rows stay (`RanksAre`); the row of rank k goes where
    the match matrix says, which is row k of `Survivors`; holes and heights come out of
    the five codes of a column.
  - `RulesAgreeInEveryGame` (`RulesAgree`) puts the last three together: normalized boards are
    an invariant of the game, and on each of them the three agree. `PRECISION = 0` is an
    assumption there since the pipeline is compared with the oracle's score.
* `HardwareProofs`: the two sequential machines around a candidate. `CandidateEval`, for
  every board size, build and job:
  - Control: `UnitsKeepStep`, that no pulse between the evaluator's FSM and a unit is lost
    (`UnitsInStep`). Its invariant `UnitsIInv` says of the unit awaited in each state that
    it has its start pulse, is running or pulses done, and of all the others that they
    are at rest.
  - Pace: `StagesTakeTheirCycles` (`LatencyContract`), for boards of at most 32 rows and
    cycle counts that fit 16 bits (`CountersSuffice`; 20 rows and at most 277 edges in
    the code). `PaceIInv` says of each unit what it still has to count down, and with it
    how many edges of the job are over; the serial drop's part needs the landing row.
  - Result: `EvaluatorAnswersTheRules` (`ResultIsRule`), for every profile, build, set of
    normalized boards and set of jobs on boards of at most ten columns and twenty rows
    (`BoardFits`). `ResultIsRule` speaks of the one edge at which the evaluator answers and
    of nothing it answered from, so its invariant `ResultIInv` says what each unit's
    registers mean at each edge. Cells written so far are the piece's first `k`
    (`PlacedCells`). The rows left to the compactor, its count and the rows it has pushed
    are those of a scan of the merged board stopped after `step` rows (`ClearHolds`). The
    features gathered are sums over the columns read so far, of the boards' columns or of
    the cells (`FeatHolds`). Results already handed on stay put until the next job
    (`Given`), and the answer is the oracle's record (`Recorded`). TLC checked
    `ResultIInv` on the instance of `MCEval` for P0, P3 and P4 before it was proved.
  - Agreement: `ArchitecturesInterchangeable` (`ArchitecturesAgree`) from the answer of the
    evaluator and the theorems on twin and pipeline; `JobGiven` adds that the job the
    evaluator holds is one that was asked, which the registers alone do not say.
  - Boundary: `EvaluatorImplementsBoundary` maps the state of `CandidateEval` to the record
    of module `Evaluator` (`Boundary`: the edges left are the latency less the edges waited)
    and shows that each step is a reset, an acceptance (`Accepts`) or a counted edge
    (`Continues`) of it. The lane and lookahead theorems hold for every latency from 2 to
    any `MaxEval`; here it is in that range with `MaxEval` = `LongestJob`. That the results
    are written on exactly one edge needs `InMargin`: outside FINISH at least two edges
    are left. TLC checked the mapping on an instance of `MCEval` with one board.

  `StreamWrapper`, for any contents of the words and any decision table
  (`WrapperAssumption`): `WrapperTypeOK`, `CoreInStep` and the refinement
  `WrapperSpec => PacketsAnswered`: an answer on offer is that of the registered words,
  and what is being sent is that answer, with one of its words left at least.

  The lemmas under both modules: the folds of `features.py` as sums taken one column at a
  time (`FoldedSumIs`, `NextSum`); holes counted cell by cell against holes counted by
  column (`HolesOfColumns`, `CellScan`); the mask of the fast merge against the serial
  writes (`MaskIsMerged`, `PlacedCellByCell`); candidate lists as a scan (`SelectedScan`).
  `RomAssumption` (the cells a unit reads from the shape ROM are those of the shape) and
  `ShapeAssumption` (a shape has four cells in a box of four by four) are
  facts of the tables; TLC evaluates them.
* `RecordProofs`. Suites, for any jobs, sources, lengths, checkpoint intervals and
  numbers of stops (`GameAssumption`, `SuiteAssumption`): `RecordsAreUninterrupted`,
  `StopCost` (`WhatStopsCost`), and `AnalysedGames`, the safety half of `SuiteIsAnalysed`. A game in memory or in a
  file is determined by its sources and its number of pieces (`GameAt`); the
  invariant says so of every place one can be in, and says of the file that would
  be resumed, between any two file operations, how far it is behind. Releases, for any jobs, number of
  commands and bounds (`ReleaseAssumption`): `EvidenceLatest` and `OkEarned` from
  `GateInv`, which follows one attempt from its start (no readable record of an
  earlier one) over its commands (their logs are its own, and it is clean once all
  have exited zero) to its record, and `OutsideInv` (an outside record that says ok
  is of a check that passed).
* `MatrixProofs`, for any jobs, runners, versions and bounds, under
  `LockAssumption`, `IdentityAssumption`, `MatrixAssumption` (of which the part on
  `None` says that it is not itself a decision record, a version or an outcome).
  `LockKeepsOneRunner` from `LockInv`: one runner takes the lock at a time (this is
  `~Together`), the file names no live owner once it has passed the check, and an
  owner's pid stays in the file. `MatrixImplementsLock` and with it
  `MatrixHasOneRunner`. `AcceptedResultsAreLive` from `MeasuredInv`: every cache,
  document, key at hand and record holds what its key says, at every step between
  the computation of a key and the record filed under it; acceptance alone says
  nothing about how the records came about, so the property is far from
  inductive. `AttemptsAreKept` (`AttemptsStand`) from `AttemptsInv`: one file per
  attempt, a readable record says what its log parses to, and the attempt in
  which nextpnr is running has neither yet. `RunnerAndValidatorAgree`
  (`FinishedIsAccepted`, with one runner at a time) from `FinishInv`: as long as the
  sources are those a whole run began with, its plan, its documents and the
  decisions it has matched are those the validator derives for itself.

Every invariant, action property and refinement that a passing run checks is stated by
a theorem.

Only model-checked: all liveness and everything that needs ENABLED (outside the
prover's reach), and the assumptions TLC evaluates on listed inputs (section 4). The
induction theorems of the library take an operator as a parameter, which the installed
provers cannot instantiate. For a recursive function the least counterexample does the
same work: the descent, the golden model, `Survivors`, `RemoveRows`, and the
lists of candidates, which are written as the recursive function `Selected` for that
reason. For a fold the least set or prefix on which it differs from what it should
be does (`FoldedSum`; `FoldLeft` as the steps of a loop).

## 6. Not modelled, and what could come next

* Testbenches, simulation drivers and formal harnesses (`sim/`, `tb/`, `formal/`):
  they drive the design and hold no logic of the program.
* Reports, figures, demos, link and claim checks, the viewer: presentation.
* Parsing and text: what `pnr.py` finds in a log is the record `Parsed`; the
  columns of tables, progress lines, ETA and heartbeats are left out.
* The bootstrap, the quartiles and the means of the statistics; the v1 tables and
  `tools/check_v1_results.py` beyond the evidence; corpora and their generators.
* The command lines of the measured steps outside the runner; the cocotb driver.

Next: two `bench.py` processes on one output root; the packed forms of a board
(`model/board.py`) and the replay files.
