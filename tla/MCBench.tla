------------------------------- MODULE MCBench -------------------------------
(***************************************************************************)
(* Two jobs with a checkpoint every two pieces: one is capped after five,  *)
(* so that it replaces a checkpoint twice; one tops out after two, so that *)
(* its last two checkpoints have the same index.                           *)
(***************************************************************************)
EXTENDS BenchRun

MCLength == [k \in Key |-> IF k = "capped" THEN 5 ELSE 2]
MCSuite == <<"capped", "toppedOut">>

(* model/survival.py on every outcome of up to four games with a cap of     *)
(* four, all censoring at the cap: the curve is the share of longer games,  *)
(* the area under it is the mean (the assertion in analyse never fires) and *)
(* the median is where half of them have ended.                             *)
ASSUME SurvivalIsEmpirical ==
    \A games \in 1 .. 4 : \A duration \in [1 .. games -> 0 .. 4] :
        LET curve == KaplanMeier(duration, [k \in 1 .. games |-> duration[k] < 4], 4)
            longer(t) == Cardinality({k \in 1 .. games : duration[k] > t})
            median == MedianSurvival(curve, 4)
        IN  /\ \A t \in 0 .. 3 : SameFraction(curve[t], <<longer(t), games>>)
            /\ SameFraction(RmstFromSurvival(curve, 4), RestrictedMean(duration))
            /\ median = NOT_REACHED <=> 2 * longer(3) > games
            /\ \A t \in median : 2 * longer(t) <= games /\ (t > 0 => 2 * longer(t - 1) > games)

-----------------------------------------------------------------------------
(* The suites of benchmarks/config_v2.json.                                 *)
Suites ==
    LET Of(name, role, split, seeds, cap) ==
            [name |-> name, role |-> role, split |-> split, seeds |-> seeds, cap |-> cap, length |-> 50001,
             policies |-> {"P0", "P1"}, baseline |-> "P0"]
    IN  {Of("pilot", "development", "v2_development", 10000 .. 10019, 10000),
         Of("pilot50k", "development", "v2_development", 10000 .. 10019, 50000),
         Of("bag50k", "held-out", "v2_heldout", 20000 .. 20099, 50000)}

(* The splits are disjoint (the assertions at the import of streams_v2.py); *)
(* without --seeds a pilot opens no held-out stream, and a held-out suite   *)
(* plays exactly its own, up to its own cap but for --cap 0.                *)
CapArgs == {{}, {0}, {10000}}
ASSUME HeldOutStaysClosed ==
    /\ \A s, t \in DOMAIN SPLITS_V2 : s # t => SPLITS_V2[s] \cap SPLITS_V2[t] = {}
    /\ \A s \in DOMAIN SPLITS_V2, t \in DOMAIN SPLITS : SPLITS_V2[s] \cap SPLITS[t] = {}
    /\ \A suite \in Suites : SuiteOk(suite)
    /\ \A suite \in Suites, seeds \in {{}, {10003}, {20000}}, capArg \in CapArgs :
           /\ Admitted("pilot", suite, {}, capArg) =>
                  \A seed \in Opened(suite, {}) : SplitOf(seed) # "v2_heldout"
           /\ Admitted("run", suite, seeds, capArg) /\ suite.role = "held-out" =>
                  Opened(suite, seeds) = suite.seeds /\ (capArg = {} \/ capArg = {0})

(* "no --seeds/--cap overrides" (bench.py:520), but a cap of 0 is not seen  *)
(* by the test of line 519 and is by that of line 372: every game of the    *)
(* held-out suite then ends before its first piece.                         *)
ASSUME CapOfZeroOverrides ==
    \E suite \in Suites : suite.role = "held-out" /\ Admitted("run", suite, {}, {0})

(* With --seeds it does: bench.py:517 says that pilot mode never opens      *)
(* held-out outcomes, but nothing compares the seeds given with the split.  *)
ASSUME SeedsAreNotCompared ==
    \E suite \in Suites : Admitted("pilot", suite, {20000}, {}) /\ SplitOf(20000) = "v2_heldout"

(* summarise on every sequence of up to three rows, of which some are of    *)
(* another suite, cap, source or policy: it depends on the set of rows only,*)
(* refuses exactly what must not be combined and misses no game.            *)
Row(place, policy, seed, outcome) ==
    [suite |-> IF place = "otherSuite" THEN "pilot50k" ELSE "pilot",
     cap |-> IF place = "otherCap" THEN 50000 ELSE 10000,
     source |-> IF place = "otherSource" THEN "old" ELSE "now",
     policy |-> policy, seed |-> seed, outcome |-> outcome]
RowSet ==
    {Row("here", policy, seed, outcome) : policy \in {"P0", "P1", "P5"}, seed \in 1 .. 3, outcome \in {"lost", "won"}}
        \cup {Row(place, "P0", 1, "lost") : place \in {"otherSuite", "otherCap", "otherSource"}}

ASSUME SummaryIsExact ==
    LET suite == [name |-> "pilot", cap |-> 10000, seeds |-> 1 .. 2, policies |-> {"P0", "P1"}]
    IN  \A rows \in SeqOf(RowSet, 3) :
            LET got == {r \in ToSet(rows) : r.suite = "pilot" /\ r.cap = 10000}
                disagree == {r \in got : \E s \in got :
                                 s.policy = r.policy /\ s.seed = r.seed /\ s.outcome # r.outcome}
                verdict == Summary(rows, suite, "now")
            IN  /\ verdict = Refused <=>
                       \/ \E r \in got : r.source = "old"
                       \/ \E r \in disagree : r.policy \in suite.policies
                /\ verdict # Refused =>
                       \A p \in suite.policies :
                           LET games == {r \in got : r.policy = p /\ r.seed \in suite.seeds}
                               v == verdict.policies[p]
                           IN  IF v.status = "complete" THEN v.games = [s \in 1 .. 2 |-> (CHOOSE r \in games : r.seed = s).outcome]
                               ELSE v.missing = suite.seeds \ {r.seed : r \in games} /\ v.missing # {}
=============================================================================
