------------------------------ MODULE Evaluator ------------------------------
(***************************************************************************)
(* src/rtl/candidate_eval.sv as its users see it: one transaction at a     *)
(* time.  An idle evaluator latches the job on the edge that samples       *)
(* start_i; after a number of edges that depends on the data (an illegal   *)
(* candidate skips four stages, the A0 drop descends one row per edge) it  *)
(* writes its result registers, and raises done_o for one cycle on the     *)
(* edge after that.  The result registers hold until the next transaction  *)
(* writes them.                                                            *)
(***************************************************************************)
EXTENDS Integers

CONSTANT MaxEval     \* bound: edges a transaction may take

ASSUME MaxEvalAssumption == MaxEval \in Nat /\ MaxEval >= 2

(* The latencies a transaction may turn out to have.                        *)
Latency == 2 .. MaxEval

(* left: edges until done_o, 0 when idle; job: the latched inputs;          *)
(* out: the result registers.                                               *)
EvReset(noJob, noResult) ==
    [left |-> 0, job |-> noJob, done |-> FALSE, out |-> noResult]

EvBusy(e) == e.left # 0

EvStarting(e, start) == start /\ ~EvBusy(e)

(* One clock edge with rst low: start and job are the inputs, t the latency *)
(* of a transaction started now, res the result of the latched job.         *)
EvNext(e, start, job, t, res) ==
    IF EvStarting(e, start)
    THEN [e EXCEPT !.left = t, !.job = job, !.done = FALSE]
    ELSE [e EXCEPT !.left = IF @ = 0 THEN 0 ELSE @ - 1,
                   !.out = IF e.left = 2 THEN res ELSE @,
                   !.done = (e.left = 1)]
=============================================================================
