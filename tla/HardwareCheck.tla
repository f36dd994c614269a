--------------------------- MODULE HardwareCheck ----------------------------
(***************************************************************************)
(* tools/check_hardware_v2.py: whether the records, decision records and   *)
(* derived table left by the runs answer the manifest for the sources that *)
(* are checked out.  The validator re-derives every identity itself and    *)
(* never synthesizes, so the netlist hash is the record's own.             *)
(***************************************************************************)
EXTENDS MatrixRun

ManifestJobs == {Jobs[i] : i \in DOMAIN Jobs}

(* resolve_route_records: the readable records of a job whose fields are    *)
(* those of the live synthesis identity and whose route key is theirs.      *)
Matches(j) ==
    {rec \in raw : /\ rec.status # "torn" /\ rec.key.job = j
                   /\ rec.key.synth = SynthKey(source, ConfigOf[j])
                   /\ rec.key = RouteKey(SynthKey(source, ConfigOf[j]), rec.key.netlist, j)}
Resolved(j) == Cardinality({rec.key : rec \in Matches(j)}) = 1

RoutesOk ==
    /\ \A j \in ManifestJobs : Resolved(j) /\ Latest(Matches(j)).status \in OUTCOMES
    /\ \A i, j \in ManifestJobs :
           ConfigOf[i] = ConfigOf[j] => Latest(Matches(i)).key.netlist = Latest(Matches(j)).key.netlist

DecisionsOk == \A i \in DOMAIN Decisions : Matched(Decisions[i])

TableOk == {Latest(Matches(j)).key : j \in ManifestJobs} \subseteq {row.key : row \in {row \in rows : row.current}}

(* A job routed in two checkouts has two netlists of one identity.          *)
PathDistinct == \E j \in ManifestJobs : Cardinality({rec.key.netlist : rec \in Matches(j)}) > 1

HardwareOk == RoutesOk /\ DecisionsOk /\ TableOk

-----------------------------------------------------------------------------
(* What the validator accepts was measured on the sources checked out: each *)
(* netlist routed is theirs, and their decisions are those of the           *)
(* reference, however often the sources changed between and during runs.    *)
AcceptedIsLive ==
    HardwareOk =>
        /\ \A j \in ManifestJobs : \A rec \in Matches(j) :
               \E p \in Path : rec.key.netlist = Netlist(source, ConfigOf[j], p)
        /\ Decisions # <<>> => source \in Correct

(* The runner and the validator, which derive the identities separately,    *)
(* agree: a run of the whole manifest that ends with exit code 0 leaves     *)
(* what the validator accepts, if nobody edited the sources meanwhile and   *)
(* the results are not those of another checkout.                           *)
FinishedIsAccepted ==
    [][Summarise /\ steady /\ only = {} /\ Bad = {} => HardwareOk' \/ PathDistinct]_vars

(* "Attempt 1 is <key>.json; a deliberate retry is <key>.a<n>.json so no    *)
(* failure is replaced" (tools/pnr.py:134): whatever is run, retried,       *)
(* killed or torn later, the status of an attempt changes only when its     *)
(* record is torn or re-analysed (which no runner does) without the output  *)
(* it came from.                                                            *)
AttemptsStand ==
    [][\A rec \in raw :
           \E new \in raw' :
               /\ new.key = rec.key /\ new.attempt = rec.attempt
               /\ \/ new.status = rec.status \/ rec.status = "torn" \/ new.status = "torn"
                  \/ UNCHANGED pc /\ ~\E log \in logs : log.key = rec.key /\ log.attempt = rec.attempt]_vars

(* Once the faults and the edits are over, the operator's runs, retries and *)
(* repairs bring the manifest to where the validator accepts it, for good.  *)
(* A stale lock, torn route record or table, tool error or cancelled        *)
(* attempt is got over by running again; a harness stamp, synthesis summary *)
(* or decision record without its data is in the way of every run until the *)
(* operator removes it, and then of none.  (Records another checkout left   *)
(* stay in the way: see PathDistinct.)                                      *)
MatrixSettles == <>[](HardwareOk \/ PathDistinct \/ source \notin Correct)
=============================================================================
