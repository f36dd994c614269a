----------------------------- MODULE Identities -----------------------------
(***************************************************************************)
(* tools/identity.py and the classification of tools/pnr.py: what a build  *)
(* or measurement is keyed by, and what a routing run is judged as.        *)
(*                                                                         *)
(* A key is the record of what it hashes: SHA-256 over canonical JSON is   *)
(* taken to be injective.  The HDL closure is the version of the sources   *)
(* read; tools, scripts, device, options, budget and DSP policy do not     *)
(* change while the measurements are made and are left out of the records. *)
(***************************************************************************)
EXTENDS Naturals, FiniteSets

CONSTANTS
    Version,      \* contents of the source tree
    Config,       \* configurations (architecture, lanes, depth, precision)
    Job,          \* labels configuration:target:seed of a manifest
    ConfigOf,     \* the configuration of a job
    Path,         \* directories the repository is checked out in
    MeetsTiming,  \* the <<version, job>> pairs that reach their clock target
    OverBudget    \* the pairs that take longer than the route budget

ASSUME IdentityAssumption ==
    /\ ConfigOf \in [Job -> Config]
    /\ MeetsTiming \cup OverBudget \subseteq Version \X Job

(* hdl_closure: the listed sources and all they include, by content.        *)
HdlClosure(v) == v

(* What yosys makes of the sources; it writes their absolute paths into it. *)
(* Its hash stands for it in the keys.                                      *)
Netlist(v, c, at) == [hdl |-> HdlClosure(v), config |-> c, at |-> at]
Netlists == [hdl : Version, config : Config, at : Path]

(* Fault: the closure leaves out the included files.                        *)
SynthKey_NoClosure(v, c) == [hdl |-> CHOOSE w \in Version : TRUE, params |-> c]

SynthKey(v, c) == [hdl |-> HdlClosure(v), params |-> c]
SynthKeys == [hdl : Version, params : Config]

RouteKey(synth, netlist, j) == [synth |-> synth, netlist |-> netlist, job |-> j]
RouteKeys == [synth : SynthKeys, netlist : Netlists, job : Job]

NativeKey(v, c) == [hdl |-> HdlClosure(v), core |-> c]
NativeKeys == [hdl : Version, core : Config]

-----------------------------------------------------------------------------
(* What parse_route_log and parse_report find: whether "Routing complete."  *)
(* was logged, the verdict of the final frequency line after it, and the    *)
(* verdict of the report, which only a completed run writes.                *)
Timing == {"none", "met", "failed"}
Parsed == [complete : BOOLEAN, final : Timing, report : Timing]
NoOutput == [complete |-> FALSE, final |-> "none", report |-> "none"]
Finished(netlist, j) ==
    LET timing == IF <<netlist.hdl, j>> \in MeetsTiming THEN "met" ELSE "failed"
    IN  [complete |-> TRUE, final |-> timing, report |-> timing]

(* The report wins over the log where both tell.                            *)
TimingOf(p) == IF p.report # "none" THEN p.report ELSE p.final

(* A stop by the budget or by the operator comes before anything the log    *)
(* says; routing without a final frequency is no outcome.                   *)
Classify(stopped, p) ==
    CASE stopped = "interrupt" -> "cancelled"
      [] stopped = "budget" -> "route_timeout"
      [] stopped = "no" /\ (~p.complete \/ TimingOf(p) = "none") -> "tool_error"
      [] OTHER -> IF TimingOf(p) = "met" THEN "routed_timing_met" ELSE "routed_timing_failed"

Statuses == {"routed_timing_met", "routed_timing_failed", "route_timeout", "tool_error", "cancelled"}
OUTCOMES == {"routed_timing_met", "routed_timing_failed", "route_timeout"}
=============================================================================
