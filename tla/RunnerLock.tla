----------------------------- MODULE RunnerLock -----------------------------
(***************************************************************************)
(* The lock file of tools/measure_matrix.py, acquire_lock and release_lock *)
(* file operation by file operation, for runners that are started, refused *)
(* and killed at any time.                                                 *)
(*                                                                         *)
(* A runner that dies leaves its pid in the file.  What the next one finds *)
(* there is a pid that is not running, written Stale: a pid taken over by  *)
(* an unrelated process is not modelled.                                   *)
(***************************************************************************)
CONSTANTS
    Runner,       \* process ids of the runners
    NoFile,       \* there is no lock file
    Empty,        \* the file is truncated and its text not written yet
    Stale,        \* the file names a process that has died
    Together      \* may a runner be started while another takes the lock?

ASSUME LockAssumption ==
    /\ Together \in BOOLEAN
    /\ Runner \cap {NoFile, Empty, Stale} = {}

VARIABLES
    lock,         \* results/v2/runner.lock: one of the above, or its runner
    opened,       \* the runners whose open file is the one at that path
    lpc           \* where each runner is

lockVars == <<lock, opened, lpc>>

LockTypeOK ==
    /\ lock \in Runner \cup {NoFile, Empty, Stale}
    /\ opened \subseteq Runner
    /\ lpc \in [Runner -> {"down", "check", "unlink", "create", "write", "held"}]

LockInit ==
    /\ lock = NoFile /\ opened = {}
    /\ lpc = [r \in Runner |-> "down"]

Taking == {q \in Runner : lpc[q] \in {"check", "unlink", "create", "write"}}

(* The operator starts a runner.                                            *)
StartRunner(r) ==
    /\ lpc[r] = "down" /\ (Together \/ Taking = {})
    /\ lpc' = [lpc EXCEPT ![r] = "check"]
    /\ UNCHANGED <<lock, opened>>

(* Fault: an unreadable lock file is taken for a running owner's.           *)
CheckLock_EmptyHolds(r) ==
    /\ lpc[r] = "check"
    /\ lpc' = [lpc EXCEPT ![r] = CASE lock = NoFile -> "create"
                                   [] lock \in Runner \cup {Empty} -> "down"
                                   [] lock = Stale -> "unlink"]
    /\ UNCHANGED <<lock, opened>>

(* Fault: any lock file is taken for a stale one.                           *)
CheckLock_AlwaysStale(r) ==
    /\ lpc[r] = "check"
    /\ lpc' = [lpc EXCEPT ![r] = IF lock = NoFile THEN "create" ELSE "unlink"]
    /\ UNCHANGED <<lock, opened>>

(* A running owner refuses the launch; a file without a readable pid counts *)
(* as stale.  The code tests for the file, reads it and looks for the       *)
(* process in turn.  An owner that goes away in between makes the reader    *)
(* end with an exception or find a dead pid, as if it had looked earlier or *)
(* later; only with Together could another have taken the lock meanwhile.   *)
CheckLock(r) ==
    /\ lpc[r] = "check"
    /\ lpc' = [lpc EXCEPT ![r] = CASE lock = NoFile -> "create"
                                   [] lock \in Runner -> "down"
                                   [] lock \in {Empty, Stale} -> "unlink"]
    /\ UNCHANGED <<lock, opened>>

(* The stale file may have gone in the meantime, which is an exception.     *)
UnlinkStale(r) ==
    /\ lpc[r] = "unlink"
    /\ lpc' = [lpc EXCEPT ![r] = IF lock = NoFile THEN "down" ELSE "create"]
    /\ lock' = NoFile /\ opened' = {}

CreateLock(r) ==
    /\ lpc[r] = "create"
    /\ lpc' = [lpc EXCEPT ![r] = "write"]
    /\ lock' = Empty /\ opened' = opened \cup {r}

WriteLock(r) ==
    /\ lpc[r] = "write"
    /\ lpc' = [lpc EXCEPT ![r] = "held"]
    /\ lock' = IF r \in opened THEN r ELSE lock
    /\ opened' = opened \ {r}

Released(r) == IF lock = r THEN NoFile ELSE lock

(* release_lock, in the finally clause of cmd_run.                          *)
ReleaseLock(r) ==
    /\ lpc[r] = "held"
    /\ lpc' = [lpc EXCEPT ![r] = "down"]
    /\ lock' = Released(r)
    /\ opened' = IF lock = r THEN {} ELSE opened

(* The process is killed.                                                   *)
Die(r) ==
    /\ lpc[r] # "down"
    /\ lpc' = [lpc EXCEPT ![r] = "down"]
    /\ lock' = IF lock = r THEN Stale ELSE lock
    /\ opened' = opened \ {r}

Taken(r) == CheckLock(r) \/ UnlinkStale(r) \/ CreateLock(r) \/ WriteLock(r)

LockNext == \E r \in Runner : StartRunner(r) \/ Taken(r) \/ ReleaseLock(r) \/ Die(r)

LockSpec == LockInit /\ [][LockNext]_lockVars

-----------------------------------------------------------------------------
(* "A lock keeps two local runners from colliding"                          *)
(* (tools/measure_matrix.py:4), and "refuses a second orchestrator while    *)
(* the first is alive" (docs/identities.md:58): at no time have two live    *)
(* runners got past acquire_lock.                                           *)
OneRunner == \A r, q \in Runner : lpc[r] = "held" /\ lpc[q] = "held" => r = q
=============================================================================
