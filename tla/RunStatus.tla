----------------------------- MODULE RunStatus -----------------------------
(***************************************************************************)
(* What the orchestrator shows of the benchmarks of one run_id: how many   *)
(* it has accepted, and the status of the last.  The phases of a run that  *)
(* is under way are all "running".                                         *)
(*                                                                         *)
(* Orchestrator implements this, and Submission, which sees nothing else   *)
(* of the orchestrator, is built on it.                                    *)
(***************************************************************************)
EXTENDS Naturals

VARIABLES
    run,      \* the run objects created so far; the last is the one in runs_
    shown     \* its status

Over == {"completed", "failed", "stopped"}

RunInit ==
    /\ run = 0
    /\ shown = "none"

\* "benchmark run already running" refuses every other start.
StartRun ==
    /\ shown # "running"
    /\ run' = run + 1
    /\ shown' = "running"

StopRun ==
    /\ shown \in {"running", "failed"}
    /\ shown' = "stopped"
    /\ UNCHANGED run

\* A run ends, and stays completed.  The thread of one that has been stopped
\* may go on for a moment and overwrite the status with its own.
DriveRun ==
    /\ \/ shown = "running" /\ shown' \in {"completed", "failed"}
       \/ shown = "stopped" /\ shown' \in {"running", "completed", "failed"}
    /\ UNCHANGED run

RunNext == StartRun \/ StopRun \/ DriveRun

RunSpec == RunInit /\ [][RunNext]_<<run, shown>>
=============================================================================
