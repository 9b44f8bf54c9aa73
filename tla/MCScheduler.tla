----------------------------- MODULE MCScheduler -----------------------------
(***************************************************************************)
(* Three jobs of two workflows on a runner with room for two of them.  The *)
(* limits of the code (999999 milliCPUs, 4000 for a job) leave room for    *)
(* 249.                                                                    *)
(***************************************************************************)
EXTENDS Scheduler, TLC

CONSTANTS build, lint, deploy, checks, release, run

MCJobs == { build, lint, deploy }
MCWorkflowOf == build :> checks @@ lint :> checks @@ deploy :> release
MCPipelineOf == checks :> run @@ release :> run
=============================================================================
