--------------------------- MODULE MCJobCompletion ---------------------------
(***************************************************************************)
(* Small instances of JobCompletion.  `run` has a workflow of two jobs     *)
(* (its row is contended by their handlers) and one of a single job (the   *)
(* pipeline's row is contended by the last jobs of the two workflows).     *)
(* The other runs have the shapes a launch can leave that no job will ever *)
(* complete: a workflow without jobs, a pipeline without workflows.        *)
(***************************************************************************)
EXTENDS JobCompletion, TLC

CONSTANTS build, lint, deploy, checks, release, hollow, run, stalled, bare

MCJobs == { build, lint, deploy }
MCWorkflows == { checks, release, hollow }
MCPipelines == { run, stalled, bare }
MCWorkflowOf == build :> checks @@ lint :> checks @@ deploy :> release
MCPipelineOf == checks :> run @@ release :> run @@ hollow :> stalled
MCScenarios == { {}, { "rollback", "lostAck", "forge" } }
=============================================================================
