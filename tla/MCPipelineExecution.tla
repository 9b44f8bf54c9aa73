------------------------- MODULE MCPipelineExecution -------------------------
(***************************************************************************)
(* A push and a pull request for one commit.  The push has two workflows   *)
(* of one job, the pull request one workflow and a configuration file that *)
(* does not parse.  `bare` is a delivery for a commit without a            *)
(* configuration.  (Several jobs of a workflow are JobCompletion's case.)  *)
(***************************************************************************)
EXTENDS PipelineExecution, TLC

CONSTANTS build, deploy, docs, checks, release, site, push, pr, bare, head, empty

MCJobs == { build, deploy, docs }
MCWorkflows == { checks, release, site }
MCPipelines == { push, pr }
MCPipelinesAndBare == MCPipelines \cup { bare }
MCWorkflowOf == build :> checks @@ deploy :> release @@ docs :> site
MCPipelineOf == checks :> push @@ release :> push @@ site :> pr
MCCommits == { head, empty }
MCCommitOf == push :> head @@ pr :> head
MCCommitOfAndBare == MCCommitOf @@ bare :> empty
=============================================================================
