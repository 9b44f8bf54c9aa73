CONSTANTS
    build = build
    deploy = deploy
    docs = docs
    checks = checks
    release = release
    site = site
    push = push
    pr = pr
    bare = bare
    head = head
    empty = empty
    Jobs <- MCJobs
    Workflows <- MCWorkflows
    Pipelines <- MCPipelinesAndBare
    WorkflowOf <- MCWorkflowOf
    PipelineOf <- MCPipelineOf
    Commits <- MCCommits
    CommitOf <- MCCommitOfAndBare
    Invalid = {pr}
    Scenarios = {{}}
    MaxCrashes = 1
    HasRunner = TRUE
    CpuLimit = 9
    JobCpu = 4
    NumJobs = 2
SPECIFICATION Spec
INVARIANT PipelinesHaveWorkflows
\* Deliveries are few and the server may have nothing left to do.
CHECK_DEADLOCK FALSE
