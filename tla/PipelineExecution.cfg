CONSTANTS
    build = build
    deploy = deploy
    docs = docs
    checks = checks
    release = release
    site = site
    push = push
    pr = pr
    bare = bare
    head = head
    empty = empty
    Jobs <- MCJobs
    Workflows <- MCWorkflows
    Pipelines <- MCPipelines
    WorkflowOf <- MCWorkflowOf
    PipelineOf <- MCPipelineOf
    Commits <- MCCommits
    CommitOf <- MCCommitOf
    Invalid = {pr}
    Scenarios = {{}, {"forge", "db"}}
    MaxCrashes = 1
    HasRunner = TRUE
    CpuLimit = 9
    JobCpu = 4
    NumJobs = 2
SPECIFICATION FairSpec
INVARIANTS
    TypeOK
    IncompleteAccountedFor
    RunsOnlyPersisted
    SubmittedOnce
    StatusIsTrue
    VerdictAccountedFor
    DroppedConfigShown
PROPERTIES
    LaunchedConcludes
    ConclusionShown
\* Deliveries are few and the server may have nothing left to do.
CHECK_DEADLOCK FALSE
