CONSTANTS
    build = build
    lint = lint
    deploy = deploy
    checks = checks
    release = release
    run = run
    Jobs <- MCJobs
    Workflows = {checks, release}
    Pipelines = {run}
    WorkflowOf <- MCWorkflowOf
    PipelineOf <- MCPipelineOf
    HasRunner = TRUE
    CpuLimit = 9
    JobCpu = 4
    NumJobs = 2
SPECIFICATION Spec
INVARIANT LimitRespected
\* The scheduler stops when every job has been run.
CHECK_DEADLOCK FALSE
