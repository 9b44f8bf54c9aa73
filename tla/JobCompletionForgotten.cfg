CONSTANTS
    build = build
    lint = lint
    deploy = deploy
    checks = checks
    release = release
    hollow = hollow
    run = run
    stalled = stalled
    bare = bare
    Jobs <- MCJobs
    Workflows <- MCWorkflows
    Pipelines <- MCPipelines
    WorkflowOf <- MCWorkflowOf
    PipelineOf <- MCPipelineOf
    Scenarios = {{"rollback"}}
SPECIFICATION Spec
INVARIANT IncompleteIsInFlight
\* The system stops when every job has ended.
CHECK_DEADLOCK FALSE
