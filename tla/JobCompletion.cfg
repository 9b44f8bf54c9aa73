CONSTANTS
    build = build
    lint = lint
    deploy = deploy
    checks = checks
    release = release
    hollow = hollow
    run = run
    stalled = stalled
    bare = bare
    Jobs <- MCJobs
    Workflows <- MCWorkflows
    Pipelines <- MCPipelines
    WorkflowOf <- MCWorkflowOf
    PipelineOf <- MCPipelineOf
    Scenarios <- MCScenarios
SPECIFICATION FairSpec
INVARIANTS
    TypeOK
    WorkflowsAgree
    ConclusionsAgree
    CommitStatusAgrees
PROPERTIES
    CompletionIsAtomic
    VerdictsAreFinal
    HandlersEnd
    ConclusionReported
\* The system stops when every job has ended.
CHECK_DEADLOCK FALSE
