----------------------- MODULE ConfigurationReference -----------------------
(***************************************************************************)
(* What is said of the files of a pipeline: which faults are reported, and *)
(* what of their text is kept in the plan and in the rows.                 *)
(***************************************************************************)
EXTENDS PipelineStatus, ConfigurationGrammar

\* What the KDL library makes of a file.
ASSUME FilesAreDocuments ==
    \A c \in Configurations : IsList(c) /\ \A f \in DOMAIN c : IsDocument(c[f])

\* "we want to accumulate errors rather than throwing, allowing multiple issues
\* to be reported at once": the errors of a file are about exactly the nodes that
\* break the grammar, however many there are and wherever they are nested, so
\* that a file is accepted if and only if it has none.
FaultsReported ==
    phase = "checked" =>
        \A f \in DOMAIN files : { e.at : e \in results[f] } = FaultyPlaces(files[f])

\* The jobs and commands that the text of a file declares, in order.
JobNodes(nodes) ==
    FlattenSeq([i \in DOMAIN nodes |->
        CASE nodes[i].name = "job" -> << nodes[i] >>
          [] nodes[i].name = "stage" -> nodes[i].nodes
          [] OTHER -> << >>])

Commands(job) ==
    LET isStep(node) == node.name = "step"
        steps == Only(job.nodes, isStep)
    IN  [i \in DOMAIN steps |-> steps[i].args[1]]

Executable(file) ==
    /\ FaultyPlaces(file) = {}
    /\ \E i \in DOMAIN file.nodes : file.nodes[i].name \in { "stage", "job" }

\* Nothing is lost between the text and the rows: every accepted file that
\* declares a stage or a job is a workflow, and each of its jobs has one row, with
\* the name and the commands declared, although stages and jobs pass through maps
\* keyed by their names.
PlanKeepsJobs ==
    phase = "launched" =>
        LET accepted == Only(files, Executable) IN
        /\ DOMAIN workflowStatus = DOMAIN accepted
        /\ \A w \in DOMAIN accepted :
               LET declared == JobNodes(Tail(accepted[w].nodes)) IN
               /\ { r[2] : r \in { r \in Rows : r[1] = w } } = DOMAIN declared
               /\ \A id \in DOMAIN declared :
                      jobRow[<< w, id >>] = [name |-> declared[id].args[1],
                                             steps |-> Commands(declared[id])]
=============================================================================
