------------------------------ MODULE Planner ------------------------------
(***************************************************************************)
(* Planning a pipeline from its parsed configuration files,                *)
(* execution/planner/index.ts.                                             *)
(*                                                                         *)
(* The maps of stages and jobs are functions from names: of declarations   *)
(* with one name the last stays.  The order in which the maps are walked   *)
(* is that of the ids.  The id generator starts again in every file; the   *)
(* parser makes at most one workflow of a file, so the ids count within a  *)
(* workflow.  What a job needs is not planned.                             *)
(***************************************************************************)
EXTENDS Naturals, Sequences, FiniteSets, SequencesExt

Names(decls) == { decls[i].name : i \in DOMAIN decls }

\* The index of the last of the declarations with name n.
LastNamed(decls, n) ==
    CHOOSE i \in DOMAIN decls :
        decls[i].name = n /\ \A k \in DOMAIN decls : k > i => decls[k].name # n

\* (Mutant... is a plausible wrong version, which no specification uses.)

MutantNextId(stages, s, k) ==      \* counts from 0
    k - 1 + Cardinality(UNION { { << t, l >> : l \in DOMAIN stages[t].jobs } : t \in 1 .. s - 1 })

\* The id of the k-th job of the s-th stage: jobs are counted as they come.
NextId(stages, s, k) ==
    k + Cardinality(UNION { { << t, l >> : l \in DOMAIN stages[t].jobs } : t \in 1 .. s - 1 })

PlanJob(job, id) == [id |-> id, steps |-> job.steps]

PlanStage(stages, s) ==
    LET jobs == stages[s].jobs IN
    [n \in Names(jobs) |-> LET k == LastNamed(jobs, n) IN PlanJob(jobs[k], NextId(stages, s, k))]

PlanWorkflow(workflow) ==
    LET stages == workflow.stages IN
    [n \in Names(stages) |-> PlanStage(stages, LastNamed(stages, n))]

PlanAll(files) ==
    FlattenSeq([f \in DOMAIN files |->
        [v \in DOMAIN files[f].workflows |-> PlanWorkflow(files[f].workflows[v])]])
=============================================================================
